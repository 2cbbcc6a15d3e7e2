----------------------------- MODULE StaticTable -----------------------------
(***************************************************************************)
(* plasma_pdpotrf_gpu_reuse_data_static_table of                           *)
(* compute/pdpotrf_gpu_hpcasia24.cpp: every rank runs three threads that   *)
(* walk the same tasks, one bringing tiles to the device (c2g), one        *)
(* computing on them, one returning finished tiles (g2c).                  *)
(*                                                                         *)
(* They share memoryStatus: for each tile the device pointer, and the      *)
(* number of tasks announced by c2g and not yet released by g2c.  c2g      *)
(* takes the buffer of a tile whose count is 0 when its bound is reached;  *)
(* g2c stays behind the compute thread by counting its steps.              *)
(*                                                                         *)
(* dev[b] says which version of which tile buffer b holds (a version is    *)
(* the number of tasks applied, as in TileCholesky).                       *)
(***************************************************************************)
EXTENDS TileWalk, Sequences

CONSTANT MaxBound      \* buffers a c2g thread may allocate (getMapBound)

ASSUME BoundAssumption == MaxBound \in Nat

VARIABLES
  cpc, cpos, cuse,      \* c2g thread: where, task, which tile of the task
  cursor, spare, mine,  \* .. (row, col) of the scan, found buffer, allocated
  mpc, mpos, muse,      \* compute thread
  gpc, gpos, gstep,     \* g2c thread
  step,                 \* current_step of the rank
  ptr, count,           \* memoryStatus
  dev, host, abort, status

c2g     == <<cpc, cpos, cuse, cursor, spare, mine>>
compute == <<mpc, mpos, muse, step>>
g2c     == <<gpc, gpos, gstep>>
vars == <<c2g, compute, g2c, ptr, count, dev, host, abort, status>>

None  == <<-1, 0>>
Empty == [t |-> <<-1, -1>>, v |-> Garbage]
Buffers == Ranks \X (1 .. MaxBound)

\* The tiles of a task in the order c2g announces them, compute waits for them
\* and g2c releases them; the first one is updated.
Uses(p) == IF IsPotrf(p) THEN <<TileOf(p)>>
           ELSE IF IsGemm(p) THEN <<TileOf(p), First(p), Second(p)>>
           ELSE <<TileOf(p), First(p)>>

Holds(b, t, v) == b # None /\ dev[b] = [t |-> t, v |-> v]

Init ==
  /\ cpc = [r \in Ranks |-> "top"]
  /\ mpc = [r \in Ranks |-> "top"]
  /\ gpc = [r \in Ranks |-> "top"]
  /\ cpos = [r \in Ranks |-> StartOf(r)]
  /\ mpos = [r \in Ranks |-> StartOf(r)]
  /\ gpos = [r \in Ranks |-> StartOf(r)]
  /\ cuse = [r \in Ranks |-> 1]
  /\ muse = [r \in Ranks |-> 1]
  /\ cursor = [r \in Ranks |-> <<0, 0>>]
  /\ spare = [r \in Ranks |-> None]
  /\ mine = [r \in Ranks |-> 0]
  /\ step = [r \in Ranks |-> 0]
  /\ gstep = [r \in Ranks |-> 0]
  /\ ptr = [t \in Tiles |-> None]
  /\ count = [t \in Tiles |-> 0]
  /\ dev = [b \in Buffers |-> Empty]
  /\ host = [t \in Tiles |-> 0]
  /\ abort = FALSE
  /\ status = 0
-----------------------------------------------------------------------------
(* The c2g thread *)

CGoto(r, l) == cpc' = [cpc EXCEPT ![r] = l]
Wanted(r) == Uses(cpos[r])[cuse[r]]

\* Mutant of After: the scan leaves out the diagonal tiles.
AfterShort(c) == IF c[2] + 1 < c[1] THEN <<c[1], c[2] + 1>> ELSE <<c[1] + 1, 0>>

\* Row by row through the lower triangle.
After(c) == IF c[2] < c[1] THEN <<c[1], c[2] + 1>> ELSE <<c[1] + 1, 0>>

\* The cleanup starts at the first tile again.
CTop(r) ==
  /\ cpc[r] = "top"
  /\ IF InTriangle(cpos[r]) /\ ~abort
     THEN CGoto(r, "announce") /\ UNCHANGED cursor
     ELSE CGoto(r, "cleanup") /\ cursor' = [cursor EXCEPT ![r] = <<0, 0>>]
  /\ UNCHANGED <<cpos, cuse, spare, mine, compute, g2c, ptr, count, dev, host,
                 abort, status>>

\* ms_get_count(..)++; the updated tile is fetched by its first task, the
\* others when they are not on the device.
Announce(r) ==
  /\ cpc[r] = "announce"
  /\ count' = [count EXCEPT ![Wanted(r)] = @ + 1]
  /\ CGoto(r, IF IF cuse[r] = 1 THEN cpos[r].n = 0 ELSE ptr[Wanted(r)] = None
              THEN "spare" ELSE "advance")
  /\ UNCHANGED <<cpos, cuse, cursor, spare, mine, compute, g2c, ptr, dev, host,
                 abort, status>>

\* findSparePtr: a new buffer as long as the bound allows one ..
Allocate(r) ==
  /\ cpc[r] = "spare"
  /\ mine[r] < MaxBound
  /\ mine' = [mine EXCEPT ![r] = @ + 1]
  /\ spare' = [spare EXCEPT ![r] = <<r, mine[r] + 1>>]
  /\ CGoto(r, "copy")
  /\ UNCHANGED <<cpos, cuse, cursor, compute, g2c, ptr, count, dev, host, abort,
                 status>>

\* .. then the scan goes on to the next tile that is on the device.  Past the
\* triangle it reads other memory: the model stops there.
Scan(r) ==
  /\ cpc[r] = "spare"
  /\ mine[r] >= MaxBound
  /\ cursor[r] \in Tiles
  /\ ptr[cursor[r]] = None
  /\ cursor' = [cursor EXCEPT ![r] = After(@)]
  /\ UNCHANGED <<cpc, cpos, cuse, spare, mine, compute, g2c, ptr, count, dev,
                 host, abort, status>>

\* Mutant of TakeOver: the count is not waited for.
TakeOverBusy(r) ==
  /\ cpc[r] = "spare"
  /\ mine[r] >= MaxBound
  /\ cursor[r] \in Tiles
  /\ ptr[cursor[r]] # None
  /\ spare' = [spare EXCEPT ![r] = ptr[cursor[r]]]
  /\ ptr' = [ptr EXCEPT ![cursor[r]] = None]
  /\ CGoto(r, "copy")
  /\ UNCHANGED <<cpos, cuse, cursor, mine, compute, g2c, count, dev, host,
                 abort, status>>

\* .. and waits until no announced task is left that uses it.
TakeOver(r) ==
  /\ cpc[r] = "spare"
  /\ mine[r] >= MaxBound
  /\ cursor[r] \in Tiles
  /\ ptr[cursor[r]] # None
  /\ count[cursor[r]] = 0
  /\ spare' = [spare EXCEPT ![r] = ptr[cursor[r]]]
  /\ ptr' = [ptr EXCEPT ![cursor[r]] = None]
  /\ CGoto(r, "copy")
  /\ UNCHANGED <<cpos, cuse, cursor, mine, compute, g2c, count, dev, host,
                 abort, status>>

\* The copy to the device, then ms_get_ptr(..) = ptr.
Bring(r) ==
  /\ cpc[r] = "copy"
  /\ dev' = [dev EXCEPT ![spare[r]] = [t |-> Wanted(r), v |-> host[Wanted(r)]]]
  /\ ptr' = [ptr EXCEPT ![Wanted(r)] = spare[r]]
  /\ CGoto(r, "advance")
  /\ UNCHANGED <<cpos, cuse, cursor, spare, mine, compute, g2c, count, host,
                 abort, status>>

Advance(r) ==
  /\ cpc[r] = "advance"
  /\ IF cuse[r] < Len(Uses(cpos[r]))
     THEN /\ cuse' = [cuse EXCEPT ![r] = @ + 1]
          /\ CGoto(r, "announce")
          /\ UNCHANGED cpos
     ELSE /\ cuse' = [cuse EXCEPT ![r] = 1]
          /\ cpos' = [cpos EXCEPT ![r] = NextOf(@)]
          /\ CGoto(r, "top")
  /\ UNCHANGED <<cursor, spare, mine, compute, g2c, ptr, count, dev, host,
                 abort, status>>

\* After the walk: every buffer in the table is freed once its count is 0.
Cleanup(r) ==
  /\ cpc[r] = "cleanup"
  /\ IF cursor[r] \notin Tiles
     THEN CGoto(r, "done") /\ UNCHANGED <<cursor, dev>>
     ELSE /\ cursor' = [cursor EXCEPT ![r] = After(@)]
          /\ UNCHANGED cpc
          /\ IF ptr[cursor[r]] = None
             THEN UNCHANGED dev
             ELSE /\ count[cursor[r]] = 0
                  /\ dev' = [dev EXCEPT ![ptr[cursor[r]]] = Empty]
  /\ UNCHANGED <<cpos, cuse, spare, mine, compute, g2c, ptr, count, host,
                 abort, status>>
-----------------------------------------------------------------------------
(* The compute thread *)

MGoto(r, l) == mpc' = [mpc EXCEPT ![r] = l]

\* Leaving the walk, it takes one more step to release g2c.
MTop(r) ==
  /\ mpc[r] = "top"
  /\ MGoto(r, IF InTriangle(mpos[r]) /\ ~abort THEN "wait" ELSE "leave")
  /\ UNCHANGED <<mpos, muse, step, c2g, g2c, ptr, count, dev, host, abort,
                 status>>

\* ms_cond_wait on the tiles of the task, one after the other.
MWait(r) ==
  /\ mpc[r] = "wait"
  /\ \/ abort /\ MGoto(r, "leave") /\ UNCHANGED muse
     \/ /\ ~abort
        /\ ptr[Uses(mpos[r])[muse[r]]] # None
        /\ IF muse[r] < Len(Uses(mpos[r]))
           THEN muse' = [muse EXCEPT ![r] = @ + 1] /\ UNCHANGED mpc
           ELSE MGoto(r, "kernel") /\ UNCHANGED muse
  /\ UNCHANGED <<mpos, step, c2g, g2c, ptr, count, dev, host, abort, status>>

InputsGood(r) ==
  LET p == mpos[r]
      u == Uses(p)
  IN  /\ Holds(ptr[u[1]], u[1], p.n)
      /\ \A i \in 2 .. Len(u) : Holds(ptr[u[i]], u[i], u[i][2] + 1)

Kernel(r) ==
  /\ mpc[r] = "kernel"
  /\ \E broke \in BOOLEAN :
       /\ broke => IsPotrf(mpos[r])
       /\ dev' = [b \in Buffers |->
            IF b # ptr[TileOf(mpos[r])] THEN dev[b]
            ELSE [t |-> TileOf(mpos[r]),
                  v |-> IF InputsGood(r) /\ ~broke
                        THEN mpos[r].n + 1 ELSE Garbage]]
       /\ MGoto(r, IF broke THEN "fail" ELSE "step")
  /\ UNCHANGED <<mpos, muse, step, c2g, g2c, ptr, count, host, abort, status>>

RequestFail(r) ==
  /\ mpc[r] = "fail"
  /\ status' = mpos[r].k + 1
  /\ MGoto(r, "abort")
  /\ UNCHANGED <<mpos, muse, step, c2g, g2c, ptr, count, dev, host, abort>>

SsAbort(r) ==
  /\ mpc[r] = "abort"
  /\ abort' = TRUE
  /\ MGoto(r, "step")
  /\ UNCHANGED <<mpos, muse, step, c2g, g2c, ptr, count, dev, host, status>>

\* ++*current_step
Step(r) ==
  /\ mpc[r] = "step"
  /\ step' = [step EXCEPT ![r] = @ + 1]
  /\ mpos' = [mpos EXCEPT ![r] = NextOf(@)]
  /\ muse' = [muse EXCEPT ![r] = 1]
  /\ MGoto(r, "top")
  /\ UNCHANGED <<c2g, g2c, ptr, count, dev, host, abort, status>>

Leave(r) ==
  /\ mpc[r] = "leave"
  /\ step' = [step EXCEPT ![r] = @ + 1]
  /\ MGoto(r, "done")
  /\ UNCHANGED <<mpos, muse, c2g, g2c, ptr, count, dev, host, abort, status>>
-----------------------------------------------------------------------------
(* The g2c thread *)

GGoto(r, l) == gpc' = [gpc EXCEPT ![r] = l]

GTop(r) ==
  /\ gpc[r] = "top"
  /\ GGoto(r, IF InTriangle(gpos[r]) /\ ~abort THEN "behind" ELSE "done")
  /\ UNCHANGED <<gpos, gstep, c2g, compute, ptr, count, dev, host, abort,
                 status>>

\* Mutant of Behind: g2c may catch up with the task being computed.
BehindLevel(r) ==
  /\ gpc[r] = "behind"
  /\ gstep[r] =< step[r]
  /\ gstep' = [gstep EXCEPT ![r] = @ + 1]
  /\ GGoto(r, IF gpos[r].n = gpos[r].k THEN "store" ELSE "release")
  /\ UNCHANGED <<gpos, c2g, compute, ptr, count, dev, host, abort, status>>

\* while (current_step >= *compute_step)
Behind(r) ==
  /\ gpc[r] = "behind"
  /\ gstep[r] < step[r]
  /\ gstep' = [gstep EXCEPT ![r] = @ + 1]
  /\ GGoto(r, IF gpos[r].n = gpos[r].k THEN "store" ELSE "release")
  /\ UNCHANGED <<gpos, c2g, compute, ptr, count, dev, host, abort, status>>

\* The last task of a tile: the tile goes back to the host.
Return(r) ==
  /\ gpc[r] = "store"
  /\ LET t == TileOf(gpos[r]) IN
       host' = [host EXCEPT ![t] =
                  IF ptr[t] # None /\ dev[ptr[t]].t = t
                  THEN dev[ptr[t]].v ELSE Garbage]
  /\ GGoto(r, "release")
  /\ UNCHANGED <<gpos, gstep, c2g, compute, ptr, count, dev, abort, status>>

\* Mutant of Release: a gemm does not release its second operand.
ReleaseTwo(r) ==
  /\ gpc[r] = "release"
  /\ LET u == Uses(gpos[r]) IN
       count' = [t \in Tiles |->
                   IF \E i \in 1 .. Len(u) : u[i] = t /\ i # 3
                   THEN count[t] - 1 ELSE count[t]]
  /\ gpos' = [gpos EXCEPT ![r] = NextOf(@)]
  /\ GGoto(r, "top")
  /\ UNCHANGED <<gstep, c2g, compute, ptr, dev, host, abort, status>>

\* The task's tiles are released; the decrements are one step.
Release(r) ==
  /\ gpc[r] = "release"
  /\ LET u == Uses(gpos[r]) IN
       count' = [t \in Tiles |->
                   IF \E i \in 1 .. Len(u) : u[i] = t
                   THEN count[t] - 1 ELSE count[t]]
  /\ gpos' = [gpos EXCEPT ![r] = NextOf(@)]
  /\ GGoto(r, "top")
  /\ UNCHANGED <<gstep, c2g, compute, ptr, dev, host, abort, status>>
-----------------------------------------------------------------------------
C2g(r) == \/ CTop(r) \/ Announce(r) \/ Allocate(r) \/ Scan(r) \/ TakeOver(r)
          \/ Bring(r) \/ Advance(r) \/ Cleanup(r)
Compute(r) == \/ MTop(r) \/ MWait(r) \/ Kernel(r) \/ RequestFail(r)
              \/ SsAbort(r) \/ Step(r) \/ Leave(r)
G2c(r) == GTop(r) \/ Behind(r) \/ Return(r) \/ Release(r)

Next == \E r \in Ranks : C2g(r) \/ Compute(r) \/ G2c(r)

Spec == Init /\ [][Next]_vars

\* The operating system schedules every thread.
FairSpec == Spec /\ \A r \in Ranks : /\ WF_vars(C2g(r))
                                     /\ WF_vars(Compute(r))
                                     /\ WF_vars(G2c(r))
-----------------------------------------------------------------------------
\* A buffer is taken from a tile only when the host has the finished tile: no
\* update that exists on the device alone is lost.
EvictSafe ==
  [][\A t \in Tiles :
       ptr[t] # None /\ ptr'[t] = None => Done(host[t], t) \/ abort]_vars

\* The scan of findSparePtr never leaves the triangle.
ScanInside == \A r \in Ranks : cpc[r] = "spare" => cursor[r] \in Tiles

AllDone ==
  \A r \in Ranks : cpc[r] = "done" /\ mpc[r] = "done" /\ gpc[r] = "done"

\* PLASMA_SUCCESS means that the whole factor is in host memory.
SuccessMeansFactor ==
  AllDone /\ status = 0 => \A t \in Tiles : Done(host[t], t)

\* The threads of a call on a positive definite matrix end.
SuccessReturns == <>(AllDone \/ status # 0)

\* The threads of every call end, also when a panel breaks down.
Returns == <>AllDone

\* The newest version of a tile: on the device when it is there.  The cleanup
\* may free a panel that broke down before g2c returns it; its number stays.
Latest(t) ==
  IF status # 0 /\ t = <<status - 1, status - 1>> THEN Garbage
  ELSE IF ptr[t] # None /\ dev[ptr[t]].t = t THEN dev[ptr[t]].v
  ELSE host[t]

\* The pipeline implements the abstract tile algorithm.
Abstract == INSTANCE TileCholesky WITH tile <- [t \in Tiles |-> Latest(t)]
Refines == Abstract!Spec
=============================================================================
