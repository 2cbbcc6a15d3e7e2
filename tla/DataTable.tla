------------------------------ MODULE DataTable ------------------------------
(***************************************************************************)
(* plasma_pdpotrf_gpu_reuse_data_table of                                  *)
(* compute/pdpotrf_gpu_hpcasia24.cpp: the static schedule in which all     *)
(* ranks share one table of device tiles on one GPU; and of                *)
(* compute/pdpotrf_gpu_dist.cpp, where the ranks are spread over several   *)
(* GPUs and those of one GPU share its table, made by the GPU's root rank. *)
(*                                                                         *)
(* A buffer is a number; the shared_ptrs to it are counted (UseCount).     *)
(* The table maps a tile to [buf, landed]; an entry whose buffer nobody    *)
(* but the table points to may be given to another tile.  Each rank has a  *)
(* private destination buffer; the last factored diagonal tile stays on    *)
(* the device as "diagonal".                                               *)
(*                                                                         *)
(* dev[b] says which version of which tile buffer b holds (a version is    *)
(* the number of tasks applied, as in TileCholesky); a buffer that nothing *)
(* has been copied to is not in its domain.                                *)
(***************************************************************************)
EXTENDS TileWalk, FiniteSets, FiniteSetsExt

\* The ways a call may be made: dist is which of the two routines, perDevice the
\* ranks on one GPU, free the tiles a GPU has room for (getMapBound), and roots
\* the places on a GPU that its root rank may have.
CONSTANT Machines

ASSUME MachinesAssumption ==
  \A c \in Machines :
    /\ c.dist \in BOOLEAN /\ c.perDevice \in Nat \ {0} /\ c.free \in Nat
    /\ c.roots # {} /\ c.roots \subseteq 0 .. c.perDevice - 1
    /\ ~c.dist => c.perDevice >= SIZE /\ c.roots = {0}

VARIABLES
  pc, pos,
  local,           \* localDestination of rank r
  diagRef,         \* the copy of dataTable->diagonal in a trsm
  ref1, ref2,      \* bufferA/bufferB and bufferC
  info,
  table,           \* table[d]: dataTable->map of GPU d
  mapBound,        \* dataTable->mapBound
  lock,            \* owner of dataTable->mutex
  diagonal, diagIdx,
  live,            \* the data table exists
  dev,             \* the memory of the GPUs
  host, progress, abort, status,
  machine, root    \* how the call is made; plasma->rootRankOfDevice

rankVars == <<pc, pos, local, diagRef, ref1, ref2, info>>
sched    == <<progress, abort, status, machine, root>>
tableVars == <<table, mapBound, lock, diagonal, diagIdx, live>>
vars == <<rankVars, tableVars, dev, host, sched>>

None == -1
\* The GPUs, and plasma->rankMapping: ranks in order, so many to a GPU.
Devices == Ranks
On(r)   == r \div machine.perDevice
InUse   == {On(r) : r \in Ranks}
IsRoot(r) == r = root[On(r)]

\* plasma->rootRankOfDevice: of the ranks on a GPU the one that the loop over an
\* unordered_map comes to last.
RootsOf(c) ==
  {f \in [Devices -> Ranks \cup {None}] :
     \A d \in Devices :
       LET here == {r \in Ranks : r \div c.perDevice = d}
           last == {r \in here : r % c.perDevice \in c.roots}
       IN  f[d] \in (IF here = {} THEN {None}
                     ELSE IF last = {} THEN {Max(here)} ELSE last)}

\* Buffers: 0 .. SIZE - 1 are the destinations of the ranks, SIZE + d is the
\* diagonal of GPU d, and these are in the tables.
TableBuffers == 2 * SIZE .. 2 * SIZE + SIZE * Cardinality(Tiles) - 1

Goto(r, l) == pc' = [pc EXCEPT ![r] = l]

\* shared_ptr::use_count of buffer b; a null pointer has none.
UseCount(b) ==
  LET Points(f) == Cardinality({x \in DOMAIN f : f[x] = b})
  IN  IF b = None THEN 0
      ELSE Points(local) + Points(diagRef) + Points(ref1) + Points(ref2)
           + Points(diagonal)
           + Cardinality({d \in Devices :
                            \E t \in DOMAIN table[d] : table[d][t].buf = b})

\* The table key of a rank's first operand is A(k, n) (A(k, k) for a trsm).
Key1(r) == First(pos[r])
Key2(r) == Second(pos[r])
Holds(b, t, v) == b \in DOMAIN dev /\ dev[b] = [t |-> t, v |-> v]
-----------------------------------------------------------------------------
Init ==
  /\ pc = [r \in Ranks |-> "enter"]
  /\ pos = [r \in Ranks |-> StartOf(r)]
  /\ local = [r \in Ranks |-> r]
  /\ diagRef = [r \in Ranks |-> None]
  /\ ref1 = [r \in Ranks |-> None]
  /\ ref2 = [r \in Ranks |-> None]
  /\ info = [r \in Ranks |-> FALSE]
  /\ table = [d \in Devices |-> <<>>]
  /\ mapBound = [d \in Devices |-> -1]
  /\ lock = [d \in Devices |-> None]
  /\ diagonal = [d \in Devices |-> None]
  /\ diagIdx = [d \in Devices |-> -1]
  /\ live = [d \in Devices |-> FALSE]
  /\ dev = <<>>
  /\ host = [t \in Tiles |-> 0]
  /\ progress = [t \in Tiles |-> 0]
  /\ abort = FALSE
  /\ status = 0
  /\ machine \in Machines
  /\ root \in RootsOf(machine)

\* Up to the barrier of ss_init: the root makes the table of its GPU.
Enter(r) ==
  /\ pc[r] = "enter"
  /\ live' = [live EXCEPT ![On(r)] = @ \/ IsRoot(r)]
  /\ Goto(r, "init_bar")
  /\ UNCHANGED <<pos, local, diagRef, ref1, ref2, info, table, mapBound, lock,
                 diagonal, diagIdx, dev, host, sched>>

InitBarrier ==
  /\ \A r \in Ranks : pc[r] = "init_bar"
  /\ pc' = [r \in Ranks |-> IF IsRoot(r) THEN "bound" ELSE "top"]
  /\ UNCHANGED <<pos, local, diagRef, ref1, ref2, info, tableVars, dev, host,
                 sched>>

\* The root allocates the diagonal buffer and sets the bound while the others
\* are already under way; too small a bound only raises the abort flag.
Install(r, bound, least) ==
  /\ pc[r] = "bound"
  /\ diagonal' = [diagonal EXCEPT ![On(r)] = SIZE + On(r)]
  /\ mapBound' = [mapBound EXCEPT ![On(r)] = bound]
  /\ abort' = (abort \/ bound < least)
  /\ Goto(r, "top")
  /\ UNCHANGED <<pos, local, diagRef, ref1, ref2, info, table, lock, diagIdx,
                 live, dev, host, progress, status, machine, root>>

SetBound(r) == ~machine.dist /\ Install(r, machine.free, SIZE * 2)

\* With several GPUs: max(free / unique, min(unique * 3, free)).
SetBoundDist(r) ==
  LET unique == Cardinality(InUse)
      free   == machine.free
  IN  /\ machine.dist
      /\ Install(r, Max({free \div unique, Min({unique * 3, free})}), unique * 3)

\* The destination is fetched at the first task of a tile only.
AfterTop(p) == IF p.n = 0 THEN "load" ELSE IF IsPotrf(p) THEN "kernel" ELSE "wait1"

Top(r) ==
  /\ pc[r] = "top"
  /\ Goto(r, IF InTriangle(pos[r]) /\ ~abort THEN AfterTop(pos[r]) ELSE "fini_bar")
  /\ UNCHANGED <<pos, local, diagRef, ref1, ref2, info, tableVars, dev, host,
                 sched>>

\* A copy or a kernel on a null pointer fails and only prints (CHECK_CUDA).
Write(b, t, v) ==
  dev' = IF b = None THEN dev
         ELSE [c \in DOMAIN dev \cup {b} |->
                 IF c = b THEN [t |-> t, v |-> v] ELSE dev[c]]

LoadTile(r) ==
  /\ pc[r] = "load"
  /\ Write(local[r], TileOf(pos[r]), host[TileOf(pos[r])])
  /\ Goto(r, IF IsPotrf(pos[r]) THEN "kernel" ELSE "wait1")
  /\ UNCHANGED <<pos, local, diagRef, ref1, ref2, info, tableVars, host, sched>>

\* ss_cond_wait; the break on abort drops the shared_ptrs of the scope.
WaitOperand(r, at, key, next) ==
  /\ pc[r] = at
  /\ \/ /\ abort
        /\ Goto(r, "fini_bar")
        /\ ref1' = [ref1 EXCEPT ![r] = None]
     \/ /\ ~abort
        /\ progress[key] = 1
        /\ Goto(r, next)
        /\ UNCHANGED ref1
  /\ UNCHANGED <<pos, local, diagRef, ref2, info, tableVars, dev, host, sched>>

\* Mutant of Wait1: a trsm takes the diagonal without waiting for its panel.
Wait1Not(r) ==
  IF IsTrsm(pos[r])
  THEN /\ pc[r] = "wait1"
       /\ Goto(r, "diag")
       /\ UNCHANGED <<pos, local, diagRef, ref1, ref2, info, tableVars, dev,
                      host, sched>>
  ELSE WaitOperand(r, "wait1", Key1(r), "lock1")

Wait1(r) ==
  WaitOperand(r, "wait1", Key1(r), IF IsTrsm(pos[r]) THEN "diag" ELSE "lock1")

Wait2(r) == WaitOperand(r, "wait2", Key2(r), "lock2")

\* trsm: the diagonal is copied under the mutex ..
TakeDiagonal(r) ==
  /\ pc[r] = "diag"
  /\ lock[On(r)] = None
  /\ diagRef' = [diagRef EXCEPT ![r] = diagonal[On(r)]]
  /\ Goto(r, "idx")
  /\ UNCHANGED <<pos, local, ref1, ref2, info, tableVars, dev, host, sched>>

\* Mutant of CheckDiagonal: only an older diagonal sends a trsm to the table.
CheckDiagonalOlder(r) ==
  /\ pc[r] = "idx"
  /\ Goto(r, IF diagIdx[On(r)] < pos[r].k THEN "lock1" ELSE "kernel")
  /\ UNCHANGED <<pos, local, diagRef, ref1, ref2, info, tableVars, dev, host,
                 sched>>

\* .. and its index is looked at after the unlock ("will data racing?").
CheckDiagonal(r) ==
  /\ pc[r] = "idx"
  /\ Goto(r, IF diagIdx[On(r)] # pos[r].k THEN "lock1" ELSE "kernel")
  /\ UNCHANGED <<pos, local, diagRef, ref1, ref2, info, tableVars, dev, host,
                 sched>>

Acquire(r, at, next) ==
  /\ pc[r] = at
  /\ lock[On(r)] = None
  /\ lock' = [lock EXCEPT ![On(r)] = r]
  /\ Goto(r, next)
  /\ UNCHANGED <<pos, local, diagRef, ref1, ref2, info, table, mapBound,
                 diagonal, diagIdx, live, dev, host, sched>>

Lock1(r) == Acquire(r, "lock1", "look1")
Lock2(r) == Acquire(r, "lock2", "look2")

\* Mutant of Stealable: the count of other users is not looked at.
StealableAny(b) == UseCount(b) >= 1

\* A buffer that the table alone points to.
Stealable(b) == UseCount(b) = 1

\* Mutant of Full: the bound is the number of ranks.
FullEarly(d) == Cardinality(DOMAIN table[d]) >= SIZE

\* map.size() >= mapBound compares as size_t: the initial -1 is no bound.
Full(d) == mapBound[d] >= 0 /\ Cardinality(DOMAIN table[d]) >= mapBound[d]

\* lookupTable: key is found in buffer b, or gets a new buffer b (the first that
\* nobody points to), or takes over the buffer b of an unused entry.  With a full
\* table and no unused entry the rank spins with the mutex held (the step is not
\* enabled).
Lookup(d, key, b, exist) ==
  LET map == table[d]
      Insert(keys) ==
        table' = [table EXCEPT ![d] =
                    [t \in keys \cup {key} |->
                       IF t = key THEN [buf |-> b, landed |-> FALSE] ELSE map[t]]]
  IN  /\ exist = (key \in DOMAIN map)
      /\ \/ /\ exist
            /\ b = map[key].buf
            /\ UNCHANGED table
         \/ /\ ~exist /\ ~Full(d)
            /\ UseCount(b) = 0
            /\ \A c \in TableBuffers : c < b => UseCount(c) # 0
            /\ Insert(DOMAIN map)
         \/ /\ ~exist /\ Full(d)
            /\ Stealable(b)
            /\ \E old \in DOMAIN map : map[old].buf = b /\ Insert(DOMAIN map \ {old})

\* The next step once the first operand is in the table (or on its way there).
AfterFirst(p) == IF IsGemm(p) THEN "wait2" ELSE "landed"

Look1(r) ==
  /\ pc[r] = "look1"
  /\ \E b \in TableBuffers, exist \in BOOLEAN :
       /\ Lookup(On(r), Key1(r), b, exist)
       /\ IF exist /\ IsTrsm(pos[r])
          THEN diagRef' = [diagRef EXCEPT ![r] = b] /\ UNCHANGED ref1
          ELSE ref1' = [ref1 EXCEPT ![r] = b] /\ UNCHANGED diagRef
       /\ Goto(r, IF exist THEN AfterFirst(pos[r]) ELSE "load1")
  /\ lock' = [lock EXCEPT ![On(r)] = None]
  /\ UNCHANGED <<pos, local, ref2, info, mapBound, diagonal, diagIdx, live, dev,
                 host, sched>>

Look2(r) ==
  /\ pc[r] = "look2"
  /\ \E b \in TableBuffers, exist \in BOOLEAN :
       /\ Lookup(On(r), Key2(r), b, exist)
       /\ ref2' = [ref2 EXCEPT ![r] = b]
       /\ Goto(r, IF exist THEN "landed" ELSE "load2")
  /\ lock' = [lock EXCEPT ![On(r)] = None]
  /\ UNCHANGED <<pos, local, diagRef, ref1, info, mapBound, diagonal, diagIdx,
                 live, dev, host, sched>>

\* A rank that made the entry copies the tile from the host and then sets the
\* flag the others of the same key spin on.
Fetch(d, b, key) ==
  /\ Write(b, key, host[key])
  /\ table' = [table EXCEPT ![d][key].landed = TRUE]

\* A trsm moves the table's buffer over its copy of the diagonal.
Load1(r) ==
  /\ pc[r] = "load1"
  /\ Fetch(On(r), ref1[r], Key1(r))
  /\ IF IsTrsm(pos[r])
     THEN /\ diagRef' = [diagRef EXCEPT ![r] = ref1[r]]
          /\ ref1' = [ref1 EXCEPT ![r] = None]
     ELSE UNCHANGED <<diagRef, ref1>>
  /\ Goto(r, AfterFirst(pos[r]))
  /\ UNCHANGED <<pos, local, ref2, info, mapBound, lock, diagonal, diagIdx, live,
                 host, sched>>

Load2(r) ==
  /\ pc[r] = "load2"
  /\ Fetch(On(r), ref2[r], Key2(r))
  /\ Goto(r, "landed")
  /\ UNCHANGED <<pos, local, diagRef, ref1, ref2, info, mapBound, lock,
                 diagonal, diagIdx, live, host, sched>>

\* Mutant of Landed: the flags are not waited for.
LandedAtOnce(r) ==
  /\ pc[r] = "landed"
  /\ Goto(r, "kernel")
  /\ UNCHANGED <<pos, local, diagRef, ref1, ref2, info, tableVars, dev, host,
                 sched>>

\* while (!*landed): the flags of the operands.
Landed(r) ==
  /\ pc[r] = "landed"
  /\ table[On(r)][Key1(r)].landed
  /\ IsGemm(pos[r]) => table[On(r)][Key2(r)].landed
  /\ Goto(r, "kernel")
  /\ UNCHANGED <<pos, local, diagRef, ref1, ref2, info, tableVars, dev, host,
                 sched>>

OperandsGood(r) ==
  LET p == pos[r] IN
  /\ IsTrsm(p) => Holds(diagRef[r], <<p.k, p.k>>, p.k + 1)
  /\ IsSyrk(p) \/ IsGemm(p) => Holds(ref1[r], Key1(r), p.n + 1)
  /\ IsGemm(p) => Holds(ref2[r], Key2(r), p.n + 1)

Kernel(r) ==
  /\ pc[r] = "kernel"
  /\ LET p == pos[r] IN
       /\ \E broke \in BOOLEAN :
            /\ broke => IsPotrf(p)
            /\ info' = [info EXCEPT ![r] = broke]
            /\ Write(local[r], TileOf(p),
                     IF /\ Holds(local[r], TileOf(p), p.n)
                        /\ OperandsGood(r)
                        /\ ~broke
                     THEN p.n + 1 ELSE Garbage)
       /\ Goto(r, IF p.n = p.k THEN "store" ELSE "next")
  /\ UNCHANGED <<pos, local, diagRef, ref1, ref2, tableVars, host, sched>>

\* Mutant of StoreTile: a trsm is published without the copy to the host.
StoreTileDiag(r) ==
  /\ pc[r] = "store"
  /\ host' = IF IsPotrf(pos[r]) /\ local[r] # None
             THEN [host EXCEPT ![TileOf(pos[r])] = dev[local[r]].v] ELSE host
  /\ Goto(r, IF IsPotrf(pos[r]) THEN "swap" ELSE "publish")
  /\ UNCHANGED <<pos, local, diagRef, ref1, ref2, info, tableVars, dev, sched>>

\* Only finished tiles go back to the host.
StoreTile(r) ==
  /\ pc[r] = "store"
  /\ host' = IF local[r] = None THEN host
             ELSE [host EXCEPT ![TileOf(pos[r])] = dev[local[r]].v]
  /\ Goto(r, IF IsPotrf(pos[r]) THEN "swap" ELSE "publish")
  /\ UNCHANGED <<pos, local, diagRef, ref1, ref2, info, tableVars, dev, sched>>

\* potrf, under the mutex: std::swap(localDestination, dataTable->diagonal) ..
SwapDiagonal(r) ==
  /\ pc[r] = "swap"
  /\ lock[On(r)] = None
  /\ lock' = [lock EXCEPT ![On(r)] = r]
  /\ local' = [local EXCEPT ![r] = diagonal[On(r)]]
  /\ diagonal' = [diagonal EXCEPT ![On(r)] = local[r]]
  /\ Goto(r, "setidx")
  /\ UNCHANGED <<pos, diagRef, ref1, ref2, info, table, mapBound, diagIdx, live,
                 dev, host, sched>>

\* .. then dataTable->diagIdx = k.
SetIndex(r) ==
  /\ pc[r] = "setidx"
  /\ diagIdx' = [diagIdx EXCEPT ![On(r)] = pos[r].k]
  /\ lock' = [lock EXCEPT ![On(r)] = None]
  /\ Goto(r, "drain")
  /\ UNCHANGED <<pos, local, diagRef, ref1, ref2, info, table, mapBound,
                 diagonal, live, dev, host, sched>>

\* while (localDestination.use_count() > 1): trsms still read the old diagonal.
Drain(r) ==
  /\ pc[r] = "drain"
  /\ UseCount(local[r]) =< 1
  /\ Goto(r, IF info[r] THEN "fail" ELSE "publish")
  /\ UNCHANGED <<pos, local, diagRef, ref1, ref2, info, tableVars, dev, host,
                 sched>>

\* Mutant of RequestFail: info without the offset of its panel.
RequestFailLocal(r) ==
  /\ pc[r] = "fail"
  /\ status' = 1
  /\ Goto(r, "abort")
  /\ UNCHANGED <<pos, local, diagRef, ref1, ref2, info, tableVars, dev, host,
                 progress, abort, machine, root>>

RequestFail(r) ==
  /\ pc[r] = "fail"
  /\ status' = pos[r].k + 1
  /\ Goto(r, "abort")
  /\ UNCHANGED <<pos, local, diagRef, ref1, ref2, info, tableVars, dev, host,
                 progress, abort, machine, root>>

SsAbort(r) ==
  /\ pc[r] = "abort"
  /\ abort' = TRUE
  /\ Goto(r, "publish")
  /\ UNCHANGED <<pos, local, diagRef, ref1, ref2, info, tableVars, dev, host,
                 progress, status, machine, root>>

Publish(r) ==
  /\ pc[r] = "publish"
  /\ progress' = [progress EXCEPT ![TileOf(pos[r])] = 1]
  /\ Goto(r, "next")
  /\ UNCHANGED <<pos, local, diagRef, ref1, ref2, info, tableVars, dev, host,
                 abort, status, machine, root>>

\* The end of the loop body drops its shared_ptrs.
NextStep(r) ==
  /\ pc[r] = "next"
  /\ pos' = [pos EXCEPT ![r] = NextOf(@)]
  /\ diagRef' = [diagRef EXCEPT ![r] = None]
  /\ ref1' = [ref1 EXCEPT ![r] = None]
  /\ ref2' = [ref2 EXCEPT ![r] = None]
  /\ Goto(r, "top")
  /\ UNCHANGED <<local, info, tableVars, dev, host, sched>>

FiniBarrier ==
  /\ \A r \in Ranks : pc[r] = "fini_bar"
  /\ pc' = [r \in Ranks |-> IF IsRoot(r) THEN "free" ELSE "done"]
  /\ UNCHANGED <<pos, local, diagRef, ref1, ref2, info, tableVars, dev, host,
                 sched>>

\* The root deletes the table of its GPU, and with it the pointers it holds.
DeleteTable(r) ==
  /\ pc[r] = "free"
  /\ live' = [live EXCEPT ![On(r)] = FALSE]
  /\ table' = [table EXCEPT ![On(r)] = <<>>]
  /\ diagonal' = [diagonal EXCEPT ![On(r)] = None]
  /\ Goto(r, "done")
  /\ UNCHANGED <<pos, local, diagRef, ref1, ref2, info, mapBound, lock, diagIdx,
                 dev, host, sched>>
-----------------------------------------------------------------------------
Rank(r) ==
  \/ Enter(r) \/ SetBound(r) \/ SetBoundDist(r) \/ Top(r) \/ LoadTile(r)
  \/ Wait1(r) \/ Wait2(r) \/ TakeDiagonal(r) \/ CheckDiagonal(r) \/ Lock1(r) \/ Lock2(r)
  \/ Look1(r) \/ Look2(r) \/ Load1(r) \/ Load2(r) \/ Landed(r) \/ Kernel(r) \/ StoreTile(r)
  \/ SwapDiagonal(r) \/ SetIndex(r) \/ Drain(r) \/ RequestFail(r) \/ SsAbort(r)
  \/ Publish(r) \/ NextStep(r) \/ DeleteTable(r)

Barriers == InitBarrier \/ FiniBarrier

Next == Barriers \/ \E r \in Ranks : Rank(r)

Spec == Init /\ [][Next]_vars

\* Every thread is scheduled.  Nothing is assumed of the mutex: a call is finite.
FairSpec == /\ Spec
            /\ WF_vars(Barriers)
            /\ \A r \in Ranks : WF_vars(Rank(r))
-----------------------------------------------------------------------------
\* Every kernel finds its operands, complete, in the buffers it points to, and
\* its destination with the updates of the earlier panels: the table never
\* shows a tile that has not landed, or another tile's data.
KernelInputs ==
  \A r \in Ranks : pc[r] = "kernel" =>
    Holds(local[r], TileOf(pos[r]), pos[r].n) /\ OperandsGood(r)

\* An entry a rank points to keeps its tile until the rank lets go, so the
\* landed flag the rank spins on is the one of its own tile.
PinnedStays ==
  \A r \in Ranks :
    LET map == table[On(r)]
        Pinned(key, b) == key \in DOMAIN map /\ map[key].buf = b
    IN  /\ ref1[r] # None => Pinned(Key1(r), ref1[r])
        /\ ref2[r] # None => Pinned(Key2(r), ref2[r])
        /\ pc[r] = "landed" /\ IsTrsm(pos[r]) => Pinned(Key1(r), diagRef[r])

\* The unlocked test of diagIdx ("will data racing?") cannot mislead a trsm:
\* when it says k, the pointer copied before is the factored tile of panel k.
DiagonalTest ==
  \A r \in Ranks : pc[r] = "idx" /\ diagIdx[On(r)] = pos[r].k =>
    Holds(diagRef[r], <<pos[r].k, pos[r].k>>, pos[r].k + 1)

AllDone == \A r \in Ranks : pc[r] = "done"

\* PLASMA_SUCCESS means that the whole factor is in host memory.
SuccessMeansFactor ==
  AllDone /\ status = 0 => \A t \in Tiles : Done(host[t], t)

\* A failure status names the panel that failed: its diagonal tile is the only
\* garbage, and all that it depends on is complete.
StatusNamesPanel ==
  AllDone /\ status # 0 =>
    /\ {t \in Tiles : host[t] = Garbage} = {<<status - 1, status - 1>>}
    /\ \A j \in 0 .. status - 2 : Done(host[<<status - 1, j>>], <<status - 1, j>>)

\* Every call returns: the table is large enough that a rank that spins in
\* lookupTable with the mutex held is always relieved.
Returns == <>AllDone

\* The newest version of a tile: in a rank's destination buffer or on the host.
Latest(t) ==
  LET now == {r \in Ranks : local[r] \in DOMAIN dev}
      versions == {host[t]} \cup
                  {dev[local[r]].v : r \in {q \in now : dev[local[q]].t = t}}
  IN  IF Garbage \in versions THEN Garbage ELSE Max(versions)

\* The cached schedule implements the abstract tile algorithm.
Abstract == INSTANCE TileCholesky WITH tile <- [t \in Tiles |-> Latest(t)]
Refines == Abstract!Spec
=============================================================================
