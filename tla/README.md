# A TLA+ model of the out-of-core tile Cholesky

The repository factors a symmetric positive definite matrix that is too large for the
device: the lower triangle of `A.nt` x `A.nt` tiles lives in host memory, and PLASMA threads
bring tiles to a GPU, run a kernel (potrf, trsm, syrk, gemm) and bring results back. What is
hard is not the arithmetic but the coordination: which thread may read which version of which
tile, when a device buffer may be given to another tile, how a matrix that is not positive
definite stops everybody, how the threads start, meet and end, and how the task scheduler
orders what has no schedule of its own. These modules model that coordination from the source,
TLC checks it on small instances, and TLAPS proves the central facts for every number of tiles
and threads.

Paths below are relative to `src/`.

## 1. Inventory

| Part | Source | State | Operations | Talks to |
|---|---|---|---|---|
| static tile Cholesky | `compute/pdpotrf_gpu.c`, `compute/dpotrf_gpu.c`, `control/common.h` | progress table `ss_progress`, `ss_abort`, a rank's `k, m, n`, its device buffers, `sequence->status` | `ss_init`, task loop, `ss_cond_wait`, `ss_cond_set`, `ss_abort`, `plasma_request_fail`, `ss_finalize` | barriers, thread control, sequences |
| shared table of device tiles | `compute/pdpotrf_gpu_hpcasia24.cpp` 400-856 | `dataTable` (map, mutex, bound, diagonal, diagIdx), shared_ptrs of every rank, landed flags, progress table | `lookupTable`, fetch and landed, swap and drain of the diagonal, bound check | as above |
| the same over several GPUs | `compute/pdpotrf_gpu_dist.cpp` 858-1306, `control/control.cpp` 972-1000 | a data table per GPU, `rankMapping`, `rootRankOfDevice` | the root of a GPU makes and deletes its table | as above |
| three-thread pipeline | `compute/pdpotrf_gpu_hpcasia24.cpp` 2110-2775 | `memoryStatus` (pointer and count per tile), `current_step`, the scan position | c2g: announce, `findSparePtr`, copy, cleanup; compute: wait, kernel, step; g2c: return, release | as above; no progress table |
| other caching variants (async_copy, reuse_data, all_managed, no_free) | same file | as the shared table | as the shared table | as above |
| barriers | `control/control.cpp` 46-139 | `barrier_id`, `barrier_nblocked_thrds`, condition variable; `barrier_in`, `barrier_out` | `plasma_barrier`, `plasma_barrier_bw` | everybody |
| thread control | `control/control.cpp`, `control/global.h` | `plasma->action`, `dynamic_section`, the action condition | `plasma_static_call`, `plasma_dynamic_spawn`, `plasma_dynamic_sync`, `plasma_parallel_section`, `PLASMA_Finalize` | barriers, QUARK |
| context table | `control/context.c` | `context_map`, `context_map_lock` | create, insert, remove, self | `PLASMA_Init`, `PLASMA_Finalize` |
| sequences and requests | `control/async.c` | `sequence->status`, `request->status` | create, flush, wait, fail | every routine, QUARK |
| QUARK | `quark/quark.c` | `task_set`, hash of address set nodes with their waiting dependencies, ready lists, list of completed tasks, `num_queued_tasks`, `finalize` and sleep of workers, the tasks of a sequence | insert, run, complete, release, cancel, barrier, waitall, worker loop | thread control, sequences |
| DAG of the dynamic Cholesky | `compute/pdpotrf.c`, `core_blas-qwrapper/qwrapper_dpotrf.c` | tiles | inserts tasks; a dpotrf that fails cancels the sequence | QUARK |
| mixed precision Cholesky | `compute/dpotrf_mixed_precision.cpp`, `compute/pdpotrf_gpu_mixed_precision.cpp` | format and scales per tile, converted copies | choice of a format, `requantizeTileHost`, schedule with conversions | as the static Cholesky |
| device kernels of the small formats | `mx_quant/`, `mixed_kernels/` | none of their own | conversion, scaled products | |
| kernels, descriptors, layouts | `core_blas/`, `control/descriptor.c`, `control/tile.c` | none of their own | sequential arithmetic | |
| rest | `f2c/`, `examples/`, `tools/`, logs, other PLASMA routines | | | |

`PROJECT.json` lists each of them with its status and the reason where it is not modelled.

### What is hard, and what makes each part right

* **Static schedule.** Ranks walk disjoint shares of the triangle by private arithmetic
  (stride `PLASMA_SIZE`, carry into the next column) and are ordered only by the progress
  table. Right means: one writer per tile; a kernel never sees an operand of another version;
  a failed panel is published *under* the abort flag; `ss_progress` is not freed under a
  waiting rank; all ranks take the same decision on entry; every call returns; the status
  tells what is in memory.
* **Shared table.** A table entry is taken over when its `use_count` is 1, while other ranks
  hold pointers into it and spin on its landed flag; the last diagonal is kept outside the
  table, replaced by a swap, and tested by an unlocked read (the code asks "will data
  racing?"). Right means: what a rank points to stays its tile; the unlocked test cannot
  mislead; nobody waits for ever for a free entry although the mutex is held while searching.
  With several GPUs the table and the diagonal of a GPU are made by one of its ranks while the
  others already work.
* **Pipeline.** Three threads agree on positions only by counts and a step counter. Right
  means: a buffer is taken only after its tile is home, no buffer is lost, the scan does not
  leave the table, all three end.
* **Barriers.** Used again at once by ranks that leave at different speeds; spurious
  wake-ups; flags cleared by somebody else than their owner. Right means: a rendezvous.
* **Thread control.** Static calls and dynamic sections in any order, barrier calls that pair
  up from different lines, `action` reset without the mutex, the sleep of QUARK workers, whose
  structures `PLASMA_Finalize` frees before it ends the threads. Right means: ranks always meet
  at matching lines, each function runs once per rank, nothing freed is used.
* **Context table.** A fixed table read without its lock, entries that keep the id of a thread
  that has left, a lock that is initialized again. Right means: a thread finds its own context.
* **QUARK.** Dependencies are recorded in lists per address, by region; tasks become ready
  from three places (the master that inserts, the master that processes completed tasks,
  thread 1 that helps it); a task is visible before all its dependencies are in; workers sleep
  on a counter; a task may cancel its sequence at any time. Right means: conflicting tasks run
  in the order of insertion and once; a cancelled sequence stops; no task is lost or in two
  places; no wake-up is lost; the section ends and leaves nothing behind.
* **Dynamic Cholesky.** It has no schedule at all; INPUT and INOUT flags and the order of
  insertion must be enough. Right means: it does only what a tile Cholesky may do.
* **Mixed precision.** Rounding by hand at the edges of a format: the carry of a mantissa, the
  largest number, subnormal numbers, the power of two of a scale. Right means: the nearest
  number of the format, and no error beyond the bound by which the format was chosen.

The file-and-line list is under `hazards` in `PROJECT.json`, each with the properties that
would notice it going wrong.

## 2. Modules

| Module | Models | Uses |
|---|---|---|
| `TileCholesky` | abstract: tile tasks in the order their operands allow | |
| `Rendezvous` | abstract: nobody leaves a barrier before everybody came | |
| `TaskOrder` | abstract: conflicting tasks one after the other, a cancelled sequence stops | |
| `Triangle`, `Triangle_proof` | the lower triangle, its tiles and the carry of a row into the next columns; what that numbering is like | |
| `PotrfStatic` | the schedule of `pdpotrf_gpu.c` with `common.h` and its driver | `Triangle`; refines `TileCholesky` |
| `PotrfStatic_proof` | its safety, its refinement, its status; and the order of the dynamic factorization | `Triangle_proof`, `PotrfOrder` |
| `TileWalk` | `k, m, n` of the schedulers of `pdpotrf_gpu_hpcasia24.cpp` | `Triangle` |
| `DataTable` | `plasma_pdpotrf_gpu_reuse_data_table` and `.._dist` | `TileWalk`; refines `TileCholesky` |
| `DataTable_proof`, `DataTableMC` | its proofs; the machines it is checked on | `Triangle_proof` |
| `StaticTable` | `plasma_pdpotrf_gpu_reuse_data_static_table` and its three threads | `TileWalk`; refines `TileCholesky` |
| `StaticTable_proof` | its proofs, for one rank (the only number for which they hold) | `Triangle_proof` |
| `PlasmaRanks` | the ranks that meet in a barrier | |
| `Barrier` | `plasma_barrier` | `PlasmaRanks`; refines `Rendezvous` |
| `BarrierBw` | `plasma_barrier_bw` | `PlasmaRanks`; refines `Rendezvous` |
| `BarriersMC`, `Barrier_proof` | the run and the proofs of both barriers | |
| `Control`, `Control_proof` | calls of the master, loop of the workers, end of a QUARK section, `QUARK_Free` | takes a barrier as one step |
| `ContextMap`, `ContextMap_proof` | `context.c` | |
| `Quark` | the scheduler of `quark.c` under one section | refines `TaskOrder` |
| `Quark_proof` | its safety and its refinement, for any programs and threads | |
| `PotrfTasks` | the tasks of `plasma_pdpotrf_quark`, what they read and write, their order | |
| `QuarkMC` | the programs `Quark` is checked on, the Cholesky factorization among them | composes `Quark` and `PotrfTasks`; refines `TileCholesky` |
| `PotrfOrder` | these tasks under *any* scheduler that keeps `TaskOrder` | composes `TaskOrder` and `PotrfTasks`; refines `TileCholesky` |
| `Quantize`, `QuantizeMC` | `requantizeTileHost` and the terms of the error bound; formats and tiles to check it on | |

Three compositions tie the parts together.

* Both barriers implement `Rendezvous` (proved), in which the last arrival lets all go. So
  `PotrfStatic`, `DataTable` and `Control` take "all ranks are in the barrier and go on" as
  one step.
* `Quark` implements `TaskOrder` (proved, for any program and number of threads, as long as no
  cancelled task is queued a second time; run `Quark` goes on beyond that), and the tasks
  of the dynamic Cholesky under `TaskOrder` implement `TileCholesky` (proved, for every number of
  panels). Run `Quark` checks the two together once more: the scheduler with the tasks of three
  panels is a `TileCholesky`.
* The static, the shared-table, the pipelined and the dynamic factorization all implement the
  same `TileCholesky`: all four are proved, and the hypotheses are in section 4.

### How state and actions correspond to the code

A `pc` value names a place between two accesses to shared state; an action is the code from
there to the next such place. Local names are the code's (`progress`, `abort`, `diagIdx`,
`barrier_id`, `finalize`); `col, row, step` of `PotrfStatic` are `k, m, n`.

* *Tiles.* A tile is the number of tasks applied to it: 0 is the caller's tile, `k + 1` the
  finished tile of column `k`, and `Garbage` what a kernel makes of the wrong inputs or of a
  block that is not positive definite. So "the result is right" becomes "no kernel ran on the
  wrong version", which is all that scheduling can spoil.
* *Failure.* potrf may break down at any panel of any call (`\E broke \in BOOLEAN`), as an
  arbitrary matrix may. `status` is the number of the panel plus one (for `info + nb * k`).
* *Device memory.* Buffers are numbers, `dev[b]` says which version of which tile a buffer
  holds. In `DataTable` the counts of `shared_ptr` are counted from the variables that hold
  pointers. A pointer that goes out of scope is a variable set back to `None`.
* *Several GPUs.* `machine` says how the call is made: which of the two routines, how many ranks
  on a GPU, how many tiles a GPU has room for, and which of a GPU's ranks may be its root (the
  last one that the loop over an `unordered_map` meets). A rank uses the table of its GPU only.
* *Atomicity.* Code under one mutex is one step (`lookupTable`; the two writes under the
  mutex that replace the diagonal are nevertheless two, because `diagIdx` is read without
  it). A copy and the synchronization of its stream are one step: the code waits for the
  stream before it tells anybody. The two reads of `ss_cond_wait` (cell, then abort flag) are
  one: a cell never goes back during a call, so the step can be placed at the second read.
  The decrements of one task in g2c are one step: c2g looks at one count at a time and only
  takes a tile whose count is 0, and nothing relates the counts of two tiles.
* *Spinning.* A spin loop is a step that is not enabled until the loop ends. A rank that
  spins in `lookupTable` does so with the mutex held, and so does the model.
* *QUARK.* A task is its number in the order of insertion and a tile is an address. A program
  (`ProgramsAssumption`) gives each task its arguments (address, read or write, region, GATHERV), its priority, the
  address of its LOCALITY argument, whether it is a member of the sequence and whether it
  fails. `q` holds what hangs together under `asn_mutex`: status, counts and dependencies of
  tasks, the list of each address, the ready lists, `num_queued_tasks`. The update of one
  address set node is one step, including the tasks it queues: the mutex is held throughout,
  and nobody can use a task that it queues before the mutex of that task is free. Insertion is
  several steps (`Insert`, `Hash`, one `Depend` for each argument, `Check`), and so is the
  deletion of a task, with completions and cancellation in between. One thread inserts all tasks,
  and a task has one dependency in the list of an address once its arguments there are merged
  (`Merge`); so the list is in the order of the tasks' numbers, and the model keeps it as a set
  of pairs of a task and an argument. For the same reason the tasks of a sequence are a set.
  The tasks that one update releases are queued in that order: `Place` counts how far
  the round robin has come for each, and `ByPriority` is the ready list with all of them in it.
* *Busy mutexes in QUARK.* `quark_work_main_loop_check_for_task` uses trylock on the ready list
  of a victim. `Miss` allows it to fail on any other list, whatever is in it, which is more than
  the code does; on the thread's own list only when it is empty.
* *The last look of insertion.* The master looks at the task it inserts once more after its
  dependencies are in (`Check`). A worker may have skipped it as cancelled by then, and the look
  queues it a second time (`Requeue`; section 6). The model follows both copies: the count of the
  task, `num_queued_tasks` with one too many, and `Second`, by which only the first copy to be
  over is handed in. `twice` is a history variable, the tasks to which this has happened.
* *Use of freed memory in QUARK.* The last look may also find the task freed (finding 4), and a
  thread that has the second copy of a task may find that the first one's processing has freed it
  (`Dangle`). What follows is undefined, and the model stops there (`fault`). `Ends` counts that
  as an end only in programs in which thread 1 may help with the completed tasks at so small a
  backlog; the Cholesky program is not one of them.
* *Locality.* A task without a LOCALITY argument has its first written one as such (`Locality`,
  `quark.c:685-690`), so after the first writer of a tile the tasks on it are queued at the
  thread that wrote it last.
* *The lock of the context table.* `PLASMA_Init` initializes it without a look at it (`Create`).
  That is undefined when it is held; the model takes what a build does, a free mutex, and the
  history variable `clash` says that it has happened.
* *Numbers.* In `Quantize` an element is an integer number of units of 2^-12, so that scaling,
  rounding and comparing are exact, as they are in the floats of the code on such values.

## 3. Runs

Passing runs; deadlock is checked unless the system really stops (a call or section that is
over).

| Run | Instance | Distinct states | Question |
|---|---|---|---|
| `PotrfStatic` | 4 panels, 3 ranks, 3 calls | 680 thousand | Are calls right whatever the interleaving and wherever the matrix breaks down, on new, reused and failed sequences? |
| `DataTable` | 4 panels, 2 ranks; one GPU with 4 table entries, or a GPU for each rank | 1.1 million | Are entries and the diagonal shared safely, does every call end? |
| `StaticTable` | 4 panels, 1 rank, 6 buffers | 58 thousand | Do the three threads keep out of each other's way? |
| `Barriers` | 6 ranks, 3 barrier numbers; one of the two barriers | 14 thousand | Is each a rendezvous, under spurious wake-ups and with ranks that come back at once? |
| `ContextMap` | 3 threads, 2 entries | 2.9 million | Does a thread find its own context, until a `PLASMA_Init` meets a held lock? |
| `Control` | 4 ranks, 5 calls | 11 thousand | Do all orders of calls keep master and workers together, to the end of `PLASMA_Finalize`? |
| `Quark` | 3 threads; 5 small programs and the Cholesky factorization of 3 panels | 626 thousand | Does the scheduler keep the order of data, stop a cancelled sequence and end clean, and does the dynamic Cholesky do what a tile Cholesky may do? |
| `Quantize` | 2 x 3 elements, 5 formats, 5 layouts | 286 thousand | Is the result the nearest number, and within the bound? |

Runs that show a disagreement (section 6): `StaticTableFails`, `StaticTableRanks`,
`DataTableRoot`, `QuarkFreed`.

### What each passing run shows

* `PotrfStatic`: `OneOwner` (no tile has two workers), `KernelInputs` (finished operands,
  destination of the right version, also while an abort spreads), `FailureShadowed` (a
  published failed panel is accompanied by `ss_abort`), `TableLive` (the progress table exists
  when it is used), `StatusTells` (a status names the first failing minor, Success means the
  whole factor), `CallReturns` (no rank is left in a barrier that another one has gone past)
  and `Refines` (every step is one of `TileCholesky` or none, so in particular a finished tile
  is not written again). `SsInitStaleAbort` shows why the flag is cleared.
* `DataTable`: `KernelInputs`, `PinnedStays` (what a rank points to stays its tile),
  `DiagonalTest` (the racy test is harmless: a trsm that reads `diagIdx = k` after its wait
  holds the factored tile `k`), `SuccessMeansFactor`, `StatusNamesPanel`, `Returns`, `Refines`.
  On the one GPU the bound is the smallest the code accepts, two entries per rank; a gemm pins
  two. Where each rank has a GPU, it is the root of its GPU.
* `StaticTable`: `EvictSafe` (a buffer is taken only from a tile that is home), `ScanInside`,
  `SuccessMeansFactor`, `SuccessReturns`, `Refines` (a kernel on the wrong versions would make
  a garbage tile no abstract step allows).
* `Barriers`: `CountsHeld`, `NoLostWakeup` and `Refines` of the condition variable barrier, `FlagsFresh`,
  `Released` and `BwRefines` of the busy-waiting one.
* `Control`: `SitesMatch`, `RunOnce` (the unprotected write of `STAND_BY` must not swallow the
  next call), `SectionOver` (no worker and no request to leave is left over from a section, but
  for the requests that `QUARK_Free` raises after the last one, and no worker uses what it frees),
  `CallsReturn`.
* `ContextMap`: `SelfFinds`, as long as no `PLASMA_Init` has met a held lock; with
  three threads two can be in the table's loops while a third one initializes the lock, and the
  run goes on from there without a claim.
* `Quark`: `Ordered` (it implements `TaskOrder`: no task early, twice, or after the sequence
  is cancelled), `OnePlace` (a queued task is in exactly one place, in two at most once `Requeue`
  has queued it again, and counts agree with what they count), `SleepersKnow` (no lost wake-up),
  `SectionClean` (after the barrier nothing is left for the next section but what `Requeue`
  leaves), `TilesFollow` (the Cholesky program implements `TileCholesky`, also when its second
  dpotrf fails), `Ends`. All of them go on beyond `Requeue`: it costs the exactness of places and
  counts, not the order of data.
* `Quantize`: `Rounds`, `Monotone`, `BoundHolds` (with gradual underflow the error of every
  element is within what `evaluate_format_tile_bound` has assumed).

Every property has a mutant in its module: an operator next to the action it changes ("Mutant
of ..."), which is not part of the specification, and with which TLC finds the property
violated under the same configuration.

### Bounds

* `NT`: a gemm appears from 3 panels on, and from 4 on a gemm has tasks of two earlier panels
  and two gemms share operands. The Cholesky program of `Quark` has three panels (10 tasks):
  every kind of task and of conflict occurs.
* `SIZE`: with three ranks two may be ahead of a third one; with 4 panels and 3 ranks every
  rank carries into later columns. For `PotrfStatic`, `DataTable` and the barriers larger
  values are covered by the proofs, and so are more tiles and buffers of `StaticTable`, which is
  checked with one rank; run `StaticTableRanks` has two.
* `MaxCalls` bounds the calls of a run: three calls contain success, failure and a refused
  call in all orders; with five calls of the master every
  sequence of static calls, spawns and syncs of that length is tried, so that two dynamic
  sections, an idle one included, meet everything that may come between and after them. The
  proofs need no such bound.
* `Machines`, `MaxBound`: the least table (4 entries for two ranks), and more tiles than buffers
  (10 tiles, 6 buffers), so that taking over is common. `CONTEXTS_MAX` is 2 for 3 threads, so
  that the table is full.
* `IdRange` is the range of `barrier_id` (an `int` in the code): the proof needs only 2.
* `N`, `Programs` of `Quark`: a master, the worker that helps it, and one that does not. The
  programs are what `QuarkMC` says: the Cholesky factorization with a window of two tasks whose
  second dpotrf fails; readers and writers of which one cancels the sequence; writers of the
  two triangles of a tile; gathered writers with priorities and locality and a task that names
  a tile three times; three tasks for the help of thread 1; and three of which the first one
  fails, so that thread 1 may release the last one, and a worker skip it, while it is inserted.
  Helping begins at more than 20 completed tasks in the code (`quark.c:1974`); in these last two
  programs the backlog is 0, so that it happens with three tasks: with 21 completed tasks that
  need not wait for anything it is the same. `robins` are the places from which the round robin
  may start. The proofs cover all other programs and numbers of threads until `Requeue`; what
  comes after it, and `Ends`, rests on these six.
* `Quantize`: a tile has up to three elements other than 0 (two without a scale), out of
  values chosen at the edges: a tie, a number that rounds up to the next power of two, one
  below the smallest number, one beyond the largest; sub-blocks are of size 2.
* Every rank has a tile (`TilesAssumption` in `TileWalk`, the choice of values in
  `PotrfStatic`). The first loop of the schedulers (`pdpotrf_gpu.c:52`) does not test `k`;
  for a rank beyond the triangle it runs until its `int` overflows, which is undefined and
  is not modelled.

### Fairness

Every thread is an operating system thread and is scheduled: weak fairness per rank (per
thread in `StaticTable` and `Quark`), and of a barrier step once everybody is in it. The caller
need not call: no fairness for `StartCall`, `RefuseCall`, the calls of `Control`, nor for
`Arrive` of `BarrierBw`. No fairness is assumed of a mutex (no strong fairness): a call makes
finitely many steps, so the mutex of `DataTable` cannot be refused for ever. Spurious
wake-ups are possible and never required. A function that a task runs returns.

## 4. Proofs

`tlapm` proves all of the following for every value of the constants allowed by the named
assumptions (`NT`, `SIZE` positive, `MaxCalls` natural, `IdRange >= 2`; what `Machines` may
contain is `MachinesAssumption`, what `Programs` may contain `ProgramsAssumption` and
`GatherAssumption`). Where a theorem needs more, its statement says so: `RootFirst`
and `Room` of `DataTable`, `SIZE = 1` of `StaticTable`, `twice = {}` of `Quark`. Each of them
is a condition under which the code is right; section 6 says what happens without it. The
properties of `ContextMap` speak of the time until `clash`.

**`Triangle_proof`.** The numbers of the triangle, on which the proofs of the three GPU
schedulers rest: a carry keeps the number (`CarryKeeps`), so two ranks never stand on one tile
(`OwnUnique`) and every tile has a rank (`Shared`). `TileWalk` carries with a recursive function,
the loop `while (m >= NT)` of the code. What a recursion computes cannot be shown here by the
library's induction, whose theorems take an operator; but among the numbers at which a claim
fails there is a least one (`LeastNumber`, from the principle for sets of naturals), and that is
enough: `LoopOf` unrolls the function once below that least failure, and `CarriedIs` and
`CarriedFacts` say where a carry ends.

**`PotrfStatic_proof`.** `TypeCorrect`, `OneOwnerHolds`, `KernelInputsHold`,
`TableLiveHolds`, `FailureShadowedHolds`, all from one inductive invariant, `IInv`. None of
the properties is inductive: `KernelInputs` speaks about a moment, and needs to know that what
a rank waited for is still there. The parts of `IInv`:

* `Phases`: the barriers keep all ranks idle, entering, running or closing together.
* `Walk`: number the triangle column by column; a position `(m, k)` has number
  `k*NT - k(k+1)/2 + m`, *also while `m` has run past the last row*, because a carry keeps the
  number. Rank `r` only stands at numbers `r + j*SIZE`, so two ranks never stand on one tile
  (`OwnUnique`).
* `Ahead`: what lies ahead of a rank in its own share is untouched.
* `Current`: the tile a rank works on carries the updates of the panels before its step.
* `Published`: a progress cell that is set belongs to a finished tile, or to a failed panel
  and then the abort flag is up.
* `Waited`: what a rank waited for is finished when it is read and when the kernel runs.

The proof has one lemma per group of actions: those that move only control
(`ControlStep`), those that write shared state (`SharedStep`), the walk (`WalkStep`), and
the steps at which not everybody runs (`OutsideStep`, `InitBarrierStep`). `Combine` says what
a step of rank `r` must show for `r` and what for the others.

*Its second half:* `RefinesHolds` (the schedule implements `TileCholesky`) and
`StatusTellsHolds`. `IInv` says that what is done is right; these two need in addition that
nothing is left out, which is `RInv`. Its heart is `Covered`: unless the abort flag is up, every
tile of a rank's share is final, under way, or ahead of the rank. Since every number belongs to
a rank (`Divides`, `Shared`) and a step of `SIZE` numbers meets no other number of the share
(`StrideGap`, `ColumnsApart`), a rank that has left the triangle has nothing ahead
(`NoneBeyond`); so when all have left, every tile is final or a panel has failed (`AllLeft`).
That is what `TileCholesky` demands before a new matrix may come, and what Success means.
`Fresh` says that the operands of a task are still finished when its tile is stored, which makes
`StoreTile` a step of `TileCholesky`; `Diagonal`, `Sound`, `Aborts`, `Told`, `Reported` relate
failed panels, the abort flag and the status.

The theorems are about integers without bound. With more ranks than tiles a rank of the model
carries for ever where the code overflows; the theorems hold of it, and say nothing about what
the overflow does.

**`DataTable_proof`.** `PinnedStaysHolds`: for every number of tiles and ranks and every
placement on GPUs, what a rank points to stays its tile in the table, although the rank holds no
lock. The argument is one of counting (`StealableUnused`): the table has a pointer of its own,
so if the `use_count` of an entry's buffer is 1 no rank points to it, and only such an
entry loses its buffer in `Lookup` (`LookupKeeps`). `Held` says where a rank has
which operand; `Closing` that the table is deleted only when nobody works any more.

`KernelInputsHolds`, `DiagonalTestHolds` and `RefinesHolds` need to know what is *in* the buffers
(`RInv`). A destination is a buffer of one rank (`Places`), and it holds what is on the host or
the version its rank is at (`Current`, `Truth`); an entry whose landed flag is up holds the
finished tile, and no buffer is in two entries (`Entries`). The unlocked read of `diagIdx` is the
delicate part. A trsm takes its pointer *before* it reads the index. The diagonal it points to may
be swapped out in between and become the destination of another rank; but that rank then waits
until nobody else points to it (`Drained`), so nothing is written to it while the trsm holds it
(`DrainedUnused`), and an index that is still the trsm's own says that the pointer is (`Grip`,
`Diagonals`). The refinement compares with the newest version of a tile wherever it is
(`Latest` is `Val`, `LatestIs`): the steps that move data leave it alone, and a kernel advances it
by one task (`KernelTask`).

`SuccessMeansFactorHolds` and `StatusNamesPanelHolds` need that nothing is left out (`SInv`):
`Behind`, a rank has finished what lies behind it in its share, or the abort flag is up; `Sound`,
what is finished had finished operands; `Told` and `Reported`, a failed panel and the status
belong together.

The hypothesis `RootFirst` is that the rank which installs the diagonal of a GPU is there before
anyone factors on it: rank 0 is the only root the loop over the ranks may meet last, and there is
one GPU, or one rank on each. Without it `KernelInputs` is false; run `DataTableRoot` and
finding 3 are about that. The hypothesis `Room` of `SuccessMeansFactorHolds` is that the bound
test of the code succeeds: with less room the call raises the abort flag and returns success with
the matrix untouched (section 6). All machines of run `DataTable` satisfy both.

**`StaticTable_proof`.** `EvictSafeHolds`, `SuccessMeansFactorHolds` and `RefinesHolds` for one
rank, any triangle and any number of buffers. With several ranks the statements are false, since
nothing orders a task after the tasks of other ranks on its operands (finding 2; run
`StaticTableRanks` has two ranks), so `SIZE = 1` is not a simplification but the condition under
which the code is right: `PLASMA_Init(1)`. There the three threads go through one and the same line
of tasks (`Before`), and a step counter is the serial number of a task in it (`ComputeInv`,
`G2cInv`; `SerialOrder` turns a comparison of counters into one of places). The rest relates the
table to the three places:

* `PlaceInv`: a tile is on the device from its first fetch until its last task is released, and
  while compute has found it for a task that g2c has not released.
* `CountInv`: the count of a tile is the number of its tasks that c2g has announced minus the
  number that g2c has released.
* `DataInv`: a buffer in the table holds what the tasks behind compute have made of its tile, and
  the host has it as soon as g2c has returned it.
* `BufferInv`, `C2gInv`, `FailInv`: no buffer belongs to two tiles; c2g looks for a buffer only
  for a tile that has none; a failed panel stops compute right behind itself.

The crux is `CountZero`. c2g reads a count without a lock, and a count of 0 could also mean that
as many tasks were released as announced, though not the same ones. It cannot: what is released
compute has found, and compute finds nothing that c2g has not announced; so 0 means that all that
was announced is released, the tile's last task among them (`TakenBehind`). After an abort the
cleanup frees buffers by the same counts while compute and g2c may still be in a task;
`AfterAbort` and `FreedInTime` show that what it frees nobody looks at again. TLC checked this
invariant, for triangles of one to four panels with one to six buffers, before it was proved.

**`Barrier_proof`.** `TypeCorrect`, `CountsHeldHolds`, `NoLostWakeupHolds`, `BarrierRefines`.
The counter equals the number of ranks whose `id` is current, and whoever is still leaving is
exactly one number behind, so two values of `barrier_id` would do. That a leaver is never *more*
than one behind is what makes it inductive: as long as he is inside, the next barrier lacks him.

For the busy-waiting barrier, in the same module: `BwTypeCorrect`, `FlagsFreshHolds`,
`BarrierBwRefines`. The inductive invariant says, for each place of rank 0, which flags may be up on either side of its loop
counter, so that a rank that is already back in the next barrier is not taken for one of this
barrier.

**`Control_proof`.** `SitesMatchHolds`, `RunOnceHolds`, `SectionOverHolds`,
for any number of ranks and of calls. The inductive invariant is a table (`Phase`): for each place of the master,
where each worker can be and what it has read of `action`. The line `action = STAND_BY`, which
the master writes without the mutex, is harmless because the barrier in between keeps every
worker from looking again before it.

**`ContextMap_proof`.** `SelfFindsHolds`, `OneEntryHolds` (a context is in one entry, from
`PLASMA_Init` to `PLASMA_Finalize`), for any threads and slots, until a `PLASMA_Init` meets a
held lock (section 6): the inductive invariant is `UntilClash`. `Home` is the slot of a thread: it holds
its context, no slot before it has the same id. An entry whose owner has left keeps the id, so the invariant
has to say that the search of the *next* owner of that slot cannot meet it.

**The dynamic order, in `PotrfStatic_proof`.** `DynamicFollowsTiles`: the tasks of
`plasma_pdpotrf_quark`, run in any order that respects their data, with any set of dpotrf that
fail and a sequence that is cancelled at any moment after, implement `TileCholesky` for every number of panels. `Sound`:
what runs was preceded by all it depends on, and none of these failed; `Counts`: the tasks done
on a tile are the first ones in their order. The data order alone gives that a task on tile
`(m, n)` follows the earlier tasks on it (`EarlierOnTile`) and the last task on each of its
operands (`OwnOfInput`), and no transitivity is needed.

**`Quark_proof`.** `OnePlaceHolds`, `SleepersKnowHolds`, `SectionCleanHolds` and `OrderedHolds`
(the scheduler implements `TaskOrder`), for at least two threads and any programs that satisfy
`ProgramsAssumption` and `GatherAssumption`; priorities, locality, regions, GATHERV, repeated
arguments, help, stealing and cancellation included. All four come from one inductive invariant,
`Inv` (`InvHolds`), which holds as long as `twice = {}`, that is until the master queues a
cancelled task a second time (section 6). `NoneTwice` says that this never happens in a program
without a task that may fail; there the theorems hold in every state. Its parts:

* `Ctl`: what a thread holds at each place of the code, and what the master and the workers that
  leave have agreed on by then.
* `Stages`: what each status of a task goes with. A task that is not live any more, was skipped
  or was rejected is a member of a cancelled sequence.
* `ReadyPlace`, `MinePlace`, `DonePlace`, `JobPlace`: a task in a ready list, with a thread, among
  the completed tasks, or being processed has the status that belongs there, and is there once
  and nowhere else. `Nowhere`, `Counted`: no queued task is forgotten, and `num_queued_tasks`
  is the number of those that are somewhere.
* `Deps`: the counter of a task is the number of its unready dependencies, and at one address one
  dependency of a task is in force at most. `Covers`: every argument of the program has a
  dependency that still stands for it after the merging of repeated arguments.
* `Lists`: the list of an address holds exactly the dependencies that the insertion has brought
  and processing has not removed.
* `Clear`: a ready dependency conflicts with no earlier one of its list whose task is not over.
* `Sequence`, `Members`: who cancels the sequence, which tasks it still has to reach, and that
  whoever starts a live member after the cancellation began is among these. `Follows`: a member
  about to start comes only after members that are done.
* `SleepersKnow`.

The crux is `Clear`. A dependency becomes ready when it is alone at its address (`DependClear`) or when a
completed task has been removed from the list (`UpdateClear`). The scan that follows passes over
tasks that are over but not yet removed, lets readers and disjoint regions pass each other and
starts gathered writers together; what it releases conflicts with nothing open before it, and
no earlier dependency can come later, since one thread inserts. A task runs when its
counter is 0, so all its dependencies are ready; with `Covers` and `Lists` an earlier conflicting
task is then over or still in a list that `Clear` speaks of (`BeforeOver`). That is the guard of
`Start` in `TaskOrder`. For the rest of the refinement the abstract sequence is "ending" while a
thread is in `QUARK_Sequence_Cancel`: a member that starts after it returned would have to be
live, and `Sequence` says that none is.

The lemmas before the invariant say what each operation changes, once: `QueueIs` (with
`ByPriorityIs`: the ready list is the old tasks and the new ones, each once), `ReadyIs`,
`ReleaseIs`, `DependIs`, `UpdateIs`. TLC checked every part of `Inv` on the programs of the
runs before it was proved.

Where the insertion finds its task freed (finding 4) the model stops; the theorems say that
everything was right until then. After a second queueing only the runs go on.

Only model-checked:

* what the scheduler does after a second queueing, in run `Quark`;
* the liveness properties (`CallReturns`, `Returns`, `SuccessReturns`, `Released`,
  `CallsReturn`, `Ends`): liveness under fairness and ENABLED are beyond the prover;
* `ScanInside` of `StaticTable`: it is false if there are too few buffers, and no document says
  how many are enough;
* `Quantize`, whose statements are about `2^n` and a maximum over sets.

## 5. Observations that are not properties

* The static schedulers print and leave on the upper triangle, and the upper triangle of the
  dynamic one inserts the transposed tasks; only the lower one is modelled.
* In the c2g thread the tile a syrk updates is copied on the compute stream while another stream
  is synchronized (`pdpotrf_gpu_hpcasia24.cpp:2572-2577`), so its pointer may be published
  before the copy has ended. The kernel runs on that same stream, behind the copy, so the copy
  is one step in the model as everywhere else.
* `StaticTable` with `MaxBound = 5` instead of 6 violates `SuccessReturns`: `findSparePtr`
  waits for the count of the next tile in row order, and only of that one (`:2517`); with five
  buffers for ten tiles it is a tile c2g has announced itself for a task that waits for c2g, and
  the three threads wait for ever. No document promises a size that is enough, so this is
  listed as a hazard and not as a finding.
* `current_step` is an `int` shared without synchronization; the model reads it as it is.
* Rank 0 of the pipeline deletes `memoryStatus` before the closing barrier (`:2768`): with one
  rank nobody else looks at it, with several the schedule is wrong before that (finding 2).
* Arguments of a task at one address are merged into the last of them, which keeps its own GATHERV
  flag (`quark.c:1857-1880`). A task that reads a tile and gathers on it would count as a gatherer
  and run beside the other ones, whose results it reads. GATHERV is "assured by the programmer"
  (`quark.c:192`) to be safe, so `GatherAssumption` demands that a task names a tile it gathers on once,
  or alike each time; the proof of `Ordered` needs it (`Covers`).
* With the default options numbers below the smallest normal one become 0
  (`dpotrf_mixed_precision.cpp:313`), an error of up to that number, while the bound allows half
  of it (`:1416`). `BoundHolds` is about gradual underflow. The repository does not say that the
  bound holds without it.

## 6. Findings

Each has a run that TLC finds violated.

1. `StaticTableFails`: on a matrix that is not positive definite the pipeline never returns;
   g2c leaves without releasing the counts c2g waits for.
2. `StaticTableRanks`: with two ranks the pipeline returns success with a wrong factor. A kernel
   waits until its tiles have a device pointer (`pdpotrf_gpu_hpcasia24.cpp:2132`), which says
   that some rank has copied them, not that the other rank's tasks on them are done. The routine
   takes any `PLASMA_SIZE`; "On exit, if return value = 0, the factor U or L from the Cholesky
   factorization" (`dpotrf_hpcasia24.cpp:517`). Three tiles are enough.
3. `DataTableRoot`: "Do not have to sync because the first potrf is done by rank-0"
   (`pdpotrf_gpu_dist.cpp:966`) is right only if rank 0 is the root of its GPU. The root is the
   last rank that a loop over an `unordered_map` meets (`control.cpp:984`). If it is another
   one, the root may overwrite the diagonal that rank 0 has just left there, a trsm then reads
   an uninitialized buffer, and the call reports success. The hypothesis `RootFirst` of the proofs
   is how far the comment holds: rank 0 as root is enough with one GPU, or with one rank on each.
   With several ranks on each of several GPUs no choice of roots is enough, because the panel that
   comes first on another GPU may be that of a rank which is not its root.
4. `QuarkFreed`: the master looks at the task it inserts once more after the dependencies of
   that task are recorded (`quark.c:1225`), when it may have run on another thread and been
   freed by thread 1, which helps with completed tasks. The run has the help begin at one
   completed task instead of 21; with 21 tasks completed in the meantime it is the same.

Seen with other values of the constants or other invariants, which no run has:

* `PLASMA_Init` initializes the lock of the context table again (`context.c:47`), also while another
  thread holds it; then two overlapping calls take the same entry, and one of the threads does not
  find its context. `Found` as the invariant of run `ContextMap` is violated after 14 states.
  `SelfFinds` is `Found` until that happens.
* `quark_check_and_queue_ready_task` returns at once for a task that is queued, running or done, not
  for one that is cancelled (`quark.c:1484`). If the sequence is cancelled, and thread 1 has released
  the task while it is inserted, a worker may have taken and skipped it when the master looks at it
  last (`:1226`): the task is queued a second time while the worker still has it. It never runs, but
  `num_queued_tasks` stays one too high for good, so that no worker sleeps any more, and when the
  first copy is processed the second one is left in a ready list with the task freed. The
  documentation of the function has only tasks of several threads in more than one list (`:1466`).
  `OneQueue` as an invariant of run `Quark` is violated after 34 states (program `Skips`).
  `OnePlace` and `SectionClean` say what is left of the claim then.
* With a bound below two tiles per rank (`free |-> 3` in `OneGpu`) `SuccessMeansFactor` of
  `DataTable` fails: the call raises the abort flag, does nothing and reports success
  (`pdpotrf_gpu_hpcasia24.cpp:534`).
* With several ranks on one of several GPUs the bound is tested against three tiles per GPU,
  whatever the number of ranks (`pdpotrf_gpu_dist.cpp:974`). A table of three entries is accepted
  (`Spread(SIZE, 3)`), and with seven panels and five ranks three gemms have pinned an entry each
  when one of them looks for its second with the mutex held: `Returns` of `DataTable` fails.
  The states are beyond a run; simulation finds them at once.
* With five ranks, three to a GPU (`Spread(3, 12)`), and four panels `SuccessMeansFactor` of
  `DataTable` fails although every GPU has its first rank as root: if rank 4 factors panel 1
  before rank 3 has allocated the diagonal of their GPU, the swap
  (`pdpotrf_gpu_dist.cpp:1054`) leaves it a null pointer as destination, its last tile is never written, and the
  status is success. Simulation finds it when the root is held back.
* Without a scale, `quantizeFp` takes the largest exponent for that of infinity
  (`dpotrf_mixed_precision.cpp:332`), as in E5M2. In E4M3 it is an ordinary one: 256 and 376 both
  become 448, where the comment in `requantizeTileHost` says "just clamp/round each element"
  (`:2142`). `Rounds` leaves that exponent of plain tiles out.
* Two comments of `quark.c` do not describe the code: arguments are not kept "in order of
  address" (`:1151`; each goes behind the last one with a greater address, so equal and greater
  ones keep an order of their own), and the manual-scheduling flag is not changed only by the
  master (`:1555`), since tasks are queued by every thread that processes completed ones.

## 7. Not modelled, and what is left

The table in `PROJECT.json` gives the reason for each component. The map covers a small share of
the repository by lines: most of its files are PLASMA's kernels, wrappers and routines in four
precisions, vendored sources, and CUDA code without control of its own. What the modules cover
is the control of the factorization and of what it runs on.

* *Other caching variants.* `all_managed` and `no_free` keep destinations in the table as well,
  with a bound of three entries per rank. Two ranks have six entries then, which is as many as
  there are tiles for three panels; with four panels the state space of one such machine is
  several times that of the whole `DataTable` run. `async_copy` is the code of
  `pdpotrf_gpu.c` with a synchronization and a logged time for each copy, which `PotrfStatic`
  has as steps anyway; `reuse_data` keeps a tile on the device for all of its tasks, and a
  private copy of the last diagonal.
* *Several GPUs.* `A_AFFINITY` decides only where a copy comes from; the other caching variants
  over several GPUs are as on one.
* *QUARK.* Accumulators, tasks locked to a thread or a mask of threads, manual scheduling, tasks
  of several threads, the copies that avoid write-after-read dependencies,
  `QUARK_Execute_Task`, `QUARK_Sequence_Wait` and `_Destroy`: no routine modelled here uses
  them. Multi-threaded tasks are what the LU panels need.
* *Mixed precision.* The schedule with its cache of converted tiles, and the choice of a format
  from norms; the device kernels.
* *Proofs.* `Quantize`; how many buffers `ScanInside` of `StaticTable` needs. Liveness.

## 8. Running

    tlc -workers 2 -config PotrfStatic.cfg PotrfStatic
    tlc -workers 2 -config DataTable.cfg DataTableMC
    tlc -workers 2 -config QuarkMC.cfg QuarkMC
    tlapm PotrfStatic_proof.tla
    tlapm DataTable_proof.tla
    tlapm Quark_proof.tla

The largest runs, `DataTable` and `Quark`, take two to three minutes; of the proofs only those of `DataTable`,
`StaticTable` and `Quark` take more than a few seconds.
