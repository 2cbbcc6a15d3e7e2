--------------------------- MODULE DataTable_proof ---------------------------
(***************************************************************************)
(* DataTable for every number of tiles, ranks and table entries, and every *)
(* way to spread the ranks over GPUs.                                      *)
(*                                                                         *)
(* IInv: lookupTable gives a buffer to another tile only when its          *)
(* use_count is 1, and that is enough for a rank to keep the tile it       *)
(* points to, although it holds no lock.                                   *)
(*                                                                         *)
(* RInv: what is in the buffers.  A tile has one rank that works on it,    *)
(* and the version it is at is where that rank says; an entry whose flag   *)
(* is up holds the finished tile; a diagonal is swapped out only when its  *)
(* panel is drained.  It gives the inputs of the kernels and the           *)
(* refinement of TileCholesky.  It needs RootFirst: the rank that installs *)
(* a GPU's diagonal is the one whose tile comes there first (without it    *)
(* run DataTableRoot shows what happens).                                  *)
(*                                                                         *)
(* SInv: what status, abort flag and host memory say together when a call  *)
(* is over.  Room says that the bound test of the call succeeds; with less *)
(* the call raises the abort flag and returns success with the matrix      *)
(* untouched.                                                              *)
(***************************************************************************)
EXTENDS DataTable, Triangle_proof, FiniteSetTheorems, TLAPS

Pointers == [Ranks -> Nat \cup {None}]

\* A map of the data table.
IsMap(map) == /\ map = [t \in DOMAIN map |-> map[t]]
              /\ \A t \in DOMAIN map : map[t] \in [buf : Nat, landed : BOOLEAN]

Types ==
  /\ machine \in Machines
  /\ pc = [r \in Ranks |-> pc[r]]
  /\ pos = [r \in Ranks |-> pos[r]]
  /\ local \in Pointers /\ diagRef \in Pointers
  /\ ref1 \in Pointers /\ ref2 \in Pointers
  /\ diagonal \in [Devices -> Nat \cup {None}]
  /\ table = [d \in Devices |-> table[d]]
  /\ \A d \in Devices : IsMap(table[d])

\* Where a rank has no operand, and where it has only the first one.
Bare    == {"enter", "init_bar", "bound", "top", "load", "wait1", "diag", "idx",
            "lock1", "look1", "fini_bar", "free", "done"}
OneHeld == {"wait2", "lock2", "look2", "load1"}

Held(r) ==
  /\ pc[r] \in {"wait2", "lock2", "look2", "load2"} => IsGemm(pos[r])
  /\ pc[r] \in Bare => ref1[r] = None
  /\ pc[r] \in Bare \cup OneHeld => ref2[r] = None
  /\ pc[r] = "load1" => ref1[r] # None

Pinned(map, key, b) == key \in DOMAIN map /\ map[key].buf = b

\* The operands of r that the table must keep.
Keeps(r) ==
  /\ ref1[r] # None => Pinned(table[On(r)], Key1(r), ref1[r])
  /\ ref2[r] # None => Pinned(table[On(r)], Key2(r), ref2[r])
  /\ pc[r] = "landed" /\ IsTrsm(pos[r]) => Pinned(table[On(r)], Key1(r), diagRef[r])

\* A rank that is past the closing barrier is not alone there.
Closing == (\E r \in Ranks : pc[r] \in {"free", "done"}) =>
             \A r \in Ranks : pc[r] \in {"free", "done"}

IInv == /\ Types
        /\ Closing
        /\ \A r \in Ranks : Held(r) /\ Keeps(r)
-----------------------------------------------------------------------------
LEMMA DeviceOf == ASSUME Types, NEW r \in Ranks PROVE On(r) \in Devices
<1> DEFINE n == machine.perDevice
<1>1. n \in Nat \ {0}
  BY MachinesAssumption DEF Types
<1>2. r \in Nat /\ SIZE \in Nat /\ r < SIZE
  BY SizeAssumption DEF Ranks
<1>3. r \div n \in 0 .. r
  BY <1>1, <1>2, Z3
<1> QED
  BY <1>2, <1>3 DEF On, Devices, Ranks

\* The number of ranks, or of GPUs, that have something.
LEMMA Counted ==
  ASSUME NEW s \in SUBSET Ranks
  PROVE  Cardinality(s) \in Nat /\ (Cardinality(s) = 0 => s = {})
<1>1. IsFiniteSet(Ranks)
  BY SizeAssumption, FS_Interval DEF Ranks
<1> QED
  BY <1>1, FS_Subset, FS_CardinalityType, FS_EmptySet

\* The use_count of an entry is 1 only if no rank points to its buffer.
LEMMA StealableUnused ==
  ASSUME Types, NEW d \in Devices, NEW t \in DOMAIN table[d],
         Stealable(table[d][t].buf), NEW r \in Ranks
  PROVE  /\ ref1[r] # table[d][t].buf
         /\ ref2[r] # table[d][t].buf
         /\ diagRef[r] # table[d][t].buf
<1> DEFINE b == table[d][t].buf
           At(f) == {x \in DOMAIN f : f[x] = b}
           In == {e \in Devices : \E u \in DOMAIN table[e] : table[e][u].buf = b}
<1>1. b \in Nat /\ b # None
  BY DEF Types, IsMap, None
<1>2. Cardinality(At(local)) + Cardinality(At(diagRef)) + Cardinality(At(ref1))
        + Cardinality(At(ref2)) + Cardinality(At(diagonal)) + Cardinality(In) = 1
  BY <1>1 DEF Stealable, UseCount
<1>3. /\ At(local) \in SUBSET Ranks /\ At(diagRef) \in SUBSET Ranks
      /\ At(ref1) \in SUBSET Ranks /\ At(ref2) \in SUBSET Ranks
      /\ At(diagonal) \in SUBSET Ranks /\ In \in SUBSET Ranks
  BY DEF Types, Pointers, Devices
<1>4. d \in In
  OBVIOUS
<1>5. Cardinality(In) \in Nat /\ Cardinality(In) # 0
  BY <1>3, <1>4, Counted
<1>6. /\ Cardinality(At(local)) \in Nat /\ Cardinality(At(diagRef)) \in Nat
      /\ Cardinality(At(ref1)) \in Nat /\ Cardinality(At(ref2)) \in Nat
      /\ Cardinality(At(diagonal)) \in Nat
  BY <1>3, Counted
<1> HIDE DEF At, In
<1>7. Cardinality(At(diagRef)) = 0 /\ Cardinality(At(ref1)) = 0
        /\ Cardinality(At(ref2)) = 0
  BY <1>2, <1>5, <1>6
<1>8. At(diagRef) = {} /\ At(ref1) = {} /\ At(ref2) = {}
  BY <1>3, <1>7, Counted
<1> QED
  BY <1>8 DEF At, Types, Pointers

\* lookupTable leaves every entry that a rank points to, and finds its key.
LEMMA LookupKeeps ==
  ASSUME Types, NEW d \in Devices, NEW key, NEW b \in TableBuffers,
         NEW exist \in BOOLEAN, Lookup(d, key, b, exist)
  PROVE  /\ table' = [e \in Devices |-> table'[e]]
         /\ \A e \in Devices : IsMap(table'[e])
         /\ Pinned(table'[d], key, b)
         /\ \A e \in Devices : \A k, x :
              Pinned(table[e], k, x) /\ ~Stealable(x) => Pinned(table'[e], k, x)
<1> DEFINE map == table[d]
           Insert(keys) ==
             table' = [table EXCEPT ![d] =
                         [t \in keys \cup {key} |->
                            IF t = key THEN [buf |-> b, landed |-> FALSE]
                                       ELSE map[t]]]
<1>0. b \in Nat
  BY SizeAssumption DEF TableBuffers
<1>1. IsMap(map) /\ d \in DOMAIN table
  BY DEF Types
<1>2. CASE exist
  <2>1. UNCHANGED table /\ key \in DOMAIN map /\ b = map[key].buf
    BY <1>2 DEF Lookup
  <2> QED
    BY <2>1 DEF Types, Pinned
<1>3. ASSUME NEW keys \in SUBSET DOMAIN map, Insert(keys), key \notin DOMAIN map,
             \A t \in DOMAIN map \ keys : Stealable(map[t].buf)
      PROVE  /\ table' = [e \in Devices |-> table'[e]]
             /\ \A e \in Devices : IsMap(table'[e])
             /\ Pinned(table'[d], key, b)
             /\ \A e \in Devices : \A k, x :
                  Pinned(table[e], k, x) /\ ~Stealable(x) => Pinned(table'[e], k, x)
  <2>1. table'[d] = [t \in keys \cup {key} |->
                       IF t = key THEN [buf |-> b, landed |-> FALSE] ELSE map[t]]
    BY <1>1, <1>3
  <2>2. table' = [e \in Devices |-> table'[e]]
    BY <1>3 DEF Types
  <2>3. ASSUME NEW e \in Devices, e # d PROVE table'[e] = table[e]
    BY <1>3, <2>3 DEF Types
  <2>4. IsMap(table'[d])
    BY <1>0, <1>1, <2>1 DEF IsMap
  <2>5. Pinned(table'[d], key, b)
    BY <2>1 DEF Pinned
  <2>6. ASSUME NEW k, NEW x, Pinned(map, k, x), ~Stealable(x)
        PROVE  Pinned(table'[d], k, x)
    BY <1>3, <2>1, <2>6 DEF Pinned
  <2> QED
    BY <2>2, <2>3, <2>4, <2>5, <2>6 DEF Types
<1>4. CASE ~exist
  <2>1. key \notin DOMAIN map
    BY <1>4 DEF Lookup
  <2>2. CASE Insert(DOMAIN map)
    BY <1>3, <2>1, <2>2
  <2>3. CASE \E old \in DOMAIN map : /\ map[old].buf = b /\ Stealable(b)
                                     /\ Insert(DOMAIN map \ {old})
    <3>1. PICK old \in DOMAIN map : /\ map[old].buf = b /\ Stealable(b)
                                    /\ Insert(DOMAIN map \ {old})
      BY <2>3
    <3>2. \A t \in DOMAIN map \ (DOMAIN map \ {old}) : Stealable(map[t].buf)
      BY <3>1
    <3> HIDE DEF Insert
    <3> QED
      BY <1>3, <2>1, <3>1, <3>2
  <2> QED
    BY <1>4, <2>2, <2>3 DEF Lookup
<1> QED
  BY <1>2, <1>4

\* What rank q points to cannot be taken from it by a lookup of another rank.
LEMMA OperandsKept ==
  ASSUME IInv, NEW d \in Devices, NEW key, NEW b \in TableBuffers,
         NEW exist \in BOOLEAN, Lookup(d, key, b, exist), NEW q \in Ranks
  PROVE  /\ ref1[q] # None => Pinned(table'[On(q)], Key1(q), ref1[q])
         /\ ref2[q] # None => Pinned(table'[On(q)], Key2(q), ref2[q])
         /\ pc[q] = "landed" /\ IsTrsm(pos[q])
              => Pinned(table'[On(q)], Key1(q), diagRef[q])
<1>0. Types /\ On(q) \in Devices
  BY DeviceOf DEF IInv
<1>1. ASSUME NEW k, NEW x, Pinned(table[On(q)], k, x),
             x \in {ref1[q], ref2[q], diagRef[q]}
      PROVE  Pinned(table'[On(q)], k, x)
  <2>1. ~Stealable(x)
    BY <1>0, <1>1, StealableUnused DEF Pinned
  <2> QED
    BY <1>0, <1>1, <2>1, LookupKeeps
<1> QED
  BY <1>1 DEF IInv, Keeps
-----------------------------------------------------------------------------
LEMMA Initial == Init => IInv
<1> SUFFICES ASSUME Init PROVE IInv
  OBVIOUS
<1>1. Types
  <2>1. local \in Pointers /\ diagRef \in Pointers /\ ref1 \in Pointers
          /\ ref2 \in Pointers
    BY SizeAssumption DEF Init, Pointers, Ranks
  <2>2. \A d \in Devices : IsMap(table[d])
    BY DEF Init, IsMap
  <2> QED
    BY <2>1, <2>2 DEF Init, Types
<1>2. Closing /\ \A r \in Ranks : Held(r) /\ Keeps(r)
  BY DEF Init, Closing, Held, Keeps, Bare, OneHeld
<1> QED
  BY <1>1, <1>2 DEF IInv

\* What a step of rank r must show.
LEMMA Combine ==
  ASSUME IInv, NEW r \in Ranks, NEW l, Goto(r, l),
         pc[r] \notin {"free", "done"}, l \notin {"free", "done"},
         Types', machine' = machine, Held(r)', Keeps(r)',
         \A q \in Ranks \ {r} :
           /\ pos'[q] = pos[q] /\ ref1'[q] = ref1[q] /\ ref2'[q] = ref2[q]
           /\ diagRef'[q] = diagRef[q]
           /\ Keeps(q)'
  PROVE  IInv'
<1>1. \A q \in Ranks : pc'[q] = IF q = r THEN l ELSE pc[q]
  BY DEF IInv, Types, Goto
<1>2. Closing'
  BY <1>1 DEF IInv, Closing
<1>3. \A q \in Ranks \ {r} : Held(q)'
  BY <1>1 DEF IInv, Held
<1> QED
  BY <1>2, <1>3 DEF IInv

\* Steps that leave the table and all operands alone.
LEMMA QuietStep ==
  ASSUME IInv, NEW r \in Ranks, NEW l, Goto(r, l),
         pc[r] \notin {"free", "done"}, l \notin {"free", "done", "load1"},
         l \in Bare => pc[r] \in Bare,
         l \in OneHeld => pc[r] \in OneHeld,
         l \in {"wait2", "lock2", "look2", "load2"} =>
           pc[r] \in {"wait2", "lock2", "look2", "load2"},
         l # "landed",
         local' \in Pointers, diagonal' \in [Devices -> Nat \cup {None}],
         UNCHANGED <<pos, diagRef, ref1, ref2, table, machine>>
  PROVE  IInv'
<1>1. \A q \in Ranks : pc'[q] = IF q = r THEN l ELSE pc[q]
  BY DEF IInv, Types, Goto
<1>2. Types'
  BY DEF IInv, Types, Goto
<1>3. Held(r)'
  BY <1>1 DEF IInv, Held, Bare, OneHeld
<1>4. \A q \in Ranks : Keeps(q)'
  BY <1>1 DEF IInv, Keeps, On, Key1, Key2
<1> QED
  BY <1>2, <1>3, <1>4, Combine

LEMMA QuietSteps ==
  ASSUME IInv, NEW r \in Ranks,
         \/ Enter(r) \/ SetBound(r) \/ SetBoundDist(r) \/ Top(r) \/ LoadTile(r)
         \/ CheckDiagonal(r) \/ Lock1(r) \/ Lock2(r) \/ Landed(r) \/ Kernel(r)
         \/ StoreTile(r) \/ SwapDiagonal(r) \/ SetIndex(r) \/ Drain(r)
         \/ RequestFail(r) \/ SsAbort(r) \/ Publish(r)
  PROVE  IInv'
<1> USE DEF Bare, OneHeld
<1>0. local \in Pointers /\ diagonal \in [Devices -> Nat \cup {None}]
        /\ On(r) \in Devices
  BY DeviceOf DEF IInv, Types
<1>1. CASE Enter(r)
  BY <1>0, <1>1, QuietStep DEF Enter, sched
<1>2. CASE SetBound(r) \/ SetBoundDist(r)
  <2>1. SIZE + On(r) \in Nat
    BY <1>0, SizeAssumption DEF Devices, Ranks
  <2>2. pc[r] = "bound" /\ Goto(r, "top") /\ local' = local
    BY <1>2 DEF SetBound, SetBoundDist, Install
  <2>3. diagonal' \in [Devices -> Nat \cup {None}]
    BY <1>0, <1>2, <2>1 DEF SetBound, SetBoundDist, Install
  <2>4. UNCHANGED <<pos, diagRef, ref1, ref2, table, machine>>
    BY <1>2 DEF SetBound, SetBoundDist, Install
  <2> QED
    BY <1>0, <2>2, <2>3, <2>4, QuietStep
<1>3. CASE Top(r)
  <2>1. PICK l \in {"load", "kernel", "wait1", "fini_bar"} : Goto(r, l)
    BY <1>3 DEF Top, AfterTop
  <2> QED
    BY <1>0, <1>3, <2>1, QuietStep DEF Top, sched, tableVars
<1>4. CASE LoadTile(r)
  <2>1. PICK l \in {"kernel", "wait1"} : Goto(r, l)
    BY <1>4 DEF LoadTile
  <2> QED
    BY <1>0, <1>4, <2>1, QuietStep DEF LoadTile, sched, tableVars
<1>5. CASE CheckDiagonal(r)
  <2>1. PICK l \in {"lock1", "kernel"} : Goto(r, l)
    BY <1>5 DEF CheckDiagonal
  <2> QED
    BY <1>0, <1>5, <2>1, QuietStep DEF CheckDiagonal, sched, tableVars
<1>6. CASE Lock1(r)
  BY <1>0, <1>6, QuietStep DEF Lock1, Acquire, sched
<1>7. CASE Lock2(r)
  BY <1>0, <1>7, QuietStep DEF Lock2, Acquire, sched
<1>8. CASE Landed(r)
  BY <1>0, <1>8, QuietStep DEF Landed, sched, tableVars
<1>9. CASE Kernel(r)
  <2>1. PICK l \in {"store", "next"} : Goto(r, l)
    BY <1>9 DEF Kernel
  <2> QED
    BY <1>0, <1>9, <2>1, QuietStep DEF Kernel, sched, tableVars
<1>10. CASE StoreTile(r)
  <2>1. PICK l \in {"swap", "publish"} : Goto(r, l)
    BY <1>10 DEF StoreTile
  <2> QED
    BY <1>0, <1>10, <2>1, QuietStep DEF StoreTile, sched, tableVars
<1>11. CASE SwapDiagonal(r)
  <2>1. /\ local' \in Pointers
        /\ diagonal' \in [Devices -> Nat \cup {None}]
    BY <1>0, <1>11 DEF SwapDiagonal, Pointers
  <2> QED
    BY <1>11, <2>1, QuietStep DEF SwapDiagonal, sched
<1>12. CASE SetIndex(r)
  BY <1>0, <1>12, QuietStep DEF SetIndex, sched
<1>13. CASE Drain(r)
  <2>1. PICK l \in {"fail", "publish"} : Goto(r, l)
    BY <1>13 DEF Drain
  <2> QED
    BY <1>0, <1>13, <2>1, QuietStep DEF Drain, sched, tableVars
<1>14. CASE RequestFail(r)
  BY <1>0, <1>14, QuietStep DEF RequestFail, tableVars
<1>15. CASE SsAbort(r)
  BY <1>0, <1>15, QuietStep DEF SsAbort, tableVars
<1>16. CASE Publish(r)
  BY <1>0, <1>16, QuietStep DEF Publish, tableVars
<1> QED
  BY <1>1, <1>2, <1>3, <1>4, <1>5, <1>6, <1>7, <1>8, <1>9, <1>10, <1>11, <1>12,
     <1>13, <1>14, <1>15, <1>16

\* A rank that waits leaves when the abort flag is up, and drops its operand.
LEMMA WaitStep ==
  ASSUME IInv, NEW r \in Ranks, Wait1(r) \/ Wait2(r)
  PROVE  IInv'
<1>1. UNCHANGED <<pos, local, diagRef, ref2, table, diagonal, machine>>
  BY DEF Wait1, Wait2, WaitOperand, sched, tableVars
<1>2. PICK l \in {"fini_bar", "diag", "lock1", "lock2"} :
        /\ Goto(r, l)
        /\ l \in {"diag", "lock1"} => pc[r] = "wait1"
        /\ l = "lock2" => pc[r] = "wait2"
        /\ ref1' = IF l = "fini_bar" THEN [ref1 EXCEPT ![r] = None] ELSE ref1
  BY DEF Wait1, Wait2, WaitOperand
<1>3. pc[r] \in {"wait1", "wait2"}
  BY DEF Wait1, Wait2, WaitOperand
<1>4. pc'[r] = l
  BY <1>2 DEF IInv, Types, Goto
<1>5. ref1' \in Pointers /\ (l = "fini_bar" => ref1'[r] = None)
        /\ (l # "fini_bar" => ref1' = ref1)
        /\ \A q \in Ranks \ {r} : ref1'[q] = ref1[q]
  BY <1>2 DEF IInv, Types, Pointers
<1>6. Types'
  BY <1>1, <1>2, <1>5 DEF IInv, Types, Goto
<1>7. Held(r)'
  BY <1>1, <1>2, <1>3, <1>4, <1>5 DEF IInv, Held, Bare, OneHeld
<1>8. \A q \in Ranks : Keeps(q)'
  <2> TAKE q \in Ranks
  <2>1. pc'[q] = "landed" => pc[q] = "landed"
    BY <1>2, <1>4 DEF IInv, Types, Goto
  <2>2. ref1'[q] # None => ref1'[q] = ref1[q]
    BY <1>5
  <2> QED
    BY <1>1, <2>1, <2>2 DEF IInv, Keeps, On, Key1, Key2
<1> QED
  BY <1>1, <1>2, <1>3, <1>5, <1>6, <1>7, <1>8, Combine

LEMMA TakeDiagonalStep ==
  ASSUME IInv, NEW r \in Ranks, TakeDiagonal(r)
  PROVE  IInv'
<1>1. /\ UNCHANGED <<pos, local, ref1, ref2, table, diagonal, machine>>
      /\ pc[r] = "diag" /\ Goto(r, "idx")
      /\ diagRef' = [diagRef EXCEPT ![r] = diagonal[On(r)]]
  BY DEF TakeDiagonal, sched, tableVars
<1>2. pc' = [pc EXCEPT ![r] = "idx"] /\ pc'[r] = "idx"
  BY <1>1 DEF IInv, Types, Goto
<1>3. diagRef' \in Pointers /\ \A q \in Ranks \ {r} : diagRef'[q] = diagRef[q]
  BY <1>1, DeviceOf DEF IInv, Types, Pointers
<1>4. Types'
  BY <1>1, <1>3 DEF IInv, Types, Goto
<1>5. Held(r)'
  BY <1>1, <1>2 DEF IInv, Held, Bare, OneHeld
<1>6. \A q \in Ranks : Keeps(q)'
  BY <1>1, <1>2, <1>3 DEF IInv, Types, Keeps, On, Key1, Key2
<1> QED
  BY <1>1, <1>3, <1>4, <1>5, <1>6, Combine

\* The end of the loop body: no operand is left when the position changes.
LEMMA NextStepStep ==
  ASSUME IInv, NEW r \in Ranks, NextStep(r)
  PROVE  IInv'
<1>1. /\ UNCHANGED <<local, table, diagonal, machine>>
      /\ pc[r] = "next" /\ Goto(r, "top")
  BY DEF NextStep, sched, tableVars
<1>2. pc'[r] = "top" /\ \A q \in Ranks \ {r} : pc'[q] = pc[q]
  BY <1>1 DEF IInv, Types, Goto
<1>3. /\ diagRef' \in Pointers /\ ref1' \in Pointers /\ ref2' \in Pointers
      /\ ref1'[r] = None /\ ref2'[r] = None
      /\ pos' = [q \in Ranks |-> pos'[q]]
      /\ \A q \in Ranks \ {r} : /\ pos'[q] = pos[q] /\ diagRef'[q] = diagRef[q]
                                /\ ref1'[q] = ref1[q] /\ ref2'[q] = ref2[q]
  BY DEF NextStep, IInv, Types, Pointers
<1>4. Types'
  BY <1>1, <1>3 DEF IInv, Types, Goto
<1>5. Held(r)' /\ Keeps(r)'
  BY <1>2, <1>3 DEF Held, Keeps, Bare, OneHeld
<1>6. \A q \in Ranks \ {r} : Keeps(q)'
  BY <1>1, <1>2, <1>3 DEF IInv, Keeps, On, Key1, Key2
<1> QED
  BY <1>1, <1>3, <1>4, <1>5, <1>6, Combine
-----------------------------------------------------------------------------
\* A lookup by rank r: its own operand is the entry found or made, and nobody
\* else loses an operand.
LEMMA LookStep ==
  ASSUME IInv, NEW r \in Ranks, Look1(r) \/ Look2(r)
  PROVE  IInv'
<1>0. Types /\ On(r) \in Devices
  BY DeviceOf DEF IInv
<1>1. UNCHANGED <<pos, local, diagonal, machine>>
  BY DEF Look1, Look2, sched
<1>2. CASE Look1(r)
  <2>1. PICK b \in TableBuffers, exist \in BOOLEAN :
          /\ Lookup(On(r), Key1(r), b, exist)
          /\ IF exist /\ IsTrsm(pos[r])
             THEN diagRef' = [diagRef EXCEPT ![r] = b] /\ UNCHANGED ref1
             ELSE ref1' = [ref1 EXCEPT ![r] = b] /\ UNCHANGED diagRef
          /\ Goto(r, IF exist THEN AfterFirst(pos[r]) ELSE "load1")
    BY <1>2 DEF Look1
  <2>2. pc[r] = "look1" /\ ref2' = ref2 /\ ref1[r] = None /\ ref2[r] = None
    BY <1>2 DEF Look1, IInv, Held, Bare
  <2>3. b \in Nat /\ b # None
    BY SizeAssumption DEF TableBuffers, None
  <2>4. PICK l \in {"wait2", "landed", "load1"} :
          /\ Goto(r, l)
          /\ l = "wait2" => exist /\ IsGemm(pos[r])
          /\ l = "load1" => ~exist
          /\ l = "landed" => exist
    BY <2>1 DEF AfterFirst
  <2>5. pc'[r] = l /\ \A q \in Ranks \ {r} : pc'[q] = pc[q]
    BY <2>4 DEF IInv, Types, Goto
  <2>6. /\ diagRef' \in Pointers /\ ref1' \in Pointers
        /\ \A q \in Ranks \ {r} : diagRef'[q] = diagRef[q] /\ ref1'[q] = ref1[q]
        /\ ref1'[r] # None => ref1'[r] = b
        /\ IF exist /\ IsTrsm(pos[r]) THEN diagRef'[r] = b ELSE ref1'[r] = b
    BY <2>1, <2>2, <2>3 DEF IInv, Types, Pointers
  <2>7. Types'
    <3>1. /\ table' = [e \in Devices |-> table'[e]]
          /\ \A e \in Devices : IsMap(table'[e])
      BY <1>0, <2>1, LookupKeeps
    <3> QED
      BY <1>0, <1>1, <2>2, <2>4, <2>6, <3>1 DEF Types, Goto
  <2>8. Held(r)'
    BY <1>1, <2>2, <2>3, <2>4, <2>5, <2>6 DEF Held, Bare, OneHeld, IsGemm, IsTrsm
  <2>9. Keeps(r)'
    <3>1. Pinned(table'[On(r)], Key1(r), b)
      BY <1>0, <2>1, LookupKeeps
    <3>2. l = "landed" /\ IsTrsm(pos[r]) => diagRef'[r] = b
      BY <2>4, <2>6
    <3> QED
      BY <1>1, <2>2, <2>5, <2>6, <3>1, <3>2 DEF Keeps, On, Key1, Key2
  <2>10. \A q \in Ranks \ {r} : Keeps(q)'
    BY <1>0, <1>1, <2>1, <2>2, <2>5, <2>6, OperandsKept DEF Keeps, On, Key1, Key2
  <2> QED
    BY <1>1, <2>2, <2>4, <2>6, <2>7, <2>8, <2>9, <2>10, Combine
<1>3. CASE Look2(r)
  <2>1. PICK b \in TableBuffers, exist \in BOOLEAN :
          /\ Lookup(On(r), Key2(r), b, exist)
          /\ ref2' = [ref2 EXCEPT ![r] = b]
          /\ Goto(r, IF exist THEN "landed" ELSE "load2")
    BY <1>3 DEF Look2
  <2>2. pc[r] = "look2" /\ UNCHANGED <<ref1, diagRef>> /\ IsGemm(pos[r])
    BY <1>3 DEF Look2, IInv, Held
  <2>3. b \in Nat /\ b # None
    BY SizeAssumption DEF TableBuffers, None
  <2>4. PICK l \in {"landed", "load2"} : Goto(r, l)
    BY <2>1
  <2>5. pc'[r] = l /\ \A q \in Ranks \ {r} : pc'[q] = pc[q]
    BY <2>4 DEF IInv, Types, Goto
  <2>6. ref2' \in Pointers /\ ref2'[r] = b
          /\ \A q \in Ranks \ {r} : ref2'[q] = ref2[q]
    BY <2>1, <2>3 DEF IInv, Types, Pointers
  <2>7. Types'
    <3>1. /\ table' = [e \in Devices |-> table'[e]]
          /\ \A e \in Devices : IsMap(table'[e])
      BY <1>0, <2>1, LookupKeeps
    <3> QED
      BY <1>0, <1>1, <2>2, <2>4, <2>6, <3>1 DEF Types, Goto
  <2>8. Held(r)'
    BY <1>1, <2>2, <2>4, <2>5 DEF Held, Bare, OneHeld
  <2>9. Keeps(r)'
    <3>1. Pinned(table'[On(r)], Key2(r), b)
      BY <1>0, <2>1, LookupKeeps
    <3>2. ref1[r] # None => Pinned(table'[On(r)], Key1(r), ref1[r])
      BY <1>0, <2>1, OperandsKept
    <3> QED
      BY <1>1, <2>2, <2>6, <3>1, <3>2
      DEF Keeps, On, Key1, Key2, IsGemm, IsTrsm
  <2>10. \A q \in Ranks \ {r} : Keeps(q)'
    BY <1>0, <1>1, <2>1, <2>2, <2>5, <2>6, OperandsKept DEF Keeps, On, Key1, Key2
  <2> QED
    BY <1>1, <2>2, <2>4, <2>6, <2>7, <2>8, <2>9, <2>10, Combine
<1> QED
  BY <1>2, <1>3

\* A tile that lands changes its flag only.
LEMMA FetchKeeps ==
  ASSUME Types, NEW d \in Devices, NEW b, NEW key, Fetch(d, b, key)
  PROVE  /\ table' = [e \in Devices |-> table'[e]]
         /\ \A e \in Devices : IsMap(table'[e])
         /\ \A e \in Devices : \A k, x :
              Pinned(table[e], k, x) => Pinned(table'[e], k, x)
<1>1. table' = [table EXCEPT ![d][key].landed = TRUE]
  BY DEF Fetch
<1>2. IsMap(table[d]) /\ d \in DOMAIN table
  BY DEF Types
<1>3. \A e \in Devices \ {d} : table'[e] = table[e]
  BY <1>1 DEF Types
<1>4. table'[d] = [table[d] EXCEPT ![key] = [@ EXCEPT !.landed = TRUE]]
  BY <1>1, <1>2
<1>5. IsMap(table'[d])
  <2>1. DOMAIN table'[d] = DOMAIN table[d]
    BY <1>4
  <2>2. ASSUME NEW t \in DOMAIN table[d]
        PROVE  table'[d][t] \in [buf : Nat, landed : BOOLEAN]
    <3>1. table[d][t] \in [buf : Nat, landed : BOOLEAN]
      BY <1>2 DEF IsMap
    <3>2. table'[d][t] = IF t = key THEN [table[d][t] EXCEPT !.landed = TRUE]
                                    ELSE table[d][t]
      BY <1>2, <1>4 DEF IsMap
    <3> QED
      BY <3>1, <3>2
  <2>3. table'[d] = [t \in DOMAIN table'[d] |-> table'[d][t]]
    BY <1>2, <1>4 DEF IsMap
  <2> QED
    BY <2>1, <2>2, <2>3 DEF IsMap
<1>6. \A k, x : Pinned(table[d], k, x) => Pinned(table'[d], k, x)
  BY <1>2, <1>4 DEF IsMap, Pinned
<1>7. table' = [e \in Devices |-> table'[e]]
  BY <1>1 DEF Types
<1> QED
  BY <1>3, <1>5, <1>6, <1>7 DEF Types

LEMMA LoadStep ==
  ASSUME IInv, NEW r \in Ranks, Load1(r) \/ Load2(r)
  PROVE  IInv'
<1>0. Types /\ On(r) \in Devices
  BY DeviceOf DEF IInv
<1>1. UNCHANGED <<pos, local, ref2, diagonal, machine>>
  BY DEF Load1, Load2, sched
<1>2. /\ table' = [e \in Devices |-> table'[e]]
      /\ \A e \in Devices : IsMap(table'[e])
      /\ \A e \in Devices : \A k, x :
           Pinned(table[e], k, x) => Pinned(table'[e], k, x)
  <2>1. CASE Load1(r)
    BY <1>0, <2>1, FetchKeeps DEF Load1
  <2>2. CASE Load2(r)
    BY <1>0, <2>2, FetchKeeps DEF Load2
  <2> QED
    BY <2>1, <2>2
<1>3. CASE Load1(r)
  <2>1. pc[r] = "load1" /\ ref1[r] # None /\ ref2[r] = None
    BY <1>3 DEF Load1, IInv, Held, OneHeld
  <2>2. PICK l \in {"wait2", "landed"} :
          Goto(r, l) /\ (l = "wait2" => IsGemm(pos[r]))
    BY <1>3 DEF Load1, AfterFirst
  <2>3. pc'[r] = l /\ \A q \in Ranks \ {r} : pc'[q] = pc[q]
    BY <2>2 DEF IInv, Types, Goto
  <2>4. /\ diagRef' \in Pointers /\ ref1' \in Pointers
        /\ \A q \in Ranks \ {r} : diagRef'[q] = diagRef[q] /\ ref1'[q] = ref1[q]
        /\ ref1'[r] # None => ref1'[r] = ref1[r]
        /\ IsTrsm(pos[r]) => diagRef'[r] = ref1[r]
    BY <1>3 DEF Load1, IInv, Types, Pointers
  <2>5. Types'
    BY <1>1, <1>2, <2>2, <2>4 DEF IInv, Types, Goto
  <2>6. Held(r)'
    BY <1>1, <2>1, <2>2, <2>3 DEF Held, Bare, OneHeld
  <2>7. Keeps(r)'
    <3>1. Pinned(table'[On(r)], Key1(r), ref1[r])
      BY <1>0, <1>2, <2>1 DEF IInv, Keeps
    <3> QED
      BY <1>1, <2>1, <2>4, <3>1 DEF Keeps, On, Key1, Key2
  <2>8. \A q \in Ranks \ {r} : Keeps(q)'
    BY <1>0, <1>1, <1>2, <2>3, <2>4, DeviceOf DEF IInv, Keeps, On, Key1, Key2
  <2> QED
    BY <1>1, <2>1, <2>2, <2>4, <2>5, <2>6, <2>7, <2>8, Combine
<1>4. CASE Load2(r)
  <2>1. /\ pc[r] = "load2" /\ Goto(r, "landed") /\ IsGemm(pos[r])
        /\ UNCHANGED <<ref1, diagRef>>
    BY <1>4 DEF Load2, IInv, Held
  <2>2. pc'[r] = "landed" /\ \A q \in Ranks \ {r} : pc'[q] = pc[q]
    BY <2>1 DEF IInv, Types, Goto
  <2>3. Types'
    BY <1>1, <1>2, <2>1 DEF IInv, Types, Goto
  <2>4. Held(r)'
    BY <2>2 DEF Held, Bare, OneHeld
  <2>5. \A q \in Ranks : Keeps(q)'
    BY <1>0, <1>1, <1>2, <2>1, <2>2, DeviceOf
    DEF IInv, Keeps, On, Key1, Key2, IsGemm, IsTrsm
  <2> QED
    BY <1>1, <2>1, <2>3, <2>4, <2>5, Combine
<1> QED
  BY <1>3, <1>4

\* The root deletes its table when no rank has an operand.
LEMMA DeleteStep ==
  ASSUME IInv, NEW r \in Ranks, DeleteTable(r)
  PROVE  IInv'
<1>0. On(r) \in Devices
  BY DeviceOf DEF IInv
<1>1. /\ UNCHANGED <<pos, local, diagRef, ref1, ref2, machine>>
      /\ pc[r] = "free" /\ Goto(r, "done")
      /\ table' = [table EXCEPT ![On(r)] = <<>>]
      /\ diagonal' = [diagonal EXCEPT ![On(r)] = None]
  BY DEF DeleteTable, sched
<1>2. \A q \in Ranks : pc[q] \in {"free", "done"} /\ pc'[q] \in {"free", "done"}
  BY <1>1 DEF IInv, Closing, Types, Goto
<1>3. \A d \in Devices : IsMap(table'[d])
  <2>1. IsMap(<<>>)
    BY DEF IsMap
  <2> QED
    BY <1>0, <1>1, <2>1 DEF IInv, Types
<1>4. Types'
  BY <1>0, <1>1, <1>3 DEF IInv, Types, Goto
<1>5. \A q \in Ranks : ref1[q] = None /\ ref2[q] = None
  BY <1>2 DEF IInv, Held, Bare
<1>6. Closing' /\ \A q \in Ranks : Held(q)' /\ Keeps(q)'
  BY <1>1, <1>2, <1>5 DEF Closing, Held, Keeps, Bare, OneHeld
<1> QED
  BY <1>4, <1>6 DEF IInv

\* All ranks together leave a barrier: none of them has an operand.
LEMMA BarrierStep ==
  ASSUME IInv, Barriers
  PROVE  IInv'
<1>1. UNCHANGED <<pos, local, diagRef, ref1, ref2, table, diagonal, machine>>
  BY DEF Barriers, InitBarrier, FiniBarrier, sched, tableVars
<1>2. \/ \A r \in Ranks : pc[r] = "init_bar" /\ pc'[r] \in {"bound", "top"}
      \/ \A r \in Ranks : pc[r] = "fini_bar" /\ pc'[r] \in {"free", "done"}
  BY DEF Barriers, InitBarrier, FiniBarrier
<1>3. Types'
  BY <1>1 DEF IInv, Types, Barriers, InitBarrier, FiniBarrier
<1>4. \A r \in Ranks : ref1[r] = None /\ ref2[r] = None
  BY <1>2 DEF IInv, Held, Bare
<1>5. Closing' /\ \A q \in Ranks : Held(q)' /\ Keeps(q)'
  BY <1>1, <1>2, <1>4 DEF Closing, Held, Keeps, Bare, OneHeld
<1> QED
  BY <1>3, <1>5 DEF IInv

LEMMA Inductive == ASSUME IInv, [Next]_vars PROVE IInv'
<1>1. CASE UNCHANGED vars
  BY <1>1 DEF vars, rankVars, tableVars, sched, IInv, Types, Closing, Held, Keeps,
              On, Key1, Key2
<1>2. CASE Barriers
  BY <1>2, BarrierStep
<1>3. ASSUME NEW r \in Ranks, Rank(r) PROVE IInv'
  BY <1>3, QuietSteps, WaitStep, TakeDiagonalStep, NextStepStep, LookStep, LoadStep,
     DeleteStep DEF Rank
<1> QED
  BY <1>1, <1>2, <1>3 DEF Next

THEOREM Invariance == Spec => []IInv
BY Initial, Inductive, PTL DEF Spec

\* What a rank points to stays its tile until the rank lets go, although it holds
\* no lock and any other rank may look for a buffer: the count that lookupTable
\* tests is enough.
THEOREM PinnedStaysHolds == Spec => []PinnedStays
<1>1. IInv => PinnedStays
  BY DEF IInv, Keeps, Pinned, PinnedStays
<1> QED
  BY <1>1, Invariance, PTL
-----------------------------------------------------------------------------
(* What the buffers hold                                                   *)

\* The root of a GPU is there before anyone factors on it: on one GPU the first
\* rank is the root, or every rank has a GPU of its own.
RootFirst(c) == c.roots = {0} /\ (c.perDevice = 1 \/ c.perDevice >= SIZE)

Rooted == \A r \in Ranks : /\ root[On(r)] \in {0, r}
                           /\ On(root[On(r)]) = On(r)

Starting == {"enter", "init_bar", "bound"}
Ended    == {"free", "done"}

\* Where the tile of a rank does not have the task of its step yet ..
Operands == {"wait1", "diag", "idx", "lock1", "look1", "load1",
             "wait2", "lock2", "look2", "load2", "landed"}
Before   == Operands \cup {"kernel"}

\* .. and where it is back on the host, and not published.
Stored == {"swap", "setidx", "drain", "fail", "abort", "publish"}
Busy   == Before \cup Stored \cup {"load", "store", "next"}

\* Where rank r stands, and on what kind of task.
Walk(r) ==
  LET p == pos[r] IN
  /\ p \in Positions /\ Standing(p)
  /\ p.m < NT \/ p.k = NT
  /\ p.n =< p.k /\ (p.k = NT => p.n = 0)
  /\ Own(r, p.m, p.k)
  /\ pc[r] \in Busy => p.k < NT
  /\ pc[r] \in Starting => Number2(p.m, p.k) = 2 * r /\ p.n = 0
  /\ pc[r] = "bound" => IsRoot(r)

Kind(r) ==
  LET p == pos[r] IN
  /\ pc[r] = "load" => p.n = 0
  /\ pc[r] \in Operands => ~IsPotrf(p)
  /\ pc[r] \in {"diag", "idx"} => IsTrsm(p)
  /\ pc[r] \in {"swap", "setidx", "drain", "fail", "abort"} => IsPotrf(p)
  /\ pc[r] \in {"store", "publish"} => p.n = p.k

\* Tiles of rank r's share that it has not begun to work on.
Beyond(r, t) ==
  \/ Number2(t[1], t[2]) > Number2(pos[r].m, pos[r].k)
  \/ /\ Number2(t[1], t[2]) = Number2(pos[r].m, pos[r].k)
     /\ pc[r] \in Starting \cup {"top"} /\ pos[r].n = 0

Ahead(r) == \A t \in Tiles : Own(r, t[1], t[2]) /\ Beyond(r, t) =>
                               host[t] = 0 /\ progress[t] = 0

\* The tile of rank r before and after the task of its step.
Version(r) == IF info[r] THEN Garbage ELSE pos[r].k + 1

Current(r) ==
  LET p == pos[r]
      t == TileOf(p)
  IN
  /\ pc[r] \in Before \cup {"load", "store"} \/ (pc[r] = "top" /\ p.n # 0)
       \/ (pc[r] = "next" /\ p.n < p.k) => host[t] = 0 /\ progress[t] = 0
  /\ pc[r] \in Before \/ (pc[r] = "top" /\ p.n # 0) => Holds(local[r], t, p.n)
  /\ pc[r] = "next" /\ p.n < p.k => Holds(local[r], t, p.n + 1)
  /\ pc[r] = "next" /\ p.n = p.k => progress[t] = 1
  /\ pc[r] \in {"store", "swap"} => Holds(local[r], t, Version(r))
  /\ pc[r] \in Stored => host[t] = Version(r) /\ progress[t] = 0
  /\ pc[r] = "setidx" => Holds(diagonal[On(r)], t, Version(r))
  /\ pc[r] \in Stored \cup {"store"} /\ info[r] => IsPotrf(p)
  /\ pc[r] \in {"fail", "abort"} => info[r]
  /\ pc[r] = "publish" /\ info[r] => abort

\* A published tile is finished, or it is a failed panel and all may see it; and
\* the first panel is published before any other tile.
Published == \A t \in Tiles : progress[t] = 1 =>
               /\ Done(host[t], t) \/ (abort /\ host[t] = Garbage)
               /\ progress[<<0, 0>>] = 1

Begun(r) == /\ pc[r] \in Busy \ {"load", "wait1"} \/ pos[r].n # 0
            /\ TileOf(pos[r]) # <<0, 0>>
            => progress[<<0, 0>>] = 1

\* What rank r has waited for.
Finished(t) == progress[t] = 1 /\ Done(host[t], t)

Waited(r) ==
  /\ pc[r] \in Operands \ {"wait1"} => Finished(Key1(r))
  /\ pc[r] = "kernel" /\ ~IsPotrf(pos[r]) => Finished(Key1(r))
  /\ pc[r] \in {"lock2", "look2", "load2"} => Finished(Key2(r))
  /\ pc[r] \in {"landed", "kernel"} /\ IsGemm(pos[r]) => Finished(Key2(r))

\* The destinations and the diagonals are buffers of their own.
Places ==
  /\ \A r \in Ranks : local[r] \in 0 .. 2 * SIZE - 1
  /\ \A d \in Devices : diagonal[d] \in 0 .. 2 * SIZE - 1 \/ diagonal[d] = None
  /\ \A r, q \in Ranks : local[r] = local[q] => r = q
  /\ \A d, e \in Devices : diagonal[d] = diagonal[e] /\ diagonal[d] # None => d = e
  /\ \A r \in Ranks, d \in Devices : local[r] # diagonal[d]

\* The diagonal of a GPU is made by its root, before anyone has one there.
Made ==
  \A r \in Ranks : IsRoot(r) =>
    /\ pc[r] \in Starting => /\ \A q \in Ranks : local[q] # SIZE + On(r)
                             /\ \A e \in Devices : diagonal[e] # SIZE + On(r)
                             /\ diagIdx[On(r)] = -1
    /\ pc[r] \notin Starting \cup Ended => diagonal[On(r)] # None

Locked == \A r \in Ranks : pc[r] \in {"look1", "look2", "setidx"} => lock[On(r)] = r

\* Outside the critical section the index says what the diagonal holds.
Diagonals ==
  \A d \in Devices :
    LET t == <<diagIdx[d], diagIdx[d]>> IN
    /\ diagIdx[d] # -1
    /\ \A q \in Ranks : pc[q] \notin Ended /\ (On(q) = d => pc[q] # "setidx")
    => t \in Tiles /\ Holds(diagonal[d], t, host[t]) /\ host[t] # 0

\* The diagonal a trsm points to: nobody writes to it, and it is what it should
\* be when the index says so.
Drained == \A r, q \in Ranks : diagRef[r] # None /\ diagRef[r] = local[q] =>
                                 pc[q] \in {"setidx", "drain"}

Grip(r) ==
  LET b == diagRef[r] IN
  /\ b \in 0 .. 2 * SIZE - 1 \/ b \in TableBuffers \/ b = None
  /\ pc[r] = "idx" => b \notin TableBuffers
  /\ pc[r] = "idx" /\ diagIdx[On(r)] = pos[r].k => Holds(b, Key1(r), pos[r].n + 1)
  /\ pc[r] = "kernel" /\ IsTrsm(pos[r]) =>
       /\ Holds(b, Key1(r), pos[r].n + 1)
       /\ b \in TableBuffers => Pinned(table[On(r)], Key1(r), b)

\* The operands that rank r has taken from the table.
Operand(r) ==
  LET map == table[On(r)] IN
  /\ ref1[r] \in TableBuffers \/ ref1[r] = None
  /\ ref2[r] \in TableBuffers \/ ref2[r] = None
  /\ pc[r] \in {"wait2", "lock2", "look2", "load2"} => ref1[r] # None
  /\ pc[r] \in {"landed", "kernel"} /\ (IsSyrk(pos[r]) \/ IsGemm(pos[r])) => ref1[r] # None
  /\ pc[r] = "load2" \/ (pc[r] \in {"landed", "kernel"} /\ IsGemm(pos[r])) => ref2[r] # None
  /\ pc[r] = "kernel" /\ (IsSyrk(pos[r]) \/ IsGemm(pos[r])) => map[Key1(r)].landed
  /\ pc[r] = "kernel" /\ IsGemm(pos[r]) => map[Key2(r)].landed

\* The tables share no buffer, and what has landed is the finished tile.
Entries ==
  \A d \in Devices : \A t \in DOMAIN table[d] :
    /\ t \in Tiles
    /\ table[d][t].buf \in TableBuffers
    /\ table[d][t].landed => Holds(table[d][t].buf, t, t[2] + 1)
    /\ \A e \in Devices : \A u \in DOMAIN table[e] :
         table[d][t].buf = table[e][u].buf => d = e /\ t = u

\* A destination or a diagonal holds what is on the host, or the tile that its
\* rank works on.
Loaded(r) == pc[r] \in Busy \ {"load"} \/ pos[r].n # 0

Truth ==
  \A b \in DOMAIN dev : b \notin TableBuffers =>
    LET c == dev[b] IN
    \/ c.v # 0 /\ c.v = host[c.t]
    \/ \E r \in Ranks : /\ local[r] = b /\ c.t = TileOf(pos[r]) /\ host[c.t] = 0
                        /\ Loaded(r) \/ c.v = 0

RTypes ==
  /\ info \in [Ranks -> BOOLEAN]
  /\ lock = [d \in Devices |-> lock[d]]
  /\ diagIdx = [d \in Devices |-> diagIdx[d]]
  /\ host \in [Tiles -> Nat \cup {Garbage}]
  /\ progress \in [Tiles -> {0, 1}]
  /\ abort \in BOOLEAN
  /\ dev = [b \in DOMAIN dev |-> dev[b]]
  /\ \A b \in DOMAIN dev : dev[b] \in [t : Tiles, v : Nat \cup {Garbage}]

OfRank(r) == /\ Walk(r) /\ Kind(r) /\ Ahead(r) /\ Current(r) /\ Waited(r)
             /\ Begun(r) /\ Grip(r) /\ Operand(r)

RInv == /\ RTypes /\ Rooted
        /\ \A r \in Ranks : OfRank(r)
        /\ Published /\ Places /\ Made /\ Locked /\ Diagonals /\ Drained /\ Entries /\ Truth

-----------------------------------------------------------------------------
(* What a step of a rank does                                              *)

\* From where to where a rank goes, and when.
Moves(r, l) ==
  LET p == pos[r] IN
  \/ pc[r] = "enter" /\ l = "init_bar"
  \/ pc[r] = "bound" /\ l = "top"
  \/ pc[r] = "top" /\ l = "fini_bar" /\ (abort \/ ~InTriangle(p))
  \/ pc[r] = "top" /\ InTriangle(p) /\ ~abort /\ p.n = 0 /\ l = "load"
  \/ /\ pc[r] = "top" /\ InTriangle(p) /\ ~abort /\ p.n # 0
     /\ l = IF IsPotrf(p) THEN "kernel" ELSE "wait1"
  \/ pc[r] = "load" /\ l = IF IsPotrf(p) THEN "kernel" ELSE "wait1"
  \/ pc[r] \in {"wait1", "wait2"} /\ l = "fini_bar" /\ abort
  \/ /\ pc[r] = "wait1" /\ ~abort /\ progress[Key1(r)] = 1
     /\ l = IF IsTrsm(p) THEN "diag" ELSE "lock1"
  \/ pc[r] = "wait2" /\ ~abort /\ progress[Key2(r)] = 1 /\ l = "lock2"
  \/ pc[r] = "diag" /\ l = "idx"
  \/ pc[r] = "idx" /\ l = IF diagIdx[On(r)] # p.k THEN "lock1" ELSE "kernel"
  \/ pc[r] = "lock1" /\ l = "look1"
  \/ pc[r] = "lock2" /\ l = "look2"
  \/ pc[r] = "look1" /\ l \in {"load1", AfterFirst(p)}
  \/ pc[r] = "look2" /\ l \in {"load2", "landed"}
  \/ pc[r] = "load1" /\ l = AfterFirst(p)
  \/ pc[r] = "load2" /\ l = "landed"
  \/ pc[r] = "landed" /\ l = "kernel"
  \/ pc[r] = "kernel" /\ l = IF p.n = p.k THEN "store" ELSE "next"
  \/ pc[r] = "store" /\ l = IF IsPotrf(p) THEN "swap" ELSE "publish"
  \/ pc[r] = "swap" /\ l = "setidx"
  \/ pc[r] = "setidx" /\ l = "drain"
  \/ pc[r] = "drain" /\ l = IF info[r] THEN "fail" ELSE "publish"
  \/ pc[r] = "fail" /\ l = "abort"
  \/ pc[r] = "abort" /\ l = "publish"
  \/ pc[r] = "publish" /\ l = "next"
  \/ pc[r] = "next" /\ l = "top"
  \/ pc[r] = "free" /\ l = "done"

\* The steps of a rank, by what they change.
OnlyControl(r) == \/ Enter(r) \/ Top(r) \/ CheckDiagonal(r) \/ Lock1(r) \/ Lock2(r)
                  \/ Landed(r) \/ Drain(r) \/ RequestFail(r)
Alone(r)    == OnlyControl(r) \/ SsAbort(r) \/ Wait1(r) \/ Wait2(r) \/ TakeDiagonal(r)
Writes(r)   == LoadTile(r) \/ Kernel(r) \/ Load1(r) \/ Load2(r)
Looks(r)    == Look1(r) \/ Look2(r)
Installs(r) == SetBound(r) \/ SetBoundDist(r)

LEMMA Control ==
  ASSUME IInv, NEW r \in Ranks, Rank(r)
  PROVE  /\ pc' = [pc EXCEPT ![r] = pc'[r]]
         /\ Moves(r, pc'[r])
         /\ pos' = pos \/ NextStep(r)
         /\ UNCHANGED <<machine, root>>
<1>0. pc = [q \in Ranks |-> pc[q]] /\ pos = [q \in Ranks |-> pos[q]]
  BY DEF IInv, Types
<1>g. ASSUME NEW l, Goto(r, l) PROVE pc' = [pc EXCEPT ![r] = pc'[r]] /\ pc'[r] = l
  BY <1>0, <1>g DEF Goto
<1> USE DEF Moves, sched
<1>1. CASE Enter(r) \/ Installs(r) \/ DeleteTable(r)
  BY <1>1, <1>g DEF Enter, Installs, SetBound, SetBoundDist, Install, DeleteTable
<1>2. CASE Top(r) \/ LoadTile(r)
  BY <1>2, <1>g DEF Top, AfterTop, LoadTile
<1>3. CASE Wait1(r) \/ Wait2(r)
  BY <1>3, <1>g DEF Wait1, Wait2, WaitOperand
<1>4. CASE TakeDiagonal(r) \/ CheckDiagonal(r) \/ Lock1(r) \/ Lock2(r)
  BY <1>4, <1>g DEF TakeDiagonal, CheckDiagonal, Lock1, Lock2, Acquire
<1>5. CASE Look1(r)
  <2>1. PICK l \in {"load1", AfterFirst(pos[r])} : Goto(r, l)
    BY <1>5 DEF Look1
  <2> QED
    BY <1>5, <2>1, <1>g DEF Look1
<1>6. CASE Look2(r)
  <2>1. PICK l \in {"load2", "landed"} : Goto(r, l)
    BY <1>6 DEF Look2
  <2> QED
    BY <1>6, <2>1, <1>g DEF Look2
<1>7. CASE Load1(r) \/ Load2(r) \/ Landed(r)
  BY <1>7, <1>g DEF Load1, Load2, Landed
<1>8. CASE Kernel(r)
  BY <1>8, <1>g DEF Kernel
<1>9. CASE StoreTile(r) \/ SwapDiagonal(r) \/ SetIndex(r) \/ Drain(r)
  BY <1>9, <1>g DEF StoreTile, SwapDiagonal, SetIndex, Drain
<1>10. CASE RequestFail(r) \/ SsAbort(r) \/ Publish(r) \/ NextStep(r)
  BY <1>10, <1>g DEF RequestFail, SsAbort, Publish, NextStep
<1> QED
  BY <1>1, <1>2, <1>3, <1>4, <1>5, <1>6, <1>7, <1>8, <1>9, <1>10 DEF Rank, Installs

\* What the steps leave alone.
LEMMA Frame ==
  ASSUME IInv, NEW r \in Ranks, Rank(r)
  PROVE  /\ host' = host \/ StoreTile(r)
         /\ progress' = progress \/ Publish(r)
         /\ dev' = dev \/ Writes(r)
         /\ info' = info \/ Kernel(r)
         /\ local' = local \/ SwapDiagonal(r)
         /\ diagonal' = diagonal \/ SwapDiagonal(r) \/ Installs(r) \/ DeleteTable(r)
         /\ diagIdx' = diagIdx \/ SetIndex(r)
         /\ table' = table \/ Looks(r) \/ Load1(r) \/ Load2(r) \/ DeleteTable(r)
         /\ UNCHANGED <<diagRef, ref1, ref2>> \/ Wait1(r) \/ Wait2(r)
              \/ TakeDiagonal(r) \/ Looks(r) \/ Load1(r) \/ NextStep(r)
         /\ abort' = abort \/ SsAbort(r) \/ Installs(r)
<1> USE DEF sched, tableVars, Writes, Looks, Installs
<1>1. CASE Enter(r) \/ Installs(r) \/ DeleteTable(r)
  BY <1>1 DEF Enter, Installs, SetBound, SetBoundDist, Install, DeleteTable
<1>2. CASE Top(r) \/ LoadTile(r)
  BY <1>2 DEF Top, LoadTile
<1>3. CASE Wait1(r) \/ Wait2(r)
  BY <1>3 DEF Wait1, Wait2, WaitOperand
<1>4. CASE TakeDiagonal(r) \/ CheckDiagonal(r) \/ Lock1(r) \/ Lock2(r)
  BY <1>4 DEF TakeDiagonal, CheckDiagonal, Lock1, Lock2, Acquire
<1>5. CASE Look1(r) \/ Look2(r)
  BY <1>5 DEF Look1, Look2
<1>7. CASE Load1(r) \/ Load2(r) \/ Landed(r)
  BY <1>7 DEF Load1, Load2, Landed
<1>8. CASE Kernel(r)
  BY <1>8 DEF Kernel
<1>9. CASE StoreTile(r) \/ SwapDiagonal(r) \/ SetIndex(r) \/ Drain(r)
  BY <1>9 DEF StoreTile, SwapDiagonal, SetIndex, Drain
<1>10. CASE RequestFail(r) \/ SsAbort(r) \/ Publish(r) \/ NextStep(r)
  BY <1>10 DEF RequestFail, SsAbort, Publish, NextStep
<1> QED
  BY <1>1, <1>2, <1>3, <1>4, <1>5, <1>7, <1>8, <1>9, <1>10 DEF Rank

\* The location says which step it is.
LEMMA Named ==
  ASSUME NEW r \in Ranks, Rank(r)
  PROVE  /\ pc[r] = "bound" => Installs(r)
         /\ pc[r] = "load" => LoadTile(r)
         /\ pc[r] = "wait1" => Wait1(r)
         /\ pc[r] = "wait2" => Wait2(r)
         /\ pc[r] = "diag" => TakeDiagonal(r)
         /\ pc[r] = "look1" => Look1(r)
         /\ pc[r] = "look2" => Look2(r)
         /\ pc[r] = "load1" => Load1(r)
         /\ pc[r] = "load2" => Load2(r)
         /\ pc[r] = "landed" => Landed(r)
         /\ pc[r] = "kernel" => Kernel(r)
         /\ pc[r] = "store" => StoreTile(r)
         /\ pc[r] = "swap" => SwapDiagonal(r)
         /\ pc[r] = "setidx" => SetIndex(r)
         /\ pc[r] = "drain" => Drain(r)
         /\ pc[r] = "fail" => RequestFail(r)
         /\ pc[r] = "abort" => SsAbort(r)
         /\ pc[r] = "publish" => Publish(r)
         /\ pc[r] = "next" => NextStep(r)
         /\ pc[r] = "free" => DeleteTable(r)
BY DEF Rank, Installs, Enter, SetBound, SetBoundDist, Install, Top, LoadTile, Wait1,
       Wait2, WaitOperand, TakeDiagonal, CheckDiagonal, Lock1, Lock2, Acquire, Look1,
       Look2, Load1, Load2, Landed, Kernel, StoreTile, SwapDiagonal, SetIndex, Drain,
       RequestFail, SsAbort, Publish, NextStep, DeleteTable

\* A step of rank r leaves the other ranks alone.
LEMMA Others ==
  ASSUME IInv, RTypes, NEW r \in Ranks, NEW q \in Ranks, q # r, Rank(r)
  PROVE  /\ pc'[q] = pc[q] /\ pos'[q] = pos[q] /\ info'[q] = info[q]
         /\ local'[q] = local[q] /\ diagRef'[q] = diagRef[q]
         /\ ref1'[q] = ref1[q] /\ ref2'[q] = ref2[q]
<1> USE DEF IInv, Types, Pointers, RTypes
<1>1. pc'[q] = pc[q]
  BY Control
<1>2. pos'[q] = pos[q]
  BY Control DEF NextStep
<1>3. info'[q] = info[q]
  BY Frame DEF Kernel
<1>4. local'[q] = local[q]
  <2>1. local' = local \/ SwapDiagonal(r)
    BY Frame
  <2>2. local = [p \in Ranks |-> local[p]]
    OBVIOUS
  <2> QED
    BY <2>1, <2>2 DEF SwapDiagonal
<1>5. diagRef'[q] = diagRef[q] /\ ref1'[q] = ref1[q] /\ ref2'[q] = ref2[q]
  <2>1. CASE Wait1(r) \/ Wait2(r)
    BY <2>1 DEF Wait1, Wait2, WaitOperand
  <2>2. CASE TakeDiagonal(r) \/ NextStep(r)
    BY <2>2 DEF TakeDiagonal, NextStep
  <2>3. CASE Looks(r)
    BY <2>3 DEF Looks, Look1, Look2
  <2>4. CASE Load1(r) \/ Load2(r)
    BY <2>4 DEF Load1, Load2
  <2> QED
    BY <2>1, <2>2, <2>3, <2>4, Frame
<1> QED
  BY <1>1, <1>2, <1>3, <1>4, <1>5

\* The tile of a rank that is at work, and its keys, are tiles of the triangle.
LEMMA AtWork ==
  ASSUME NEW q \in Ranks, Walk(q), pos[q].k < NT
  PROVE  LET p == pos[q] IN
         /\ p.m \in Nat /\ p.k \in Nat /\ p.n \in Nat
         /\ p.n =< p.k /\ p.k =< p.m /\ p.m < NT
         /\ TileOf(p) \in Tiles /\ Key1(q) \in Tiles /\ Key2(q) \in Tiles
         /\ <<p.k, p.k>> \in Tiles
         /\ TileOf(p)[1] = p.m /\ TileOf(p)[2] = p.k
         /\ Own(q, p.m, p.k)
<1>1. LET p == pos[q] IN
      /\ p.m \in Nat /\ p.k \in Nat /\ p.n \in Nat
      /\ p.n =< p.k /\ p.k =< p.m /\ p.m < NT /\ Own(q, p.m, p.k)
  BY NTAssumption DEF Walk, Positions, Standing
<1> QED
  BY <1>1, NTAssumption DEF Tiles, Index, TileOf, Key1, Key2, First, Second

LEMMA Working ==
  ASSUME RInv, NEW q \in Ranks, pc[q] \in Busy
  PROVE  LET p == pos[q] IN
         /\ p.m \in Nat /\ p.k \in Nat /\ p.n \in Nat
         /\ p.n =< p.k /\ p.k =< p.m /\ p.m < NT /\ p.k < NT
         /\ TileOf(p) \in Tiles /\ Key1(q) \in Tiles /\ Key2(q) \in Tiles
         /\ <<p.k, p.k>> \in Tiles
         /\ TileOf(p)[1] = p.m /\ TileOf(p)[2] = p.k
         /\ Own(q, p.m, p.k)
<1>1. Walk(q) /\ pos[q].k < NT
  BY DEF RInv, OfRank, Walk
<1> QED
  BY <1>1, AtWork

\* No two ranks work on the same tile.
LEMMA OneRank ==
  ASSUME NEW q \in Ranks, NEW r \in Ranks, Walk(q), Walk(r),
         pos[q].k < NT, TileOf(pos[q]) = TileOf(pos[r])
  PROVE  q = r
<1>1. pos[q].m = pos[r].m /\ pos[q].k = pos[r].k
  BY DEF TileOf
<1>2. Own(q, pos[q].m, pos[q].k) /\ Own(r, pos[r].m, pos[r].k)
  BY DEF Walk
<1> QED
  BY <1>1, <1>2, OwnUnique

LEMMA VersionFacts ==
  ASSUME RTypes, NEW q \in Ranks, Walk(q)
  PROVE  Version(q) \in Nat \cup {Garbage} /\ Version(q) # 0
<1>1. pos[q].k \in Nat
  BY DEF Walk, Positions
<1> QED
  BY <1>1 DEF Version, Garbage

\* What changes on the host: a tile that its rank brings back.
LEMMA HostStep ==
  ASSUME IInv, RInv, NEW r \in Ranks, Rank(r)
  PROVE  /\ host' \in [Tiles -> Nat \cup {Garbage}]
         /\ \A t \in Tiles : host'[t] # host[t] =>
              /\ pc[r] = "store" /\ t = TileOf(pos[r])
              /\ host[t] = 0 /\ progress[t] = 0
         /\ pc[r] = "store" => host'[TileOf(pos[r])] = Version(r)
<1>0. RTypes /\ Walk(r) /\ Current(r)
  BY DEF RInv, OfRank
<1>1. CASE host' = host /\ pc[r] # "store"
  BY <1>0, <1>1 DEF RTypes
<1>2. CASE StoreTile(r)
  <2>1. pc[r] = "store" /\ pos[r].k < NT
    BY <1>0, <1>2 DEF StoreTile, Walk, Busy
  <2>2. TileOf(pos[r]) \in Tiles
    BY <1>0, <2>1, AtWork
  <2>3. Holds(local[r], TileOf(pos[r]), Version(r))
    BY <1>0, <2>1 DEF Current
  <2>4. local[r] # None
    BY DEF RInv, Places, None
  <2>5. host' = [host EXCEPT ![TileOf(pos[r])] = Version(r)]
    BY <1>2, <2>3, <2>4 DEF StoreTile, Holds
  <2>6. host[TileOf(pos[r])] = 0 /\ progress[TileOf(pos[r])] = 0
    BY <1>0, <2>1 DEF Current
  <2> QED
    BY <1>0, <2>1, <2>2, <2>5, <2>6, VersionFacts DEF RTypes
<1>3. pc[r] = "store" => StoreTile(r)
  BY Named
<1> QED
  BY <1>1, <1>2, <1>3, Frame

\* What is published: the tile that its rank has brought back.
LEMMA ProgressStep ==
  ASSUME IInv, RInv, NEW r \in Ranks, Rank(r)
  PROVE  /\ progress' \in [Tiles -> {0, 1}]
         /\ \A t \in Tiles : progress'[t] # progress[t] =>
              /\ pc[r] = "publish" /\ t = TileOf(pos[r])
              /\ host[t] = Version(r) /\ progress[t] = 0 /\ progress'[t] = 1
         /\ pc[r] = "publish" => progress'[TileOf(pos[r])] = 1
<1>0. RTypes /\ Walk(r) /\ Current(r)
  BY DEF RInv, OfRank
<1>1. CASE progress' = progress /\ pc[r] # "publish"
  BY <1>0, <1>1 DEF RTypes
<1>2. CASE Publish(r)
  <2>1. pc[r] = "publish" /\ pos[r].k < NT
    BY <1>0, <1>2 DEF Publish, Walk, Busy, Stored
  <2>2. TileOf(pos[r]) \in Tiles
    BY <1>0, <2>1, AtWork
  <2>3. progress' = [progress EXCEPT ![TileOf(pos[r])] = 1]
    BY <1>2 DEF Publish
  <2>4. host[TileOf(pos[r])] = Version(r) /\ progress[TileOf(pos[r])] = 0
    BY <1>0, <2>1 DEF Current, Stored
  <2> QED
    BY <1>0, <2>1, <2>2, <2>3, <2>4 DEF RTypes
<1>3. pc[r] = "publish" => Publish(r)
  BY Named
<1> QED
  BY <1>1, <1>2, <1>3, Frame

\* A finished tile stays finished.
LEMMA FinishedStays ==
  ASSUME IInv, RInv, NEW r \in Ranks, Rank(r), NEW t \in Tiles, progress[t] = 1
  PROVE  progress'[t] = 1 /\ host'[t] = host[t] /\ (Finished(t) => Finished(t)')
<1>1. progress'[t] = 1 /\ host'[t] = host[t]
  BY HostStep, ProgressStep
<1> QED
  BY <1>1 DEF Finished, Done

\* Every kernel finds its operands.
LEMMA Inputs ==
  ASSUME IInv, RInv, NEW r \in Ranks, pc[r] = "kernel"
  PROVE  Holds(local[r], TileOf(pos[r]), pos[r].n) /\ OperandsGood(r)
<1> DEFINE p == pos[r]
           map == table[On(r)]
<1>0. Walk(r) /\ Current(r) /\ Grip(r) /\ Operand(r) /\ On(r) \in Devices
  BY DeviceOf DEF RInv, OfRank, IInv
<1>1. Holds(local[r], TileOf(p), p.n)
  BY <1>0 DEF Current, Before
<1>2. p.k < NT /\ p.n \in Nat
  BY <1>0 DEF Walk, Busy, Before, Positions
<1>3. IsTrsm(p) => Holds(diagRef[r], <<p.k, p.k>>, p.k + 1)
  BY <1>0 DEF Grip, Key1, First, IsTrsm
<1>4. IsSyrk(p) \/ IsGemm(p) => Holds(ref1[r], Key1(r), p.n + 1)
  <2> SUFFICES ASSUME IsSyrk(p) \/ IsGemm(p) PROVE Holds(ref1[r], Key1(r), p.n + 1)
    OBVIOUS
  <2>1. ref1[r] # None /\ map[Key1(r)].landed
    BY <1>0 DEF Operand
  <2>2. Key1(r) \in DOMAIN map /\ map[Key1(r)].buf = ref1[r]
    BY <2>1 DEF IInv, Keeps, Pinned
  <2>3. Holds(ref1[r], Key1(r), Key1(r)[2] + 1)
    BY <1>0, <2>1, <2>2 DEF RInv, Entries
  <2> QED
    BY <2>3 DEF Key1, First
<1>5. IsGemm(p) => Holds(ref2[r], Key2(r), p.n + 1)
  <2> SUFFICES ASSUME IsGemm(p) PROVE Holds(ref2[r], Key2(r), p.n + 1)
    OBVIOUS
  <2>1. ref2[r] # None /\ map[Key2(r)].landed
    BY <1>0 DEF Operand
  <2>2. Key2(r) \in DOMAIN map /\ map[Key2(r)].buf = ref2[r]
    BY <2>1 DEF IInv, Keeps, Pinned
  <2>3. Holds(ref2[r], Key2(r), Key2(r)[2] + 1)
    BY <1>0, <2>1, <2>2 DEF RInv, Entries
  <2> QED
    BY <2>3 DEF Key2, Second
<1> QED
  BY <1>1, <1>3, <1>4, <1>5 DEF OperandsGood

\* The buffer that the next step of rank r writes to, and what it then holds.
Touch(r) ==
  IF pc[r] \in {"load", "kernel"} THEN local[r]
  ELSE IF pc[r] = "load1" THEN ref1[r]
  ELSE IF pc[r] = "load2" THEN ref2[r] ELSE None

Copied(key) == [t |-> key, v |-> key[2] + 1]

LEMMA WriteEffect ==
  ASSUME RTypes, NEW b \in Nat, NEW t \in Tiles, NEW v \in Nat \cup {Garbage},
         Write(b, t, v)
  PROVE  /\ dev' = [c \in DOMAIN dev' |-> dev'[c]]
         /\ \A c \in DOMAIN dev' : dev'[c] \in [t : Tiles, v : Nat \cup {Garbage}]
         /\ b \in DOMAIN dev' /\ dev'[b] = [t |-> t, v |-> v]
         /\ \A c : c # b => /\ c \in DOMAIN dev' <=> c \in DOMAIN dev
                            /\ c \in DOMAIN dev => dev'[c] = dev[c]
<1>1. dev' = [c \in DOMAIN dev \cup {b} |-> IF c = b THEN [t |-> t, v |-> v] ELSE dev[c]]
  BY DEF Write, None
<1> QED
  BY <1>1 DEF RTypes

LEMMA DevStep ==
  ASSUME IInv, RInv, NEW r \in Ranks, Rank(r)
  PROVE  /\ dev' = [c \in DOMAIN dev' |-> dev'[c]]
         /\ \A c \in DOMAIN dev' : dev'[c] \in [t : Tiles, v : Nat \cup {Garbage}]
         /\ \A c : c # Touch(r) => /\ c \in DOMAIN dev' <=> c \in DOMAIN dev
                                   /\ c \in DOMAIN dev => dev'[c] = dev[c]
         /\ pc[r] \in {"load", "kernel", "load1", "load2"} =>
              Touch(r) \in Nat /\ Touch(r) \in DOMAIN dev'
         /\ pc[r] = "load" => dev'[local[r]] = [t |-> TileOf(pos[r]), v |-> 0]
         /\ pc[r] = "kernel" =>
              dev'[local[r]] = [t |-> TileOf(pos[r]),
                                v |-> IF info'[r] THEN Garbage ELSE pos[r].n + 1]
         /\ pc[r] = "load1" => dev'[ref1[r]] = Copied(Key1(r))
         /\ pc[r] = "load2" => dev'[ref2[r]] = Copied(Key2(r))
         /\ pc[r] = "kernel" => info'[r] \in BOOLEAN /\ (info'[r] => IsPotrf(pos[r]))
<1>0. /\ RTypes /\ Walk(r) /\ Current(r) /\ Waited(r) /\ Operand(r)
      /\ local[r] \in Nat /\ local[r] # None
  BY SizeAssumption DEF RInv, OfRank, Places, None
<1>1. CASE dev' = dev /\ pc[r] \notin {"load", "kernel", "load1", "load2"}
  BY <1>0, <1>1 DEF RTypes, Touch
<1>2. CASE pc[r] = "load"
  <2>1. TileOf(pos[r]) \in Tiles /\ host[TileOf(pos[r])] = 0
    BY <1>0, <1>2, AtWork DEF Walk, Busy, Current
  <2>2. Write(local[r], TileOf(pos[r]), 0)
    BY <1>2, <2>1, Named DEF LoadTile
  <2> QED
    BY <1>0, <1>2, <2>1, <2>2, WriteEffect DEF Touch
<1>3. CASE pc[r] = "kernel"
  <2>1. TileOf(pos[r]) \in Tiles /\ pos[r].n + 1 \in Nat
    <3>1. pc[r] \in Busy
      BY <1>3 DEF Busy, Before
    <3>2. TileOf(pos[r]) \in Tiles /\ pos[r].n \in Nat
      BY <3>1, Working
    <3> QED
      BY <3>2
  <2>2. Kernel(r) /\ Holds(local[r], TileOf(pos[r]), pos[r].n) /\ OperandsGood(r)
    BY <1>3, Named, Inputs
  <2>3. PICK broke \in BOOLEAN :
          /\ broke => IsPotrf(pos[r])
          /\ info' = [info EXCEPT ![r] = broke]
          /\ Write(local[r], TileOf(pos[r]), IF ~broke THEN pos[r].n + 1 ELSE Garbage)
    <3> HIDE DEF OperandsGood, Holds, Write
    <3> QED
      BY <2>2 DEF Kernel
  <2>4. info'[r] = broke
    BY <1>0, <2>3 DEF RTypes
  <2> DEFINE v == IF info'[r] THEN Garbage ELSE pos[r].n + 1
  <2>5. Write(local[r], TileOf(pos[r]), v) /\ v \in Nat \cup {Garbage}
    BY <2>1, <2>3, <2>4
  <2> HIDE DEF v
  <2>6. /\ dev' = [c \in DOMAIN dev' |-> dev'[c]]
        /\ \A c \in DOMAIN dev' : dev'[c] \in [t : Tiles, v : Nat \cup {Garbage}]
        /\ local[r] \in DOMAIN dev' /\ dev'[local[r]] = [t |-> TileOf(pos[r]), v |-> v]
        /\ \A c : c # local[r] => /\ c \in DOMAIN dev' <=> c \in DOMAIN dev
                                  /\ c \in DOMAIN dev => dev'[c] = dev[c]
    BY <1>0, <2>1, <2>5, WriteEffect
  <2> QED
    BY <1>0, <1>3, <2>3, <2>4, <2>6 DEF Touch, v
<1>4. CASE pc[r] = "load1"
  <2>1. ref1[r] \in Nat /\ Key1(r) \in Tiles /\ host[Key1(r)] = Key1(r)[2] + 1
    <3>1. ref1[r] # None /\ ref1[r] \in TableBuffers
      BY <1>0, <1>4 DEF IInv, Held, Operand
    <3>2. Key1(r) \in Tiles
      BY <1>4, Working DEF Busy, Before, Operands
    <3> QED
      BY <1>0, <1>4, <3>1, <3>2, SizeAssumption
      DEF Waited, Operands, Finished, Done, TableBuffers
  <2>2. Write(ref1[r], Key1(r), Key1(r)[2] + 1) /\ Key1(r)[2] + 1 \in Nat
    BY <1>4, <2>1, Named, NTAssumption DEF Load1, Fetch, Tiles, Index
  <2> QED
    BY <1>0, <1>4, <2>1, <2>2, WriteEffect DEF Touch, Copied
<1>5. CASE pc[r] = "load2"
  <2>1. ref2[r] \in Nat /\ Key2(r) \in Tiles /\ host[Key2(r)] = Key2(r)[2] + 1
    <3>1. ref2[r] # None /\ ref2[r] \in TableBuffers
      BY <1>0, <1>5 DEF Operand
    <3>2. Key2(r) \in Tiles
      BY <1>5, Working DEF Busy, Before, Operands
    <3> QED
      BY <1>0, <1>5, <3>1, <3>2, SizeAssumption
      DEF Waited, Finished, Done, TableBuffers
  <2>2. Write(ref2[r], Key2(r), Key2(r)[2] + 1) /\ Key2(r)[2] + 1 \in Nat
    BY <1>5, <2>1, Named, NTAssumption DEF Load2, Fetch, Tiles, Index
  <2> QED
    BY <1>0, <1>5, <2>1, <2>2, WriteEffect DEF Touch, Copied
<1> QED
  BY <1>1, <1>2, <1>3, <1>4, <1>5, Frame DEF Writes, LoadTile, Kernel, Load1, Load2

-----------------------------------------------------------------------------
(* Each part of RInv is kept by a step of a rank                           *)

LEMMA Same ==
  ASSUME IInv, NEW r \in Ranks, Rank(r)
  PROVE  /\ machine' = machine /\ root' = root
         /\ \A q : On(q)' = On(q) /\ IsRoot(q)' = IsRoot(q)
         /\ \A q \in Ranks : On(q) \in Devices
         /\ pc'[r] = pc'[r] /\ Moves(r, pc'[r])
         /\ pc[r] # "next" => pos' = pos
BY Control, DeviceOf DEF On, IsRoot, IInv, NextStep

LEMMA RTypesKept ==
  ASSUME IInv, RInv, NEW r \in Ranks, Rank(r)
  PROVE  RTypes'
<1>0. RTypes
  BY DEF RInv
<1>1. info' \in [Ranks -> BOOLEAN]
  BY <1>0, Frame DEF Kernel, RTypes
<1>2. lock' = [d \in Devices |-> lock'[d]]
  <2>1. lock' = lock \/ \E l : lock' = [lock EXCEPT ![On(r)] = l]
    BY DEF Rank, Enter, SetBound, SetBoundDist, Install, Top, LoadTile, Wait1, Wait2,
           WaitOperand, TakeDiagonal, CheckDiagonal, Lock1, Lock2, Acquire, Look1,
           Look2, Load1, Load2, Landed, Kernel, StoreTile, SwapDiagonal, SetIndex,
           Drain, RequestFail, SsAbort, Publish, NextStep, DeleteTable, tableVars
  <2> QED
    BY <1>0, <2>1 DEF RTypes
<1>3. diagIdx' = [d \in Devices |-> diagIdx'[d]]
  BY <1>0, Frame DEF SetIndex, RTypes
<1>4. abort' \in BOOLEAN
  BY <1>0, Frame DEF SsAbort, Installs, SetBound, SetBoundDist, Install, RTypes
<1> QED
  BY <1>1, <1>2, <1>3, <1>4, HostStep, ProgressStep, DevStep DEF RTypes

LEMMA RootedKept ==
  ASSUME IInv, RInv, NEW r \in Ranks, Rank(r)
  PROVE  Rooted'
BY Same DEF RInv, Rooted

\* The next position of a rank is its own, too.
LEMMA NextWalk ==
  ASSUME NEW r \in Ranks, Walk(r), pos[r].k < NT,
         NEW p, p = pos[r], NEW c, c = NextOf(p)
  PROVE  /\ c \in Positions /\ Standing(c)
         /\ c.m < NT \/ c.k = NT
         /\ c.n =< c.k /\ (c.k = NT => c.n = 0)
         /\ Own(r, c.m, c.k)
         /\ p.n < p.k => c = [k |-> p.k, m |-> p.m, n |-> p.n + 1]
         /\ ~(p.n < p.k) => /\ c.n = 0
                            /\ Number2(c.m, c.k) = Number2(p.m, p.k) + 2 * SIZE
<1>0. /\ p = [k |-> p.k, m |-> p.m, n |-> p.n]
      /\ p.k \in Nat /\ p.m \in Nat /\ p.n \in Nat
      /\ p.n =< p.k /\ p.k =< p.m /\ p.k =< NT /\ p.m < NT /\ p.k < NT
  BY NTAssumption DEF Walk, Positions, Standing
<1>1. CASE p.n < p.k
  <2>1. c = [k |-> p.k, m |-> p.m, n |-> p.n + 1]
    BY <1>0, <1>1 DEF NextOf
  <2>2. Own(r, c.m, c.k)
    BY <2>1 DEF Walk
  <2>3. c \in Positions /\ Standing(c)
    BY <1>0, <2>1 DEF Positions, Standing
  <2> QED
    BY <1>0, <1>1, <2>1, <2>2, <2>3
<1>2. CASE ~(p.n < p.k)
  <2> DEFINE s == [k |-> p.k, m |-> p.m + SIZE, n |-> 0]
  <2>1. s \in Positions /\ Standing(s)
    BY <1>0, SizeAssumption DEF Positions, Standing
  <2>2. c = Carried(s)
    BY <1>2 DEF NextOf
  <2>3. /\ c \in Positions /\ Standing(c)
        /\ c.m < NT \/ c.k = NT
        /\ c.n = 0
        /\ Number2(c.m, c.k) = Number2(p.m + SIZE, p.k)
    BY <2>1, <2>2, CarriedFacts
  <2>4. /\ Own(r, p.m + SIZE, p.k)
        /\ Number2(p.m + SIZE, p.k) = Number2(p.m, p.k) + 2 * SIZE
    BY <1>0, StrideOwn DEF Walk
  <2>5. Own(r, c.m, c.k)
    BY <2>3, <2>4 DEF Own
  <2>6. 0 =< c.k
    BY <2>3 DEF Positions
  <2> QED
    BY <1>2, <2>3, <2>4, <2>5, <2>6
<1> QED
  BY <1>1, <1>2

LEMMA WalkKept ==
  ASSUME IInv, RInv, NEW r \in Ranks, Rank(r), NEW q \in Ranks
  PROVE  Walk(q)'
<1>0. Walk(q) /\ Walk(r) /\ RTypes
  BY DEF RInv, OfRank
<1>1. CASE q # r
  <2>1. pc'[q] = pc[q] /\ pos'[q] = pos[q] /\ IsRoot(q)' = IsRoot(q)
    BY <1>0, <1>1, Others, Same
  <2> QED
    BY <1>0, <2>1 DEF Walk
<1>2. CASE q = r /\ pc[r] = "next"
  <2>1. pos[r].k < NT
    BY <1>0, <1>2 DEF Walk, Busy
  <2>2. pos'[r] = NextOf(pos[r]) /\ pc'[r] = "top"
    BY <1>2, Named, Control DEF NextStep, IInv, Types, Moves
  <2>3. "top" \notin Busy \cup Starting \cup {"bound"}
    BY DEF Busy, Before, Operands, Stored, Starting
  <2> QED
    BY <1>0, <1>2, <2>1, <2>2, <2>3, NextWalk DEF Walk
<1>3. CASE q = r /\ pc[r] # "next"
  <2>1. pos'[r] = pos[r] /\ IsRoot(r)' = IsRoot(r) /\ Moves(r, pc'[r])
    BY <1>3, Same
  <2>2. pc'[r] \in Busy => pos[r].k < NT
    BY <1>0, <2>1 DEF Moves, Walk, Busy, Before, Operands, Stored, InTriangle
  <2>3. pc'[r] \in Starting => pc[r] \in Starting /\ pc'[r] # "bound"
    BY <2>1 DEF Moves, Starting, AfterFirst
  <2> QED
    BY <1>0, <1>3, <2>1, <2>2, <2>3 DEF Walk, Starting
<1> QED
  BY <1>1, <1>2, <1>3

LEMMA KindKept ==
  ASSUME IInv, RInv, NEW r \in Ranks, Rank(r), NEW q \in Ranks
  PROVE  Kind(q)'
<1>0. Kind(q) /\ RTypes
  BY DEF RInv, OfRank
<1>1. CASE q # r
  <2>1. pc'[q] = pc[q] /\ pos'[q] = pos[q]
    BY <1>0, <1>1, Others
  <2> QED
    BY <1>0, <2>1 DEF Kind
<1>2. CASE q = r /\ pc[r] = "next"
  <2>1. pc'[r] = "top"
    BY <1>2, Control DEF Moves
  <2> QED
    BY <1>2, <2>1 DEF Kind, Operands
<1>3. CASE q = r /\ pc[r] # "next"
  <2>1. pos'[r] = pos[r] /\ Moves(r, pc'[r])
    BY <1>3, Same
  <2> QED
    BY <1>0, <1>3, <2>1 DEF Moves, Kind, Operands, AfterFirst, IsPotrf, IsTrsm, IsGemm
<1> QED
  BY <1>1, <1>2, <1>3

LEMMA AbortStays ==
  ASSUME IInv, RInv, NEW r \in Ranks, Rank(r), abort
  PROVE  abort'
BY Frame DEF SsAbort, Installs, SetBound, SetBoundDist, Install

\* A step that changes the host or the progress of a tile is one of the rank that
\* works on it.
LEMMA AloneOnTile ==
  ASSUME IInv, RInv, NEW r \in Ranks, Rank(r), NEW q \in Ranks, q # r, pos[q].k < NT,
         NEW t, t = TileOf(pos[q])
  PROVE  t \in Tiles /\ host'[t] = host[t] /\ progress'[t] = progress[t]
<1>1. Walk(q) /\ Walk(r)
  BY DEF RInv, OfRank
<1>2. t \in Tiles /\ t # TileOf(pos[r])
  BY <1>1, AtWork, OneRank
<1> QED
  BY <1>2, HostStep, ProgressStep

LEMMA AheadKept ==
  ASSUME IInv, RInv, NEW r \in Ranks, Rank(r), NEW q \in Ranks
  PROVE  Ahead(q)'
<1>0. Walk(q) /\ Walk(r) /\ Ahead(q) /\ RTypes
  BY DEF RInv, OfRank
<1>1. SUFFICES ASSUME NEW t \in Tiles, Own(q, t[1], t[2]), Beyond(q, t)'
               PROVE  Beyond(q, t) /\ host'[t] = host[t] /\ progress'[t] = progress[t]
  BY <1>0 DEF Ahead
<1>2. /\ Number2(t[1], t[2]) \in Int
      /\ Number2(pos[r].m, pos[r].k) \in Int
  BY <1>0, NumberInt, NTAssumption DEF Walk, Positions, Tiles, Index
<1>3. Beyond(q, t)
  <2>1. CASE q # r
    <3>1. pc'[q] = pc[q] /\ pos'[q] = pos[q]
      BY <1>0, <2>1, Others
    <3> QED
      BY <1>1, <3>1 DEF Beyond
  <2>2. CASE q = r /\ pc[r] # "next"
    <3>1. pos'[r] = pos[r] /\ Moves(r, pc'[r])
      BY <2>2, Same
    <3>2. pc'[r] \in Starting \cup {"top"} => pc[r] \in Starting \cup {"top"}
      BY <2>2, <3>1 DEF Moves, Starting, AfterFirst
    <3> QED
      BY <1>1, <2>2, <3>1, <3>2 DEF Beyond
  <2>3. CASE q = r /\ pc[r] = "next"
    <3>1. pos'[r] = NextOf(pos[r]) /\ pos[r].k < NT
      BY <1>0, <2>3, Named DEF NextStep, IInv, Types, Walk, Busy
    <3>2. CASE pos[r].n < pos[r].k
      <4>1. pos'[r] = [k |-> pos[r].k, m |-> pos[r].m, n |-> pos[r].n + 1]
        BY <1>0, <3>1, <3>2, NextWalk
      <4>2. pos[r].n \in Nat
        BY <1>0 DEF Walk, Positions
      <4> QED
        BY <1>1, <2>3, <4>1, <4>2 DEF Beyond
    <3>3. CASE ~(pos[r].n < pos[r].k)
      <4>1. Number2(pos'[r].m, pos'[r].k) = Number2(pos[r].m, pos[r].k) + 2 * SIZE
        BY <1>0, <3>1, <3>3, NextWalk
      <4> QED
        BY <1>1, <1>2, <2>3, <4>1, SizeAssumption DEF Beyond
    <3> QED
      BY <3>2, <3>3
  <2> QED
    BY <2>1, <2>2, <2>3
<1>4. ~(t = TileOf(pos[r]) /\ pc[r] \in {"store", "publish"})
  <2> SUFFICES ASSUME t = TileOf(pos[r]), pc[r] \in {"store", "publish"} PROVE FALSE
    OBVIOUS
  <2>1. t[1] = pos[r].m /\ t[2] = pos[r].k
    BY DEF TileOf
  <2>2. Own(r, t[1], t[2])
    BY <1>0, <2>1 DEF Walk
  <2>3. q = r
    BY <1>1, <2>2, OwnUnique
  <2> QED
    BY <1>2, <1>3, <2>1, <2>3 DEF Beyond, Starting
<1> QED
  BY <1>3, <1>4, HostStep, ProgressStep

LEMMA PublishedKept ==
  ASSUME IInv, RInv, NEW r \in Ranks, Rank(r)
  PROVE  Published'
<1>0. Published /\ Current(r) /\ Begun(r)
  BY DEF RInv, OfRank
<1>1. <<0, 0>> \in Tiles
  BY NTAssumption DEF Tiles, Index
<1>2. SUFFICES ASSUME NEW t \in Tiles, progress'[t] = 1
               PROVE  /\ Done(host'[t], t) \/ (abort' /\ host'[t] = Garbage)
                      /\ progress'[<<0, 0>>] = 1
  BY DEF Published
<1>3. CASE progress[t] = 1
  BY <1>0, <1>1, <1>3, FinishedStays, AbortStays DEF Published
<1>4. CASE progress[t] # 1
  <2>1. pc[r] = "publish" /\ t = TileOf(pos[r]) /\ host[t] = Version(r)
    BY <1>2, <1>4, ProgressStep
  <2>2. t[2] = pos[r].k
    BY <2>1 DEF TileOf
  <2>3. Done(host[t], t) \/ (abort /\ host[t] = Garbage)
    BY <1>0, <2>1, <2>2 DEF Current, Version, Done
  <2>4. host'[t] = host[t]
    BY <2>1, HostStep
  <2>5. CASE t # <<0, 0>>
    <3>1. progress[<<0, 0>>] = 1
      BY <1>0, <2>1, <2>5 DEF Begun, Busy, Stored
    <3> QED
      BY <1>1, <2>3, <2>4, <3>1, FinishedStays, AbortStays
  <2> QED
    BY <1>2, <2>3, <2>4, <2>5, AbortStays
<1> QED
  BY <1>3, <1>4

LEMMA BegunKept ==
  ASSUME IInv, RInv, NEW r \in Ranks, Rank(r), NEW q \in Ranks
  PROVE  Begun(q)'
<1>0. Begun(q) /\ Walk(r) /\ Kind(r) /\ RTypes /\ Published
  BY DEF RInv, OfRank
<1>1. progress[<<0, 0>>] = 1 => progress'[<<0, 0>>] = 1
  BY FinishedStays, NTAssumption DEF Tiles, Index
<1>2. CASE q # r
  <2>1. pc'[q] = pc[q] /\ pos'[q] = pos[q]
    BY <1>0, <1>2, Others
  <2> QED
    BY <1>0, <1>1, <2>1 DEF Begun
<1>3. CASE q = r /\ pc[r] = "next"
  <2>1. pos'[r] = NextOf(pos[r]) /\ pos[r].k < NT /\ pc'[r] = "top"
    BY <1>0, <1>3, Named, Control DEF NextStep, IInv, Types, Walk, Busy, Moves
  <2>2. CASE pos[r].n < pos[r].k
    <3>1. pos'[r] = [k |-> pos[r].k, m |-> pos[r].m, n |-> pos[r].n + 1]
      BY <1>0, <2>1, <2>2, NextWalk
    <3>2. TileOf(pos'[r]) = TileOf(pos[r])
      BY <3>1 DEF TileOf
    <3> QED
      BY <1>0, <1>1, <1>3, <3>2 DEF Begun, Busy
  <2>3. CASE ~(pos[r].n < pos[r].k)
    <3>1. pos'[r].n = 0
      BY <1>0, <2>1, <2>3, NextWalk
    <3> QED
      BY <1>3, <2>1, <3>1 DEF Begun, Busy, Before, Operands, Stored
  <2> QED
    BY <2>2, <2>3
<1>4. CASE q = r /\ pc[r] # "next"
  <2>1. pos'[r] = pos[r] /\ Moves(r, pc'[r])
    BY <1>4, Same
  <2>2. CASE pc[r] = "wait1" /\ pc'[r] \in {"diag", "lock1"}
    <3>1. progress[Key1(r)] = 1
      BY <2>1, <2>2 DEF Moves
    <3>2. Key1(r) \in Tiles
      BY <2>2, Working DEF Busy, Before, Operands
    <3> QED
      BY <1>0, <1>1, <1>4, <3>1, <3>2 DEF Published, Begun
  <2>3. CASE pc[r] = "load" /\ pc'[r] = "kernel"
    <3>1. IsPotrf(pos[r]) /\ pos[r].n = 0
      BY <1>0, <2>1, <2>3 DEF Moves, Kind
    <3>2. TileOf(pos[r]) = <<0, 0>>
      BY <3>1 DEF IsPotrf, TileOf
    <3> QED
      BY <1>4, <2>1, <3>2 DEF Begun
  <2>4. CASE \/ pc[r] = "load" /\ pc'[r] = "wait1"
             \/ pc[r] = "wait1" /\ pc'[r] = "fini_bar"
    BY <1>0, <1>1, <1>4, <2>1, <2>4 DEF Begun, Busy, Before, Operands, Stored
  <2>5. CASE pc[r] \in Busy \ {"load", "wait1"}
    BY <1>0, <1>1, <1>4, <2>1, <2>5 DEF Begun
  <2>6. CASE pc[r] \notin Busy
    <3>1. pc'[r] \in Busy \ {"load", "wait1"} => pos[r].n # 0
      BY <2>1, <2>6 DEF Moves, Busy, Before, Operands, Stored
    <3> QED
      BY <1>0, <1>1, <1>4, <2>1, <3>1 DEF Begun
  <2>7. pc[r] \in {"load", "wait1"} =>
          \/ pc[r] = "wait1" /\ pc'[r] \in {"diag", "lock1", "fini_bar"}
          \/ pc[r] = "load" /\ pc'[r] \in {"kernel", "wait1"}
    BY <2>1 DEF Moves
  <2> QED
    BY <2>2, <2>3, <2>4, <2>5, <2>6, <2>7
<1> QED
  BY <1>2, <1>3, <1>4

LEMMA WaitedKept ==
  ASSUME IInv, RInv, NEW r \in Ranks, Rank(r), NEW q \in Ranks
  PROVE  Waited(q)'
<1>0. Waited(q) /\ RTypes /\ Published /\ Kind(q)
  BY DEF RInv, OfRank
<1> DEFINE here == pc[q] \in Before
<1>1. here => Key1(q) \in Tiles /\ Key2(q) \in Tiles
  BY Working DEF Busy
<1>2. here /\ Finished(Key1(q)) /\ pos'[q] = pos[q] => Finished(Key1(q))'
  BY <1>1, FinishedStays DEF Finished, Key1
<1>3. here /\ Finished(Key2(q)) /\ pos'[q] = pos[q] => Finished(Key2(q))'
  BY <1>1, FinishedStays DEF Finished, Key2
<1>4. CASE q # r
  <2>1. pc'[q] = pc[q] /\ pos'[q] = pos[q]
    BY <1>0, <1>4, Others
  <2> QED
    BY <1>0, <1>2, <1>3, <2>1 DEF Waited, Before, Operands
<1>5. CASE q = r /\ pc[r] = "next"
  <2>1. pc'[r] = "top"
    BY <1>5, Control DEF Moves
  <2> QED
    BY <1>5, <2>1 DEF Waited, Operands
<1>6. CASE q = r /\ pc[r] # "next"
  <2>1. pos'[r] = pos[r] /\ Moves(r, pc'[r])
    BY <1>6, Same
  <2>2. CASE pc[r] \in {"wait1", "wait2"}
    <3>1. pc'[r] # "fini_bar" => ~abort
      BY <2>1, <2>2 DEF Moves
    <3>2. pc[r] = "wait1" /\ pc'[r] # "fini_bar" =>
            progress[Key1(r)] = 1 /\ pc'[r] \in {"diag", "lock1"}
      BY <2>1 DEF Moves
    <3>3. pc[r] = "wait2" /\ pc'[r] # "fini_bar" =>
            progress[Key2(r)] = 1 /\ pc'[r] = "lock2"
      BY <2>1 DEF Moves
    <3>4. pc'[r] # "fini_bar" =>
            IF pc[r] = "wait1" THEN Finished(Key1(r)) ELSE Finished(Key2(r))
      BY <1>0, <1>1, <1>6, <2>2, <3>1, <3>2, <3>3
      DEF Published, Finished, Before, Operands
    <3> QED
      BY <1>0, <1>2, <1>3, <1>6, <2>1, <2>2, <3>2, <3>3, <3>4
      DEF Waited, Before, Operands
  <2>3. CASE pc[r] \in Operands \ {"wait1", "wait2"}
    BY <1>0, <1>2, <1>3, <1>6, <2>1, <2>3
    DEF Moves, Waited, Before, Operands, AfterFirst, IsGemm, IsTrsm, Key1, Key2, Kind
  <2>4. CASE pc[r] \notin Operands
    <3>1. pc'[r] \notin Operands \ {"wait1"} /\ (pc'[r] = "kernel" => IsPotrf(pos[r]))
      BY <2>1, <2>4 DEF Moves, Operands
    <3>2. "lock2" \in Operands /\ "look2" \in Operands /\ "load2" \in Operands
          /\ "landed" \in Operands
      BY DEF Operands
    <3> QED
      BY <1>6, <2>1, <3>1, <3>2 DEF Waited, IsPotrf, IsGemm
  <2> QED
    BY <2>2, <2>3, <2>4
<1> QED
  BY <1>4, <1>5, <1>6

\* No rank factors on a GPU whose root has not made its diagonal.
LEMMA Installed ==
  ASSUME IInv, RInv, NEW q \in Ranks, pc[q] \in Busy \ {"load", "wait1"}
  PROVE  /\ diagonal[On(q)] # None
         /\ \A r \in Ranks : IsRoot(r) /\ pc[r] \in Starting => On(r) # On(q)
         /\ \A r \in Ranks : pc[r] = "bound" => On(r) # On(q)
<1> DEFINE r == root[On(q)]
<1>0. Walk(q) /\ Begun(q) /\ On(r) = On(q) /\ r \in {0, q} /\ 0 \in Ranks
  BY SizeAssumption DEF RInv, OfRank, Rooted, Ranks
<1>1. r \in Ranks /\ IsRoot(r)
  BY <1>0 DEF IsRoot
<1> HIDE DEF r
<1>2. pc[r] \notin Starting
  <2>1. CASE r = q
    BY <2>1 DEF Busy, Before, Operands, Stored, Starting
  <2>2. CASE r # q
    <3> SUFFICES ASSUME pc[r] \in Starting PROVE FALSE
      OBVIOUS
    <3>1. r = 0 /\ Walk(0) /\ Ahead(0)
      BY <1>0, <2>2 DEF RInv, OfRank
    <3>2. Number2(0, 0) = 0
      BY NTAssumption DEF Number2
    <3>3. Number2(pos[0].m, pos[0].k) = 2 * 0 /\ pos[0].n = 0
      BY <3>1 DEF Walk
    <3>4. Own(0, 0, 0)
      BY <1>0, StartOwn
    <3>5. Beyond(0, <<0, 0>>)
      BY <3>1, <3>2, <3>3 DEF Beyond
    <3>6. <<0, 0>> \in Tiles
      BY NTAssumption DEF Tiles, Index
    <3>7. progress[<<0, 0>>] = 0
      BY <3>1, <3>4, <3>5, <3>6 DEF Ahead
    <3>8. TileOf(pos[q]) = <<0, 0>>
      BY <1>0, <3>7 DEF Begun
    <3>9. Own(q, 0, 0)
      BY <1>0, <3>8 DEF Walk, TileOf
    <3> QED
      BY <1>0, <2>2, <3>1, <3>4, <3>9, OwnUnique
  <2> QED
    BY <2>1, <2>2
<1>3. pc[r] \notin Ended
  <2>1. pc[q] \notin {"free", "done"}
    BY DEF Busy, Before, Operands, Stored
  <2> QED
    BY <1>1, <2>1 DEF IInv, Closing, Ended
<1>4. diagonal[On(q)] # None
  BY <1>0, <1>1, <1>2, <1>3 DEF RInv, Made
<1>5. \A s \in Ranks : IsRoot(s) /\ pc[s] \in Starting => On(s) # On(q)
  BY <1>2 DEF IsRoot, r
<1>6. \A s \in Ranks : pc[s] = "bound" => IsRoot(s)
  BY DEF RInv, OfRank, Walk
<1> QED
  BY <1>4, <1>5, <1>6 DEF Starting

LEMMA LockedKept ==
  ASSUME IInv, RInv, NEW r \in Ranks, Rank(r)
  PROVE  Locked'
<1>0. RTypes /\ Locked
  BY DEF RInv
<1>1. \/ lock' = lock
      \/ /\ lock' = [lock EXCEPT ![On(r)] = r] /\ lock[On(r)] = None
      \/ /\ lock' = [lock EXCEPT ![On(r)] = None]
         /\ pc[r] \in {"look1", "look2", "setidx"}
  BY DEF Rank, Enter, SetBound, SetBoundDist, Install, Top, LoadTile, Wait1, Wait2,
         WaitOperand, TakeDiagonal, CheckDiagonal, Lock1, Lock2, Acquire, Look1,
         Look2, Load1, Load2, Landed, Kernel, StoreTile, SwapDiagonal, SetIndex,
         Drain, RequestFail, SsAbort, Publish, NextStep, DeleteTable, tableVars
<1>2. SUFFICES ASSUME NEW q \in Ranks, pc'[q] \in {"look1", "look2", "setidx"}
               PROVE  lock'[On(q)] = q
  BY Same DEF Locked
<1>3. q # None /\ On(q) \in Devices /\ On(r) \in Devices
  BY Same DEF Ranks, None
<1>4. CASE q # r
  <2>1. lock[On(q)] = q
    BY <1>0, <1>2, <1>4, Others DEF Locked
  <2>2. pc[r] \in {"look1", "look2", "setidx"} => On(r) # On(q)
    BY <1>0, <1>4, <2>1 DEF Locked
  <2> QED
    BY <1>0, <1>1, <1>3, <2>1, <2>2 DEF RTypes
<1>5. CASE q = r
  <2>1. pc[r] \in {"lock1", "lock2", "swap"}
    BY <1>2, <1>5, Same DEF Moves, AfterFirst
  <2>2. lock' = [lock EXCEPT ![On(r)] = r]
    BY <2>1 DEF Rank, Enter, SetBound, SetBoundDist, Install, Top, LoadTile, Wait1,
         Wait2, WaitOperand, TakeDiagonal, CheckDiagonal, Lock1, Lock2, Acquire, Look1,
         Look2, Load1, Load2, Landed, Kernel, StoreTile, SwapDiagonal, SetIndex,
         Drain, RequestFail, SsAbort, Publish, NextStep, DeleteTable
  <2> QED
    BY <1>0, <1>3, <1>5, <2>2 DEF RTypes
<1> QED
  BY <1>4, <1>5

\* What a step does to the destinations and the diagonals.
LEMMA PlaceStep ==
  ASSUME IInv, RInv, NEW r \in Ranks, Rank(r)
  PROVE  \/ local' = local /\ diagonal' = diagonal
               /\ pc[r] \notin {"swap", "bound", "free"}
         \/ /\ pc[r] = "swap" /\ diagonal[On(r)] # None /\ lock[On(r)] = None
            /\ local' = [local EXCEPT ![r] = diagonal[On(r)]]
            /\ diagonal' = [diagonal EXCEPT ![On(r)] = local[r]]
         \/ /\ pc[r] = "bound" /\ IsRoot(r) /\ local' = local
            /\ diagonal' = [diagonal EXCEPT ![On(r)] = SIZE + On(r)]
         \/ /\ pc[r] = "free" /\ local' = local
            /\ diagonal' = [diagonal EXCEPT ![On(r)] = None]
<1>0. Walk(r)
  BY DEF RInv, OfRank
<1>1. CASE SwapDiagonal(r)
  <2>1. pc[r] = "swap"
    BY <1>1 DEF SwapDiagonal
  <2>2. diagonal[On(r)] # None
    BY <2>1, Installed DEF Busy, Stored
  <2> QED
    BY <1>1, <2>1, <2>2 DEF SwapDiagonal
<1>2. CASE Installs(r)
  BY <1>0, <1>2 DEF Installs, SetBound, SetBoundDist, Install, Walk
<1>3. CASE DeleteTable(r)
  BY <1>3 DEF DeleteTable
<1>4. CASE local' = local /\ diagonal' = diagonal
  BY <1>1, <1>2, <1>3, <1>4, Named
<1> QED
  BY <1>1, <1>2, <1>3, <1>4, Frame DEF Installs, SetBound, SetBoundDist, Install,
     DeleteTable

LEMMA PlacesKept ==
  ASSUME IInv, RInv, NEW r \in Ranks, Rank(r)
  PROVE  Places'
<1>0. /\ Places /\ On(r) \in Devices
      /\ local = [q \in Ranks |-> local[q]]
      /\ diagonal = [d \in Devices |-> diagonal[d]]
  BY Same DEF RInv, IInv, Types, Pointers
<1>1. CASE local' = local /\ diagonal' = diagonal
  BY <1>0, <1>1 DEF Places
<1>2. CASE /\ diagonal[On(r)] # None
           /\ local' = [local EXCEPT ![r] = diagonal[On(r)]]
           /\ diagonal' = [diagonal EXCEPT ![On(r)] = local[r]]
  BY <1>0, <1>2 DEF Places
<1>3. CASE /\ pc[r] = "bound" /\ IsRoot(r) /\ local' = local
           /\ diagonal' = [diagonal EXCEPT ![On(r)] = SIZE + On(r)]
  <2>1. SIZE + On(r) \in 0 .. 2 * SIZE - 1
    BY <1>0, SizeAssumption DEF Devices, Ranks
  <2>2. /\ \A q \in Ranks : local[q] # SIZE + On(r)
        /\ \A e \in Devices : diagonal[e] # SIZE + On(r)
    BY <1>3 DEF RInv, Made, Starting
  <2> DEFINE b == SIZE + On(r)
  <2> HIDE DEF b
  <2> QED
    BY <1>0, <1>3, <2>1, <2>2 DEF Places, b
<1>4. CASE /\ local' = local
           /\ diagonal' = [diagonal EXCEPT ![On(r)] = None]
  <2>1. \A q \in Ranks : local[q] # None
    BY <1>0 DEF Places, None
  <2> QED
    BY <1>0, <1>4, <2>1 DEF Places
<1> QED
  BY <1>1, <1>2, <1>3, <1>4, PlaceStep

LEMMA MadeKept ==
  ASSUME IInv, RInv, NEW r \in Ranks, Rank(r)
  PROVE  Made'
<1>0. /\ Places /\ Made /\ RTypes /\ On(r) \in Devices
      /\ local = [q \in Ranks |-> local[q]]
      /\ diagonal = [d \in Devices |-> diagonal[d]]
  BY Same DEF RInv, IInv, Types, Pointers
<1>1. SUFFICES ASSUME NEW q \in Ranks, IsRoot(q)
               PROVE  /\ pc'[q] \in Starting =>
                           /\ \A s \in Ranks : local'[s] # SIZE + On(q)
                           /\ \A e \in Devices : diagonal'[e] # SIZE + On(q)
                           /\ diagIdx'[On(q)] = -1
                      /\ pc'[q] \notin Starting \cup Ended => diagonal'[On(q)] # None
  BY Same DEF Made
<1>2. On(q) \in Devices /\ On(q) \in Int /\ On(r) \in Int
  BY Same DEF Devices, Ranks
<1>3. pc'[q] \in Starting => pc[q] \in Starting
  <2>1. CASE q = r
    BY <2>1, Same DEF Moves, Starting, AfterFirst
  <2> QED
    BY <1>0, <2>1, Others
<1>4. pc'[q] \notin Starting \cup Ended =>
        pc[q] \notin Starting \cup Ended \/ (q = r /\ pc[r] = "bound")
  <2>1. CASE q = r
    BY <2>1, Same DEF Moves, Starting, Ended
  <2> QED
    BY <1>0, <2>1, Others
<1>9. pc'[q] \in Starting => diagIdx'[On(q)] = -1
  <2> SUFFICES ASSUME pc'[q] \in Starting PROVE diagIdx'[On(q)] = -1
    OBVIOUS
  <2>1. diagIdx[On(q)] = -1
    BY <1>0, <1>1, <1>3 DEF Made
  <2>2. pc[r] = "setidx" => On(r) # On(q)
    BY <1>1, <1>3, Installed DEF Busy, Stored
  <2>3. diagIdx' = diagIdx \/ SetIndex(r)
    BY Frame
  <2> QED
    BY <1>0, <2>1, <2>2, <2>3, Same DEF RTypes, SetIndex
<1>5. CASE local' = local /\ diagonal' = diagonal /\ pc[r] # "bound"
  BY <1>0, <1>1, <1>3, <1>4, <1>5, <1>9 DEF Made
<1>6. CASE /\ pc[r] = "swap" /\ diagonal[On(r)] # None
           /\ local' = [local EXCEPT ![r] = diagonal[On(r)]]
           /\ diagonal' = [diagonal EXCEPT ![On(r)] = local[r]]
  <2>1. local[r] # None
    BY <1>0 DEF Places, None
  <2> QED
    BY <1>0, <1>1, <1>3, <1>4, <1>6, <1>9, <2>1 DEF Made
<1>7. CASE /\ pc[r] = "bound" /\ IsRoot(r) /\ local' = local
           /\ diagonal' = [diagonal EXCEPT ![On(r)] = SIZE + On(r)]
  <2>1. q # r => On(q) # On(r)
    BY <1>1, <1>7 DEF IsRoot
  <2>2. SIZE + On(r) # None /\ (q # r => SIZE + On(r) # SIZE + On(q))
    BY <1>2, <2>1, SizeAssumption, Same DEF None, Devices, Ranks
  <2>3. q = r => pc'[q] \notin Starting
    BY <1>7, Same DEF Moves, Starting
  <2> DEFINE b == SIZE + On(r)
             c == SIZE + On(q)
  <2> HIDE DEF b, c
  <2>4. q # r /\ pc'[q] \in Starting =>
           /\ \A s \in Ranks : local'[s] # c
           /\ \A e \in Devices : diagonal'[e] # c
    BY <1>0, <1>1, <1>3, <1>7, <2>2 DEF Made, b, c
  <2>5. pc'[q] \notin Starting \cup Ended => diagonal'[On(q)] # None
    BY <1>0, <1>1, <1>2, <1>4, <1>7, <2>1, <2>2 DEF Made
  <2> QED
    BY <1>9, <2>3, <2>4, <2>5 DEF c
<1>8. CASE pc[r] = "free"
  <2>1. \A s \in Ranks : pc[s] \in {"free", "done"}
    BY <1>8 DEF IInv, Closing
  <2>2. pc'[q] \in {"free", "done"}
    <3>1. CASE q = r
      BY <1>8, <3>1, Same DEF Moves
    <3> QED
      BY <1>0, <2>1, <3>1, Others
  <2> QED
    BY <2>2 DEF Starting, Ended
<1> QED
  BY <1>5, <1>6, <1>7, <1>8, PlaceStep

LEMMA OnlyOne ==
  ASSUME NEW a \in Nat, NEW b \in Nat, NEW c \in Nat, NEW d \in Nat, NEW e \in Nat,
         NEW f \in Nat, a # 0, a + b + c + d + e + f =< 1
  PROVE  b = 0
OBVIOUS

\* Drain leaves the loop when no trsm points to the buffer.
LEMMA DrainedUnused ==
  ASSUME Types, NEW r \in Ranks, local[r] # None, UseCount(local[r]) =< 1,
         NEW q \in Ranks
  PROVE  diagRef[q] # local[r]
<1> DEFINE b == local[r]
           At(f) == {x \in DOMAIN f : f[x] = b}
           In == {e \in Devices : \E u \in DOMAIN table[e] : table[e][u].buf = b}
<1>2. Cardinality(At(local)) + Cardinality(At(diagRef)) + Cardinality(At(ref1))
        + Cardinality(At(ref2)) + Cardinality(At(diagonal)) + Cardinality(In) =< 1
  BY DEF UseCount
<1>3. /\ At(local) \in SUBSET Ranks /\ At(diagRef) \in SUBSET Ranks
      /\ At(ref1) \in SUBSET Ranks /\ At(ref2) \in SUBSET Ranks
      /\ At(diagonal) \in SUBSET Ranks /\ In \in SUBSET Ranks
  BY DEF Types, Pointers, Devices
<1>4. r \in At(local)
  BY DEF Types, Pointers
<1>5. Cardinality(At(local)) \in Nat /\ Cardinality(At(local)) # 0
  BY <1>3, <1>4, Counted
<1>6. /\ Cardinality(In) \in Nat /\ Cardinality(At(diagRef)) \in Nat
      /\ Cardinality(At(ref1)) \in Nat /\ Cardinality(At(ref2)) \in Nat
      /\ Cardinality(At(diagonal)) \in Nat
  BY <1>3, Counted
<1> HIDE DEF At, In
<1>7. Cardinality(At(diagRef)) = 0
  BY <1>2, <1>5, <1>6, OnlyOne
<1>8. At(diagRef) = {}
  BY <1>3, <1>7, Counted
<1> QED
  BY <1>8 DEF At, Types, Pointers

\* Where the pointers of a rank come from.
LEMMA RefStep ==
  ASSUME IInv, RInv, NEW r \in Ranks, Rank(r)
  PROVE  /\ \/ pc[r] = "diag" /\ diagRef'[r] = diagonal[On(r)]
            \/ /\ pc[r] # "diag"
               /\ \/ diagRef'[r] \in TableBuffers /\ pc[r] \in {"look1", "load1"}
                  \/ diagRef'[r] = diagRef[r]
                  \/ diagRef'[r] = None
         /\ ref1'[r] \in TableBuffers \/ ref1'[r] = None
         /\ ref2'[r] \in TableBuffers \/ ref2'[r] = None
<1>0. Operand(r)
  BY DEF RInv, OfRank
<1> USE DEF IInv, Types, Pointers, Operand
<1>1. CASE UNCHANGED <<diagRef, ref1, ref2>>
  BY <1>0, <1>1, Named DEF TakeDiagonal
<1>2. CASE Wait1(r) \/ Wait2(r)
  BY <1>0, <1>2 DEF Wait1, Wait2, WaitOperand
<1>3. CASE TakeDiagonal(r)
  BY <1>0, <1>3 DEF TakeDiagonal
<1>4. CASE NextStep(r)
  BY <1>0, <1>4 DEF NextStep
<1>5. CASE Look1(r)
  <2>1. PICK b \in TableBuffers, exist \in BOOLEAN :
          IF exist /\ IsTrsm(pos[r])
          THEN diagRef' = [diagRef EXCEPT ![r] = b] /\ UNCHANGED ref1
          ELSE ref1' = [ref1 EXCEPT ![r] = b] /\ UNCHANGED diagRef
    BY <1>5 DEF Look1
  <2> QED
    BY <1>0, <1>5, <2>1 DEF Look1
<1>6. CASE Look2(r)
  BY <1>0, <1>6 DEF Look2
<1>7. CASE Load1(r)
  <2>1. ref1[r] # None
    BY <1>7 DEF Load1, Held
  <2> QED
    BY <1>0, <1>7, <2>1 DEF Load1
<1> QED
  BY <1>1, <1>2, <1>3, <1>4, <1>5, <1>6, <1>7, Frame DEF Looks

LEMMA DrainedKept ==
  ASSUME IInv, RInv, NEW r \in Ranks, Rank(r)
  PROVE  Drained'
<1>0. /\ Places /\ Drained /\ RTypes /\ On(r) \in Devices
      /\ local = [q \in Ranks |-> local[q]]
  BY Same DEF RInv, IInv, Types, Pointers
<1>1. SUFFICES ASSUME NEW a \in Ranks, NEW c \in Ranks,
                      diagRef'[a] # None, diagRef'[a] = local'[c]
               PROVE  pc'[c] \in {"setidx", "drain"}
  BY DEF Drained
<1>2. CASE pc[r] = "swap" /\ c = r
  BY <1>2, Same DEF Moves
<1>3. CASE ~(pc[r] = "swap" /\ c = r)
  <2>1. local'[c] = local[c]
    BY <1>0, <1>3, PlaceStep
  <2>2. local[c] \notin TableBuffers
    BY <1>0, SizeAssumption DEF Places, TableBuffers
  <2>3. diagRef'[a] = diagRef[a]
    <3>1. CASE a # r
      BY <1>0, <3>1, Others
    <3>2. CASE a = r
      BY <1>0, <1>1, <2>1, <2>2, <3>2, RefStep DEF Places
    <3> QED
      BY <3>1, <3>2
  <2>4. pc[c] \in {"setidx", "drain"}
    BY <1>0, <1>1, <2>1, <2>3 DEF Drained
  <2>5. CASE c # r
    BY <1>0, <2>4, <2>5, Others
  <2>6. CASE c = r /\ pc[r] = "setidx"
    BY <2>6, Same DEF Moves
  <2>7. CASE c = r /\ pc[r] = "drain"
    <3>1. UseCount(local[r]) =< 1
      BY <2>7, Named DEF Drain
    <3>2. local[r] # None
      BY <1>0 DEF Places, None
    <3> QED
      BY <1>1, <2>1, <2>3, <2>7, <3>1, <3>2, DrainedUnused DEF IInv
  <2> QED
    BY <2>4, <2>5, <2>6, <2>7
<1> QED
  BY <1>2, <1>3

\* What no step writes to keeps what it holds.
LEMMA HoldsKept ==
  ASSUME IInv, RInv, NEW r \in Ranks, Rank(r), NEW b, b # Touch(r) \/ Touch(r) = None,
         NEW t, NEW v
  PROVE  Holds(b, t, v)' <=> Holds(b, t, v)
<1>1. CASE dev' = dev
  BY <1>1 DEF Holds
<1>2. CASE pc[r] \in {"load", "kernel", "load1", "load2"}
  <2>1. Touch(r) \in Nat
    BY <1>2, DevStep
  <2>2. b # Touch(r)
    BY <2>1 DEF None
  <2> QED
    BY <2>2, DevStep DEF Holds
<1> QED
  BY <1>1, <1>2, Frame DEF Writes, LoadTile, Kernel, Load1, Load2

\* A rank writes to its own destination or to a buffer of the table.
LEMMA Apart ==
  ASSUME IInv, RInv, NEW r \in Ranks
  PROVE  /\ \A q \in Ranks : q # r => local[q] # Touch(r)
         /\ pc[r] \notin {"load", "kernel"} => local[r] # Touch(r)
         /\ \A d \in Devices : diagonal[d] # Touch(r) \/ Touch(r) = None
         /\ Touch(r) = local[r] \/ Touch(r) \in TableBuffers \cup {None}
         /\ \A q \in Ranks : local[q] \notin TableBuffers \cup {None}
         /\ \A d \in Devices : diagonal[d] \notin TableBuffers
<1>1. Operand(r) /\ Places
  BY DEF RInv, OfRank
<1>2. \A b \in TableBuffers : b \in Nat /\ b >= 2 * SIZE
  BY SizeAssumption DEF TableBuffers
<1>3. Touch(r) = local[r] \/ Touch(r) \in TableBuffers \cup {None}
  BY <1>1 DEF Operand, Touch
<1>4. \A q \in Ranks : local[q] \notin TableBuffers \cup {None}
  BY <1>1, <1>2, SizeAssumption DEF Places, None
<1>5. \A d \in Devices : diagonal[d] \notin TableBuffers
  BY <1>1, <1>2, SizeAssumption DEF Places, None
<1>6. pc[r] \notin {"load", "kernel"} => Touch(r) \in TableBuffers \cup {None}
  BY <1>1 DEF Operand, Touch
<1> QED
  BY <1>1, <1>3, <1>4, <1>5, <1>6 DEF Places

\* The tile of another rank than the one that steps.
LEMMA CurrentElse ==
  ASSUME IInv, RInv, NEW r \in Ranks, Rank(r), NEW q \in Ranks, q # r
  PROVE  Current(q)'
<1> DEFINE t == TileOf(pos[q])
<1>0. /\ Current(q) /\ Walk(q) /\ RTypes /\ Locked /\ On(q) \in Devices /\ On(r) \in Devices
      /\ \A s \in Ranks : On(s)' = On(s)
      /\ diagonal = [d \in Devices |-> diagonal[d]]
  BY Same DEF RInv, OfRank, IInv, Types
<1>1. /\ pc'[q] = pc[q] /\ pos'[q] = pos[q] /\ info'[q] = info[q] /\ local'[q] = local[q]
      /\ On(q)' = On(q)
  BY <1>0, Others
<1>2. pos[q].k < NT => host'[t] = host[t] /\ progress'[t] = progress[t]
  BY AloneOnTile
<1>3. pc[q] \in Busy \/ pos[q].n # 0 => pos[q].k < NT
  BY <1>0, NTAssumption DEF Walk, Positions, Standing
<1>4. \A u, v : Holds(local[q], u, v)' <=> Holds(local[q], u, v)
  <2>1. PICK b : b = local[q]
    OBVIOUS
  <2>2. b # Touch(r)
    BY <2>1, Apart
  <2>3. \A u, v : Holds(b, u, v)' <=> Holds(b, u, v)
    BY <2>2, HoldsKept
  <2> QED
    BY <1>1, <2>1, <2>3 DEF Holds
<1>5. Version(q)' = Version(q) /\ TileOf(pos[q])' = t
  BY <1>1 DEF Version, TileOf
<1>6. pc[q] = "setidx" => Holds(diagonal[On(q)], t, Version(q))'
  <2> SUFFICES ASSUME pc[q] = "setidx" PROVE Holds(diagonal[On(q)], t, Version(q))'
    OBVIOUS
  <2>1. PICK b, u, v : b = diagonal[On(q)] /\ u = t /\ v = Version(q)
    OBVIOUS
  <2>2. Holds(b, u, v)
    BY <1>0, <2>1 DEF Current
  <2>3. diagonal'[On(q)] = b
    <3>1. pc[r] = "swap" /\ lock[On(r)] = None => On(r) # On(q)
      BY <1>0 DEF Locked, Ranks, None
    <3>2. pc[r] = "bound" => On(r) # On(q)
      BY Installed DEF Busy, Stored
    <3>3. pc[r] # "free"
      BY DEF IInv, Closing
    <3> QED
      BY <1>0, <2>1, <3>1, <3>2, <3>3, PlaceStep
  <2>4. b # Touch(r) \/ Touch(r) = None
    BY <1>0, <2>1, Apart
  <2>5. Holds(b, u, v)'
    BY <2>2, <2>4, HoldsKept
  <2> QED
    BY <1>1, <1>5, <2>1, <2>3, <2>5 DEF Holds
<1>7. abort => abort'
  BY AbortStays
<1> QED
  BY <1>0, <1>1, <1>2, <1>3, <1>4, <1>5, <1>6, <1>7
  DEF Current, Busy, Before, Stored, Operands, Holds

\* The tile of the rank that steps.
LEMMA CurrentOwn ==
  ASSUME IInv, RInv, NEW r \in Ranks, Rank(r), pc[r] # "next"
  PROVE  Current(r)'
<1>0. /\ Current(r) /\ Walk(r) /\ Kind(r) /\ Ahead(r) /\ RTypes /\ On(r) \in Devices
      /\ On(r)' = On(r)
      /\ diagonal = [d \in Devices |-> diagonal[d]]
      /\ local = [q \in Ranks |-> local[q]]
  BY Same DEF RInv, OfRank, IInv, Types, Pointers
<1>1. PICK p, t, b, v, w : /\ p = pos[r] /\ t = TileOf(p) /\ b = local[r]
                           /\ v = IF info[r] THEN Garbage ELSE p.k + 1
                           /\ w = IF info'[r] THEN Garbage ELSE p.k + 1
  OBVIOUS
<1>2. pos'[r] = p /\ Moves(r, pc'[r])
  BY <1>1, Same
<1>3. p.n \in Nat /\ p.k \in Nat /\ p.n =< p.k /\ (p.n # 0 => p.k < NT)
  BY <1>0, <1>1, NTAssumption DEF Walk, Positions, Standing
<1>4. Current(r)' <=>
  /\ pc'[r] \in Before \cup {"load", "store"} \/ (pc'[r] = "top" /\ p.n # 0)
       \/ (pc'[r] = "next" /\ p.n < p.k) => host'[t] = 0 /\ progress'[t] = 0
  /\ pc'[r] \in Before \/ (pc'[r] = "top" /\ p.n # 0) => Holds(local[r], t, p.n)'
  /\ pc'[r] = "next" /\ p.n < p.k => Holds(local[r], t, p.n + 1)'
  /\ pc'[r] = "next" /\ p.n = p.k => progress'[t] = 1
  /\ pc'[r] \in {"store", "swap"} => Holds(local[r], t, w)'
  /\ pc'[r] \in Stored => host'[t] = w /\ progress'[t] = 0
  /\ pc'[r] = "setidx" => Holds(diagonal[On(r)], t, w)'
  /\ pc'[r] \in Stored \cup {"store"} /\ info'[r] => IsPotrf(p)
  /\ pc'[r] \in {"fail", "abort"} => info'[r]
  /\ pc'[r] = "publish" /\ info'[r] => abort'
  BY <1>1, <1>2, Zenon DEF Current, Version, Holds
<1>5. /\ pc[r] \notin {"store", "publish"} /\ p.k < NT =>
           host'[t] = host[t] /\ progress'[t] = progress[t]
      /\ p.k < NT => t \in Tiles
  BY <1>0, <1>1, AtWork, HostStep, ProgressStep
<1>6. /\ pc[r] \notin {"load", "kernel"} => \A u, x : Holds(b, u, x)' <=> Holds(b, u, x)
      /\ pc[r] # "swap" => local'[r] = b
  <2>1. pc[r] \notin {"load", "kernel"} => b # Touch(r)
    BY <1>1, Apart
  <2>2. pc[r] \notin {"load", "kernel"} => \A u, x : Holds(b, u, x)' <=> Holds(b, u, x)
    BY <2>1, HoldsKept
  <2> QED
    BY <1>0, <1>1, <2>2, PlaceStep
<1>7. pc[r] # "kernel" => info'[r] = info[r]
  BY Frame DEF Kernel
<1>8. \A u, x : Holds(local[r], u, x) <=> Holds(b, u, x)
  BY <1>1 DEF Holds
<1>9. pc[r] # "swap" => \A u, x : Holds(local[r], u, x)' <=> Holds(b, u, x)'
  BY <1>6 DEF Holds
<1> USE DEF Before, Operands, Stored
<1>10. CASE pc[r] \in Starting \cup Ended
  <2>1. pc'[r] \in {"init_bar", "top", "done"} /\ (pc'[r] = "top" => p.n = 0)
    BY <1>0, <1>1, <1>2, <1>10 DEF Moves, Starting, Ended, Walk
  <2> QED
    BY <1>4, <2>1
<1>11. CASE pc[r] = "top"
  <2>1. CASE pc'[r] = "fini_bar"
    BY <1>4, <2>1
  <2>2. CASE pc'[r] # "fini_bar"
    <3>1. p.k < NT /\ IF p.n = 0 THEN pc'[r] = "load" ELSE pc'[r] \in {"kernel", "wait1"}
      BY <1>1, <1>2, <1>11, <2>2 DEF Moves, InTriangle
    <3>2. host[t] = 0 /\ progress[t] = 0
      <4>1. CASE p.n = 0
        <5>1. t \in Tiles /\ t[1] = p.m /\ t[2] = p.k /\ Own(r, p.m, p.k)
          BY <1>0, <1>1, <3>1, AtWork
        <5>2. Beyond(r, t)
          BY <1>1, <1>11, <4>1, <5>1 DEF Beyond
        <5> QED
          BY <1>0, <5>1, <5>2 DEF Ahead
      <4>2. CASE p.n # 0
        BY <1>0, <1>1, <1>11, <4>2 DEF Current
      <4> QED
        BY <4>1, <4>2
    <3>3. p.n # 0 => Holds(b, t, p.n)
      BY <1>0, <1>1, <1>8, <1>11 DEF Current
    <3>4. p.n # 0 => Holds(local[r], t, p.n)'
      BY <1>6, <1>9, <1>11, <3>3
    <3> QED
      BY <1>4, <1>5, <1>11, <3>1, <3>2, <3>4
  <2> QED
    BY <2>1, <2>2
<1>12. CASE pc[r] = "load"
  <2>1. /\ p.k < NT /\ p.n = 0 /\ pc'[r] \in {"kernel", "wait1"}
        /\ host[t] = 0 /\ progress[t] = 0
    BY <1>0, <1>1, <1>2, <1>12 DEF Moves, Walk, Busy, Kind, Current
  <2>2. Holds(local[r], t, p.n)'
    <3>1. Touch(r) = b
      BY <1>1, <1>12 DEF Touch
    <3>2. Holds(b, t, p.n)'
      BY <1>1, <1>12, <2>1, <3>1, DevStep DEF Holds
    <3> QED
      BY <1>9, <1>12, <3>2
  <2> QED
    BY <1>4, <1>5, <1>12, <2>1, <2>2
<1>13. CASE pc[r] \in Operands
  <2>1. p.k < NT /\ host[t] = 0 /\ progress[t] = 0 /\ Holds(b, t, p.n)
    BY <1>0, <1>1, <1>8, <1>13 DEF Walk, Busy, Current
  <2>2. Holds(local[r], t, p.n)'
    BY <1>6, <1>9, <1>13, <2>1
  <2>3. pc'[r] \in Before \cup {"fini_bar"}
    BY <1>2, <1>13 DEF Moves, AfterFirst
  <2> QED
    BY <1>4, <1>5, <1>13, <2>1, <2>2, <2>3
<1>14. CASE pc[r] = "kernel"
  <2>1. p.k < NT /\ host[t] = 0 /\ progress[t] = 0
    BY <1>0, <1>1, <1>14 DEF Walk, Busy, Current
  <2>2. pc'[r] = IF p.n = p.k THEN "store" ELSE "next"
    BY <1>1, <1>2, <1>14 DEF Moves
  <2>3. PICK x : x = IF info'[r] THEN Garbage ELSE p.n + 1
    OBVIOUS
  <2>4. Holds(local[r], t, x)'
    <3>1. Touch(r) = b
      BY <1>1, <1>14 DEF Touch
    <3>2. b \in DOMAIN dev' /\ dev'[b] = [t |-> t, v |-> x]
      BY <1>1, <1>14, <2>3, <3>1, DevStep
    <3>3. Holds(b, t, x)'
      BY <3>2 DEF Holds
    <3> QED
      BY <1>9, <1>14, <3>3
  <2>5. info'[r] => IsPotrf(p)
    BY <1>1, <1>14, DevStep
  <2>6. CASE p.n = p.k
    <3>1. x = w
      BY <1>1, <2>3, <2>6
    <3> QED
      BY <1>4, <1>5, <1>14, <2>1, <2>2, <2>4, <2>5, <2>6, <3>1
  <2>7. CASE p.n # p.k
    <3>1. x = p.n + 1
      BY <2>3, <2>5, <2>7 DEF IsPotrf
    <3> QED
      BY <1>3, <1>4, <1>5, <1>14, <2>1, <2>2, <2>4, <2>7, <3>1
  <2> QED
    BY <2>6, <2>7
<1>15. CASE pc[r] = "store"
  <2>1. /\ p.k < NT /\ progress[t] = 0
        /\ Holds(b, t, v)
        /\ info[r] => IsPotrf(p)
    BY <1>0, <1>1, <1>8, <1>15 DEF Walk, Busy, Current, Version
  <2>2. Holds(local[r], t, v)'
    BY <1>6, <1>9, <1>15, <2>1
  <2>3. host'[t] = v /\ progress'[t] = progress[t]
    BY <1>1, <1>5, <1>15, <2>1, HostStep, ProgressStep DEF Version
  <2>4. pc'[r] = IF IsPotrf(p) THEN "swap" ELSE "publish"
    BY <1>1, <1>2, <1>15 DEF Moves
  <2> QED
    BY <1>1, <1>4, <1>7, <1>15, <2>1, <2>2, <2>3, <2>4
<1>16. CASE pc[r] = "swap"
  <2>1. /\ p.k < NT /\ progress[t] = 0
        /\ host[t] = v
        /\ Holds(b, t, v)
        /\ info[r] => IsPotrf(p)
    BY <1>0, <1>1, <1>8, <1>16 DEF Walk, Busy, Current, Version
  <2>2. diagonal'[On(r)] = b
    BY <1>0, <1>1, <1>16, PlaceStep
  <2>3. Holds(b, t, v)'
    BY <1>6, <1>16, <2>1
  <2>4. Holds(diagonal[On(r)], t, v)'
    BY <1>0, <1>7, <1>16, <2>2, <2>3 DEF Holds
  <2>5. pc'[r] = "setidx"
    BY <1>2, <1>16 DEF Moves
  <2> QED
    BY <1>1, <1>4, <1>5, <1>7, <1>16, <2>1, <2>4, <2>5
<1>17. CASE pc[r] \in {"setidx", "drain", "fail", "abort"}
  <2>1. /\ p.k < NT /\ progress[t] = 0 /\ IsPotrf(p)
        /\ host[t] = v
        /\ pc[r] \in {"fail", "abort"} => info[r]
    BY <1>0, <1>1, <1>17 DEF Walk, Busy, Current, Version, Kind
  <2>2. pc'[r] \in {"drain", "fail", "abort", "publish"}
    BY <1>2, <1>17 DEF Moves
  <2>3. pc'[r] \in {"fail", "abort"} => info[r]
    BY <1>2, <1>17, <2>1 DEF Moves
  <2>4. pc'[r] = "publish" /\ info[r] => abort'
    <3>1. pc'[r] = "publish" /\ info[r] => pc[r] = "abort"
      BY <1>2, <1>17 DEF Moves
    <3> QED
      BY <3>1, Named DEF SsAbort
  <2> QED
    BY <1>1, <1>4, <1>5, <1>7, <1>17, <2>1, <2>2, <2>3, <2>4
<1>18. CASE pc[r] = "publish"
  <2>1. p.n = p.k /\ pc'[r] = "next" /\ progress'[t] = 1
    BY <1>0, <1>1, <1>2, <1>18, ProgressStep DEF Moves, Kind
  <2> QED
    BY <1>3, <1>4, <2>1
<1> QED
  BY <1>2, <1>10, <1>11, <1>12, <1>13, <1>14, <1>15, <1>16, <1>17, <1>18
  DEF Moves, Starting, Ended

LEMMA CurrentKept ==
  ASSUME IInv, RInv, NEW r \in Ranks, Rank(r), NEW q \in Ranks
  PROVE  Current(q)'
<1>1. CASE q # r
  BY <1>1, CurrentElse
<1>2. CASE q = r /\ pc[r] # "next"
  BY <1>2, CurrentOwn
<1>3. CASE q = r /\ pc[r] = "next"
  <2>0. /\ Current(r) /\ Walk(r) /\ RTypes /\ local = [s \in Ranks |-> local[s]]
    BY DEF RInv, OfRank, IInv, Types, Pointers
  <2>1. PICK p, c, t, b : p = pos[r] /\ c = NextOf(p) /\ t = TileOf(p) /\ b = local[r]
    OBVIOUS
  <2>2. p.k < NT /\ p.n \in Nat
    BY <1>3, <2>0, <2>1 DEF Walk, Busy, Positions
  <2>3. /\ pos'[r] = c /\ pc'[r] = "top" /\ local'[r] = b
        /\ host'[t] = host[t] /\ progress'[t] = progress[t]
    <3>1. pos'[r] = c /\ pc'[r] = "top"
      BY <1>3, <2>1, Named, Control DEF NextStep, IInv, Types, Moves
    <3>2. t \in Tiles
      BY <2>0, <2>1, <2>2, AtWork
    <3> QED
      BY <1>3, <2>1, <3>1, <3>2, PlaceStep, HostStep, ProgressStep
  <2>4. CASE p.n < p.k
    <3>1. c = [k |-> p.k, m |-> p.m, n |-> p.n + 1]
      BY <2>0, <2>1, <2>2, <2>4, NextWalk
    <3>2. TileOf(c) = t /\ c.n = p.n + 1
      BY <2>1, <3>1 DEF TileOf
    <3>3. host[t] = 0 /\ progress[t] = 0 /\ Holds(b, t, p.n + 1)
      BY <1>3, <2>0, <2>1, <2>4 DEF Current, Holds
    <3>4. b # Touch(r)
      BY <1>3, <2>1, Apart
    <3>5. Holds(b, t, p.n + 1)'
      BY <3>3, <3>4, HoldsKept
    <3> QED
      BY <1>3, <2>3, <3>2, <3>3, <3>5 DEF Current, Before, Operands, Stored, Holds
  <2>5. CASE ~(p.n < p.k)
    <3>1. c.n = 0
      BY <2>0, <2>1, <2>2, <2>5, NextWalk
    <3> QED
      BY <1>3, <2>3, <3>1 DEF Current, Before, Operands, Stored
  <2> QED
    BY <2>4, <2>5
<1> QED
  BY <1>1, <1>2, <1>3

\* A buffer that nobody points to is in no table.
LEMMA UnusedBuffer ==
  ASSUME Types, NEW b \in Nat, UseCount(b) = 0,
         NEW e \in Devices, NEW u \in DOMAIN table[e]
  PROVE  table[e][u].buf # b
<1> DEFINE At(f) == {x \in DOMAIN f : f[x] = b}
           In == {d \in Devices : \E t \in DOMAIN table[d] : table[d][t].buf = b}
<1>1. Cardinality(At(local)) + Cardinality(At(diagRef)) + Cardinality(At(ref1))
        + Cardinality(At(ref2)) + Cardinality(At(diagonal)) + Cardinality(In) = 0
  BY DEF UseCount, None
<1>2. /\ At(local) \in SUBSET Ranks /\ At(diagRef) \in SUBSET Ranks
      /\ At(ref1) \in SUBSET Ranks /\ At(ref2) \in SUBSET Ranks
      /\ At(diagonal) \in SUBSET Ranks /\ In \in SUBSET Ranks
  BY DEF Types, Pointers, Devices
<1>3. /\ Cardinality(In) \in Nat /\ Cardinality(At(diagRef)) \in Nat
      /\ Cardinality(At(ref1)) \in Nat /\ Cardinality(At(ref2)) \in Nat
      /\ Cardinality(At(diagonal)) \in Nat /\ Cardinality(At(local)) \in Nat
  BY <1>2, Counted
<1> HIDE DEF At, In
<1>4. Cardinality(In) = 0
  BY <1>1, <1>3
<1>5. In = {}
  BY <1>2, <1>4, Counted
<1> QED
  BY <1>5 DEF In

\* lookupTable, entry by entry: what it does for a key that is not in the table.
Inserted(d, key, b) ==
  /\ key \in DOMAIN table'[d]
  /\ table'[d][key] = [buf |-> b, landed |-> FALSE]
  /\ \A e \in Devices : \A u \in DOMAIN table'[e] :
       \/ e = d /\ u = key
       \/ /\ u \in DOMAIN table[e] /\ table'[e][u] = table[e][u]
          /\ table[e][u].buf # b
  /\ \A e \in Devices : \A u \in DOMAIN table[e] :
       ~Stealable(table[e][u].buf) =>
         u \in DOMAIN table'[e] /\ table'[e][u] = table[e][u]

LEMMA LookupIs ==
  ASSUME IInv, RInv, NEW d \in Devices, NEW key, NEW b \in TableBuffers,
         NEW exist \in BOOLEAN, Lookup(d, key, b, exist)
  PROVE  table' = table \/ Inserted(d, key, b)
<1> DEFINE map == table[d]
           Insert(keys) ==
             table' = [table EXCEPT ![d] =
                         [t \in keys \cup {key} |->
                            IF t = key THEN [buf |-> b, landed |-> FALSE]
                                       ELSE map[t]]]
<1>0. Types /\ Entries /\ b \in Nat /\ table = [e \in Devices |-> table[e]]
  BY SizeAssumption DEF IInv, RInv, Types, TableBuffers
<1>1. CASE exist
  BY <1>1 DEF Lookup
<1>2. ASSUME NEW keys \in SUBSET DOMAIN map, Insert(keys), ~exist, key \notin DOMAIN map,
             \A u \in keys : map[u].buf # b,
             \A e \in Devices \ {d} : \A u \in DOMAIN table[e] : table[e][u].buf # b,
             \A t \in DOMAIN map \ keys : Stealable(map[t].buf)
      PROVE  Inserted(d, key, b)
  <2>1. table'[d] = [t \in keys \cup {key} |->
                       IF t = key THEN [buf |-> b, landed |-> FALSE] ELSE map[t]]
    BY <1>0, <1>2
  <2>2. \A e \in Devices \ {d} : table'[e] = table[e]
    BY <1>0, <1>2
  <2> QED
    BY <1>2, <2>1, <2>2 DEF Inserted
<1>3. CASE ~exist
  <2>1. key \notin DOMAIN map
    BY <1>3 DEF Lookup
  <2>2. CASE UseCount(b) = 0 /\ Insert(DOMAIN map)
    <3>1. \A e \in Devices : \A u \in DOMAIN table[e] : table[e][u].buf # b
      BY <1>0, <2>2, UnusedBuffer
    <3> HIDE DEF Insert
    <3> QED
      BY <1>2, <1>3, <2>1, <2>2, <3>1
  <2>3. CASE \E old \in DOMAIN map : /\ map[old].buf = b /\ Stealable(b)
                                     /\ Insert(DOMAIN map \ {old})
    <3>1. PICK old \in DOMAIN map : /\ map[old].buf = b /\ Stealable(b)
                                    /\ Insert(DOMAIN map \ {old})
      BY <2>3
    <3>2. /\ \A u \in DOMAIN map \ {old} : map[u].buf # b
          /\ \A e \in Devices \ {d} : \A u \in DOMAIN table[e] : table[e][u].buf # b
          /\ \A t \in DOMAIN map \ (DOMAIN map \ {old}) : Stealable(map[t].buf)
      BY <1>0, <3>1 DEF Entries
    <3> HIDE DEF Insert
    <3> QED
      BY <1>2, <1>3, <2>1, <3>1, <3>2
  <2> QED
    BY <1>3, <2>2, <2>3 DEF Lookup
<1> QED
  BY <1>1, <1>3

\* A copy that has landed, entry by entry.
LEMMA FetchIs ==
  ASSUME Types, NEW d \in Devices, NEW b, NEW key, Fetch(d, b, key), NEW e \in Devices
  PROVE  /\ DOMAIN table'[e] = DOMAIN table[e]
         /\ \A u \in DOMAIN table[e] :
              /\ table'[e][u].buf = table[e][u].buf
              /\ table'[e][u].landed <=> table[e][u].landed \/ (e = d /\ u = key)
<1>1. table' = [table EXCEPT ![d][key].landed = TRUE]
  BY DEF Fetch
<1>2. IsMap(table[d]) /\ d \in DOMAIN table
  BY DEF Types
<1>3. CASE e # d
  <2>1. table'[e] = table[e]
    BY <1>1, <1>3 DEF Types
  <2> QED
    BY <1>3, <2>1
<1>4. CASE e = d
  <2>1. table'[d] = [table[d] EXCEPT ![key] = [@ EXCEPT !.landed = TRUE]]
    BY <1>1, <1>2
  <2>2. DOMAIN table'[d] = DOMAIN table[d]
    BY <2>1
  <2>3. ASSUME NEW u \in DOMAIN table[d]
        PROVE  /\ table'[d][u].buf = table[d][u].buf
               /\ table'[d][u].landed <=> table[d][u].landed \/ u = key
    <3>1. table[d][u] \in [buf : Nat, landed : BOOLEAN]
      BY <1>2 DEF IsMap
    <3>2. table'[d][u] = IF u = key THEN [table[d][u] EXCEPT !.landed = TRUE]
                                    ELSE table[d][u]
      BY <1>2, <2>1 DEF IsMap
    <3>3. CASE u = key
      BY <3>1, <3>2, <3>3
    <3>4. CASE u # key
      BY <3>1, <3>2, <3>4
    <3> QED
      BY <3>3, <3>4
  <2> QED
    BY <1>4, <2>2, <2>3
<1> QED
  BY <1>3, <1>4

\* The step of a rank on its table.
LEMMA TableStep ==
  ASSUME IInv, RInv, NEW r \in Ranks, Rank(r)
  PROVE  \/ table' = table /\ pc[r] \notin {"load1", "load2"}
         \/ /\ pc[r] \in {"look1", "look2"} /\ dev' = dev
            /\ \E b \in TableBuffers, exist \in BOOLEAN :
                 Lookup(On(r), IF pc[r] = "look1" THEN Key1(r) ELSE Key2(r), b, exist)
         \/ pc[r] = "load1" /\ Fetch(On(r), ref1[r], Key1(r))
         \/ pc[r] = "load2" /\ Fetch(On(r), ref2[r], Key2(r))
         \/ /\ pc[r] = "free" /\ dev' = dev
            /\ table' = [table EXCEPT ![On(r)] = <<>>]
<1>1. CASE Look1(r)
  <2>1. \E b \in TableBuffers, exist \in BOOLEAN : Lookup(On(r), Key1(r), b, exist)
    BY <1>1 DEF Look1
  <2> QED
    BY <1>1, <2>1 DEF Look1
<1>2. CASE Look2(r)
  <2>1. \E b \in TableBuffers, exist \in BOOLEAN : Lookup(On(r), Key2(r), b, exist)
    BY <1>2 DEF Look2
  <2> QED
    BY <1>2, <2>1 DEF Look2
<1>3. CASE Load1(r) \/ Load2(r)
  BY <1>3 DEF Load1, Load2
<1>4. CASE DeleteTable(r)
  BY <1>4 DEF DeleteTable
<1> QED
  BY <1>1, <1>2, <1>3, <1>4, Named, Frame DEF Looks

\* What a rank points to stays in the table, and stays landed.
LEMMA EntryStays ==
  ASSUME IInv, RInv, NEW r \in Ranks, Rank(r), NEW q \in Ranks,
         pc[q] \notin {"free", "done"}, NEW k, NEW x, x \in {ref1[q], ref2[q], diagRef[q]},
         Pinned(table[On(q)], k, x)
  PROVE  /\ Pinned(table'[On(q)], k, x)
         /\ table[On(q)][k].landed => table'[On(q)][k].landed
<1>0. Types /\ On(q) \in Devices /\ On(r) \in Devices
  BY DeviceOf DEF IInv
<1>1. CASE table' = table
  BY <1>1
<1>2. CASE \E key : \E b \in TableBuffers, exist \in BOOLEAN : Lookup(On(r), key, b, exist)
  <2>1. PICK key : \E b \in TableBuffers, exist \in BOOLEAN : Lookup(On(r), key, b, exist)
    BY <1>2
  <2>2. PICK b \in TableBuffers, exist \in BOOLEAN : Lookup(On(r), key, b, exist)
    BY <2>1
  <2>3. k \in DOMAIN table[On(q)] /\ table[On(q)][k].buf = x
    BY DEF Pinned
  <2>4. ~Stealable(table[On(q)][k].buf)
    BY <1>0, <2>3, StealableUnused
  <2>5. table' = table \/ Inserted(On(r), key, b)
    BY <1>0, <2>2, LookupIs
  <2>6. table'[On(q)][k] = table[On(q)][k] /\ k \in DOMAIN table'[On(q)]
    BY <1>0, <2>3, <2>4, <2>5 DEF Inserted
  <2> QED
    BY <2>3, <2>6 DEF Pinned
<1>3. CASE \E b, key : Fetch(On(r), b, key)
  BY <1>0, <1>3, FetchIs DEF Pinned
<1>4. pc[r] # "free"
  BY DEF IInv, Closing
<1> QED
  BY <1>1, <1>2, <1>3, <1>4, TableStep

LEMMA EntriesKept ==
  ASSUME IInv, RInv, NEW r \in Ranks, Rank(r)
  PROVE  Entries'
<1>0. Types /\ Entries /\ On(r) \in Devices /\ Operand(r)
  BY DeviceOf DEF IInv, RInv, OfRank
\* It is enough to look at the entries that are new or have landed.
<1>a. ASSUME \A d \in Devices : \A t \in DOMAIN table'[d] :
               /\ t \in Tiles /\ table'[d][t].buf \in TableBuffers
               /\ table'[d][t].landed =>
                    \E x : x = table'[d][t].buf /\ Holds(x, t, t[2] + 1)'
               /\ \A e \in Devices : \A u \in DOMAIN table'[e] :
                    table'[d][t].buf = table'[e][u].buf => d = e /\ t = u
      PROVE  Entries'
  BY <1>a DEF Entries, Holds
<1>b. ASSUME NEW d \in Devices, NEW t \in DOMAIN table[d], table[d][t].landed,
             NEW x, x = table[d][t].buf, x # Touch(r) \/ Touch(r) = None
      PROVE  Holds(x, t, t[2] + 1)'
  <2>1. Holds(x, t, t[2] + 1)
    BY <1>0, <1>b DEF Entries
  <2> QED
    BY <1>b, <2>1, HoldsKept
<1>1. CASE table' = table /\ pc[r] \notin {"load1", "load2"}
  <2>1. \A b \in TableBuffers : b # Touch(r) \/ Touch(r) = None
    BY <1>1, Apart DEF Touch
  <2>2. ASSUME NEW d \in Devices, NEW t \in DOMAIN table[d]
        PROVE  /\ t \in Tiles /\ table[d][t].buf \in TableBuffers
               /\ \A e \in Devices : \A u \in DOMAIN table[e] :
                    table[d][t].buf = table[e][u].buf => d = e /\ t = u
    BY <1>0 DEF Entries
  <2> QED
    BY <1>1, <1>a, <1>b, <2>1, <2>2
<1>2. ASSUME NEW key \in Tiles, NEW b \in TableBuffers, NEW exist \in BOOLEAN,
             Lookup(On(r), key, b, exist), Touch(r) = None
      PROVE  Entries'
  <2>0. ASSUME NEW d \in Devices, NEW t \in DOMAIN table[d]
        PROVE  /\ t \in Tiles /\ table[d][t].buf \in TableBuffers
               /\ \A e \in Devices : \A u \in DOMAIN table[e] :
                    table[d][t].buf = table[e][u].buf => d = e /\ t = u
    BY <1>0 DEF Entries
  <2>1. CASE table' = table
    BY <1>2, <1>a, <1>b, <2>0, <2>1
  <2>d. PICK d : d \in Devices /\ Lookup(d, key, b, exist)
    BY <1>0, <1>2
  <2>2. CASE table' # table
    <3>1. Inserted(d, key, b)
      BY <2>d, <2>2, LookupIs
    <3>2. /\ key \in DOMAIN table'[d]
          /\ table'[d][key] = [buf |-> b, landed |-> FALSE]
          /\ \A e \in Devices : \A u \in DOMAIN table'[e] :
               \/ e = d /\ u = key
               \/ /\ u \in DOMAIN table[e] /\ table'[e][u] = table[e][u]
                  /\ table[e][u].buf # b
      BY <2>d, <3>1 DEF Inserted
    <3>3. table'[d][key].buf = b /\ ~table'[d][key].landed
      BY <3>2
    <3>4. ASSUME NEW e \in Devices, NEW u \in DOMAIN table'[e]
          PROVE  /\ u \in Tiles /\ table'[e][u].buf \in TableBuffers
                 /\ table'[e][u].landed =>
                      \E x : x = table'[e][u].buf /\ Holds(x, u, u[2] + 1)'
                 /\ \A f \in Devices : \A w \in DOMAIN table'[f] :
                      table'[e][u].buf = table'[f][w].buf => e = f /\ u = w
      <4>1. CASE e = d /\ u = key
        BY <1>2, <3>2, <3>3, <4>1
      <4>2. CASE ~(e = d /\ u = key)
        <5>1. /\ u \in DOMAIN table[e] /\ table'[e][u] = table[e][u]
              /\ table[e][u].buf # b
          BY <3>2, <4>2
        <5>2. table'[e][u].landed =>
                \E x : x = table'[e][u].buf /\ Holds(x, u, u[2] + 1)'
          BY <1>2, <1>b, <5>1
        <5> QED
          BY <2>0, <3>2, <3>3, <5>1, <5>2
      <4> QED
        BY <4>1, <4>2
    <3> QED
      BY <1>a, <3>4
  <2> QED
    BY <2>1, <2>2
<1>3. ASSUME NEW b, NEW key, Fetch(On(r), b, key), Pinned(table[On(r)], key, b),
             b = Touch(r), b \in DOMAIN dev', dev'[b] = Copied(key)
      PROVE  Entries'
  <2>0. ASSUME NEW d \in Devices, NEW t \in DOMAIN table[d]
        PROVE  /\ t \in Tiles /\ table[d][t].buf \in TableBuffers
               /\ \A e \in Devices : \A u \in DOMAIN table[e] :
                    table[d][t].buf = table[e][u].buf => d = e /\ t = u
    BY <1>0 DEF Entries
  <2>1. \A e \in Devices :
          /\ DOMAIN table'[e] = DOMAIN table[e]
          /\ \A u \in DOMAIN table[e] :
               /\ table'[e][u].buf = table[e][u].buf
               /\ table'[e][u].landed <=> table[e][u].landed \/ (e = On(r) /\ u = key)
    BY <1>0, <1>3, FetchIs
  <2>2. Holds(b, key, key[2] + 1)'
    BY <1>3 DEF Holds, Copied
  <2>3. ASSUME NEW e \in Devices, NEW u \in DOMAIN table[e], table'[e][u].landed,
               NEW x, x = table[e][u].buf
        PROVE  Holds(x, u, u[2] + 1)'
    <3>1. CASE x = b
      <4>0. key \in DOMAIN table[On(r)] /\ table[On(r)][key].buf = table[e][u].buf
        BY <1>3, <2>3, <3>1 DEF Pinned
      <4>1. u = key
        BY <1>0, <2>0, <4>0
      <4> QED
        BY <2>2, <3>1, <4>1
    <3>2. CASE x # b
      <4>1. ~(e = On(r) /\ u = key)
        BY <1>3, <2>3, <3>2 DEF Pinned
      <4>2. table[e][u].landed
        BY <2>1, <2>3, <4>1
      <4> QED
        BY <1>3, <1>b, <2>3, <3>2, <4>2
    <3> QED
      BY <3>1, <3>2
  <2> QED
    BY <1>a, <2>0, <2>1, <2>3
<1>4. CASE pc[r] = "load1" /\ Fetch(On(r), ref1[r], Key1(r))
  <2>1. Pinned(table[On(r)], Key1(r), ref1[r])
    BY <1>4 DEF IInv, Held, Keeps, OneHeld
  <2> QED
    BY <1>3, <1>4, <2>1, DevStep DEF Touch
<1>5. CASE pc[r] = "load2" /\ Fetch(On(r), ref2[r], Key2(r))
  <2>1. Pinned(table[On(r)], Key2(r), ref2[r])
    BY <1>0, <1>5 DEF IInv, Keeps, Operand
  <2> QED
    BY <1>3, <1>5, <2>1, DevStep DEF Touch
<1>6. CASE pc[r] = "free" /\ table' = [table EXCEPT ![On(r)] = <<>>]
  <2>0. ASSUME NEW d \in Devices, NEW t \in DOMAIN table[d]
        PROVE  /\ t \in Tiles /\ table[d][t].buf \in TableBuffers
               /\ \A e \in Devices : \A u \in DOMAIN table[e] :
                    table[d][t].buf = table[e][u].buf => d = e /\ t = u
    BY <1>0 DEF Entries
  <2>1. table'[On(r)] = <<>> /\ \A e \in Devices \ {On(r)} : table'[e] = table[e]
    BY <1>0, <1>6 DEF Types
  <2>2. \A e \in Devices : \A u \in DOMAIN table'[e] : e # On(r) /\ table'[e] = table[e]
    BY <2>1
  <2>3. Touch(r) = None
    BY <1>6 DEF Touch
  <2> QED
    BY <1>a, <1>b, <2>0, <2>2, <2>3
<1>7. pc[r] \in {"look1", "look2"} => Key1(r) \in Tiles /\ Key2(r) \in Tiles
  BY Working DEF Busy, Before, Operands
<1>8. pc[r] \in {"look1", "look2"} => Touch(r) = None
  BY DEF Touch
<1> QED
  BY <1>1, <1>2, <1>4, <1>5, <1>6, <1>7, <1>8, TableStep

LEMMA OperandKept ==
  ASSUME IInv, RInv, NEW r \in Ranks, Rank(r), NEW q \in Ranks
  PROVE  Operand(q)'
<1>0. Operand(q) /\ Operand(r) /\ RTypes
  BY DEF RInv, OfRank
<1>1. PICK d, p, k1, k2 : d = On(q) /\ p = pos[q] /\ k1 = First(p) /\ k2 = Second(p)
  OBVIOUS
<1>2. CASE q # r
  <2>1. /\ pc'[q] = pc[q] /\ pos'[q] = p /\ ref1'[q] = ref1[q] /\ ref2'[q] = ref2[q]
        /\ On(q)' = d
    BY <1>0, <1>1, <1>2, Others, Same
  <2>2. ASSUME pc[q] = "kernel", IsSyrk(p) \/ IsGemm(p)
        PROVE  table'[d][k1].landed
    <3>1. ref1[q] # None /\ table[d][k1].landed
      BY <1>0, <1>1, <2>2 DEF Operand, Key1
    <3>2. Pinned(table[d], k1, ref1[q])
      BY <1>1, <3>1 DEF IInv, Keeps, Key1
    <3> QED
      BY <1>1, <2>2, <3>1, <3>2, EntryStays
  <2>3. ASSUME pc[q] = "kernel", IsGemm(p)
        PROVE  table'[d][k2].landed
    <3>1. ref2[q] # None /\ table[d][k2].landed
      BY <1>0, <1>1, <2>3 DEF Operand, Key2
    <3>2. Pinned(table[d], k2, ref2[q])
      BY <1>1, <3>1 DEF IInv, Keeps, Key2
    <3> QED
      BY <1>1, <2>3, <3>1, <3>2, EntryStays
  <2> QED
    BY <1>0, <1>1, <2>1, <2>2, <2>3 DEF Operand, Key1, Key2
<1>3. CASE q = r
  <2>0. /\ ref1'[r] \in TableBuffers \/ ref1'[r] = None
        /\ ref2'[r] \in TableBuffers \/ ref2'[r] = None
        /\ \A b \in TableBuffers : b # None
    BY RefStep, SizeAssumption DEF TableBuffers, None
  <2>1. On(q)' = d
    BY <1>1, Same
  <2>2. CASE pc'[r] \notin {"wait2", "lock2", "look2", "load2", "landed", "kernel"}
    BY <1>3, <2>0, <2>2 DEF Operand
  <2>3. CASE pc'[r] \in {"wait2", "lock2", "look2", "load2", "landed", "kernel"}
    <3>0. pc[r] # "next" /\ pos'[r] = p /\ Moves(r, pc'[r])
      BY <1>1, <1>3, <2>3, Same DEF Moves
    <3>1. CASE pc[r] = "look1"
      <4>1. Look1(r) /\ pc'[r] \in {"load1", AfterFirst(p)}
        BY <1>1, <1>3, <3>0, <3>1, Named DEF Moves
      <4>2. ~IsTrsm(p) => ref1'[r] # None
        BY <1>1, <1>3, <2>0, <4>1 DEF Look1, IInv, Types, Pointers
      <4> QED
        BY <1>1, <1>3, <2>0, <2>3, <3>0, <4>1, <4>2
        DEF Operand, AfterFirst, IsTrsm, IsSyrk, IsGemm
    <3>2. CASE pc[r] = "load1"
      <4>1. Load1(r) /\ pc'[r] = AfterFirst(p) /\ ref1[r] # None
        BY <1>1, <1>3, <3>0, <3>2, Named DEF Moves, IInv, Held
      <4>2. ~IsTrsm(p) => ref1'[r] # None
        BY <1>1, <1>3, <4>1 DEF Load1
      <4> QED
        BY <1>1, <1>3, <2>0, <2>3, <3>0, <4>1, <4>2
        DEF Operand, AfterFirst, IsTrsm, IsSyrk, IsGemm
    <3>3. CASE pc[r] = "look2"
      <4>1. Look2(r) /\ pc'[r] \in {"load2", "landed"} /\ ref1[r] # None
        BY <1>0, <1>1, <1>3, <3>0, <3>3, Named DEF Moves, Operand
      <4>2. ref2'[r] # None /\ ref1'[r] = ref1[r]
        BY <2>0, <4>1 DEF Look2, IInv, Types, Pointers
      <4> QED
        BY <1>3, <2>0, <2>3, <4>1, <4>2 DEF Operand
    <3>4. CASE pc[r] = "wait2"
      <4>1. Wait2(r) /\ pc'[r] = "lock2" /\ ref1[r] # None
        BY <1>0, <1>1, <1>3, <2>3, <3>0, <3>4, Named DEF Moves, Operand
      <4>2. ref1'[r] = ref1[r]
        BY <4>1 DEF Wait2, WaitOperand, Goto, IInv, Types
      <4> QED
        BY <1>3, <2>0, <4>1, <4>2 DEF Operand
    <3>5. CASE pc[r] \in {"lock2", "load2", "landed", "idx", "top", "load"}
      <4>1. UNCHANGED <<ref1, ref2>>
        BY <3>5, Frame DEF Wait1, Wait2, WaitOperand, TakeDiagonal, Looks, Look1, Look2,
                           Load1, NextStep
      <4>2. CASE pc[r] \in {"lock2", "load2"}
        <5>1. pc'[r] \in {"look2", "landed"} /\ ref1[r] # None
                /\ (pc'[r] = "landed" => ref2[r] # None)
          BY <1>0, <1>3, <3>0, <4>2 DEF Moves, Operand
        <5> QED
          BY <1>3, <2>0, <4>1, <5>1 DEF Operand
      <4>3. CASE pc[r] = "landed"
        <5>1. /\ pc'[r] = "kernel" /\ table' = table
              /\ table[d][k1].landed /\ (IsGemm(p) => table[d][k2].landed)
          BY <1>1, <1>3, <4>3, <3>0, Named DEF Moves, Landed, Key1, Key2, tableVars
        <5> QED
          BY <1>0, <1>1, <1>3, <2>0, <2>1, <3>0, <4>1, <4>3, <5>1 DEF Operand, Key1, Key2
      <4>4. CASE pc[r] \in {"idx", "top", "load"}
        <5>1. pc'[r] = "kernel" /\ (IsTrsm(p) \/ IsPotrf(p))
          BY <1>0, <1>1, <1>3, <2>3, <3>0, <4>4
          DEF Moves, RInv, OfRank, Kind, Operands
        <5> QED
          BY <1>3, <2>0, <3>0, <5>1 DEF Operand, IsTrsm, IsPotrf, IsSyrk, IsGemm
      <4> QED
        BY <3>5, <4>2, <4>3, <4>4
    <3> QED
      BY <2>3, <3>0, <3>1, <3>2, <3>3, <3>4, <3>5 DEF Moves
  <2> QED
    BY <2>2, <2>3
<1> QED
  BY <1>2, <1>3

\* No rank writes to a diagonal that a trsm points to.
LEMMA DiagonalUnwritten ==
  ASSUME RInv, NEW r \in Ranks, NEW q \in Ranks, NEW b, b = diagRef[q], b \notin TableBuffers
  PROVE  b # Touch(r) \/ Touch(r) = None
<1>1. Operand(r) /\ Drained
  BY DEF RInv, OfRank
<1>2. b = local[r] => b = None \/ pc[r] \in {"setidx", "drain"}
  BY <1>1 DEF Drained
<1> QED
  BY <1>1, <1>2 DEF Touch, Operand

LEMMA GripElse ==
  ASSUME IInv, RInv, NEW r \in Ranks, Rank(r), NEW q \in Ranks, q # r
  PROVE  Grip(q)'
<1>0. /\ Grip(q) /\ Kind(q) /\ Waited(q) /\ Walk(q) /\ RTypes /\ Entries
      /\ On(q) \in Devices /\ On(r) \in Devices
  BY DeviceOf DEF RInv, OfRank, IInv
<1>1. PICK d, p, k1, b : d = On(q) /\ p = pos[q] /\ k1 = First(p) /\ b = diagRef[q]
  OBVIOUS
<1>2. /\ pc'[q] = pc[q] /\ pos'[q] = p /\ diagRef'[q] = b /\ On(q)' = d
  BY <1>0, <1>1, Others, Same
<1>3. b \notin TableBuffers => \A t, v : Holds(b, t, v)' <=> Holds(b, t, v)
  BY <1>1, DiagonalUnwritten, HoldsKept
<1>4. pc[q] = "idx" /\ diagIdx'[d] = p.k => diagIdx[d] = p.k
  <2> SUFFICES ASSUME pc[q] = "idx", diagIdx'[d] = p.k, diagIdx[d] # p.k PROVE FALSE
    OBVIOUS
  <2>1. SetIndex(r) /\ On(r) = d /\ pos[r].k = p.k
    BY <1>0, <1>1, Frame DEF SetIndex, RTypes
  <2>2. Current(r) /\ Kind(r) /\ pc[r] = "setidx"
    BY <2>1 DEF RInv, OfRank, SetIndex
  <2>3. TileOf(pos[r]) = k1
    BY <1>0, <1>1, <2>1, <2>2 DEF Kind, IsPotrf, IsTrsm, TileOf, First
  <2>4. progress[k1] = 0
    BY <2>2, <2>3 DEF Current, Stored
  <2>5. progress[k1] = 1
    BY <1>0, <1>1 DEF Waited, Operands, Finished, Key1
  <2> QED
    BY <2>4, <2>5
<1>5. pc[q] = "idx" /\ diagIdx'[d] = p.k => Holds(b, k1, p.n + 1)'
  <2> SUFFICES ASSUME pc[q] = "idx", diagIdx'[d] = p.k PROVE Holds(b, k1, p.n + 1)'
    OBVIOUS
  <2>1. Holds(b, k1, p.n + 1) /\ b \notin TableBuffers
    BY <1>0, <1>1, <1>4 DEF Grip, Key1
  <2> QED
    BY <1>3, <2>1
<1>6. ASSUME pc[q] = "kernel", IsTrsm(p)
      PROVE  Holds(b, k1, p.n + 1)' /\ (b \in TableBuffers => Pinned(table'[d], k1, b))
  <2>1. Holds(b, k1, p.n + 1) /\ (b \in TableBuffers => Pinned(table[d], k1, b))
    BY <1>0, <1>1, <1>6 DEF Grip, Key1
  <2>2. CASE b \notin TableBuffers
    BY <1>3, <2>1, <2>2
  <2>3. CASE b \in TableBuffers
    <3>1. Pinned(table[d], k1, b) /\ Pinned(table'[d], k1, b)
      BY <1>1, <1>6, <2>1, <2>3, EntryStays
    <3>2. CASE b # Touch(r)
      BY <2>1, <3>1, <3>2, HoldsKept
    <3>3. CASE b = Touch(r)
      <4>1. pc[r] \in {"load1", "load2"}
        <5>1. local[r] # b /\ b # None
          BY <2>3, Apart, SizeAssumption DEF TableBuffers, None
        <5> QED
          BY <3>3, <5>1 DEF Touch
      <4>2. PICK key : /\ Pinned(table[On(r)], key, b)
                       /\ b \in DOMAIN dev' /\ dev'[b] = Copied(key)
        <5>0. Keeps(r) /\ Held(r) /\ Operand(r) /\ b # None
          BY <2>3, SizeAssumption DEF IInv, RInv, OfRank, TableBuffers, None
        <5>1. CASE pc[r] = "load1"
          BY <3>3, <5>0, <5>1, DevStep DEF Keeps, Touch
        <5>2. CASE pc[r] = "load2"
          BY <3>3, <5>0, <5>2, DevStep DEF Keeps, Touch
        <5> QED
          BY <4>1, <5>1, <5>2
      <4>3. key = k1
        <5>1. /\ key \in DOMAIN table[On(r)] /\ table[On(r)][key].buf = b
              /\ k1 \in DOMAIN table[d] /\ table[d][k1].buf = b
          BY <3>1, <4>2 DEF Pinned
        <5> QED
          BY <1>0, <1>1, <5>1 DEF Entries
      <4>4. k1[2] = p.n
        BY <1>1 DEF First
      <4> QED
        BY <3>1, <4>2, <4>3, <4>4 DEF Holds, Copied
    <3> QED
      BY <3>2, <3>3
  <2> QED
    BY <2>2, <2>3
<1>7. /\ b \in 0 .. 2 * SIZE - 1 \/ b \in TableBuffers \/ b = None
      /\ pc[q] = "idx" => b \notin TableBuffers
  BY <1>0, <1>1 DEF Grip
<1> QED
  BY <1>1, <1>2, <1>5, <1>6, <1>7 DEF Grip, Holds, Key1

LEMMA GripOwn ==
  ASSUME IInv, RInv, NEW r \in Ranks, Rank(r)
  PROVE  Grip(r)'
<1>0. /\ Grip(r) /\ Kind(r) /\ Waited(r) /\ Keeps(r) /\ Entries /\ Places /\ Locked /\ Diagonals
      /\ On(r) \in Devices /\ On(r)' = On(r)
  BY Same DEF RInv, OfRank, IInv
<1>1. PICK d, p, k1, b, c : /\ d = On(r) /\ p = pos[r] /\ k1 = First(p)
                            /\ b = diagRef[r] /\ c = diagRef'[r]
  OBVIOUS
<1>2. c \in 0 .. 2 * SIZE - 1 \/ c \in TableBuffers \/ c = None
  BY <1>0, <1>1, RefStep DEF Grip, Places
<1>3. CASE pc'[r] = "idx"
  <2>1. pc[r] = "diag" /\ pos'[r] = p /\ IsTrsm(p)
    BY <1>0, <1>1, <1>3, Same DEF Moves, AfterFirst, Kind
  <2>2. c = diagonal[d] /\ c \notin TableBuffers /\ Touch(r) = None
    BY <1>0, <1>1, <2>1, RefStep, Apart DEF Touch
  <2>3. diagIdx' = diagIdx
    BY <2>1, Frame DEF SetIndex
  <2>4. ASSUME diagIdx[d] = p.k PROVE Holds(c, k1, p.n + 1)'
    <3>1. p.k \in Nat /\ k1 = <<p.k, p.k>> /\ p.n = p.k
      BY <1>1, <2>1, Working DEF Busy, Before, Operands, IsTrsm, First
    <3>2. \A s \in Ranks : pc[s] \notin Ended /\ (On(s) = d => pc[s] # "setidx")
      <4>1. lock[d] = None
        BY <1>1, <2>1, Named DEF TakeDiagonal
      <4>2. \A s \in Ranks : pc[s] \notin Ended
        BY <2>1 DEF IInv, Closing, Ended
      <4>3. \A s \in Ranks : s # None
        BY DEF Ranks, None
      <4> QED
        BY <1>0, <4>1, <4>2, <4>3 DEF Locked
    <3>3. Holds(c, k1, host[k1])
      BY <1>0, <1>1, <2>2, <2>4, <3>1, <3>2 DEF Diagonals
    <3>4. host[k1] = p.n + 1
      BY <1>0, <1>1, <2>1, <3>1 DEF Waited, Operands, Finished, Done, Key1
    <3> QED
      BY <2>2, <3>3, <3>4, HoldsKept
  <2> QED
    BY <1>0, <1>1, <1>2, <1>3, <2>1, <2>2, <2>3, <2>4 DEF Grip, Holds, Key1
<1>4. CASE pc'[r] = "kernel"
  <2>1. ASSUME IsTrsm(p)
        PROVE  Holds(c, k1, p.n + 1)' /\ (c \in TableBuffers => Pinned(table'[d], k1, c))
    <3>1. pc[r] \in {"idx", "landed"} /\ Moves(r, "kernel")
      BY <1>1, <1>4, <2>1, Same DEF Moves, AfterFirst, IsTrsm, IsPotrf
    <3>2. c = b /\ Touch(r) = None
      BY <1>1, <3>1, Frame
      DEF Touch, Wait1, Wait2, WaitOperand, TakeDiagonal, Looks, Look1, Look2, Load1, NextStep
    <3>3. CASE pc[r] = "idx"
      <4>1. diagIdx[d] = p.k
        BY <1>1, <3>1, <3>3 DEF Moves
      <4>2. Holds(b, k1, p.n + 1) /\ b \notin TableBuffers
        BY <1>0, <1>1, <3>3, <4>1 DEF Grip, Key1
      <4> QED
        BY <3>2, <4>2, HoldsKept
    <3>4. CASE pc[r] = "landed"
      <4>1. table[d][k1].landed /\ table' = table
        BY <1>1, <3>4, Named DEF Landed, Key1, tableVars
      <4>2. Pinned(table[d], k1, b)
        BY <1>0, <1>1, <2>1, <3>4 DEF Keeps, Key1
      <4>3. Holds(b, k1, k1[2] + 1)
        <5>1. k1 \in DOMAIN table[d] /\ table[d][k1].buf = b
          BY <4>2 DEF Pinned
        <5> QED
          BY <1>0, <1>1, <4>1, <5>1 DEF Entries
      <4>4. k1[2] = p.n
        BY <1>1 DEF First
      <4> QED
        BY <3>2, <4>1, <4>2, <4>3, <4>4, HoldsKept
    <3> QED
      BY <3>1, <3>3, <3>4
  <2>2. pos'[r] = p
    BY <1>1, <1>4, Same DEF Moves
  <2> QED
    BY <1>0, <1>1, <1>2, <1>4, <2>1, <2>2 DEF Grip, Holds, Key1
<1>5. CASE pc'[r] \notin {"idx", "kernel"}
  BY <1>1, <1>2, <1>5 DEF Grip
<1> QED
  BY <1>3, <1>4, <1>5

LEMMA GripKept ==
  ASSUME IInv, RInv, NEW r \in Ranks, Rank(r), NEW q \in Ranks
  PROVE  Grip(q)'
BY GripElse, GripOwn

LEMMA DiagonalsKept ==
  ASSUME IInv, RInv, NEW r \in Ranks, Rank(r)
  PROVE  Diagonals'
<1>0. /\ RTypes /\ Diagonals /\ Made /\ Current(r) /\ Kind(r) /\ Walk(r)
      /\ On(r) \in Devices
      /\ diagonal = [e \in Devices |-> diagonal[e]]
      /\ \A q : On(q)' = On(q)
  BY Same DEF RInv, OfRank, IInv, Types
<1>1. SUFFICES ASSUME NEW d \in Devices, NEW t, t = <<diagIdx'[d], diagIdx'[d]>>,
                      diagIdx'[d] # -1,
                      \A q \in Ranks : pc'[q] \notin Ended /\ (On(q) = d => pc'[q] # "setidx")
               PROVE  t \in Tiles /\ Holds(diagonal[d], t, host[t])' /\ host'[t] # 0
  BY <1>0 DEF Diagonals, Holds
\* It is enough to find the buffer that the diagonal was, and is.
<1>2. ASSUME t \in Tiles, NEW b, b = diagonal[d], b = diagonal'[d], NEW v, Holds(b, t, v),
             host[t] = v, host'[t] = v, v # 0
      PROVE  t \in Tiles /\ Holds(diagonal[d], t, host[t])' /\ host'[t] # 0
  <2>1. b # Touch(r) \/ Touch(r) = None
    BY <1>2, Apart
  <2>2. Holds(b, t, v)'
    BY <1>2, <2>1, HoldsKept
  <2> QED
    BY <1>2, <2>2 DEF Holds
<1>3. CASE pc[r] = "setidx" /\ On(r) = d
  <2>1. SetIndex(r) /\ diagIdx'[d] = pos[r].k
    BY <1>0, <1>3, Named DEF SetIndex, RTypes
  <2>2. t = TileOf(pos[r]) /\ t \in Tiles
    BY <1>0, <1>1, <1>3, <2>1, Working DEF Kind, IsPotrf, TileOf, Busy, Stored
  <2>3. Holds(diagonal[d], t, Version(r)) /\ host[t] = Version(r)
    BY <1>0, <1>3, <2>2 DEF Current, Stored
  <2>4. Version(r) # 0
    BY <1>0, VersionFacts
  <2>5. host' = host /\ diagonal' = diagonal
    BY <2>1 DEF SetIndex
  <2>6. PICK b, v : b = diagonal[d] /\ v = Version(r)
    OBVIOUS
  <2> QED
    BY <1>2, <2>2, <2>3, <2>4, <2>5, <2>6
<1>4. CASE ~(pc[r] = "setidx" /\ On(r) = d)
  <2>1. diagIdx'[d] = diagIdx[d]
    BY <1>0, <1>4, Frame DEF SetIndex, RTypes
  <2>2. pc[r] \notin Ended
    BY <1>1, Same DEF Moves, Ended
  <2>3. \A q \in Ranks : pc[q] \notin Ended /\ (On(q) = d => pc[q] # "setidx")
    BY <1>0, <1>1, <1>4, <2>2, Others
  <2>4. t \in Tiles /\ Holds(diagonal[d], t, host[t]) /\ host[t] # 0
    BY <1>0, <1>1, <2>1, <2>3 DEF Diagonals
  <2>5. host'[t] = host[t]
    BY <2>4, HostStep
  <2>6. diagonal'[d] = diagonal[d]
    <3>1. pc[r] = "swap" => On(r) # d
      BY <1>1, Same DEF Moves
    <3>2. pc[r] = "bound" /\ IsRoot(r) => On(r) # d
      BY <1>0, <1>1, <2>1 DEF Made, Starting
    <3> QED
      BY <1>0, <2>2, <3>1, <3>2, PlaceStep DEF Ended
  <2>7. PICK b, v : b = diagonal[d] /\ v = host[t]
    OBVIOUS
  <2> QED
    BY <1>2, <2>4, <2>5, <2>6, <2>7
<1> QED
  BY <1>3, <1>4

LEMMA TruthKept ==
  ASSUME IInv, RInv, NEW r \in Ranks, Rank(r)
  PROVE  Truth'
<1>0. /\ RTypes /\ Truth /\ Published /\ Current(r) /\ Walk(r) /\ Operand(r)
      /\ local = [q \in Ranks |-> local[q]]
  BY DEF RInv, OfRank, IInv, Types, Pointers
<1>1. PICK p : p = pos[r] /\ (pc[r] # "next" => pos'[r] = p) /\ Moves(r, pc'[r])
  BY Same
<1>2. SUFFICES ASSUME NEW b \in DOMAIN dev', b \notin TableBuffers, NEW c, c = dev'[b]
               PROVE  \/ c.v # 0 /\ c.v = host'[c.t]
                      \/ \E s \in Ranks : /\ local'[s] = b /\ c.t = TileOf(pos'[s])
                                          /\ host'[c.t] = 0
                                          /\ Loaded(s)' \/ c.v = 0
  BY DEF Truth
<1>3. CASE b = Touch(r) /\ b # None
  <2>1. b = local[r] /\ pc[r] \in {"load", "kernel"}
    BY <1>0, <1>2, <1>3 DEF Touch, Operand
  <2>2. pos[r].k < NT /\ host[TileOf(p)] = 0 /\ TileOf(p) \in Tiles
    BY <1>0, <1>1, <2>1, AtWork DEF Walk, Busy, Before, Current
  <2>3. c.t = TileOf(p) /\ (pc[r] = "load" => c.v = 0)
    <3>1. CASE pc[r] = "load"
      <4>1. c = [t |-> TileOf(p), v |-> 0]
        BY <1>1, <1>2, <2>1, <3>1, DevStep
      <4> QED
        BY <4>1
    <3>2. CASE pc[r] = "kernel"
      <4>1. PICK v : c = [t |-> TileOf(p), v |-> v]
        BY <1>1, <1>2, <2>1, <3>2, DevStep
      <4> QED
        BY <3>2, <4>1
    <3> QED
      BY <2>1, <3>1, <3>2
  <2>4. host'[c.t] = 0
    BY <2>1, <2>2, <2>3, HostStep
  <2>5. local'[r] = b
    BY <2>1, PlaceStep
  <2>6. Loaded(r)' \/ c.v = 0
    <3>1. CASE pc[r] = "load"
      BY <2>3, <3>1
    <3>2. CASE pc[r] = "kernel"
      <4>1. pc'[r] \in {"store", "next"}
        BY <1>1, <3>2 DEF Moves
      <4> QED
        BY <4>1 DEF Loaded, Busy
    <3> QED
      BY <2>1, <3>1, <3>2
  <2> QED
    BY <1>1, <2>1, <2>3, <2>4, <2>5, <2>6
<1>4. CASE b # Touch(r) \/ Touch(r) = None
  <2>1. b \in DOMAIN dev /\ c = dev[b] /\ c.t \in Tiles
    <3>1. CASE b # Touch(r)
      BY <1>0, <1>2, <3>1, DevStep DEF RTypes
    <3>2. CASE Touch(r) = None
      <4>0. pc[r] \notin {"load", "kernel", "load1", "load2"}
        <5>1. pc[r] \in {"load", "kernel", "load1", "load2"} => Touch(r) \in Nat
          BY DevStep
        <5> QED
          BY <3>2, <5>1 DEF None
      <4>1. dev' = dev
        <5> HIDE DEF Fetch, Write, Holds, OperandsGood
        <5> QED
          BY <4>0, Frame DEF Writes, LoadTile, Kernel, Load1, Load2
      <4> QED
        BY <1>0, <1>2, <4>1 DEF RTypes
    <3> QED
      BY <1>4, <3>1, <3>2
  <2>2. CASE c.v # 0 /\ c.v = host[c.t]
    <3>1. host'[c.t] = host[c.t]
      BY <2>1, <2>2, HostStep
    <3> QED
      BY <2>2, <3>1
  <2>3. ASSUME NEW s \in Ranks, local[s] = b, c.t = TileOf(pos[s]), host[c.t] = 0,
               Loaded(s) \/ c.v = 0
        PROVE  \/ c.v # 0 /\ c.v = host'[c.t]
               \/ \E q \in Ranks : /\ local'[q] = b /\ c.t = TileOf(pos'[q])
                                   /\ host'[c.t] = 0
                                   /\ Loaded(q)' \/ c.v = 0
    <3>0. Walk(s) /\ pos[s].k < NT
      <4>1. Walk(s)
        BY DEF RInv, OfRank
      <4>2. pos[s].k \in 0 .. NT - 1
        BY <2>1, <2>3, NTAssumption DEF Tiles, Index, TileOf
      <4> QED
        BY <4>1, <4>2, NTAssumption
    <3>1. CASE s # r
      <4>1. host'[c.t] = host[c.t]
        BY <2>3, <3>0, <3>1, AloneOnTile
      <4>2. local'[s] = b /\ pos'[s] = pos[s] /\ pc'[s] = pc[s]
        BY <1>0, <2>3, <3>1, Others
      <4>3. Loaded(s)' \/ c.v = 0
        BY <2>3, <4>2 DEF Loaded
      <4> QED
        BY <2>3, <4>1, <4>2, <4>3
    <3>2. CASE s = r /\ pc[r] = "store"
      <4>1. Holds(b, c.t, Version(r)) /\ host'[c.t] = Version(r) /\ Version(r) # 0
        BY <1>0, <2>3, <3>2, HostStep, VersionFacts DEF Current, Holds
      <4>2. c.v = Version(r)
        BY <2>1, <4>1 DEF Holds
      <4> QED
        BY <4>1, <4>2
    <3>3. CASE s = r /\ pc[r] = "next"
      <4>0. NextStep(r) /\ pos'[r] = NextOf(p) /\ local' = local /\ host' = host
        BY <1>1, <3>3, Named DEF NextStep, IInv, Types
      <4>1. CASE p.n < p.k
        <5>1. NextOf(p) = [k |-> p.k, m |-> p.m, n |-> p.n + 1]
          BY <1>0, <1>1, <3>0, <3>3, <4>1, NextWalk
        <5>2. TileOf(pos'[r]) = c.t /\ pos'[r].n # 0
          BY <1>0, <1>1, <2>3, <3>3, <4>0, <5>1 DEF TileOf, Walk, Positions
        <5> QED
          BY <2>3, <3>3, <4>0, <5>2 DEF Loaded
      <4>2. CASE ~(p.n < p.k)
        <5>1. p.n = p.k
          BY <1>0, <1>1, <4>2, NTAssumption DEF Walk, Positions
        <5>2. progress[c.t] = 1
          BY <1>0, <1>1, <2>3, <3>3, <5>1 DEF Current
        <5>3. c.t[2] + 1 # 0
          BY <2>1, NTAssumption DEF Tiles, Index
        <5>4. FALSE
          BY <1>0, <2>1, <2>3, <5>2, <5>3 DEF Published, Done, Garbage
        <5> QED
          BY <5>4
      <4> QED
        BY <4>1, <4>2
    <3>4. CASE s = r /\ pc[r] = "swap"
      <4>1. host[c.t] = Version(r) /\ Version(r) # 0
        BY <1>0, <2>3, <3>4, VersionFacts DEF Current, Stored
      <4> QED
        BY <2>3, <4>1
    <3>5. CASE s = r /\ pc[r] \notin {"store", "next", "swap"}
      <4>1. host'[c.t] = 0 /\ pos'[r] = p /\ local'[r] = b
        BY <1>0, <1>1, <2>1, <2>3, <3>5, HostStep, PlaceStep
      <4>2. Loaded(r)' \/ c.v = 0
        <5>1. CASE c.v = 0 \/ p.n # 0
          BY <4>1, <5>1 DEF Loaded
        <5>2. CASE c.v # 0 /\ p.n = 0
          <6>1. pc[r] \in Busy \ {"load"}
            BY <1>1, <2>3, <3>5, <5>2 DEF Loaded
          <6>2. pc[r] \in Before => c.v = 0
            BY <1>0, <1>1, <2>1, <2>3, <3>5, <5>2 DEF Current, Holds
          <6>3. pc[r] \notin Before
            BY <5>2, <6>2
          <6>4. pc'[r] \in Busy \ {"load"}
            BY <1>1, <3>5, <6>1, <6>3 DEF Busy, Before, Operands, Stored, Moves
          <6> QED
            BY <6>4 DEF Loaded
        <5> QED
          BY <5>1, <5>2
      <4> QED
        BY <1>1, <2>3, <3>5, <4>1, <4>2
    <3> QED
      BY <3>1, <3>2, <3>3, <3>4, <3>5
  <2> QED
    BY <1>0, <1>2, <2>1, <2>2, <2>3 DEF Truth
<1> QED
  BY <1>3, <1>4

-----------------------------------------------------------------------------
(* The invariant                                                           *)

\* Where a rank starts.
LEMMA StartWalk ==
  ASSUME NEW r \in Ranks
  PROVE  LET p == StartOf(r) IN
         /\ p \in Positions /\ Standing(p)
         /\ p.m < NT \/ p.k = NT
         /\ p.n = 0
         /\ Own(r, p.m, p.k)
         /\ Number2(p.m, p.k) = 2 * r
<1> DEFINE s == [k |-> 0, m |-> r, n |-> 0]
<1>1. s \in Positions /\ Standing(s) /\ r \in Nat
  BY NTAssumption, SizeAssumption DEF Positions, Standing, Ranks
<1>2. PICK c : c = StartOf(r) /\ c = Carried(s)
  BY DEF StartOf
<1>3. /\ c \in Positions /\ Standing(c)
      /\ c.m < NT \/ c.k = NT
      /\ c.n = 0
      /\ Number2(c.m, c.k) = Number2(r, 0)
  BY <1>1, <1>2, CarriedFacts
<1>4. Number2(r, 0) = 2 * r
  BY <1>1, NTAssumption DEF Number2
<1>5. Own(r, c.m, c.k)
  BY <1>3, StartOwn DEF Own
<1> QED
  BY <1>2, <1>3, <1>4, <1>5

LEMMA RootsFirst ==
  ASSUME machine \in Machines, RootFirst(machine), root \in RootsOf(machine)
  PROVE  Rooted
<1>1. SUFFICES ASSUME NEW r \in Ranks
               PROVE  root[On(r)] \in {0, r} /\ On(root[On(r)]) = On(r)
  BY DEF Rooted
<1>2. /\ machine.roots = {0} /\ machine.perDevice \in Nat \ {0}
      /\ machine.perDevice = 1 \/ machine.perDevice >= SIZE
      /\ r \in Nat /\ 0 =< r /\ r < SIZE /\ SIZE \in Nat
  BY MachinesAssumption, SizeAssumption DEF RootFirst, Ranks
<1>3. \A d \in Devices :
        LET here == {q \in Ranks : q \div machine.perDevice = d}
            last == {q \in here : q % machine.perDevice \in machine.roots}
        IN  root[d] \in (IF here = {} THEN {None}
                         ELSE IF last = {} THEN {Max(here)} ELSE last)
  BY DEF RootsOf
<1>4. CASE machine.perDevice = 1
  <2>1. \A q \in Ranks : q \div 1 = q /\ q % 1 = 0
    BY SizeAssumption DEF Ranks
  <2>2. On(r) = r /\ r \in Devices
    BY <1>4, <2>1 DEF On, Devices
  <2>3. {q \in Ranks : q \div machine.perDevice = r} = {r}
    BY <1>4, <2>1
  <2>4. {q \in {r} : q % machine.perDevice \in machine.roots} = {r}
    BY <1>2, <1>4, <2>1
  <2>5. root[r] \in {r}
    BY <1>3, <2>2, <2>3, <2>4
  <2> QED
    BY <2>2, <2>5
<1>5. CASE machine.perDevice >= SIZE
  <2>1. PICK n : n = machine.perDevice /\ n \in Nat \ {0} /\ n >= SIZE
    BY <1>2, <1>5
  <2>2. ASSUME NEW q \in Ranks PROVE q \div n = 0 /\ q % n = q
    <3>1. q \in Nat /\ q < n
      BY <1>2, <2>1 DEF Ranks
    <3> QED
      BY <2>1, <3>1
  <2>3. 0 \in Ranks /\ 0 \in Devices
    BY SizeAssumption DEF Ranks, Devices
  <2>4. On(r) = 0 /\ On(0) = 0
    BY <2>1, <2>2, <2>3 DEF On
  <2>5. {q \in Ranks : q \div machine.perDevice = 0} = Ranks
    BY <2>1, <2>2
  <2>6. {q \in Ranks : q % machine.perDevice \in machine.roots} = {0}
    BY <1>2, <2>1, <2>2, <2>3
  <2>7. root[0] \in {0}
    BY <1>3, <2>3, <2>5, <2>6
  <2> QED
    BY <2>4, <2>7
<1> QED
  BY <1>2, <1>4, <1>5

LEMMA RInitial == Init /\ RootFirst(machine) => RInv
<1> SUFFICES ASSUME Init, RootFirst(machine) PROVE RInv
  OBVIOUS
<1>1. RTypes
  <2>1. dev = <<>>
    BY DEF Init
  <2>2. DOMAIN dev = {} /\ dev = [b \in DOMAIN dev |-> dev[b]]
    BY <2>1
  <2>3. /\ info \in [Ranks -> BOOLEAN]
        /\ lock = [d \in Devices |-> lock[d]]
        /\ diagIdx = [d \in Devices |-> diagIdx[d]]
        /\ host \in [Tiles -> Nat \cup {Garbage}]
        /\ progress \in [Tiles -> {0, 1}]
        /\ abort \in BOOLEAN
    BY DEF Init
  <2> QED
    BY <2>2, <2>3 DEF RTypes
<1>2. Rooted
  BY RootsFirst DEF Init
<1>3. ASSUME NEW r \in Ranks PROVE OfRank(r)
  <2>1. Walk(r)
    <3>1. pos[r] = StartOf(r) /\ pc[r] = "enter"
      BY DEF Init
    <3> HIDE DEF Init
    <3> QED
      BY <3>1, StartWalk, NTAssumption
      DEF Walk, Positions, Standing, Busy, Before, Operands, Stored
  <2>2. pc[r] = "enter" /\ pos[r].n = 0 /\ info[r] = FALSE /\ diagRef[r] = None
        /\ ref1[r] = None /\ ref2[r] = None
    BY StartWalk DEF Init
  <2>3. Kind(r) /\ Current(r) /\ Waited(r) /\ Begun(r) /\ Grip(r) /\ Operand(r)
    BY <2>2 DEF Kind, Current, Waited, Begun, Grip, Operand, Busy, Before, Operands, Stored
  <2>4. Ahead(r)
    BY DEF Init, Ahead
  <2> QED
    BY <2>1, <2>3, <2>4 DEF OfRank
<1>4. Published /\ Locked /\ Diagonals
  BY DEF Init, Published, Locked, Diagonals
<1>5. Places /\ Drained
  BY SizeAssumption DEF Init, Places, Drained, Ranks, Devices, None
<1>6. Made
  <2>1. Types
    BY Initial DEF IInv
  <2>2. \A r \in Ranks : On(r) \in Ranks
    BY <2>1, DeviceOf DEF Devices
  <2> QED
    BY <2>2, SizeAssumption DEF Init, Made, Ranks, Devices, None, Starting
<1>7. Entries /\ Truth
  BY DEF Init, Entries, Truth
<1> QED
  BY <1>1, <1>2, <1>3, <1>4, <1>5, <1>6, <1>7 DEF RInv

LEMMA BarrierKeeps == ASSUME IInv, RInv, Barriers PROVE RInv'
<1>1. UNCHANGED <<pos, local, diagRef, ref1, ref2, info, table, lock, diagonal, diagIdx,
                  dev, host, progress, abort, machine, root>>
  BY DEF Barriers, InitBarrier, FiniBarrier, sched, tableVars
<1>2. \/ \A r \in Ranks : pc[r] = "init_bar" /\ pc'[r] = IF IsRoot(r) THEN "bound" ELSE "top"
      \/ \A r \in Ranks : pc[r] = "fini_bar" /\ pc'[r] \in {"free", "done"}
  BY DEF Barriers, InitBarrier, FiniBarrier
<1>3. /\ RTypes /\ Rooted /\ Published /\ Places /\ Made /\ Locked /\ Diagonals
      /\ Drained /\ Entries /\ Truth /\ 0 \in Ranks
  BY SizeAssumption DEF RInv, Ranks
<1>4. RTypes' /\ Rooted' /\ Published' /\ Places' /\ Entries'
  BY <1>1, <1>3 DEF RTypes, Rooted, Published, Places, Entries, On, Holds
<1>5. ASSUME NEW r \in Ranks PROVE OfRank(r)'
  <2>0. OfRank(r)
    BY DEF RInv
  <2>1. \/ /\ pc[r] = "init_bar" /\ pos[r].n = 0
           /\ pc'[r] \in {"bound", "top"} /\ (pc'[r] = "bound" => IsRoot(r))
        \/ pc[r] = "fini_bar" /\ pc'[r] \in {"free", "done"}
    BY <1>2, <2>0 DEF OfRank, Walk, Starting
  <2>2. Walk(r)'
    BY <1>1, <2>0, <2>1 DEF OfRank, Walk, Starting, Busy, Before, Operands, Stored, IsRoot, On
  <2>3. (Kind(r) /\ Waited(r) /\ Begun(r) /\ Operand(r))'
    BY <1>1, <2>0, <2>1
    DEF OfRank, Kind, Waited, Begun, Operand, Busy, Before, Operands, Stored
  <2>4. Grip(r)'
    BY <1>1, <2>0, <2>1 DEF OfRank, Grip
  <2>5. Current(r)'
    BY <1>1, <2>0, <2>1 DEF OfRank, Current, Before, Operands, Stored
  <2>6. Ahead(r)'
    BY <1>1, <2>0, <2>1 DEF OfRank, Ahead, Beyond, Starting
  <2> QED
    BY <2>2, <2>3, <2>4, <2>5, <2>6 DEF OfRank
<1>6. Made'
  BY <1>1, <1>2, <1>3 DEF Made, Starting, Ended, IsRoot, On
<1>7. Locked' /\ Drained'
  BY <1>1, <1>2, <1>3 DEF Locked, Drained, On
<1>8. Diagonals'
  <2>1. CASE \A r \in Ranks : pc[r] = "init_bar" /\ pc'[r] \in {"bound", "top"}
    BY <1>1, <1>3, <2>1 DEF Diagonals, Ended, On, Holds
  <2>2. CASE \A r \in Ranks : pc'[r] \in {"free", "done"}
    BY <1>3, <2>2 DEF Diagonals, Ended
  <2> QED
    BY <1>2, <2>1, <2>2
<1>9. Truth'
  BY <1>1, <1>2, <1>3 DEF Truth, Loaded, Busy, Before, Operands, Stored
<1> QED
  BY <1>3, <1>4, <1>5, <1>6, <1>7, <1>8, <1>9 DEF RInv

LEMMA RankKeeps == ASSUME IInv, RInv, NEW r \in Ranks, Rank(r) PROVE RInv'
<1>1. ASSUME NEW q \in Ranks PROVE OfRank(q)'
  BY WalkKept, KindKept, AheadKept, CurrentKept, WaitedKept, BegunKept, GripKept,
     OperandKept DEF OfRank
<1> QED
  BY <1>1, RTypesKept, RootedKept, PublishedKept, PlacesKept, MadeKept, LockedKept,
     DiagonalsKept, DrainedKept, EntriesKept, TruthKept DEF RInv

LEMMA RStutter == ASSUME RInv, UNCHANGED vars PROVE RInv'
<1>1. UNCHANGED <<pc, pos, local, diagRef, ref1, ref2, info, table, lock, diagonal, diagIdx,
                  dev, host, progress, abort, machine, root>>
  BY DEF vars, rankVars, tableVars, sched
<1>2. \A r \in Ranks : OfRank(r)'
  BY <1>1 DEF RInv, OfRank, Walk, Kind, Ahead, Beyond, Current, Version, Waited, Finished,
              Begun, Grip, Operand, Holds, Key1, Key2, IsRoot, On
<1>3. (RTypes /\ Rooted /\ Published /\ Places /\ Made /\ Locked)'
  BY <1>1 DEF RInv, RTypes, Rooted, Published, Places, Made, Locked, IsRoot, On
<1>4. (Diagonals /\ Drained /\ Entries /\ Truth)'
  BY <1>1 DEF RInv, Diagonals, Drained, Entries, Truth, Loaded, Holds, On
<1> QED
  BY <1>2, <1>3, <1>4 DEF RInv

\* Where the root of each GPU comes first the table never misleads anyone.
THEOREM RInvariance == Spec /\ RootFirst(machine) => [](IInv /\ RInv)
<1>1. Init /\ RootFirst(machine) => IInv /\ RInv
  BY Initial, RInitial
<1>2. IInv /\ RInv /\ [Next]_vars => (IInv /\ RInv)'
  <2> SUFFICES ASSUME IInv, RInv, [Next]_vars PROVE (IInv /\ RInv)'
    OBVIOUS
  <2>1. IInv'
    BY Inductive
  <2>2. RInv'
    BY BarrierKeeps, RankKeeps, RStutter DEF Next
  <2> QED
    BY <2>1, <2>2
<1> QED
  BY <1>1, <1>2, PTL DEF Spec

\* Every kernel finds its operands, complete, in the buffers it points to, and its
\* destination with the updates of the earlier panels, although nobody holds the
\* mutex of the table while it uses a tile.
THEOREM KernelInputsHolds == Spec /\ RootFirst(machine) => []KernelInputs
<1>1. IInv /\ RInv => KernelInputs
  BY Inputs DEF KernelInputs
<1> QED
  BY <1>1, RInvariance, PTL

\* The test of diagIdx after the unlock cannot mislead a trsm: the pointer that it
\* copied before is the factored tile of its panel when the index says so.
THEOREM DiagonalTestHolds == Spec /\ RootFirst(machine) => []DiagonalTest
<1>1. IInv /\ RInv => DiagonalTest
  <2> SUFFICES ASSUME IInv, RInv, NEW r \in Ranks, pc[r] = "idx", diagIdx[On(r)] = pos[r].k
               PROVE  Holds(diagRef[r], <<pos[r].k, pos[r].k>>, pos[r].k + 1)
    BY DEF DiagonalTest
  <2>1. Grip(r) /\ IsTrsm(pos[r])
    BY DEF RInv, OfRank, Kind
  <2> QED
    BY <2>1 DEF Grip, Key1, First, IsTrsm
<1> QED
  BY <1>1, RInvariance, PTL

-----------------------------------------------------------------------------
(* The refinement of TileCholesky                                          *)

\* The versions of tile t in the destinations and on the host ..
Val(t, v) == v = host[t] \/ \E r \in Ranks : Holds(local[r], t, v)

\* .. of which only the rank that works on the tile has one of its own.
LEMMA ValFacts ==
  ASSUME RInv, NEW t \in Tiles, NEW v, Val(t, v), v # host[t]
  PROVE  /\ v \in Nat \cup {Garbage}
         /\ host[t] = 0
         /\ \E r \in Ranks : /\ Holds(local[r], t, v) /\ TileOf(pos[r]) = t
                             /\ pos[r].k < NT /\ Walk(r)
                             /\ Loaded(r) \/ v = 0
<1>0. RTypes /\ Places /\ Truth
  BY DEF RInv
<1>1. PICK r \in Ranks : Holds(local[r], t, v)
  BY DEF Val
<1>2. /\ local[r] \in DOMAIN dev /\ dev[local[r]].t = t /\ dev[local[r]].v = v
      /\ local[r] \notin TableBuffers
  BY <1>0, <1>1, SizeAssumption DEF Holds, Places, TableBuffers
<1>3. /\ TileOf(pos[r]) = t /\ host[t] = 0
      /\ Loaded(r) \/ v = 0
  BY <1>0, <1>2 DEF Truth, Places
<1>4. pos[r].k < NT /\ Walk(r)
  BY <1>3, NTAssumption DEF RInv, OfRank, Tiles, Index, TileOf
<1>5. v \in Nat \cup {Garbage}
  BY <1>0, <1>2 DEF RTypes
<1> QED
  BY <1>1, <1>3, <1>4, <1>5

LEMMA OneVal ==
  ASSUME RInv, NEW t \in Tiles, NEW u, NEW v, Val(t, u), Val(t, v), u # 0, v # 0
  PROVE  u = v
<1>1. CASE u = host[t] \/ v = host[t]
  BY <1>1, ValFacts
<1>2. CASE u # host[t] /\ v # host[t]
  <2>1. PICK r \in Ranks : /\ Holds(local[r], t, u) /\ TileOf(pos[r]) = t
                           /\ pos[r].k < NT /\ Walk(r)
    BY <1>2, ValFacts
  <2>2. PICK s \in Ranks : /\ Holds(local[s], t, v) /\ TileOf(pos[s]) = t
                           /\ pos[s].k < NT /\ Walk(s)
    BY <1>2, ValFacts
  <2>3. r = s
    BY <2>1, <2>2, OneRank
  <2> QED
    BY <2>1, <2>2, <2>3 DEF Holds
<1> QED
  BY <1>1, <1>2

\* The newest of such a set of versions.
LEMMA Newest ==
  ASSUME NEW S, NEW v \in S, v \in Nat \cup {Garbage},
         \A w \in S : w = v \/ w = 0
  PROVE  (IF Garbage \in S THEN Garbage ELSE Max(S)) = v
<1>1. CASE v = Garbage
  BY <1>1
<1>2. CASE v # Garbage
  <2>1. Garbage \notin S
    BY <1>2 DEF Garbage
  <2>2. v \in S /\ \A w \in S : v >= w
    BY <1>2
  <2>3. \A x \in S : (\A w \in S : x >= w) => x = v
    BY <1>2, <2>2
  <2>4. Max(S) = v
    BY <2>2, <2>3 DEF Max
  <2> QED
    BY <2>1, <2>4
<1> QED
  BY <1>1, <1>2

LEMMA LatestIs ==
  RInv => \A t \in Tiles : /\ \A v : v # 0 /\ Val(t, v) => Latest(t) = v
                           /\ (\A v : Val(t, v) => v = 0) => Latest(t) = 0
<1> SUFFICES ASSUME RInv, NEW t \in Tiles
             PROVE  /\ \A v : v # 0 /\ Val(t, v) => Latest(t) = v
                    /\ (\A v : Val(t, v) => v = 0) => Latest(t) = 0
  OBVIOUS
<1> DEFINE now == {r \in Ranks : local[r] \in DOMAIN dev}
           S   == {host[t]} \cup {dev[local[r]].v : r \in {q \in now : dev[local[q]].t = t}}
<1>0. RTypes
  BY DEF RInv
<1>1. Latest(t) = IF Garbage \in S THEN Garbage ELSE Max(S)
  BY DEF Latest
<1>2. ASSUME NEW v PROVE v \in S <=> Val(t, v)
  <2>1. \A r \in now : dev[local[r]] = [t |-> dev[local[r]].t, v |-> dev[local[r]].v]
    BY <1>0 DEF RTypes
  <2> QED
    BY <2>1 DEF Val, Holds
<1>3. ASSUME NEW v, Val(t, v) PROVE v \in Nat \cup {Garbage}
  <2>1. host[t] \in Nat \cup {Garbage}
    BY <1>0 DEF RTypes
  <2> QED
    BY <1>3, <2>1, ValFacts
<1>4. host[t] \in S
  OBVIOUS
<1> HIDE DEF S, now
<1>5. ASSUME NEW v, v # 0, Val(t, v) PROVE Latest(t) = v
  <2>1. v \in S /\ v \in Nat \cup {Garbage} /\ \A w \in S : w = v \/ w = 0
    BY <1>2, <1>3, <1>5, OneVal
  <2>2. (IF Garbage \in S THEN Garbage ELSE Max(S)) = v
    BY <2>1, Newest
  <2> QED
    BY <1>1, <2>2
<1>6. ASSUME \A v : Val(t, v) => v = 0 PROVE Latest(t) = 0
  <2>1. S = {0}
    BY <1>2, <1>4, <1>6
  <2>2. (IF Garbage \in S THEN Garbage ELSE Max(S)) = 0
    BY <2>1, Newest
  <2> QED
    BY <1>1, <2>2
<1> QED
  BY <1>5, <1>6

LEMMA LatestThen ==
  (RInv => \A t \in Tiles : /\ \A v : v # 0 /\ Val(t, v) => Latest(t) = v
                            /\ (\A v : Val(t, v) => v = 0) => Latest(t) = 0)'
BY LatestIs, PTL

\* Where the versions stay, but for what is not begun, the newest is the same.
LEMMA LatestStays ==
  ASSUME RInv, RInv', NEW t \in Tiles, \A v : v # 0 => (Val(t, v)' <=> Val(t, v))
  PROVE  Latest(t)' = Latest(t)
<1>1. CASE \E v : v # 0 /\ Val(t, v)
  <2>1. PICK v : v # 0 /\ Val(t, v)
    BY <1>1
  <2>2. Val(t, v)'
    BY <2>1
  <2>3. Latest(t) = v
    BY <2>1, LatestIs
  <2>4. Latest(t)' = v
    BY <2>1, <2>2, LatestThen
  <2> QED
    BY <2>3, <2>4
<1>2. CASE \A v : Val(t, v) => v = 0
  <2>1. \A v : Val(t, v)' => v = 0
    BY <1>2
  <2>2. Latest(t) = 0
    BY <1>2, LatestIs
  <2>3. Latest(t)' = 0
    BY <2>1, LatestThen
  <2> QED
    BY <2>2, <2>3
<1> QED
  BY <1>1, <1>2

\* No step but a kernel makes a version, or loses one.
LEMMA ValKept ==
  ASSUME IInv, RInv, NEW r \in Ranks, Rank(r), pc[r] # "kernel", NEW t \in Tiles,
         NEW v, v # 0
  PROVE  Val(t, v)' <=> Val(t, v)
<1>0. /\ RTypes /\ Places /\ Truth /\ Current(r) /\ Kind(r)
      /\ local = [q \in Ranks |-> local[q]] /\ On(r) \in Devices
  BY DeviceOf DEF RInv, OfRank, IInv, Types, Pointers
<1>1. ASSUME NEW s \in Ranks, s # r \/ pc[r] \notin {"load", "swap"}
      PROVE  Holds(local[s], t, v)' <=> Holds(local[s], t, v)
  <2>1. PICK b : b = local[s]
    OBVIOUS
  <2>2. local'[s] = b
    BY <1>0, <1>1, <2>1, PlaceStep
  <2>3. b # Touch(r)
    BY <1>1, <2>1, Apart
  <2>4. Holds(b, t, v)' <=> Holds(b, t, v)
    BY <2>3, HoldsKept
  <2> QED
    BY <2>1, <2>2, <2>4 DEF Holds
<1>2. host'[t] # host[t] => /\ pc[r] = "store" /\ host[t] = 0
                            /\ Holds(local[r], t, host'[t])
  <2>1. host'[t] # host[t] => /\ pc[r] = "store" /\ t = TileOf(pos[r]) /\ host[t] = 0
                              /\ host'[t] = Version(r)
    BY HostStep
  <2> QED
    BY <1>0, <2>1 DEF Current
<1>3. CASE pc[r] \notin {"load", "swap"}
  <2>1. \A s \in Ranks : Holds(local[s], t, v)' <=> Holds(local[s], t, v)
    BY <1>1, <1>3
  <2> QED
    BY <1>2, <2>1 DEF Val
<1>4. CASE pc[r] = "load"
  <2>1. ~Holds(local[r], t, v)'
    <3>1. local'[r] = local[r]
      BY <1>4, PlaceStep
    <3>2. dev'[local[r]] = [t |-> TileOf(pos[r]), v |-> 0]
      BY <1>4, DevStep
    <3> QED
      BY <3>1, <3>2 DEF Holds
  <2>2. Holds(local[r], t, v) => v = host[t]
    <3>1. pos[r].n = 0 /\ ~Loaded(r)
      BY <1>0, <1>4 DEF Kind, Loaded
    <3>2. local[r] \notin TableBuffers
      BY Apart
    <3> QED
      BY <1>0, <3>1, <3>2 DEF Truth, Places, Holds
  <2>3. host'[t] = host[t]
    BY <1>2, <1>4
  <2> QED
    BY <1>1, <2>1, <2>2, <2>3 DEF Val
<1>5. CASE pc[r] = "swap"
  <2>1. host'[t] = host[t]
    BY <1>2, <1>5
  <2>2. Holds(local[r], t, v) => v = host[t]
    <3>1. /\ Holds(local[r], TileOf(pos[r]), Version(r))
          /\ host[TileOf(pos[r])] = Version(r)
      BY <1>0, <1>5 DEF Current, Stored
    <3> QED
      BY <3>1 DEF Holds
  <2>3. Holds(local[r], t, v)' => v = host[t]
    <3>1. PICK b : b = diagonal[On(r)]
      OBVIOUS
    <3>2. local'[r] = b
      BY <1>0, <1>5, <3>1, PlaceStep
    <3>3. Touch(r) = None
      BY <1>5 DEF Touch
    <3>4. Holds(b, t, v)' <=> Holds(b, t, v)
      BY <3>3, HoldsKept
    <3>5. b \notin TableBuffers /\ \A q \in Ranks : local[q] # b
      BY <1>0, <3>1, Apart DEF Places
    <3>6. Holds(b, t, v) => v = host[t]
      BY <1>0, <3>5 DEF Truth, Holds
    <3> QED
      BY <3>2, <3>4, <3>6 DEF Holds
  <2> QED
    BY <1>1, <2>1, <2>2, <2>3 DEF Val
<1> QED
  BY <1>3, <1>4, <1>5

\* A finished tile is the newest.
LEMMA LatestFinished ==
  ASSUME RInv, NEW t \in Tiles, Finished(t)
  PROVE  Latest(t) = t[2] + 1
<1>1. host[t] = t[2] + 1 /\ host[t] # 0 /\ Val(t, host[t])
  BY NTAssumption DEF Finished, Done, Val, Tiles, Index
<1> QED
  BY <1>1, LatestIs

\* What the kernel of a rank makes of the tiles.
LEMMA KernelLatest ==
  ASSUME IInv, RInv, RInv', NEW r \in Ranks, Rank(r), pc[r] = "kernel",
         NEW p, p = pos[r]
  PROVE  /\ Latest(TileOf(p)) = p.n
         /\ Latest(TileOf(p))' = p.n + 1 \/ (IsPotrf(p) /\ Latest(TileOf(p))' = Garbage)
         /\ \A t \in Tiles : t # TileOf(p) => Latest(t)' = Latest(t)
<1>0. /\ RTypes /\ Places /\ Current(r) /\ Walk(r)
      /\ local = [q \in Ranks |-> local[q]]
  BY DEF RInv, OfRank, IInv, Types, Pointers
<1>1. PICK t0, b, x : /\ t0 = TileOf(p) /\ b = local[r]
                      /\ x = IF info'[r] THEN Garbage ELSE p.n + 1
  OBVIOUS
<1>2. t0 \in Tiles /\ p.n \in Nat /\ pos[r].k < NT
  BY <1>1, Working DEF Busy, Before
<1>3. host[t0] = 0 /\ Holds(b, t0, p.n)
  BY <1>0, <1>1 DEF Current, Before, Holds
<1>4. /\ local' = local /\ \A t \in Tiles : host'[t] = host[t]
  BY PlaceStep, HostStep
<1>5. b \in DOMAIN dev' /\ dev'[b] = [t |-> t0, v |-> x] /\ Touch(r) = b
      /\ (info'[r] => IsPotrf(p))
  BY <1>1, DevStep DEF Touch
<1>6. x # 0 /\ (x = p.n + 1 \/ (IsPotrf(p) /\ x = Garbage))
  BY <1>1, <1>2, <1>5 DEF Garbage
<1>7. \A s \in Ranks : s # r =>
        \A t, v : Holds(local[s], t, v)' <=> Holds(local[s], t, v)
  <2> SUFFICES ASSUME NEW s \in Ranks, s # r, NEW t, NEW v
               PROVE  Holds(local[s], t, v)' <=> Holds(local[s], t, v)
    OBVIOUS
  <2>1. PICK c : c = local[s]
    OBVIOUS
  <2>2. c # Touch(r)
    BY <2>1, Apart
  <2>3. Holds(c, t, v)' <=> Holds(c, t, v)
    BY <2>2, HoldsKept
  <2> QED
    BY <1>4, <2>1, <2>3 DEF Holds
<1>8. Latest(t0) = p.n
  <2>1. Val(t0, p.n)
    BY <1>1, <1>3 DEF Val
  <2>2. CASE p.n # 0
    BY <1>2, <2>1, <2>2, LatestIs
  <2>3. CASE p.n = 0
    <3>1. ASSUME NEW v, Val(t0, v) PROVE v = 0
      <4>1. CASE v = host[t0]
        BY <1>3, <4>1
      <4>2. CASE v # host[t0]
        <5>1. PICK s \in Ranks : /\ Holds(local[s], t0, v) /\ TileOf(pos[s]) = t0
                                 /\ pos[s].k < NT /\ Walk(s)
          BY <1>2, <3>1, <4>2, ValFacts
        <5>2. s = r
          BY <1>0, <1>1, <5>1, OneRank
        <5> QED
          BY <1>1, <1>3, <2>3, <5>1, <5>2 DEF Holds
      <4> QED
        BY <4>1, <4>2
    <3> QED
      BY <1>2, <2>3, <3>1, LatestIs
  <2> QED
    BY <2>2, <2>3
<1>9. Latest(t0)' = x
  <2>1. Holds(local[r], t0, x)'
    BY <1>1, <1>4, <1>5 DEF Holds
  <2>2. Val(t0, x)'
    BY <2>1 DEF Val
  <2> QED
    BY <1>2, <1>6, <2>2, LatestThen
<1>10. ASSUME NEW t \in Tiles, t # t0 PROVE Latest(t)' = Latest(t)
  <2>1. \A v : ~Holds(local[r], t, v)' /\ ~Holds(local[r], t, v)
    BY <1>1, <1>3, <1>4, <1>5, <1>10 DEF Holds
  <2>2. \A v : v # 0 => (Val(t, v)' <=> Val(t, v))
    BY <1>4, <1>7, <2>1 DEF Val
  <2> QED
    BY <2>2, LatestStays
<1>11. TileOf(p)' = t0
  BY <1>1 DEF TileOf
<1> QED
  BY <1>1, <1>6, <1>8, <1>9, <1>10

LEMMA KernelTask ==
  ASSUME IInv, RInv, RInv', NEW r \in Ranks, Rank(r), pc[r] = "kernel"
  PROVE  Abstract!Next
<1>1. PICK p, t0, x : p = pos[r] /\ t0 = TileOf(p) /\ x = Latest(t0)'
  OBVIOUS
<1>2. /\ p.m \in Nat /\ p.k \in Nat /\ p.n \in Nat
      /\ p.n =< p.k /\ p.k =< p.m /\ p.m < NT /\ p.k < NT
      /\ t0 \in Tiles /\ t0 = <<p.m, p.k>>
      /\ First(p) \in Tiles /\ Second(p) \in Tiles
  BY <1>1, Working DEF Busy, Before, TileOf, Key1, Key2
<1>3. /\ Latest(t0) = p.n
      /\ x = p.n + 1 \/ (IsPotrf(p) /\ x = Garbage)
      /\ \A t \in Tiles : t # t0 => Latest(t)' = Latest(t)
  BY <1>1, KernelLatest
<1>4. \A o \in Abstract!Operands(t0, p.n) : o \in Tiles /\ Latest(o) = o[2] + 1
  <2>1. ~IsPotrf(p) => Finished(First(p))
    BY <1>1 DEF RInv, OfRank, Waited, Key1
  <2>2. IsGemm(p) => Finished(Second(p))
    BY <1>1 DEF RInv, OfRank, Waited, Key2
  <2>3. ASSUME NEW o \in Abstract!Operands(t0, p.n)
        PROVE  \/ ~IsPotrf(p) /\ o = First(p)
               \/ IsGemm(p) /\ o = Second(p)
    BY <1>2 DEF Abstract!Operands, IsPotrf, IsGemm, First, Second
  <2> QED
    BY <1>2, <2>1, <2>2, <2>3, LatestFinished
<1>5. Abstract!Tiles = Tiles
  BY DEF Abstract!Tiles, Abstract!Index, Tiles, Index
<1>6. Abstract!Ready(t0)
  BY <1>2, <1>3, <1>4 DEF Abstract!Ready, Abstract!Finished
<1>7. [t \in Tiles |-> Latest(t)]' = [[t \in Tiles |-> Latest(t)] EXCEPT ![t0] = x]
  BY <1>1, <1>2, <1>3
<1>8. CASE x = p.n + 1
  <2>1. Abstract!Task(t0)
    BY <1>2, <1>3, <1>6, <1>7, <1>8 DEF Abstract!Task
  <2> QED
    BY <1>2, <1>5, <2>1 DEF Abstract!Next
<1>9. CASE IsPotrf(p) /\ x = Garbage
  <2>1. t0 = <<p.k, p.k>> /\ p.n = p.k /\ p.k \in Abstract!Index
    BY <1>2, <1>9, NTAssumption DEF IsPotrf, Abstract!Index
  <2>2. Abstract!Breakdown(p.k)
    BY <1>2, <1>3, <1>6, <1>7, <1>9, <2>1 DEF Abstract!Breakdown, Abstract!Garbage, Garbage
  <2> QED
    BY <2>1, <2>2 DEF Abstract!Next
<1> QED
  BY <1>3, <1>8, <1>9

\* The cached schedule implements the tile algorithm: a kernel is one of its tasks,
\* or the breakdown of a panel, on operands that are finished, and no copy between
\* host and devices, no lookup and no swap changes the newest version of a tile.
THEOREM RefinesHolds == Spec /\ RootFirst(machine) => Refines
<1>1. Init /\ RootFirst(machine) => Abstract!Init
  <2> SUFFICES ASSUME Init, RootFirst(machine) PROVE Abstract!Init
    OBVIOUS
  <2>1. RInv
    BY RInitial
  <2>2. ASSUME NEW t \in Tiles PROVE Latest(t) = 0
    <3>1. \A v : Val(t, v) => v = 0
      BY DEF Init, Val, Holds
    <3> QED
      BY <2>1, <3>1, LatestIs
  <2> QED
    BY <2>2 DEF Abstract!Init, Abstract!Tiles, Abstract!Index, Tiles, Index
<1>2. /\ IInv /\ RInv /\ (IInv /\ RInv)' /\ [Next]_vars
      => [Abstract!Next]_[t \in Tiles |-> Latest(t)]
  <2> SUFFICES ASSUME IInv, RInv, RInv', [Next]_vars
               PROVE  Abstract!Next \/ [t \in Tiles |-> Latest(t)]' = [t \in Tiles |-> Latest(t)]
    OBVIOUS
  <2>1. CASE UNCHANGED <<local, dev, host>>
    BY <2>1 DEF Latest
  <2>2. ASSUME NEW r \in Ranks, Rank(r), pc[r] = "kernel"
        PROVE  Abstract!Next
    BY <2>2, KernelTask
  <2>3. ASSUME NEW r \in Ranks, Rank(r), pc[r] # "kernel"
        PROVE  [t \in Tiles |-> Latest(t)]' = [t \in Tiles |-> Latest(t)]
    <3>1. \A t \in Tiles : Latest(t)' = Latest(t)
      BY <2>3, ValKept, LatestStays
    <3> QED
      BY <3>1
  <2>4. Barriers \/ UNCHANGED vars => UNCHANGED <<local, dev, host>>
    BY DEF Barriers, InitBarrier, FiniBarrier, sched, tableVars, vars, rankVars
  <2> QED
    BY <2>1, <2>2, <2>3, <2>4 DEF Next
<1> QED
  BY <1>1, <1>2, RInvariance, PTL DEF Spec, Refines, Abstract!Spec

-----------------------------------------------------------------------------
(* What a call tells its caller                                            *)

\* What is on the host is the matrix, a finished tile, or a panel that failed.
Final == \A t \in Tiles : /\ host[t] = 0 \/ Done(host[t], t) \/ host[t] = Garbage
                          /\ host[t] = Garbage => t[1] = t[2]

\* The tasks that a tile has had found their operands finished.
Sound ==
  \A t \in Tiles : \A n \in 0 .. t[2] :
    n < Latest(t) \/ (Latest(t) = Garbage /\ n < t[2]) =>
      \A o \in Abstract!Operands(t, n) : Finished(o)

\* A status that names a panel is true ..
Told == /\ status \in Nat
        /\ status # 0 => /\ status - 1 \in Index
                         /\ host[<<status - 1, status - 1>>] = Garbage

\* .. and a panel that failed has a status, or is about to.
Reported ==
  \A t \in Tiles : host[t] = Garbage =>
    \/ status # 0
    \/ \E r \in Ranks : /\ pc[r] \in {"swap", "setidx", "drain", "fail"}
                        /\ TileOf(pos[r]) = t /\ info[r]

\* The GPU has room for the tiles that the code asks for.
Room == IF machine.dist THEN machine.free >= Cardinality(InUse) * 3
                        ELSE machine.free >= SIZE * 2

\* Then only a panel that failed raises the abort flag.
Aborts == Room => /\ abort => status # 0
                  /\ \A r \in Ranks : pc[r] = "abort" => status # 0

\* No tile of rank r's share is left out, unless it leaves on an abort.
Behind(r) ==
  /\ \A t \in Tiles :
       /\ Own(r, t[1], t[2])
       /\ Number2(t[1], t[2]) < Number2(pos[r].m, pos[r].k)
       => host[t] # 0
  /\ pc[r] \in {"fini_bar"} \cup Ended => abort \/ pos[r].k = NT

SInv == Final /\ Sound /\ Told /\ Reported /\ Aborts /\ \A r \in Ranks : Behind(r)

LEMMA StatusStep ==
  ASSUME NEW r \in Ranks, Rank(r)
  PROVE  \/ status' = status /\ pc[r] # "fail"
         \/ status' = pos[r].k + 1 /\ pc[r] = "fail"
<1> USE DEF sched
<1>1. CASE \/ Enter(r) \/ SetBound(r) \/ SetBoundDist(r) \/ Top(r) \/ LoadTile(r)
           \/ Wait1(r) \/ Wait2(r) \/ TakeDiagonal(r) \/ CheckDiagonal(r) \/ Lock1(r)
           \/ Lock2(r)
  BY <1>1 DEF Enter, SetBound, SetBoundDist, Install, Top, LoadTile, Wait1, Wait2,
              WaitOperand, TakeDiagonal, CheckDiagonal, Lock1, Lock2, Acquire
<1>2. CASE Look1(r) \/ Look2(r) \/ Load1(r) \/ Load2(r) \/ Landed(r) \/ Kernel(r) \/ StoreTile(r)
  BY <1>2 DEF Look1, Look2, Load1, Load2, Landed, Kernel, StoreTile
<1>3. CASE \/ SwapDiagonal(r) \/ SetIndex(r) \/ Drain(r) \/ RequestFail(r) \/ SsAbort(r)
           \/ Publish(r) \/ NextStep(r) \/ DeleteTable(r)
  BY <1>3 DEF SwapDiagonal, SetIndex, Drain, RequestFail, SsAbort, Publish, NextStep,
              DeleteTable
<1> QED
  BY <1>1, <1>2, <1>3 DEF Rank

LEMMA FinalKept ==
  ASSUME IInv, RInv, Final, NEW r \in Ranks, Rank(r)
  PROVE  Final'
<1>1. SUFFICES ASSUME NEW t \in Tiles, host'[t] # host[t]
               PROVE  /\ Done(host'[t], t) \/ host'[t] = Garbage
                      /\ host'[t] = Garbage => t[1] = t[2]
  BY DEF Final
<1>2. /\ pc[r] = "store" /\ t = TileOf(pos[r]) /\ host'[t] = Version(r)
  BY <1>1, HostStep
<1>3. Current(r) /\ pos[r].k \in Nat
  BY DEF RInv, OfRank, Walk, Positions
<1>4. t[1] = pos[r].m /\ t[2] = pos[r].k
  BY <1>2 DEF TileOf
<1>5. info[r] => IsPotrf(pos[r])
  BY <1>2, <1>3 DEF Current, Stored
<1>6. CASE info[r]
  BY <1>2, <1>4, <1>5, <1>6 DEF Version, IsPotrf
<1>7. CASE ~info[r]
  BY <1>2, <1>3, <1>4, <1>7 DEF Version, Done, Garbage
<1> QED
  BY <1>6, <1>7

LEMMA ToldKept ==
  ASSUME IInv, RInv, Told, NEW r \in Ranks, Rank(r)
  PROVE  Told'
<1>1. CASE pc[r] = "fail"
  <2>1. Current(r) /\ Kind(r) /\ Walk(r)
    BY DEF RInv, OfRank
  <2>2. host[TileOf(pos[r])] = Garbage /\ IsPotrf(pos[r])
    BY <1>1, <2>1 DEF Current, Kind, Version, Stored
  <2>3. pos[r].k \in Nat /\ pos[r].k < NT /\ TileOf(pos[r]) = <<pos[r].k, pos[r].k>>
    BY <1>1, <2>2, Working DEF Busy, Stored, IsPotrf, TileOf
  <2>4. status' = pos[r].k + 1 /\ status' - 1 = pos[r].k /\ status' \in Nat
    BY <1>1, <2>3, StatusStep
  <2>5. pos[r].k \in Index
    BY <2>3, NTAssumption DEF Index
  <2>6. host' = host
    BY <1>1, Frame DEF StoreTile
  <2> QED
    BY <2>2, <2>3, <2>4, <2>5, <2>6 DEF Told
<1>2. CASE pc[r] # "fail"
  <2>1. status' = status
    BY <1>2, StatusStep
  <2>2. \A k \in Index : host[<<k, k>>] = Garbage => host'[<<k, k>>] = Garbage
    <3>1. \A k \in Index : <<k, k>> \in Tiles
      BY NTAssumption DEF Tiles, Index
    <3> QED
      BY <3>1, HostStep DEF Garbage
  <2> QED
    BY <2>1, <2>2 DEF Told
<1> QED
  BY <1>1, <1>2

LEMMA ReportedKept ==
  ASSUME IInv, RInv, Reported, NEW r \in Ranks, Rank(r)
  PROVE  Reported'
<1>0. RTypes /\ Current(r) /\ Walk(r)
  BY DEF RInv, OfRank
<1>1. SUFFICES ASSUME NEW t \in Tiles, host'[t] = Garbage, status' = 0
               PROVE  \E s \in Ranks : /\ pc'[s] \in {"swap", "setidx", "drain", "fail"}
                                       /\ TileOf(pos'[s]) = t /\ info'[s]
  BY DEF Reported
<1>2. pc[r] # "fail" /\ status = 0
  <2>1. pos[r].k \in Nat
    BY <1>0 DEF Walk, Positions
  <2>2. pos[r].k + 1 # 0
    BY <2>1
  <2> QED
    BY <1>1, <2>2, StatusStep
<1>3. CASE host[t] # Garbage
  <2>1. /\ pc[r] = "store" /\ t = TileOf(pos[r]) /\ Version(r) = Garbage
    BY <1>1, <1>3, HostStep
  <2>2. info[r]
    BY <1>0, <2>1 DEF Version, Garbage, Walk, Positions
  <2>3. pc'[r] = "swap"
    BY <1>0, <2>1, <2>2, Same DEF Moves, Current, Stored
  <2>4. info'[r] /\ pos' = pos
    BY <2>1, <2>2, Same, Frame DEF Kernel
  <2> QED
    BY <2>1, <2>3, <2>4
<1>4. CASE host[t] = Garbage
  <2>1. PICK s \in Ranks : /\ pc[s] \in {"swap", "setidx", "drain", "fail"}
                           /\ TileOf(pos[s]) = t /\ info[s]
    BY <1>2, <1>4 DEF Reported
  <2>2. CASE s # r
    <3>1. pc'[s] = pc[s] /\ pos'[s] = pos[s] /\ info'[s] = info[s]
      BY <1>0, <2>2, Others
    <3> QED
      BY <2>1, <3>1
  <2>3. CASE s = r
    <3>1. pc'[r] \in {"setidx", "drain", "fail"}
      BY <1>2, <2>1, <2>3, Same DEF Moves
    <3>2. info'[r] = info[r] /\ pos' = pos
      BY <2>1, <2>3, Same, Frame DEF Kernel
    <3> QED
      BY <2>1, <2>3, <3>1, <3>2
  <2> QED
    BY <2>2, <2>3
<1> QED
  BY <1>3, <1>4

\* The bound that setDiagonal and getMapBound come to is large enough.
LEMMA BoundEnough ==
  ASSUME IInv, RInv, Room, NEW r \in Ranks, Rank(r)
  PROVE  abort' = abort \/ SsAbort(r)
<1>1. CASE SetBound(r)
  <2>1. abort' = (abort \/ machine.free < SIZE * 2)
    BY <1>1 DEF SetBound, Install
  <2>2. ~(machine.free < SIZE * 2)
    <3>1. machine.free >= SIZE * 2 /\ machine.free \in Nat
      BY <1>1, MachinesAssumption DEF SetBound, Room, IInv, Types
    <3> QED
      BY <3>1, SizeAssumption
  <2> QED
    BY <2>1, <2>2 DEF RInv, RTypes
<1>2. CASE SetBoundDist(r)
  <2>1. PICK u, f, a, b : /\ u = Cardinality(InUse) /\ f = machine.free
                          /\ a = f \div u /\ b = Min({u * 3, f})
    OBVIOUS
  <2>2. abort' = (abort \/ Max({a, b}) < u * 3)
    BY <1>2, <2>1 DEF SetBoundDist, Install
  <2>3. u \in Nat \ {0} /\ f \in Nat /\ f >= u * 3
    <3>1. InUse \in SUBSET Ranks
      BY DeviceOf DEF InUse, IInv, Devices
    <3>2. InUse # {}
      BY SizeAssumption DEF InUse, Ranks
    <3>3. u \in Nat /\ u # 0
      BY <2>1, <3>1, <3>2, Counted
    <3>4. machine.dist /\ f \in Nat
      BY <1>2, <2>1, MachinesAssumption DEF SetBoundDist, IInv, Types
    <3> QED
      BY <2>1, <3>3, <3>4 DEF Room
  <2>4. b = u * 3
    <3>1. \A x \in {u * 3, f} : (\A y \in {u * 3, f} : x =< y) <=> x = u * 3
      BY <2>3
    <3> QED
      BY <2>1, <3>1 DEF Min
  <2>5. a \in Nat
    BY <2>1, <2>3
  <2>6. Max({a, b}) >= b
    <3>1. \E x \in {a, b} : \A y \in {a, b} : x >= y
      BY <2>3, <2>4, <2>5
    <3> QED
      BY <3>1 DEF Max
  <2>7. Max({a, b}) \in {a, b}
    <3>1. \E x \in {a, b} : \A y \in {a, b} : x >= y
      BY <2>3, <2>4, <2>5
    <3> QED
      BY <3>1 DEF Max
  <2>8. ~(Max({a, b}) < u * 3)
    BY <2>3, <2>4, <2>5, <2>6, <2>7
  <2> QED
    BY <2>2, <2>8 DEF RInv, RTypes
<1> QED
  BY <1>1, <1>2, Frame DEF Installs

LEMMA AbortsKept ==
  ASSUME IInv, RInv, Aborts, NEW r \in Ranks, Rank(r)
  PROVE  Aborts'
<1>1. Room' <=> Room
  BY Same DEF Room, InUse, On
<1>2. SUFFICES ASSUME Room
               PROVE  /\ abort' => status' # 0
                      /\ \A q \in Ranks : pc'[q] = "abort" => status' # 0
  BY <1>1 DEF Aborts
<1>3. status # 0 => status' # 0
  <2>1. pos[r].k \in Nat
    BY DEF RInv, OfRank, Walk, Positions
  <2>2. pos[r].k + 1 # 0
    BY <2>1
  <2> QED
    BY <2>2, StatusStep
<1>4. abort' => status' # 0
  BY <1>2, <1>3, BoundEnough DEF Aborts, SsAbort
<1>5. ASSUME NEW q \in Ranks, pc'[q] = "abort" PROVE status' # 0
  <2>1. CASE q # r
    <3>1. pc[q] = "abort"
      BY <1>5, <2>1, Others DEF RInv
    <3> QED
      BY <1>2, <1>3, <3>1 DEF Aborts
  <2>2. CASE q = r
    <3>1. pc[r] = "fail"
      BY <1>5, <2>2, Same DEF Moves, AfterFirst
    <3>2. pos[r].k \in Nat
      BY DEF RInv, OfRank, Walk, Positions
    <3> QED
      BY <3>1, <3>2, StatusStep
  <2> QED
    BY <2>1, <2>2
<1> QED
  BY <1>4, <1>5

LEMMA BehindKept ==
  ASSUME IInv, RInv, NEW r \in Ranks, Rank(r), NEW q \in Ranks, Behind(q)
  PROVE  Behind(q)'
<1>0. RTypes /\ Walk(q) /\ Current(q) /\ Published
  BY DEF RInv, OfRank
<1>1. \A t \in Tiles : host[t] # 0 => host'[t] # 0
  BY HostStep
<1>2. pc'[q] \in {"fini_bar"} \cup Ended => abort' \/ pos'[q].k = NT
  <2>1. CASE q # r
    BY <1>0, <2>1, Others, AbortStays DEF Behind
  <2>2. CASE q = r
    <3>1. SUFFICES ASSUME pc'[r] \in {"fini_bar"} \cup Ended PROVE abort' \/ pos'[r].k = NT
      BY <2>2
    <3>2. pos' = pos
      BY <3>1, Same DEF Moves, Ended
    <3>3. abort \/ ~InTriangle(pos[r]) \/ pc[r] \in Ended
      BY <3>1, Same DEF Moves, Ended, AfterFirst
    <3>4. ~InTriangle(pos[r]) => pos[r].k = NT
      BY <1>0, <2>2, NTAssumption DEF InTriangle, Walk, Standing, Positions
    <3> QED
      BY <2>2, <3>2, <3>3, <3>4, AbortStays DEF Behind
  <2> QED
    BY <2>1, <2>2
<1>3. ASSUME NEW t \in Tiles, Own(q, t[1], t[2]),
             Number2(t[1], t[2]) < Number2(pos'[q].m, pos'[q].k)
      PROVE  host'[t] # 0
  <2>1. CASE pos'[q] = pos[q]
    BY <1>1, <1>3, <2>1 DEF Behind
  <2>2. CASE pos'[q] # pos[q]
    <3>1. q = r /\ NextStep(r) /\ pc[r] = "next"
      BY <1>0, <2>2, Others, Control DEF NextStep
    <3>2. PICK p, c : p = pos[r] /\ c = NextOf(p) /\ pos'[r] = c
      BY <3>1 DEF NextStep, IInv, Types
    <3>3. p.k < NT /\ p.k \in Nat /\ p.m \in Nat /\ p.m < NT /\ p.n \in Nat /\ p.n =< p.k
            /\ TileOf(p) \in Tiles
      BY <3>1, <3>2, Working DEF Busy
    <3>4. CASE p.n < p.k
      <4>1. c = [k |-> p.k, m |-> p.m, n |-> p.n + 1]
        BY <1>0, <3>1, <3>2, <3>3, <3>4, NextWalk
      <4>2. c.m = p.m /\ c.k = p.k
        BY <4>1
      <4> QED
        BY <1>1, <1>3, <3>1, <3>2, <4>2 DEF Behind
    <3>5. CASE ~(p.n < p.k)
      <4>1. Number2(c.m, c.k) = Number2(p.m, p.k) + 2 * SIZE
        BY <1>0, <3>1, <3>2, <3>3, <3>5, NextWalk
      <4>2. Own(q, p.m, p.k)
        BY <1>0, <3>1, <3>2 DEF Walk
      <4>3. t[1] \in Nat /\ t[2] \in Nat
        BY NTAssumption DEF Tiles, Index
      <4>4. /\ Number2(p.m, p.k) \in Int /\ Number2(t[1], t[2]) \in Int
        BY <3>3, <4>3, NumberInt
      <4>5. ~(Number2(t[1], t[2]) > Number2(p.m, p.k))
        <5>1. Number2(t[1], t[2]) < Number2(p.m, p.k) + 2 * SIZE
          BY <1>3, <3>1, <3>2, <4>1
        <5>2. Number2(t[1], t[2]) > Number2(p.m, p.k) =>
                Number2(t[1], t[2]) >= Number2(p.m, p.k) + 2 * SIZE
          BY <1>3, <4>2, StrideGap
        <5> QED
          BY <4>4, <5>1, <5>2, SizeAssumption
      <4>6. CASE Number2(t[1], t[2]) < Number2(p.m, p.k)
        BY <1>1, <1>3, <3>1, <3>2, <4>6 DEF Behind
      <4>7. CASE Number2(t[1], t[2]) = Number2(p.m, p.k)
        <5>1. TileOf(p)[1] = p.m /\ TileOf(p)[2] = p.k
          BY DEF TileOf
        <5>2. t = TileOf(p)
          BY <3>3, <4>7, <5>1, NumberTile
        <5>3. p.n = p.k
          BY <3>3, <3>5
        <5>4. progress[t] = 1
          BY <1>0, <3>1, <3>2, <5>2, <5>3 DEF Current
        <5>5. host[t] # 0
          BY <1>0, <4>3, <5>4 DEF Published, Done, Garbage
        <5> QED
          BY <1>1, <5>5
      <4> QED
        BY <4>4, <4>5, <4>6, <4>7
    <3> QED
      BY <3>4, <3>5
  <2> QED
    BY <2>1, <2>2
<1> QED
  BY <1>2, <1>3 DEF Behind

LEMMA SoundKept ==
  ASSUME IInv, RInv, RInv', Sound, NEW r \in Ranks, Rank(r)
  PROVE  Sound'
<1>1. SUFFICES ASSUME NEW t \in Tiles, NEW n \in 0 .. t[2],
                      n < Latest(t)' \/ (Latest(t)' = Garbage /\ n < t[2]),
                      NEW o \in Abstract!Operands(t, n)
               PROVE  Finished(o)'
  BY DEF Sound
<1>2. /\ t = <<t[1], t[2]>> /\ t[1] \in Nat /\ t[2] \in Nat /\ t[2] =< t[1] /\ t[1] < NT
      /\ n \in Nat /\ n =< t[2]
  BY NTAssumption DEF Tiles, Index
<1>3. o \in Tiles
  BY <1>2, NTAssumption DEF Abstract!Operands, Tiles, Index
<1>4. SUFFICES Finished(o)
  BY <1>3, FinishedStays DEF Finished
<1>5. CASE Latest(t)' = Latest(t)
  BY <1>1, <1>5 DEF Sound
<1>6. CASE Latest(t)' # Latest(t)
  <2>1. pc[r] = "kernel"
    BY <1>6, ValKept, LatestStays
  <2>2. PICK p : p = pos[r]
    OBVIOUS
  <2>3. /\ t = TileOf(p) /\ Latest(t) = p.n
        /\ Latest(t)' = p.n + 1 \/ (IsPotrf(p) /\ Latest(t)' = Garbage)
    BY <1>6, <2>1, <2>2, KernelLatest
  <2>4. p.n \in Nat /\ t[1] = p.m /\ t[2] = p.k
    BY <2>1, <2>2, <2>3, Working DEF Busy, Before
  <2>5. n =< p.n
    BY <1>1, <1>2, <2>3, <2>4 DEF Garbage, IsPotrf
  <2>6. CASE n < p.n
    BY <2>3, <2>6 DEF Sound
  <2>7. CASE n = p.n
    <3>1. ~IsPotrf(p) => Finished(First(p))
      BY <2>1, <2>2 DEF RInv, OfRank, Waited, Key1
    <3>2. IsGemm(p) => Finished(Second(p))
      BY <2>1, <2>2 DEF RInv, OfRank, Waited, Key2
    <3>3. \/ ~IsPotrf(p) /\ o = First(p)
          \/ IsGemm(p) /\ o = Second(p)
      BY <1>2, <2>4, <2>7 DEF Abstract!Operands, IsPotrf, IsGemm, First, Second
    <3> QED
      BY <3>1, <3>2, <3>3
  <2> QED
    BY <1>2, <2>4, <2>5, <2>6, <2>7
<1> QED
  BY <1>5, <1>6

LEMMA SInitial == Init /\ RootFirst(machine) => SInv
<1> SUFFICES ASSUME Init, RootFirst(machine) PROVE SInv
  OBVIOUS
<1>1. /\ host = [t \in Tiles |-> 0] /\ status = 0 /\ abort = FALSE
      /\ \A r \in Ranks : pc[r] = "enter" /\ pos[r] = StartOf(r)
  BY DEF Init
<1>2. RInv
  BY RInitial
<1> HIDE DEF Init
<1>3. Final /\ Told /\ Reported /\ Aborts
  BY <1>1 DEF Final, Told, Reported, Aborts, Garbage
<1>4. Sound
  <2>1. ASSUME NEW t \in Tiles PROVE Latest(t) = 0
    <3>1. \A v : Val(t, v) => v = 0
      BY <1>1 DEF Init, Val, Holds
    <3> QED
      BY <1>2, <3>1, LatestIs
  <2>2. \A t \in Tiles : \A n \in 0 .. t[2] : ~(n < 0)
    BY NTAssumption DEF Tiles, Index
  <2> QED
    BY <2>1, <2>2 DEF Sound, Garbage
<1>5. ASSUME NEW r \in Ranks PROVE Behind(r)
  <2>1. PICK p : p = pos[r] /\ p = StartOf(r) /\ Number2(p.m, p.k) = 2 * r
    BY <1>1, StartWalk
  <2>2. ASSUME NEW t \in Tiles, Own(r, t[1], t[2]) PROVE Number2(t[1], t[2]) >= 2 * r
    <3>1. PICK j \in Nat : Number2(t[1], t[2]) = 2 * r + 2 * (SIZE * j)
      BY <2>2 DEF Own
    <3>2. SIZE * j \in Nat /\ r \in Nat
      BY SizeAssumption DEF Ranks
    <3> QED
      BY <3>1, <3>2
  <2>3. \A t \in Tiles : Number2(t[1], t[2]) \in Int
    BY NumberInt, NTAssumption DEF Tiles, Index
  <2>4. r \in Nat
    BY SizeAssumption DEF Ranks
  <2>5. \A t \in Tiles : Own(r, t[1], t[2]) => ~(Number2(t[1], t[2]) < 2 * r)
    BY <2>2, <2>3, <2>4
  <2> QED
    BY <1>1, <2>1, <2>5 DEF Behind, Ended
<1> QED
  BY <1>3, <1>4, <1>5 DEF SInv

LEMMA SKept ==
  ASSUME IInv, RInv, RInv', SInv, [Next]_vars
  PROVE  SInv'
<1>1. ASSUME NEW r \in Ranks, Rank(r) PROVE SInv'
  BY <1>1, FinalKept, SoundKept, ToldKept, ReportedKept, AbortsKept, BehindKept DEF SInv
<1>2. CASE Barriers \/ UNCHANGED vars
  <2>1. UNCHANGED <<pos, local, dev, host, progress, abort, status, info, machine>>
    BY <1>2 DEF Barriers, InitBarrier, FiniBarrier, sched, tableVars, vars, rankVars
  <2>2. \/ pc' = pc
        \/ \A r \in Ranks : pc[r] = "init_bar" /\ pc'[r] \in {"bound", "top"}
        \/ \A r \in Ranks : pc[r] = "fini_bar" /\ pc'[r] \in {"free", "done"}
    BY <1>2 DEF Barriers, InitBarrier, FiniBarrier, vars, rankVars
  <2>3. Final' /\ Told' /\ Reported' /\ Aborts'
    BY <2>1, <2>2 DEF SInv, Final, Told, Reported, Aborts, Room, InUse, On
  <2>4. Sound'
    <3>1. \A t : Latest(t)' = Latest(t) /\ (Finished(t) => Finished(t)')
      BY <2>1 DEF Latest, Finished
    <3> QED
      BY <3>1 DEF SInv, Sound
  <2>5. \A r \in Ranks : Behind(r)'
    BY <2>1, <2>2 DEF SInv, Behind, Ended
  <2> QED
    BY <2>3, <2>4, <2>5 DEF SInv
<1> QED
  BY <1>1, <1>2 DEF Next

THEOREM SInvariance == Spec /\ RootFirst(machine) => [](RInv /\ SInv)
<1>1. IInv /\ RInv /\ (IInv /\ RInv)' /\ SInv /\ [Next]_vars => SInv'
  BY SKept
<1> QED
  BY <1>1, SInitial, RInvariance, PTL DEF Spec

\* PLASMA_SUCCESS means that the whole factor is in host memory, where the GPUs
\* have the room that the code asks for (with less the call ends at once).
THEOREM SuccessMeansFactorHolds ==
  Spec /\ RootFirst(machine) /\ Room => []SuccessMeansFactor
<1>1. Init /\ Room => Room
  OBVIOUS
<1>2. IInv /\ Room /\ [Next]_vars => Room'
  <2> SUFFICES ASSUME IInv, Room, [Next]_vars PROVE Room'
    OBVIOUS
  <2>1. machine' = machine
    BY Same DEF Next, Barriers, InitBarrier, FiniBarrier, sched, vars
  <2> QED
    BY <2>1 DEF Room, InUse, On
<1>3. RInv /\ SInv /\ Room => SuccessMeansFactor
  <2> SUFFICES ASSUME RInv, SInv, Room, AllDone, status = 0, NEW t \in Tiles
               PROVE  Done(host[t], t)
    BY DEF SuccessMeansFactor
  <2>1. ~abort /\ host[t] # Garbage
    BY DEF SInv, Aborts, Reported, AllDone
  <2>2. PICK r \in Ranks : Own(r, t[1], t[2])
    BY Shared
  <2>3. pos[r].k = NT /\ pos[r].m \in Nat /\ pos[r].m >= NT
    BY <2>1, NTAssumption DEF SInv, Behind, AllDone, Ended, RInv, OfRank, Walk, Positions, Standing
  <2>4. host[t] # 0
    BY <2>2, <2>3, NoneBeyond DEF SInv, Behind
  <2> QED
    BY <2>1, <2>4 DEF SInv, Final
<1> QED
  BY <1>2, <1>3, Invariance, SInvariance, PTL DEF Spec

\* In a panel that failed the tiles before the diagonal are finished, and so are
\* the panels that they needed.
LEMMA BrokenRow ==
  ASSUME RInv, SInv, NEW k \in Index, host[<<k, k>>] = Garbage, NEW j \in 0 .. k - 1
  PROVE  Done(host[<<k, j>>], <<k, j>>) /\ Done(host[<<j, j>>], <<j, j>>)
<1>1. /\ k \in Nat /\ j \in Nat /\ j < k /\ j \in 0 .. k /\ j \in 0 .. j
      /\ <<k, k>> \in Tiles /\ <<k, j>> \in Tiles
  BY NTAssumption DEF Tiles, Index
<1>2. Latest(<<k, k>>) = Garbage
  BY <1>1, LatestIs DEF Val, Garbage
<1>3. <<k, j>> \in Abstract!Operands(<<k, k>>, j)
  BY <1>1 DEF Abstract!Operands
<1>4. Finished(<<k, j>>)
  BY <1>1, <1>2, <1>3 DEF SInv, Sound
<1>5. Latest(<<k, j>>) = j + 1
  BY <1>1, <1>4, LatestFinished
<1>6. <<j, j>> \in Abstract!Operands(<<k, j>>, j)
  BY <1>1 DEF Abstract!Operands
<1>7. Finished(<<j, j>>)
  BY <1>1, <1>5, <1>6 DEF SInv, Sound
<1> QED
  BY <1>4, <1>7 DEF Finished

\* A failure status names the panel that failed, its diagonal tile is the only
\* garbage in memory, and all that it depends on is complete.
THEOREM StatusNamesPanelHolds == Spec /\ RootFirst(machine) => []StatusNamesPanel
<1>1. RInv /\ SInv => StatusNamesPanel
  <2> SUFFICES ASSUME RInv, SInv, status # 0
               PROVE  /\ {t \in Tiles : host[t] = Garbage} = {<<status - 1, status - 1>>}
                      /\ \A j \in 0 .. status - 2 :
                           Done(host[<<status - 1, j>>], <<status - 1, j>>)
    BY DEF StatusNamesPanel
  <2>1. PICK k \in Index : k = status - 1 /\ host[<<k, k>>] = Garbage
    BY DEF SInv, Told
  <2>2. k \in Nat /\ <<k, k>> \in Tiles /\ status - 2 = k - 1
    <3>1. status \in Nat
      BY DEF SInv, Told
    <3> QED
      BY <2>1, <3>1, NTAssumption DEF Index, Tiles
  <2>3. ASSUME NEW t \in Tiles, host[t] = Garbage PROVE t = <<k, k>>
    <3>1. PICK j \in Index : t = <<j, j>>
      BY <2>3 DEF SInv, Final, Tiles
    <3>2. j \in Nat
      BY <3>1, NTAssumption DEF Index
    <3>3. ~(j < k)
      <4> SUFFICES ASSUME j < k PROVE FALSE
        OBVIOUS
      <4>1. j \in 0 .. k - 1
        BY <2>2, <3>2
      <4>2. Done(host[<<j, j>>], <<j, j>>)
        BY <2>1, <4>1, BrokenRow
      <4> QED
        BY <2>3, <3>1, <3>2, <4>2 DEF Done, Garbage
    <3>4. ~(k < j)
      <4> SUFFICES ASSUME k < j PROVE FALSE
        OBVIOUS
      <4>1. k \in 0 .. j - 1 /\ host[<<j, j>>] = Garbage
        BY <2>2, <2>3, <3>1, <3>2
      <4>2. Done(host[<<k, k>>], <<k, k>>)
        BY <3>1, <4>1, BrokenRow
      <4> QED
        BY <2>1, <2>2, <4>2 DEF Done, Garbage
    <3> QED
      BY <2>2, <3>1, <3>2, <3>3, <3>4
  <2>4. \A j \in 0 .. status - 2 : Done(host[<<k, j>>], <<k, j>>)
    BY <2>1, <2>2, BrokenRow
  <2> QED
    BY <2>1, <2>2, <2>3, <2>4
<1> QED
  BY <1>1, SInvariance, PTL
=============================================================================
