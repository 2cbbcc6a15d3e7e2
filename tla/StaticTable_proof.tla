-------------------------- MODULE StaticTable_proof --------------------------
(***************************************************************************)
(* Proofs about the three-thread pipeline, for one rank (SIZE = 1), any    *)
(* triangle and any number of buffers.  With several ranks nothing orders  *)
(* a task after the tasks of the other ranks on its operands               *)
(* (compute/pdpotrf_gpu_hpcasia24.cpp:2132), and with two the statements   *)
(* are false (StaticTableRanks.cfg): one rank is the condition under which *)
(* the code is right, because its own walk orders all tasks.               *)
(*                                                                         *)
(* The three threads go through the same line of tasks (Before), g2c never *)
(* past compute.  The invariant relates the shared table to where they     *)
(* are: a count is the number of tasks announced and not yet released      *)
(* (CountInv), a tile that compute has found stays on the device until g2c *)
(* has released its task (PlaceInv), and a buffer holds the version that   *)
(* the tasks behind compute have made (DataInv).  The crux is CountZero:   *)
(* c2g waits for a tile only when compute waits for it too, so that all    *)
(* that was released had been announced, and a count of zero means that    *)
(* every announced task is released, not just as many as were.             *)
(***************************************************************************)
EXTENDS StaticTable, Triangle_proof, FiniteSetTheorems, TLAPS

\* The walk of one rank: the tasks column by column, then row by row, and for
\* each tile its updates; and the place behind the last one.
Tasks  == {p \in [k : Index, m : Index, n : Index] : p.k =< p.m /\ p.n =< p.k}
End    == [k |-> NT, m |-> NT, n |-> 0]
Places == Tasks \cup {End}

Before(p, q) == \/ p.k < q.k
                \/ p.k = q.k /\ p.m < q.m
                \/ p.k = q.k /\ p.m = q.m /\ p.n < q.n

\* How many tasks come before p.
Serial(p) == Cardinality({q \in Tasks : Before(q, p)})

FirstTask(t) == [k |-> t[2], m |-> t[1], n |-> 0]
LastTask(t)  == [k |-> t[2], m |-> t[1], n |-> t[2]]

\* Task p works on tile t.
UsedBy(t, p)   == \E i \in 1 .. Len(Uses(p)) : Uses(p)[i] = t

\* c2g has not announced tile i of task p; it has not seen to its buffer.
ToAnnounce(p, i) ==
  \/ Before(cpos[0], p)
  \/ /\ p = cpos[0]
     /\ i > cuse[0] \/ (i = cuse[0] /\ cpc[0] \in {"top", "announce", "cleanup", "done"})
ToBring(p, i) ==
  \/ Before(cpos[0], p)
  \/ p = cpos[0] /\ (i > cuse[0] \/ (i = cuse[0] /\ cpc[0] # "advance"))

\* The compute thread has found tile i of task p on the device.
Found(p, i) ==
  \/ Before(p, mpos[0])
  \/ p = mpos[0] /\ (i < muse[0] \/ mpc[0] \in {"kernel", "fail", "abort", "step"})

Announced(t) == {p \in Tasks : \E i \in 1 .. Len(Uses(p)) : Uses(p)[i] = t /\ ~ToAnnounce(p, i)}
Released(t)  == {p \in Tasks : UsedBy(t, p) /\ Before(p, gpos[0])}

\* c2g has brought tile t for its first task, g2c has returned it for good.
Brought(t)  == ~ToBring(FirstTask(t), 1)
Returned(t) == \/ Before(LastTask(t), gpos[0])
               \/ gpos[0] = LastTask(t) /\ gpc[0] = "release"

\* The tasks that compute has applied to t.
Broken(t) == \/ mpc[0] = "fail" /\ t = TileOf(mpos[0])
             \/ status # 0 /\ t = <<status - 1, status - 1>>
Val(t) == IF Broken(t) THEN Garbage
          ELSE IF Before(LastTask(t), mpos[0]) THEN t[2] + 1
          ELSE IF mpos[0] = End \/ t # TileOf(mpos[0]) THEN 0
          ELSE IF mpc[0] \in {"fail", "abort", "step"} THEN mpos[0].n + 1 ELSE mpos[0].n

\* The cleanup has freed the buffer of t: nobody will look at it again.
Freed(t) ==
  /\ cpc[0] \in {"cleanup", "done"}
  /\ dev[ptr[t]] = Empty
  /\ \/ abort /\ (host[t] = Val(t) \/ Val(t) = Garbage)
     \/ \A p \in Tasks : UsedBy(t, p) => Before(p, gpos[0])

\* Where a thread is within a task.
CWorks == {"announce", "spare", "copy", "advance"}
MWorks == {"wait", "kernel", "fail", "abort", "step"}
GWorks == {"behind", "store", "release"}

\* The types of the variables.
TypeInv ==
  /\ cpc \in [Ranks -> CWorks \cup {"top", "cleanup", "done"}]
  /\ mpc \in [Ranks -> MWorks \cup {"top", "leave", "done"}]
  /\ gpc \in [Ranks -> GWorks \cup {"top", "done"}]
  /\ cpos \in [Ranks -> Places] /\ mpos \in [Ranks -> Places] /\ gpos \in [Ranks -> Places]
  /\ cuse \in [Ranks -> Nat] /\ muse \in [Ranks -> Nat]
  /\ spare \in [Ranks -> Buffers \cup {None}]
  /\ mine \in [Ranks -> Nat] /\ step \in [Ranks -> Int] /\ gstep \in [Ranks -> Int]
  /\ ptr \in [Tiles -> Buffers \cup {None}]
  /\ count \in [Tiles -> Int]
  /\ dev \in [Buffers -> [t : Int \X Int, v : Int]]
  /\ host \in [Tiles -> Int]
  /\ abort \in BOOLEAN /\ status \in Nat

\* c2g is at a tile of a task; it looks for a buffer only for a tile without one.
C2gInv ==
  /\ cpc[0] \in CWorks => cpos[0] \in Tasks /\ cuse[0] \in 1 .. Len(Uses(cpos[0]))
  /\ cpc[0] \notin CWorks => cuse[0] = 1
  /\ cpc[0] \in {"cleanup", "done"} => cpos[0] = End \/ abort
  /\ cpc[0] \in {"spare", "copy"} =>
       ptr[Wanted(0)] = None /\ (cuse[0] = 1 => cpos[0].n = 0)

\* A buffer that the rank has allocated.
Owned(b) == b \in Buffers /\ b[2] =< mine[0]

\* No buffer belongs to two tiles, and the one to be filled to none.
BufferInv ==
  /\ \A t \in Tiles : ptr[t] # None => Owned(ptr[t])
  /\ \A t, u \in Tiles : ptr[t] # None /\ ptr[t] = ptr[u] => t = u
  /\ cpc[0] = "copy" => Owned(spare[0]) /\ \A t \in Tiles : ptr[t] # spare[0]

\* A tile is on the device from its first fetch until its last task is released,
\* and whenever compute has found it for a task that g2c has not released.
PlaceInv ==
  /\ \A t \in Tiles : ~Brought(t) => ptr[t] = None
  /\ \A t \in Tiles : Brought(t) /\ ptr[t] = None => Before(LastTask(t), gpos[0])
  /\ \A p \in Tasks : \A i \in 1 .. Len(Uses(p)) :
       Found(p, i) /\ (ToBring(p, i) \/ ~Before(p, gpos[0])) => ptr[Uses(p)[i]] # None

\* compute is at a tile of a task; its step counter is the number of the task.
ComputeInv ==
  /\ mpc[0] \in MWorks => mpos[0] \in Tasks /\ muse[0] \in 1 .. Len(Uses(mpos[0]))
  /\ mpc[0] \notin MWorks => muse[0] = 1
  /\ mpc[0] \in {"fail", "abort"} => IsPotrf(mpos[0])
  /\ step[0] = Serial(mpos[0]) + (IF mpc[0] = "done" THEN 1 ELSE 0)

\* Only a failed panel stops the walk early, and compute stops right behind it.
FailInv ==
  /\ status = 0 => /\ ~abort /\ mpc[0] # "abort"
                   /\ mpc[0] \in {"leave", "done"} => mpos[0] = End
  /\ status # 0 =>
       /\ status - 1 \in Index
       /\ LET f == LastTask(<<status - 1, status - 1>>) IN
            \/ mpos[0] = f /\ mpc[0] = "abort" /\ ~abort
            \/ mpos[0] = f /\ mpc[0] = "step" /\ abort
            \/ mpos[0] = NextOf(f) /\ mpc[0] \in {"top", "leave", "done"} /\ abort

\* g2c is not ahead of compute, and behind it when it touches a task.
G2cInv ==
  /\ gpc[0] \in GWorks => gpos[0] \in Tasks
  /\ gpc[0] = "store" => gpos[0].n = gpos[0].k
  /\ gpc[0] = "done" => gpos[0] = End \/ abort
  /\ gstep[0] = Serial(gpos[0]) + (IF gpc[0] \in {"store", "release"} THEN 1 ELSE 0)
  /\ ~Before(mpos[0], gpos[0])
  /\ gpc[0] \in {"store", "release"} => Before(gpos[0], mpos[0])
  /\ gpc[0] = "behind" /\ abort /\ mpc[0] # "step" => Before(gpos[0], mpos[0])

\* The count of a tile: its announced tasks without the released ones.
CountInv == \A t \in Tiles : count[t] = Cardinality(Announced(t)) - Cardinality(Released(t))

\* The device has the newest version of its tiles, the host of the returned ones.
DataInv ==
  /\ \A t \in Tiles : ptr[t] # None => dev[ptr[t]] = [t |-> t, v |-> Val(t)] \/ Freed(t)
  /\ \A t \in Tiles : host[t] = IF Returned(t) THEN Val(t) ELSE 0

\* The inductive invariant.
IInv == /\ TypeInv /\ C2gInv /\ BufferInv /\ ComputeInv /\ FailInv /\ G2cInv
        /\ PlaceInv /\ CountInv /\ DataInv
-----------------------------------------------------------------------------
(* The walk of one rank                                                    *)

\* The numbers of a place, and which places are tasks.
LEMMA PlaceFields ==
  ASSUME NEW p \in Places
  PROVE  /\ p.k \in Nat /\ p.m \in Nat /\ p.n \in Nat
         /\ p = [k |-> p.k, m |-> p.m, n |-> p.n]
         /\ p.k =< p.m /\ p.n =< p.k /\ p.m =< NT
         /\ p.k < NT <=> p \in Tasks
         /\ p \in Tasks <=> p # End
         /\ p \in Tasks => p.m < NT
         /\ p \in Positions /\ Standing(p)
         /\ InTriangle(p) <=> p \in Tasks
<1>1. CASE p \in Tasks
  <2>1. /\ p = [k |-> p.k, m |-> p.m, n |-> p.n]
        /\ p.k \in Index /\ p.m \in Index /\ p.n \in Index
        /\ p.k =< p.m /\ p.n =< p.k
    BY <1>1 DEF Tasks
  <2>2. /\ p.k \in Nat /\ p.m \in Nat /\ p.n \in Nat /\ p.k < NT /\ p.m < NT
    BY <2>1, NTAssumption DEF Index
  <2> QED
    BY <1>1, <2>1, <2>2, NTAssumption DEF End, Positions, Standing, InTriangle
<1>2. CASE p = End
  <2>1. /\ p = [k |-> p.k, m |-> p.m, n |-> p.n] /\ p.k = NT /\ p.m = NT /\ p.n = 0
    BY <1>2 DEF End
  <2>2. p \notin Tasks
    <3> SUFFICES ASSUME p \in Tasks PROVE FALSE
      OBVIOUS
    <3>1. p.k \in Index
      BY DEF Tasks
    <3> QED
      BY <2>1, <3>1, NTAssumption DEF Index
  <2> QED
    BY <1>2, <2>1, <2>2, NTAssumption DEF Positions, Standing, InTriangle
<1> QED
  BY <1>1, <1>2 DEF Places

\* The records that are tasks.
LEMMA TaskIn ==
  ASSUME NEW a \in Nat, NEW b \in Nat, NEW c \in Nat, c =< a, a =< b, b < NT
  PROVE  [k |-> a, m |-> b, n |-> c] \in Tasks
BY NTAssumption DEF Tasks, Index

\* Every task is a place.
LEMMA TaskPlace == \A p \in Tasks : p \in Places
BY DEF Places

\* The walk goes through the tasks of a tile, the rows of a column, the columns.
LEMMA NextIs ==
  ASSUME SIZE = 1, NEW p \in Tasks
  PROVE  /\ p.n < p.k => NextOf(p) = [k |-> p.k, m |-> p.m, n |-> p.n + 1]
         /\ p.n = p.k /\ p.m + 1 < NT => NextOf(p) = [k |-> p.k, m |-> p.m + 1, n |-> 0]
         /\ p.n = p.k /\ p.m + 1 = NT => NextOf(p) = [k |-> p.k + 1, m |-> p.k + 1, n |-> 0]
<1>0. /\ p.k \in Nat /\ p.m \in Nat /\ p.n \in Nat /\ p.k < NT /\ p.m < NT /\ p.n =< p.k
      /\ p = [k |-> p.k, m |-> p.m, n |-> p.n] /\ NT \in Nat
  BY PlaceFields, TaskPlace, NTAssumption
<1>1. CASE p.n < p.k
  BY <1>0, <1>1 DEF NextOf
<1>2. CASE p.n = p.k
  <2> DEFINE q == [k |-> p.k, m |-> p.m + 1, n |-> 0]
             u == [k |-> p.k + 1, m |-> p.k + 1, n |-> 0]
  <2>1. NextOf(p) = Carried(q)
    BY <1>0, <1>2 DEF NextOf
  <2>2. q \in Positions /\ u \in Positions
    BY <1>0 DEF Positions
  <2>3. CASE p.m + 1 < NT
    <3>1. ~Turns(q)
      BY <1>0, <2>3 DEF Turns
    <3>2. Carried(q) = q
      BY <2>2, <3>1, CarriedIs
    <3> QED
      BY <1>0, <1>2, <2>1, <2>3, <3>2
  <2>4. CASE p.m + 1 = NT
    <3>1. Turns(q) /\ Turned(q) = u
      BY <1>0, <2>4 DEF Turns, Turned
    <3>2. ~Turns(u)
      BY <1>0 DEF Turns
    <3>3. Carried(u) = u
      <4> HIDE DEF u
      <4> QED
        BY <2>2, <3>2, CarriedIs
    <3>4. Carried(q) = Carried(u)
      <4> HIDE DEF u, q
      <4> QED
        BY <2>2, <3>1, CarriedIs
    <3> QED
      BY <1>0, <1>2, <2>1, <2>4, <3>3, <3>4
  <2> QED
    BY <1>0, <2>3, <2>4
<1> QED
  BY <1>0, <1>1, <1>2

\* After a task comes a task or the end.
LEMMA NextPlace ==
  ASSUME SIZE = 1, NEW p \in Tasks
  PROVE  NextOf(p) \in Places
<1>0. /\ p.k \in Nat /\ p.m \in Nat /\ p.n \in Nat /\ p.k < NT /\ p.m < NT /\ p.n =< p.k
      /\ p.k =< p.m /\ NT \in Nat
  BY PlaceFields, TaskPlace, NTAssumption
<1>1. CASE p.n < p.k
  BY <1>0, <1>1, NextIs, TaskIn, TaskPlace
<1>2. CASE p.n = p.k /\ p.m + 1 < NT
  BY <1>0, <1>2, NextIs, TaskIn, TaskPlace
<1>3. CASE p.n = p.k /\ p.m + 1 = NT
  <2>1. NextOf(p) = [k |-> p.k + 1, m |-> p.k + 1, n |-> 0]
    BY <1>3, NextIs
  <2>2. CASE p.k + 1 < NT
    BY <1>0, <2>1, <2>2, TaskIn, TaskPlace
  <2>3. CASE p.k + 1 = NT
    BY <1>0, <2>1, <2>3 DEF Places, End
  <2> QED
    BY <1>0, <2>2, <2>3
<1> QED
  BY <1>0, <1>1, <1>2, <1>3

\* Places are in one line.
LEMMA Linear ==
  ASSUME NEW p \in Places, NEW q \in Places
  PROVE  /\ Before(p, q) \/ p = q \/ Before(q, p)
         /\ ~(Before(p, q) /\ Before(q, p))
         /\ ~Before(p, p)
         /\ p \in Tasks => Before(p, End)
         /\ ~Before(End, p)
<1>1. /\ p = [k |-> p.k, m |-> p.m, n |-> p.n] /\ p.k \in Nat /\ p.m \in Nat /\ p.n \in Nat
      /\ q = [k |-> q.k, m |-> q.m, n |-> q.n] /\ q.k \in Nat /\ q.m \in Nat /\ q.n \in Nat
  BY PlaceFields
<1>2. Before(p, q) \/ p = q \/ Before(q, p)
  <2>1. (p.k = q.k /\ p.m = q.m /\ p.n = q.n) => p = q
    BY <1>1
  <2> QED
    BY <1>1, <2>1 DEF Before
<1>3. ~(Before(p, q) /\ Before(q, p)) /\ ~Before(p, p)
  BY <1>1 DEF Before
<1>4. p \in Tasks => Before(p, End)
  BY <1>1, PlaceFields DEF Before, End
<1>5. ~Before(End, p)
  BY <1>1, PlaceFields, NTAssumption DEF Before, End
<1> QED
  BY <1>2, <1>3, <1>4, <1>5

\* The line has no loops.
LEMMA Transitive ==
  ASSUME NEW p \in Places, NEW q \in Places, NEW u \in Places
  PROVE  /\ Before(p, q) /\ Before(q, u) => Before(p, u)
         /\ Before(p, q) /\ ~Before(u, q) => Before(p, u)
         /\ ~Before(q, p) /\ Before(q, u) => Before(p, u)
         /\ ~Before(q, p) /\ ~Before(u, q) => ~Before(u, p)
<1>1. /\ p.k \in Nat /\ p.m \in Nat /\ p.n \in Nat
      /\ q.k \in Nat /\ q.m \in Nat /\ q.n \in Nat
      /\ u.k \in Nat /\ u.m \in Nat /\ u.n \in Nat
  BY PlaceFields
<1> QED
  BY <1>1 DEF Before

\* The next place has p and what is before p before it.
LEMMA NextFollows ==
  ASSUME SIZE = 1, NEW p \in Tasks, NEW q \in Places
  PROVE  Before(q, NextOf(p)) <=> Before(q, p) \/ q = p
<1>0. /\ p.k \in Nat /\ p.m \in Nat /\ p.n \in Nat /\ p.k < NT /\ p.m < NT /\ p.n =< p.k
      /\ p.k =< p.m /\ NT \in Nat
      /\ p = [k |-> p.k, m |-> p.m, n |-> p.n]
  BY PlaceFields, TaskPlace, NTAssumption
<1>1. /\ q.k \in Nat /\ q.m \in Nat /\ q.n \in Nat /\ q.n =< q.k /\ q.k =< q.m /\ q.m =< NT
      /\ q = [k |-> q.k, m |-> q.m, n |-> q.n]
      /\ q.k < NT => q.m < NT
  BY PlaceFields
<1>2. q = p <=> q.k = p.k /\ q.m = p.m /\ q.n = p.n
  BY <1>0, <1>1
<1>3. CASE p.n < p.k
  <2>1. /\ NextOf(p).k = p.k /\ NextOf(p).m = p.m /\ NextOf(p).n = p.n + 1
    BY <1>3, NextIs
  <2> QED
    BY <1>0, <1>1, <1>2, <1>3, <2>1 DEF Before
<1>4. CASE p.n = p.k /\ p.m + 1 < NT
  <2>1. /\ NextOf(p).k = p.k /\ NextOf(p).m = p.m + 1 /\ NextOf(p).n = 0
    BY <1>4, NextIs
  <2> QED
    BY <1>0, <1>1, <1>2, <1>4, <2>1 DEF Before
<1>5. CASE p.n = p.k /\ p.m + 1 = NT
  <2>1. /\ NextOf(p).k = p.k + 1 /\ NextOf(p).m = p.k + 1 /\ NextOf(p).n = 0
    BY <1>5, NextIs
  <2> QED
    BY <1>0, <1>1, <1>2, <1>5, <2>1 DEF Before
<1> QED
  BY <1>0, <1>3, <1>4, <1>5

\* The walk begins at the first tile.
LEMMA StartIs ==
  ASSUME SIZE = 1
  PROVE  /\ StartOf(0) = [k |-> 0, m |-> 0, n |-> 0]
         /\ StartOf(0) \in Tasks
         /\ \A q \in Places : ~Before(q, StartOf(0))
<1> DEFINE q == [k |-> 0, m |-> 0, n |-> 0]
<1>1. q \in Positions /\ ~Turns(q)
  BY NTAssumption DEF Positions, Turns
<1>2. StartOf(0) = q
  <2>1. Carried(q) = q
    BY <1>1, CarriedIs
  <2> QED
    BY <2>1 DEF StartOf
<1>3. q \in Tasks
  BY NTAssumption, TaskIn
<1>4. \A p \in Places : p.k \in Nat /\ p.m \in Nat /\ p.n \in Nat
  BY PlaceFields
<1>5. \A p \in Places : ~Before(p, q)
  BY <1>4 DEF Before
<1> QED
  BY <1>2, <1>3, <1>5

\* There are finitely many tasks, so that they can be counted.
LEMMA TasksFinite == IsFiniteSet(Tasks)
<1> DEFINE S == Index \X (Index \X Index)
           f == [s \in S |-> [k |-> s[1], m |-> s[2][1], n |-> s[2][2]]]
<1>1. IsFiniteSet(Index)
  BY FS_Interval, NTAssumption DEF Index
<1>2. IsFiniteSet(Index \X Index)
  BY <1>1, FS_Product
<1>3. IsFiniteSet(S)
  BY <1>1, <1>2, FS_Product
<1>4. IsFiniteSet({f[s] : s \in S})
  <2> DEFINE T == {f[s] : s \in S}
  <2>1. f \in Surjection(S, T)
    BY DEF Surjection
  <2> QED
    <3> HIDE DEF S, f, T
    <3>1. IsFiniteSet(T)
      BY <1>3, <2>1, FS_Surjection
    <3> QED
      BY <3>1 DEF T
<1>5. Tasks \subseteq {f[s] : s \in S}
  <2> SUFFICES ASSUME NEW p \in Tasks PROVE \E s \in S : p = f[s]
    OBVIOUS
  <2>1. p = [k |-> p.k, m |-> p.m, n |-> p.n] /\ p.k \in Index /\ p.m \in Index /\ p.n \in Index
    BY DEF Tasks
  <2>2. <<p.k, <<p.m, p.n>>>> \in S
    BY <2>1
  <2>3. f[<<p.k, <<p.m, p.n>>>>] = p
    BY <2>1, <2>2
  <2> QED
    BY <2>2, <2>3
<1> QED
  BY <1>4, <1>5, FS_Subset

\* The number of tasks before a place: it grows by one with each task.
LEMMA SerialNext ==
  ASSUME SIZE = 1, NEW p \in Tasks
  PROVE  Serial(NextOf(p)) = Serial(p) + 1
<1> DEFINE A == {q \in Tasks : Before(q, p)}
           B == {q \in Tasks : Before(q, NextOf(p))}
<1>1. B = A \cup {p}
  BY NextFollows, TaskPlace
<1>2. p \notin A
  BY Linear, TaskPlace
<1>3. IsFiniteSet(A)
  BY TasksFinite, FS_Subset
<1>4. Cardinality(A \cup {p}) = Cardinality(A) + 1
  <2> HIDE DEF A
  <2> QED
    BY <1>2, <1>3, FS_AddElement
<1> QED
  BY <1>1, <1>4 DEF Serial

\* The number of a place is a number.
LEMMA SerialNat ==
  ASSUME NEW p \in Places
  PROVE  Serial(p) \in Nat
<1> DEFINE A == {q \in Tasks : Before(q, p)}
<1>1. IsFiniteSet(A)
  BY TasksFinite, FS_Subset
<1> QED
  BY <1>1, FS_CardinalityType DEF Serial

\* A smaller number means an earlier place: g2c may compare step counters.
LEMMA SerialOrder ==
  ASSUME NEW p \in Places, NEW q \in Places, Serial(p) < Serial(q)
  PROVE  Before(p, q)
<1> SUFFICES ASSUME ~Before(p, q) PROVE FALSE
  OBVIOUS
<1> DEFINE A == {u \in Tasks : Before(u, p)}
           B == {u \in Tasks : Before(u, q)}
<1>1. B \subseteq A
  <2> SUFFICES ASSUME NEW u \in Tasks, Before(u, q) PROVE Before(u, p)
    OBVIOUS
  <2> QED
    BY Transitive, TaskPlace
<1>2. IsFiniteSet(A)
  BY TasksFinite, FS_Subset
<1>3. Cardinality(B) =< Cardinality(A)
  <2> HIDE DEF A, B
  <2> QED
    BY <1>1, <1>2, FS_Subset
<1>4. Serial(p) \in Nat /\ Serial(q) \in Nat
  BY SerialNat
<1> QED
  BY <1>3, <1>4 DEF Serial
-----------------------------------------------------------------------------
(* The tiles of a task                                                     *)

\* The row and the column of a tile.
LEMMA TileFields ==
  ASSUME NEW t \in Tiles
  PROVE  /\ t = <<t[1], t[2]>> /\ t[1] \in Nat /\ t[2] \in Nat
         /\ t[2] =< t[1] /\ t[1] < NT
BY NTAssumption DEF Tiles, Index

\* The pairs that are tiles.
LEMMA TileIn ==
  ASSUME NEW a \in Nat, NEW b \in Nat, b =< a, a < NT
  PROVE  <<a, b>> \in Tiles
BY NTAssumption DEF Tiles, Index

\* A task works on one to three different tiles, on the first one of them as one
\* of its updates, on the others when their own tasks are all behind.
LEMMA UsesFacts ==
  ASSUME NEW p \in Tasks
  PROVE  /\ Len(Uses(p)) \in 1 .. 3
         /\ \A i \in 1 .. Len(Uses(p)) : Uses(p)[i] \in Tiles
         /\ Uses(p)[1] = TileOf(p) /\ TileOf(p) \in Tiles
         /\ \A i, j \in 1 .. Len(Uses(p)) : Uses(p)[i] = Uses(p)[j] => i = j
         /\ \A i \in 2 .. Len(Uses(p)) :
              Before(LastTask(Uses(p)[i]), FirstTask(TileOf(p)))
<1>0. /\ p.k \in Nat /\ p.m \in Nat /\ p.n \in Nat /\ p.k < NT /\ p.m < NT
      /\ p.n =< p.k /\ p.k =< p.m /\ NT \in Nat
  BY PlaceFields, TaskPlace, NTAssumption
<1>1. /\ TileOf(p) \in Tiles
      /\ First(p) \in Tiles /\ (IsGemm(p) => Second(p) \in Tiles)
  <2>1. TileOf(p) \in Tiles
    BY <1>0, TileIn DEF TileOf
  <2>2. First(p) \in Tiles
    BY <1>0, TileIn DEF First
  <2>3. Second(p) \in Tiles
    BY <1>0, TileIn DEF Second
  <2> QED
    BY <2>1, <2>2, <2>3
<1>2. CASE IsPotrf(p)
  BY <1>1, <1>2 DEF Uses
<1>3. CASE IsGemm(p)
  <2>1. p.m # p.k /\ p.n # p.k /\ ~IsPotrf(p)
    BY <1>3 DEF IsGemm, IsPotrf
  <2>2. Uses(p) = <<TileOf(p), First(p), Second(p)>>
    BY <1>3, <2>1 DEF Uses
  <2>3. TileOf(p) # First(p) /\ TileOf(p) # Second(p) /\ First(p) # Second(p)
    BY <1>0, <2>1 DEF TileOf, First, Second
  <2>4. /\ Before(LastTask(First(p)), FirstTask(TileOf(p)))
        /\ Before(LastTask(Second(p)), FirstTask(TileOf(p)))
    BY <1>0, <2>1 DEF Before, LastTask, FirstTask, TileOf, First, Second
  <2> QED
    BY <1>1, <1>3, <2>2, <2>3, <2>4
<1>4. CASE ~IsPotrf(p) /\ ~IsGemm(p)
  <2>1. Uses(p) = <<TileOf(p), First(p)>>
    BY <1>4 DEF Uses
  <2>2. (p.m = p.k /\ p.n < p.k) \/ (p.k < p.m /\ p.n = p.k)
    BY <1>0, <1>4 DEF IsPotrf, IsGemm
  <2>3. TileOf(p) # First(p)
    BY <1>0, <2>2 DEF TileOf, First
  <2>4. Before(LastTask(First(p)), FirstTask(TileOf(p)))
    BY <1>0, <2>2 DEF Before, LastTask, FirstTask, TileOf, First
  <2> QED
    BY <1>1, <2>1, <2>3, <2>4
<1> QED
  BY <1>2, <1>3, <1>4

\* The tasks of tile t stand next to each other in the walk.
LEMMA OfTile ==
  ASSUME NEW t \in Tiles
  PROVE  /\ FirstTask(t) \in Tasks /\ LastTask(t) \in Tasks
         /\ TileOf(FirstTask(t)) = t /\ TileOf(LastTask(t)) = t
         /\ ~Before(LastTask(t), FirstTask(t))
         /\ \A p \in Tasks : TileOf(p) = t =>
              ~Before(p, FirstTask(t)) /\ ~Before(LastTask(t), p)
         /\ \A p \in Places : ~Before(p, FirstTask(t)) /\ ~Before(LastTask(t), p)
              => p \in Tasks /\ TileOf(p) = t
         /\ \A p \in Tasks : TileOf(p) = t /\ p.n = 0 => p = FirstTask(t)
         /\ \A p \in Tasks : TileOf(p) = t /\ p.n = p.k => p = LastTask(t)
<1>1. /\ t = <<t[1], t[2]>> /\ t[1] \in Nat /\ t[2] \in Nat
      /\ t[2] =< t[1] /\ t[1] < NT /\ NT \in Nat
  BY TileFields, NTAssumption
<1>2. FirstTask(t) \in Tasks /\ LastTask(t) \in Tasks
  BY <1>1, TaskIn DEF FirstTask, LastTask
<1>3. /\ TileOf(FirstTask(t)) = t /\ TileOf(LastTask(t)) = t
      /\ ~Before(LastTask(t), FirstTask(t))
  BY <1>1 DEF FirstTask, LastTask, TileOf, Before
<1>4. ASSUME NEW p \in Tasks, TileOf(p) = t
      PROVE  /\ ~Before(p, FirstTask(t)) /\ ~Before(LastTask(t), p)
             /\ p.n = 0 => p = FirstTask(t)
             /\ p.n = p.k => p = LastTask(t)
  <2>1. /\ p = [k |-> p.k, m |-> p.m, n |-> p.n]
        /\ p.k \in Nat /\ p.m \in Nat /\ p.n \in Nat /\ p.n =< p.k
    BY PlaceFields, TaskPlace
  <2>2. p.m = t[1] /\ p.k = t[2]
    BY <1>4 DEF TileOf
  <2> QED
    BY <1>1, <2>1, <2>2 DEF FirstTask, LastTask, Before
<1>5. ASSUME NEW p \in Places, ~Before(p, FirstTask(t)), ~Before(LastTask(t), p)
      PROVE  p \in Tasks /\ TileOf(p) = t
  <2>1. p.k \in Nat /\ p.m \in Nat /\ p.n \in Nat /\ (p.k < NT => p \in Tasks)
    BY PlaceFields
  <2>2. p.k = t[2] /\ p.m = t[1]
    BY <1>1, <1>5, <2>1 DEF FirstTask, LastTask, Before
  <2> QED
    BY <1>1, <2>1, <2>2, PlaceFields DEF TileOf
<1> QED
  BY <1>2, <1>3, <1>4, <1>5

\* The tasks of two tiles do not mix.
LEMMA TilesApart ==
  ASSUME NEW t \in Tiles, NEW p \in Tasks, TileOf(p) # t
  PROVE  /\ Before(p, LastTask(t)) => Before(p, FirstTask(t))
         /\ Before(FirstTask(t), p) => Before(LastTask(t), p)
<1>1. /\ ~Before(p, FirstTask(t)) /\ ~Before(LastTask(t), p) => FALSE
  BY OfTile, TaskPlace
<1>2. FirstTask(t) \in Places /\ LastTask(t) \in Places /\ p \in Places
  BY OfTile, TaskPlace
<1>3. TileOf(FirstTask(t)) # TileOf(p)
  BY OfTile
<1> QED
  BY <1>1, <1>2, Linear
-----------------------------------------------------------------------------
(* What the invariant says of a state                                      *)

\* The only rank is 0; the types of what belongs to it.
LEMMA OneRank ==
  ASSUME SIZE = 1, TypeInv
  PROVE  /\ Ranks = {0}
         /\ cpos[0] \in Places /\ mpos[0] \in Places /\ gpos[0] \in Places
         /\ mine[0] \in Nat /\ spare[0] \in Buffers \cup {None}
         /\ cuse[0] \in Nat /\ muse[0] \in Nat /\ step[0] \in Int /\ gstep[0] \in Int
         /\ cpc[0] \in CWorks \cup {"top", "cleanup", "done"}
         /\ mpc[0] \in MWorks \cup {"top", "leave", "done"}
         /\ gpc[0] \in GWorks \cup {"top", "done"}
<1>1. Ranks = {0}
  BY DEF Ranks
<1> QED
  BY <1>1 DEF TypeInv

\* A tile whose first task has not looked for it is as it came.
LEMMA Untouched ==
  ASSUME SIZE = 1, IInv, NEW t \in Tiles, ~Found(FirstTask(t), 1)
  PROVE  Val(t) = 0 /\ ~Returned(t) /\ host[t] = 0
<1>0. /\ mpos[0] \in Places /\ gpos[0] \in Places
      /\ FirstTask(t) \in Places /\ LastTask(t) \in Places
      /\ FirstTask(t) \in Tasks /\ LastTask(t) \in Tasks
  BY OneRank, OfTile, TaskPlace DEF IInv
<1>1. ~Before(FirstTask(t), mpos[0])
  BY DEF Found
<1>2. ~Before(LastTask(t), mpos[0])
  BY <1>0, <1>1, OfTile, Transitive
<1>3. ASSUME mpos[0] \in Tasks, TileOf(mpos[0]) = t
      PROVE  /\ mpos[0] = FirstTask(t) /\ mpos[0].n = 0
             /\ mpc[0] \notin {"kernel", "fail", "abort", "step"}
  <2>1. ~Before(mpos[0], FirstTask(t))
    BY <1>3, OfTile
  <2>2. mpos[0] = FirstTask(t)
    BY <1>0, <1>1, <2>1, Linear
  <2>3. mpos[0].n = 0
    BY <2>2 DEF FirstTask
  <2> QED
    BY <2>2, <2>3 DEF Found
<1>4. ~Broken(t)
  <2>1. CASE mpc[0] = "fail" /\ t = TileOf(mpos[0])
    <3>1. mpos[0] \in Tasks
      BY <2>1 DEF IInv, ComputeInv, MWorks
    <3> QED
      BY <1>3, <2>1, <3>1
  <2>2. CASE status # 0 /\ t = <<status - 1, status - 1>>
    <3>1. \/ mpos[0] = LastTask(t) /\ mpc[0] \in {"abort", "step"}
          \/ mpos[0] = NextOf(LastTask(t))
      BY <2>2 DEF IInv, FailInv
    <3>2. mpos[0] # NextOf(LastTask(t))
      BY <1>0, <1>2, NextFollows
    <3>3. mpos[0] = LastTask(t) /\ mpc[0] \in {"abort", "step"}
      BY <3>1, <3>2
    <3> QED
      BY <1>0, <1>3, <3>3, OfTile
  <2> QED
    BY <2>1, <2>2 DEF Broken
<1>5. Val(t) = 0
  <2>1. CASE mpos[0] = End \/ t # TileOf(mpos[0])
    BY <1>2, <1>4, <2>1 DEF Val
  <2>2. CASE mpos[0] # End /\ t = TileOf(mpos[0])
    <3>1. mpos[0] \in Tasks
      BY <1>0, <2>2 DEF Places
    <3>2. mpos[0].n = 0 /\ mpc[0] \notin {"fail", "abort", "step"}
      BY <1>3, <2>2, <3>1
    <3> QED
      BY <1>2, <1>4, <2>2, <3>2 DEF Val
  <2> QED
    BY <2>1, <2>2
<1>6. ~Returned(t)
  <2>1. ~Before(mpos[0], gpos[0])
    BY DEF IInv, G2cInv
  <2>2. ~Before(LastTask(t), gpos[0])
    BY <1>0, <1>2, <2>1, Transitive
  <2>3. gpc[0] = "release" => Before(gpos[0], mpos[0])
    BY DEF IInv, G2cInv
  <2> QED
    BY <1>2, <2>2, <2>3 DEF Returned
<1> QED
  BY <1>5, <1>6 DEF IInv, DataInv

\* A tile whose tasks compute has left behind is finished, unless its panel is
\* the one that failed.
LEMMA TileFinished ==
  ASSUME SIZE = 1, IInv, NEW t \in Tiles, Before(LastTask(t), mpos[0]),
         status = 0 \/ t # <<status - 1, status - 1>>
  PROVE  Val(t) = t[2] + 1
<1>0. mpos[0] \in Places
  BY OneRank DEF IInv
<1>1. mpc[0] = "fail" => t # TileOf(mpos[0])
  <2> SUFFICES ASSUME mpc[0] = "fail", t = TileOf(mpos[0]) PROVE FALSE
    OBVIOUS
  <2>1. mpos[0] \in Tasks
    BY DEF IInv, ComputeInv, MWorks
  <2> QED
    BY <2>1, OfTile
<1>2. ~Broken(t)
  BY <1>1 DEF Broken
<1> QED
  BY <1>2 DEF Val

\* Every task that g2c has released was found on the device by compute.
LEMMA ReleasedFound ==
  ASSUME SIZE = 1, IInv, NEW p \in Tasks, Before(p, gpos[0])
  PROVE  Before(p, mpos[0])
BY OneRank, TaskPlace, Transitive DEF IInv, G2cInv

\* The sets that the counts count are finite.
LEMMA AnnouncedFinite ==
  ASSUME NEW t
  PROVE  IsFiniteSet(Announced(t)) /\ IsFiniteSet(Released(t))
BY TasksFinite, FS_Subset DEF Announced, Released

\* A count of zero means that the announced tasks are released, as long as what
\* g2c has released was announced before.
LEMMA CountZero ==
  ASSUME SIZE = 1, IInv, NEW t \in Tiles, count[t] = 0, NEW p \in Announced(t),
         \A q \in Tasks : Before(q, gpos[0]) => Before(q, cpos[0])
  PROVE  Before(p, gpos[0])
<1>1. Released(t) \subseteq Announced(t)
  <2> SUFFICES ASSUME NEW q \in Released(t) PROVE q \in Announced(t)
    OBVIOUS
  <2>1. q \in Tasks /\ UsedBy(t, q) /\ Before(q, cpos[0])
    BY DEF Released
  <2>2. PICK i \in 1 .. Len(Uses(q)) : Uses(q)[i] = t
    BY <2>1 DEF UsedBy
  <2>3. q \in Places /\ cpos[0] \in Places
    BY <2>1, OneRank, TaskPlace DEF IInv
  <2>4. ~ToAnnounce(q, i)
    BY <2>1, <2>3, Linear DEF ToAnnounce
  <2> QED
    BY <2>1, <2>2, <2>4 DEF Announced
<1>2. Cardinality(Announced(t)) = Cardinality(Released(t))
  <2>1. Cardinality(Announced(t)) \in Nat /\ Cardinality(Released(t)) \in Nat
    BY AnnouncedFinite, FS_CardinalityType
  <2>2. 0 = Cardinality(Announced(t)) - Cardinality(Released(t))
    BY DEF IInv, CountInv
  <2> QED
    BY <2>1, <2>2
<1>3. Announced(t) = Released(t)
  BY <1>1, <1>2, AnnouncedFinite, FS_Subset
<1> QED
  BY <1>3 DEF Released

\* A tile that is brought has its buffer, until its last task is released.
LEMMA Unfound ==
  ASSUME SIZE = 1, IInv, NEW t \in Tiles, ~Brought(t)
  PROVE  ~Found(FirstTask(t), 1) /\ ptr[t] = None
<1>1. FirstTask(t) \in Tasks
  BY OfTile
<1>2. 1 \in 1 .. Len(Uses(FirstTask(t))) /\ Uses(FirstTask(t))[1] = t
  BY <1>1, UsesFacts, OfTile
<1>3. ptr[t] = None
  BY DEF IInv, PlaceInv
<1> QED
  BY <1>1, <1>2, <1>3 DEF IInv, PlaceInv, Brought
-----------------------------------------------------------------------------
(* What a step leaves alone                                                *)

\* A step does not change what c2g has announced and seen to, what compute has
\* found, which version it has made.
SameAnnounce == \A p \in Tasks : \A i \in 1 .. Len(Uses(p)) :
                  ToAnnounce(p, i)' <=> ToAnnounce(p, i)
SameBring    == \A p \in Tasks : \A i \in 1 .. Len(Uses(p)) :
                  ToBring(p, i)' <=> ToBring(p, i)
SameFound    == \A p \in Tasks : \A i \in 1 .. Len(Uses(p)) :
                  Found(p, i)' <=> Found(p, i)
SameVal      == \A t \in Tiles : Val(t)' = Val(t)

\* The compute thread's part depends on its own variables.
LEMMA ComputeKept ==
  ASSUME IInv, UNCHANGED compute
  PROVE  ComputeInv' /\ SameFound
BY DEF IInv, ComputeInv, compute, SameFound, Found

\* What failed depends on the compute thread, abort and status.
LEMMA FailKept ==
  ASSUME IInv, UNCHANGED <<compute, abort, status>>
  PROVE  FailInv' /\ SameVal
BY DEF IInv, FailInv, compute, SameVal, Val, Broken

\* The g2c thread's part depends on itself, compute and abort.
LEMMA G2cKept ==
  ASSUME IInv, UNCHANGED <<compute, g2c, abort>>
  PROVE  G2cInv'
BY DEF IInv, G2cInv, compute, g2c

\* The c2g thread's part depends on its own variables and the table.
LEMMA C2gKept ==
  ASSUME IInv, UNCHANGED <<c2g, ptr>>, abort' = abort \/ abort'
  PROVE  C2gInv' /\ BufferInv' /\ SameAnnounce /\ SameBring
<1>1. C2gInv'
  BY DEF IInv, C2gInv, c2g, Wanted
<1>2. BufferInv'
  BY DEF IInv, BufferInv, c2g, Owned
<1>3. SameAnnounce /\ SameBring
  BY DEF c2g, SameAnnounce, SameBring, ToAnnounce, ToBring
<1> QED
  BY <1>1, <1>2, <1>3

\* The counts stay right when nothing is announced or released.
LEMMA CountKept ==
  ASSUME IInv, SameAnnounce, UNCHANGED <<count, gpos>>
  PROVE  CountInv'
<1> SUFFICES ASSUME NEW t \in Tiles
             PROVE  count'[t] = Cardinality(Announced(t))' - Cardinality(Released(t))'
  BY DEF CountInv
<1>1. Announced(t)' = Announced(t)
  BY DEF Announced, SameAnnounce
<1>2. Released(t)' = Released(t)
  BY DEF Released
<1> QED
  BY <1>1, <1>2 DEF IInv, CountInv

\* The first task of a tile updates it.
LEMMA FirstUse ==
  ASSUME NEW t \in Tiles
  PROVE  /\ FirstTask(t) \in Tasks
         /\ 1 \in 1 .. Len(Uses(FirstTask(t))) /\ Uses(FirstTask(t))[1] = t
BY UsesFacts, OfTile

\* Tiles stay where they are when the table and the threads' views do.
LEMMA PlaceKept ==
  ASSUME IInv, SameBring, SameFound, UNCHANGED <<ptr, gpos>>
  PROVE  PlaceInv'
<1>1. \A t \in Tiles : Brought(t)' <=> Brought(t)
  <2> SUFFICES ASSUME NEW t \in Tiles PROVE Brought(t)' <=> Brought(t)
    OBVIOUS
  <2>1. ToBring(FirstTask(t), 1)' <=> ToBring(FirstTask(t), 1)
    BY FirstUse DEF SameBring
  <2> QED
    BY <2>1 DEF Brought
<1> QED
  BY <1>1 DEF IInv, PlaceInv, SameBring, SameFound

-----------------------------------------------------------------------------
(* The steps of the c2g thread                                             *)

\* A step of c2g leaves the other two threads alone.
LEMMA C2gOthers ==
  ASSUME SIZE = 1, IInv, C2g(0)
  PROVE  /\ ComputeInv' /\ SameFound /\ FailInv' /\ SameVal /\ G2cInv'
         /\ UNCHANGED <<gpos, gpc, host, abort, status, mpos, mpc, muse>>
<1>1. UNCHANGED <<compute, g2c, host, abort, status>>
  BY DEF C2g, CTop, Announce, Allocate, Scan, TakeOver, Bring, Advance, Cleanup
<1>2. UNCHANGED <<gpos, gpc, host, abort, status, mpos, mpc, muse>>
  BY <1>1 DEF compute, g2c
<1> QED
  BY <1>1, <1>2, ComputeKept, FailKept, G2cKept

\* The data are as they should be when the buffers in the table are.
LEMMA C2gData ==
  ASSUME SIZE = 1, IInv, C2g(0),
         \A t \in Tiles : ptr'[t] # None =>
           dev'[ptr'[t]] = [t |-> t, v |-> Val(t)] \/ Freed(t)'
  PROVE  DataInv'
<1>1. SameVal /\ UNCHANGED <<gpos, gpc, host>>
  BY C2gOthers
<1>2. \A t \in Tiles : Returned(t)' = Returned(t)
  BY <1>1 DEF Returned
<1> QED
  BY <1>1, <1>2 DEF IInv, DataInv, SameVal

\* As long as the walk lasts no buffer has been freed.
LEMMA NotFreed ==
  ASSUME IInv, cpc[0] \notin {"cleanup", "done"}, NEW t \in Tiles, ptr[t] # None
  PROVE  dev[ptr[t]] = [t |-> t, v |-> Val(t)]
BY DEF IInv, DataInv, Freed

\* c2g begins the next task, or the cleanup.
LEMMA CTopStep ==
  ASSUME SIZE = 1, IInv, CTop(0)
  PROVE  TypeInv' /\ C2gInv' /\ BufferInv' /\ PlaceInv' /\ CountInv' /\ DataInv'
<1>0. /\ cpc[0] = "top" /\ UNCHANGED <<cpos, cuse, spare, mine, ptr, count, dev, host, abort, gpos>>
      /\ cpc'[0] = "announce" \/ cpc'[0] = "cleanup"
      /\ cpc'[0] = "announce" => InTriangle(cpos[0])
      /\ cpc'[0] = "cleanup" => ~InTriangle(cpos[0]) \/ abort
      /\ TypeInv /\ TypeInv'
  BY DEF CTop, CGoto, IInv, TypeInv, CWorks, Ranks, g2c, compute
<1>1. C2g(0)
  BY DEF C2g
<1>2. C2gInv'
  <2>1. cpos[0] \in Places
    BY <1>0, OneRank
  <2>2. InTriangle(cpos[0]) <=> cpos[0] \in Tasks
    BY <2>1, PlaceFields
  <2>3. cpos[0] \in Tasks => 1 \in 1 .. Len(Uses(cpos[0]))
    BY UsesFacts
  <2>4. cuse[0] = 1
    BY <1>0 DEF IInv, C2gInv, CWorks
  <2>5. ~InTriangle(cpos[0]) => cpos[0] = End
    BY <2>1, <2>2 DEF Places
  <2> QED
    BY <1>0, <2>1, <2>2, <2>3, <2>4, <2>5 DEF C2gInv, CWorks
<1>3. BufferInv'
  BY <1>0 DEF IInv, BufferInv, Owned
<1>4. SameAnnounce /\ SameBring
  BY <1>0 DEF SameAnnounce, SameBring, ToAnnounce, ToBring
<1>5. PlaceInv' /\ CountInv'
  BY <1>0, <1>1, <1>4, PlaceKept, CountKept, C2gOthers
<1>6. DataInv'
  BY <1>0, <1>1, NotFreed, C2gData
<1> QED
  BY <1>0, <1>2, <1>3, <1>5, <1>6
\* The tile that c2g works on is one of its task's.
LEMMA WantedIs ==
  ASSUME SIZE = 1, IInv, cpc[0] \in CWorks
  PROVE  /\ cpos[0] \in Tasks /\ cuse[0] \in 1 .. Len(Uses(cpos[0]))
         /\ Wanted(0) = Uses(cpos[0])[cuse[0]] /\ Wanted(0) \in Tiles
         /\ cuse[0] = 1 /\ cpos[0].n = 0 => cpos[0] = FirstTask(Wanted(0))
<1>1. cpos[0] \in Tasks /\ cuse[0] \in 1 .. Len(Uses(cpos[0]))
  BY DEF IInv, C2gInv
<1>2. Wanted(0) = Uses(cpos[0])[cuse[0]] /\ Wanted(0) \in Tiles
  BY <1>1, UsesFacts DEF Wanted
<1>3. cuse[0] = 1 => Wanted(0) = TileOf(cpos[0])
  BY <1>1, <1>2, UsesFacts
<1> QED
  BY <1>1, <1>2, <1>3, OfTile

\* Announcing adds one task to the set that the tile's count counts.
LEMMA AnnounceStep ==
  ASSUME SIZE = 1, IInv, Announce(0)
  PROVE  TypeInv' /\ C2gInv' /\ BufferInv' /\ PlaceInv' /\ CountInv' /\ DataInv'
<1> DEFINE w == Uses(cpos[0])[cuse[0]]
<1>0. /\ cpc[0] = "announce" /\ UNCHANGED <<cpos, cuse, spare, mine, ptr, dev, host, abort, gpos>>
      /\ cpc'[0] = (IF IF cuse[0] = 1 THEN cpos[0].n = 0 ELSE ptr[w] = None
                    THEN "spare" ELSE "advance")
      /\ count' = [count EXCEPT ![w] = @ + 1]
      /\ cpc' \in [Ranks -> CWorks \cup {"top", "cleanup", "done"}]
      /\ cpc'[0] \in {"spare", "advance"}
  BY DEF Announce, CGoto, IInv, TypeInv, CWorks, Ranks, g2c, compute, Wanted
<1>1. C2g(0)
  BY DEF C2g
<1>2. /\ cpos[0] \in Tasks /\ cuse[0] \in 1 .. Len(Uses(cpos[0])) /\ w \in Tiles
      /\ Wanted(0) = w
      /\ cuse[0] = 1 /\ cpos[0].n = 0 => cpos[0] = FirstTask(w)
  BY <1>0, WantedIs DEF CWorks
<1> HIDE DEF w
<1>3. TypeInv'
  <2>1. count' \in [Tiles -> Int]
    BY <1>0, <1>2 DEF IInv, TypeInv
  <2> QED
    BY <1>0, <2>1 DEF Announce, IInv, TypeInv, g2c, compute
<1>4. C2gInv'
  <2>1. cpc'[0] = "spare" => ptr[w] = None /\ (cuse[0] = 1 => cpos[0].n = 0)
    <3>1. CASE cuse[0] = 1
      <4> SUFFICES ASSUME cpos[0].n = 0 PROVE ptr[w] = None
        BY <1>0, <3>1
      <4>1. ~Brought(w)
        BY <1>0, <1>2, <3>1 DEF Brought, ToBring
      <4> QED
        BY <1>2, <4>1, Unfound
    <3>2. CASE cuse[0] # 1
      BY <1>0, <3>2
    <3> QED
      BY <3>1, <3>2
  <2>2. Wanted(0)' = w
    BY <1>0 DEF Wanted, w
  <2> QED
    BY <1>0, <1>2, <2>1, <2>2 DEF C2gInv, CWorks
<1>5. BufferInv'
  BY <1>0 DEF IInv, BufferInv, Owned
<1>6. ASSUME NEW p \in Tasks, NEW i \in 1 .. Len(Uses(p))
      PROVE  /\ ToBring(p, i)' => ToBring(p, i)
             /\ cpc'[0] = "spare" => (ToBring(p, i)' <=> ToBring(p, i))
             /\ ~(p = cpos[0] /\ i = cuse[0]) => (ToBring(p, i)' <=> ToBring(p, i))
  BY <1>0 DEF ToBring
<1>7. PlaceInv'
  <2>1. SameFound
    BY <1>1, C2gOthers
  <2>2. ASSUME NEW t \in Tiles
        PROVE  /\ ~Brought(t)' => ptr'[t] = None
               /\ Brought(t)' /\ ptr'[t] = None => Before(LastTask(t), gpos'[0])
    <3>1. ~Brought(t)' => ~Brought(t)
      BY <1>6, FirstUse DEF Brought
    <3>2. CASE Brought(t)
      BY <1>0, <3>1, <3>2 DEF IInv, PlaceInv
    <3>3. CASE ~Brought(t) /\ Brought(t)'
      <4>1. cpos[0] = FirstTask(t) /\ cuse[0] = 1 /\ cpc'[0] = "advance"
        BY <1>0, <1>6, <3>3, FirstUse DEF Brought
      <4>2. cpos[0].n = 0
        BY <4>1 DEF FirstTask
      <4> QED
        BY <1>0, <4>1, <4>2
    <3>4. CASE ~Brought(t) /\ ~Brought(t)'
      BY <1>0, <3>1, <3>4 DEF IInv, PlaceInv
    <3> QED
      BY <3>2, <3>3, <3>4
  <2> QED
    BY <1>0, <1>6, <2>1, <2>2 DEF IInv, PlaceInv, SameFound
<1>8. CountInv'
  <2>1. \A p \in Tasks : \A i \in 1 .. Len(Uses(p)) :
          ~ToAnnounce(p, i)' <=> ~ToAnnounce(p, i) \/ (p = cpos[0] /\ i = cuse[0])
    <3> SUFFICES ASSUME NEW p \in Tasks, NEW i \in 1 .. Len(Uses(p))
                 PROVE  ~ToAnnounce(p, i)' <=> ~ToAnnounce(p, i) \/ (p = cpos[0] /\ i = cuse[0])
      OBVIOUS
    <3>1. ~Before(cpos[0], cpos[0])
      BY <1>2, TaskPlace, Linear
    <3> QED
      BY <1>0, <1>2, <3>1 DEF ToAnnounce
  <2> SUFFICES ASSUME NEW t \in Tiles
               PROVE  count'[t] = Cardinality(Announced(t))' - Cardinality(Released(t))'
    BY DEF CountInv
  <2>2. Released(t)' = Released(t)
    BY <1>0 DEF Released
  <2>3. CASE t # w
    <3>1. Announced(t)' = Announced(t)
      BY <1>2, <2>1, <2>3 DEF Announced, w
    <3>2. count'[t] = count[t]
      BY <1>0, <2>3 DEF IInv, TypeInv
    <3> QED
      BY <2>2, <3>1, <3>2 DEF IInv, CountInv
  <2>4. CASE t = w
    <3>1. Announced(t)' = Announced(t) \cup {cpos[0]}
      BY <1>2, <2>1, <2>4 DEF Announced, w
    <3>2. cpos[0] \notin Announced(t)
      <4> SUFFICES ASSUME NEW i \in 1 .. Len(Uses(cpos[0])), Uses(cpos[0])[i] = t,
                          ~ToAnnounce(cpos[0], i)
                   PROVE  FALSE
        BY DEF Announced
      <4>1. i = cuse[0]
        BY <1>2, <2>4, UsesFacts DEF w
      <4> QED
        BY <1>0, <4>1 DEF ToAnnounce
    <3>3. Cardinality(Announced(t) \cup {cpos[0]}) = Cardinality(Announced(t)) + 1
      BY <3>2, AnnouncedFinite, FS_AddElement
    <3>4. count'[t] = count[t] + 1
      BY <1>0, <2>4 DEF IInv, TypeInv
    <3>5. Cardinality(Announced(t)) \in Nat /\ Cardinality(Released(t)) \in Nat
      BY AnnouncedFinite, FS_CardinalityType
    <3>6. count[t] = Cardinality(Announced(t)) - Cardinality(Released(t))
      BY DEF IInv, CountInv
    <3> QED
      BY <2>2, <3>1, <3>3, <3>4, <3>5, <3>6
  <2> QED
    BY <2>3, <2>4
<1>9. DataInv'
  BY <1>0, <1>1, NotFreed, C2gData
<1> QED
  BY <1>3, <1>4, <1>5, <1>7, <1>8, <1>9

\* A new buffer belongs to no tile.
LEMMA AllocateStep ==
  ASSUME SIZE = 1, IInv, Allocate(0)
  PROVE  TypeInv' /\ C2gInv' /\ BufferInv' /\ PlaceInv' /\ CountInv' /\ DataInv'
<1>0. /\ cpc[0] = "spare" /\ UNCHANGED <<cpos, cuse, ptr, count, dev, host, abort, gpos>>
      /\ mine[0] < MaxBound /\ mine[0] \in Nat /\ mine'[0] = mine[0] + 1
      /\ spare'[0] = <<0, mine[0] + 1>> /\ cpc'[0] = "copy"
      /\ cpc' \in [Ranks -> CWorks \cup {"top", "cleanup", "done"}]
      /\ mine' \in [Ranks -> Nat]
  BY DEF Allocate, CGoto, IInv, TypeInv, CWorks, Ranks, g2c, compute
<1>1. C2g(0)
  BY DEF C2g
<1>2. <<0, mine[0] + 1>> \in Buffers
  BY <1>0, BoundAssumption DEF Buffers, Ranks
<1>3. TypeInv'
  <2>1. spare' \in [Ranks -> Buffers \cup {None}]
    BY <1>2 DEF Allocate, IInv, TypeInv, Ranks
  <2> QED
    BY <1>0, <2>1 DEF Allocate, IInv, TypeInv, g2c, compute
<1>4. C2gInv'
  BY <1>0 DEF IInv, C2gInv, CWorks, Wanted
<1>5. BufferInv'
  <2>1. \A t \in Tiles : ptr[t] # None => ptr[t] # <<0, mine[0] + 1>>
    BY <1>0 DEF IInv, BufferInv, Owned
  <2>2. ASSUME NEW b, b \in Buffers /\ b[2] =< mine[0]
        PROVE  b[2] =< mine'[0]
    <3>1. b[2] \in Int
      BY <2>2, BoundAssumption DEF Buffers
    <3> QED
      BY <1>0, <2>2, <3>1
  <2>3. \A t \in Tiles : ptr'[t] # None => ptr'[t] \in Buffers /\ ptr'[t][2] =< mine'[0]
    BY <1>0, <2>2 DEF IInv, BufferInv, Owned
  <2>4. spare'[0] \in Buffers /\ spare'[0][2] =< mine'[0] /\ spare'[0] # None
    BY <1>0, <1>2 DEF None
  <2> QED
    BY <1>0, <2>1, <2>3, <2>4 DEF IInv, BufferInv, Owned
<1>6. SameAnnounce /\ SameBring
  BY <1>0 DEF SameAnnounce, SameBring, ToAnnounce, ToBring
<1>7. PlaceInv' /\ CountInv'
  BY <1>0, <1>1, <1>6, PlaceKept, CountKept, C2gOthers
<1>8. DataInv'
  BY <1>0, <1>1, NotFreed, C2gData
<1> QED
  BY <1>3, <1>4, <1>5, <1>7, <1>8

\* The scan moves the cursor and nothing else.
LEMMA ScanStep ==
  ASSUME SIZE = 1, IInv, Scan(0)
  PROVE  TypeInv' /\ C2gInv' /\ BufferInv' /\ PlaceInv' /\ CountInv' /\ DataInv'
<1>0. /\ cpc[0] = "spare"
      /\ UNCHANGED <<cpc, cpos, cuse, spare, mine, ptr, count, dev, host, abort, gpos>>
  BY DEF Scan, g2c
<1>1. C2g(0)
  BY DEF C2g
<1>2. TypeInv'
  BY DEF Scan, IInv, TypeInv, g2c, compute
<1>3. C2gInv' /\ BufferInv'
  BY <1>0 DEF IInv, C2gInv, CWorks, Wanted, BufferInv, Owned
<1>4. SameAnnounce /\ SameBring
  BY <1>0 DEF SameAnnounce, SameBring, ToAnnounce, ToBring
<1>5. PlaceInv' /\ CountInv'
  BY <1>0, <1>1, <1>4, PlaceKept, CountKept, C2gOthers
<1>6. DataInv'
  BY <1>0, <1>1, NotFreed, C2gData
<1> QED
  BY <1>2, <1>3, <1>5, <1>6
\* While c2g looks for a buffer, compute waits for the tile or is behind.
LEMMA SearchAhead ==
  ASSUME SIZE = 1, IInv, cpc[0] \in {"spare", "copy"}
  PROVE  /\ ~Found(cpos[0], cuse[0]) /\ ~Before(cpos[0], mpos[0]) /\ ~Before(cpos[0], gpos[0])
         /\ \A p \in Tasks : \A i \in 1 .. Len(Uses(p)) :
              Found(p, i) => ~ToAnnounce(p, i) /\ ~ToBring(p, i)
<1>0. /\ cpos[0] \in Tasks /\ cpos[0] \in Places /\ mpos[0] \in Places /\ gpos[0] \in Places
      /\ cuse[0] \in 1 .. Len(Uses(cpos[0])) /\ Wanted(0) = Uses(cpos[0])[cuse[0]]
  BY OneRank, WantedIs, TaskPlace DEF IInv, CWorks
<1>1. ToBring(cpos[0], cuse[0]) /\ ptr[Wanted(0)] = None
  BY DEF IInv, C2gInv, ToBring
<1>2. ~Found(cpos[0], cuse[0])
  BY <1>0, <1>1 DEF IInv, PlaceInv
<1>3. ~Before(cpos[0], mpos[0])
  BY <1>2 DEF Found
<1>4. ~Before(cpos[0], gpos[0])
  BY <1>0, <1>3, ReleasedFound
<1>5. ASSUME NEW p \in Tasks, NEW i \in 1 .. Len(Uses(p)), Found(p, i)
      PROVE  ~ToAnnounce(p, i) /\ ~ToBring(p, i)
  <2>0. p \in Places /\ Len(Uses(p)) \in Nat /\ i \in Nat /\ cuse[0] \in Nat /\ muse[0] \in Nat
    BY UsesFacts, TaskPlace, OneRank DEF IInv
  <2>1. ~Before(mpos[0], p)
    BY <1>0, <1>5, <2>0, Linear DEF Found
  <2>2. ~Before(cpos[0], p)
    BY <1>0, <1>3, <2>0, <2>1, Transitive
  <2>3. ASSUME p = cpos[0] PROVE i < cuse[0]
    <3>1. p = mpos[0] /\ mpc[0] \notin {"kernel", "fail", "abort", "step"} /\ i < muse[0]
      BY <1>2, <1>3, <1>5, <2>3 DEF Found
    <3>2. ~(cuse[0] < muse[0])
      BY <1>2, <2>3, <3>1 DEF Found
    <3> QED
      BY <2>0, <3>1, <3>2
  <2> QED
    BY <2>0, <2>2, <2>3 DEF ToAnnounce, ToBring
<1> QED
  BY <1>2, <1>3, <1>4, <1>5

\* A tile loses its buffer when no task that was announced will use it again,
\* and all its own tasks are behind.
LEMMA TakenBehind ==
  ASSUME SIZE = 1, IInv, TakeOver(0)
  PROVE  /\ cursor[0] \in Tiles /\ Before(LastTask(cursor[0]), gpos[0])
         /\ \A p \in Announced(cursor[0]) : Before(p, gpos[0])
<1> DEFINE t == cursor[0]
<1>0. /\ cpc[0] = "spare" /\ t \in Tiles /\ ptr[t] # None /\ count[t] = 0
      /\ cpos[0] \in Tasks /\ cuse[0] \in 1 .. Len(Uses(cpos[0]))
      /\ cpos[0] \in Places /\ mpos[0] \in Places /\ gpos[0] \in Places
  BY OneRank, WantedIs, TaskPlace DEF TakeOver, IInv, CWorks
<1>1. /\ ~Before(cpos[0], gpos[0])
  BY <1>0, SearchAhead
<1>2. \A q \in Tasks : Before(q, gpos[0]) => Before(q, cpos[0])
  BY <1>0, <1>1, TaskPlace, Transitive
<1>3. \A p \in Announced(t) : Before(p, gpos[0])
  <2> HIDE DEF t
  <2> QED
    BY <1>0, <1>2, CountZero
<1>4. Before(LastTask(t), gpos[0])
  <2> SUFFICES ASSUME ~Before(LastTask(t), gpos[0]) PROVE FALSE
    OBVIOUS
  <2>0. t \in Tiles
    BY <1>0
  <2> HIDE DEF t
  <2>1. Brought(t)
    BY <1>0, Unfound
  <2>2. FirstTask(t) \in Announced(t)
    <3>1. ~ToAnnounce(FirstTask(t), 1)
      BY <1>0, <2>1 DEF Brought, ToBring, ToAnnounce
    <3> QED
      BY <2>0, <3>1, FirstUse DEF Announced
  <2>3. Before(FirstTask(t), gpos[0])
    BY <1>3, <2>2
  <2>4. gpos[0] \in Tasks /\ TileOf(gpos[0]) = t
    BY <1>0, <2>0, <2>3, OfTile, Linear, TaskPlace
  <2>5. 1 \in 1 .. Len(Uses(gpos[0])) /\ Uses(gpos[0])[1] = t
    BY <2>4, UsesFacts
  <2>6. ~ToAnnounce(gpos[0], 1)
    <3>1. ~Before(cpos[0], gpos[0])
      BY <1>1
    <3>2. ~(1 > cuse[0])
      BY <1>0, UsesFacts
    <3> QED
      BY <1>0, <3>1, <3>2 DEF ToAnnounce
  <2>7. gpos[0] \in Announced(t)
    BY <2>4, <2>5, <2>6 DEF Announced
  <2> QED
    BY <1>0, <1>3, <2>7, Linear
<1> QED
  BY <1>0, <1>3, <1>4

\* Taking a buffer from a tile hurts no task.
LEMMA TakeOverStep ==
  ASSUME SIZE = 1, IInv, TakeOver(0)
  PROVE  TypeInv' /\ C2gInv' /\ BufferInv' /\ PlaceInv' /\ CountInv' /\ DataInv'
<1> DEFINE c == cursor[0]
<1>0. /\ cpc[0] = "spare" /\ cpc'[0] = "copy" /\ c \in Tiles /\ ptr[c] # None
      /\ UNCHANGED <<cpos, cuse, mine, count, dev, host, abort, gpos>>
      /\ spare'[0] = ptr[c] /\ ptr' = [ptr EXCEPT ![c] = None]
      /\ cpc' \in [Ranks -> CWorks \cup {"top", "cleanup", "done"}]
      /\ spare' \in [Ranks -> Buffers \cup {None}]
      /\ ptr' \in [Tiles -> Buffers \cup {None}]
  BY DEF TakeOver, CGoto, IInv, TypeInv, CWorks, Ranks, g2c, compute
<1>1. C2g(0)
  BY DEF C2g
<1> HIDE DEF c
<1>2. \A t \in Tiles : ptr'[t] = (IF t = c THEN None ELSE ptr[t])
  BY <1>0 DEF IInv, TypeInv
<1>3. TypeInv'
  BY <1>0 DEF TakeOver, IInv, TypeInv, g2c, compute
<1>4. C2gInv'
  <2>1. Wanted(0)' = Wanted(0) /\ Wanted(0) \in Tiles
    BY <1>0, WantedIs DEF Wanted, CWorks
  <2>2. ptr'[Wanted(0)] = None
    BY <1>0, <1>2, <2>1 DEF IInv, C2gInv
  <2> QED
    BY <1>0, <2>1, <2>2 DEF IInv, C2gInv, CWorks
<1>5. BufferInv'
  BY <1>0, <1>2 DEF IInv, BufferInv, Owned
<1>6. SameAnnounce /\ SameBring
  BY <1>0 DEF SameAnnounce, SameBring, ToAnnounce, ToBring
<1>7. CountInv'
  BY <1>0, <1>6, CountKept
<1>8. PlaceInv'
  <2>0. SameFound
    BY <1>1, C2gOthers
  <2>1. ASSUME NEW t \in Tiles
        PROVE  /\ ~Brought(t)' => ptr'[t] = None
               /\ Brought(t)' /\ ptr'[t] = None => Before(LastTask(t), gpos'[0])
    <3>1. Brought(t)' <=> Brought(t)
      BY <1>6, FirstUse DEF SameBring, Brought
    <3>2. t = c => Before(LastTask(t), gpos[0])
      BY TakenBehind DEF c
    <3> QED
      BY <1>0, <1>2, <3>1, <3>2 DEF IInv, PlaceInv
  <2>2. ASSUME NEW p \in Tasks, NEW i \in 1 .. Len(Uses(p)),
               Found(p, i)', ToBring(p, i)' \/ ~Before(p, gpos'[0])
        PROVE  ptr'[Uses(p)[i]] # None
    <3>1. Found(p, i) /\ (ToBring(p, i) \/ ~Before(p, gpos[0]))
      BY <1>0, <1>6, <2>0, <2>2 DEF SameFound, SameBring
    <3>2. ptr[Uses(p)[i]] # None
      BY <3>1 DEF IInv, PlaceInv
    <3>3. ~ToAnnounce(p, i) /\ ~ToBring(p, i)
      BY <1>0, <3>1, SearchAhead
    <3>4. Uses(p)[i] # c
      <4> SUFFICES ASSUME Uses(p)[i] = c PROVE FALSE
        OBVIOUS
      <4>1. p \in Announced(c)
        BY <3>3 DEF Announced
      <4>2. Before(p, gpos[0])
        BY <4>1, TakenBehind DEF c
      <4> QED
        BY <3>1, <3>3, <4>2
    <3> QED
      BY <1>2, <3>2, <3>4, UsesFacts
  <2> QED
    BY <2>1, <2>2 DEF PlaceInv
<1>9. DataInv'
  BY <1>0, <1>1, <1>2, NotFreed, C2gData
<1> QED
  BY <1>3, <1>4, <1>5, <1>7, <1>8, <1>9
\* What is brought from the host is the newest version of the tile.
LEMMA BringStep ==
  ASSUME SIZE = 1, IInv, Bring(0)
  PROVE  TypeInv' /\ C2gInv' /\ BufferInv' /\ PlaceInv' /\ CountInv' /\ DataInv'
<1> DEFINE w == Uses(cpos[0])[cuse[0]]
           b == spare[0]
<1>0. /\ cpc[0] = "copy" /\ cpc'[0] = "advance"
      /\ UNCHANGED <<cpos, cuse, mine, spare, count, host, abort, gpos>>
      /\ dev' = [dev EXCEPT ![b] = [t |-> w, v |-> host[w]]]
      /\ ptr' = [ptr EXCEPT ![w] = b]
      /\ cpc' \in [Ranks -> CWorks \cup {"top", "cleanup", "done"}]
  BY DEF Bring, CGoto, IInv, TypeInv, CWorks, Ranks, g2c, compute, Wanted
<1>1. C2g(0)
  BY DEF C2g
<1>2. /\ cpos[0] \in Tasks /\ cuse[0] \in 1 .. Len(Uses(cpos[0])) /\ w \in Tiles
      /\ Wanted(0) = w
      /\ cuse[0] = 1 /\ cpos[0].n = 0 => cpos[0] = FirstTask(w)
  BY <1>0, WantedIs DEF CWorks
<1>3. b \in Buffers /\ b # None /\ ptr[w] = None /\ (cuse[0] = 1 => cpos[0].n = 0)
  <2>1. Owned(b) /\ ptr[w] = None /\ (cuse[0] = 1 => cpos[0].n = 0)
    BY <1>0, <1>2 DEF IInv, BufferInv, C2gInv
  <2>2. b \in Buffers
    BY <2>1 DEF Owned
  <2>3. b # None
    <3>1. b[1] \in Ranks
      BY <2>2 DEF Buffers
    <3> QED
      BY <3>1, OneRank DEF IInv, None
  <2> QED
    BY <2>1, <2>2, <2>3
<1>w. w = Uses(cpos[0])[cuse[0]]
  OBVIOUS
<1> HIDE DEF w, b
<1>4. \A t \in Tiles : ptr'[t] = (IF t = w THEN b ELSE ptr[t])
  BY <1>0 DEF IInv, TypeInv
<1>5. \A d \in Buffers : dev'[d] = (IF d = b THEN [t |-> w, v |-> host[w]] ELSE dev[d])
  BY <1>0 DEF IInv, TypeInv
<1>6. TypeInv'
  <2>1. ptr' \in [Tiles -> Buffers \cup {None}]
    BY <1>0, <1>2, <1>3 DEF IInv, TypeInv
  <2>2. [t |-> w, v |-> host[w]] \in [t : Int \X Int, v : Int]
    <3>1. host[w] \in Int
      BY <1>2 DEF IInv, TypeInv
    <3>2. w \in Int \X Int
      BY <1>2, TileFields
    <3> QED
      BY <3>1, <3>2
  <2>3. dev' \in [Buffers -> [t : Int \X Int, v : Int]]
    BY <1>0, <1>3, <2>2 DEF IInv, TypeInv
  <2> QED
    BY <1>0, <2>1, <2>3 DEF Bring, IInv, TypeInv, g2c, compute
<1>7. C2gInv'
  BY <1>0, <1>2 DEF C2gInv, CWorks
<1>8. BufferInv'
  <2>1. \A t \in Tiles : ptr[t] # b
    BY <1>0 DEF IInv, BufferInv, b
  <2>2. Owned(b)
    BY <1>0 DEF IInv, BufferInv, b
  <2> QED
    BY <1>0, <1>3, <1>4, <2>1, <2>2 DEF IInv, BufferInv, Owned
<1>9. ASSUME NEW p \in Tasks, NEW i \in 1 .. Len(Uses(p))
      PROVE  /\ ToBring(p, i)' <=> ToBring(p, i) /\ ~(p = cpos[0] /\ i = cuse[0])
             /\ ToAnnounce(p, i)' <=> ToAnnounce(p, i)
  <2>1. cuse[0] \in Nat /\ i \in Nat /\ ~Before(cpos[0], cpos[0])
    BY <1>2, TaskPlace, Linear, UsesFacts
  <2> QED
    BY <1>0, <2>1 DEF ToBring, ToAnnounce
<1>10. ASSUME NEW t \in Tiles, t = w PROVE Brought(t)'
  <2>1. CASE cuse[0] = 1
    BY <1>2, <1>3, <1>9, <1>10, <2>1, FirstUse DEF Brought
  <2>2. CASE cuse[0] # 1
    <3>1. cuse[0] \in 2 .. Len(Uses(cpos[0]))
      BY <1>2, <2>2, UsesFacts
    <3>2. Before(LastTask(w), FirstTask(TileOf(cpos[0])))
      BY <1>2, <1>w, <3>1, UsesFacts
    <3>3. ~Before(cpos[0], FirstTask(TileOf(cpos[0]))) /\ TileOf(cpos[0]) \in Tiles
      BY <1>2, UsesFacts, OfTile
    <3>4. ~Before(cpos[0], FirstTask(w)) /\ cpos[0] # FirstTask(w)
      <4>1. /\ FirstTask(w) \in Places /\ LastTask(w) \in Places /\ cpos[0] \in Places
            /\ FirstTask(TileOf(cpos[0])) \in Places /\ ~Before(LastTask(w), FirstTask(w))
        BY <1>2, <3>3, OfTile, TaskPlace
      <4>2. Before(LastTask(w), cpos[0])
        BY <3>2, <3>3, <4>1, Transitive
      <4>3. Before(FirstTask(w), cpos[0])
        BY <4>1, <4>2, Transitive
      <4> QED
        BY <4>1, <4>3, Linear
    <3>5. ~ToBring(FirstTask(w), 1)
      BY <3>4 DEF ToBring
    <3> QED
      BY <1>2, <1>9, <1>10, <3>5, FirstUse DEF Brought
  <2> QED
    BY <2>1, <2>2
<1>11. PlaceInv'
  <2>0. SameFound
    BY <1>1, C2gOthers
  <2>1. ASSUME NEW t \in Tiles
        PROVE  /\ ~Brought(t)' => ptr'[t] = None
               /\ Brought(t)' /\ ptr'[t] = None => Before(LastTask(t), gpos'[0])
    <3>1. CASE t = w
      BY <1>2, <1>3, <1>4, <1>10, <3>1
    <3>2. CASE t # w
      <4>1. Brought(t)' <=> Brought(t)
        <5>1. ~(FirstTask(t) = cpos[0] /\ cuse[0] = 1)
          BY <1>2, <1>3, <3>2, OfTile
        <5> QED
          BY <1>9, <5>1, FirstUse DEF Brought
      <4> QED
        BY <1>0, <1>4, <3>2, <4>1 DEF IInv, PlaceInv
    <3> QED
      BY <3>1, <3>2
  <2>2. ASSUME NEW p \in Tasks, NEW i \in 1 .. Len(Uses(p)),
               Found(p, i)', ToBring(p, i)' \/ ~Before(p, gpos'[0])
        PROVE  ptr'[Uses(p)[i]] # None
    <3>1. Found(p, i) /\ (ToBring(p, i) \/ ~Before(p, gpos[0]))
      BY <1>0, <1>9, <2>0, <2>2 DEF SameFound
    <3>2. ptr[Uses(p)[i]] # None
      BY <3>1 DEF IInv, PlaceInv
    <3> QED
      BY <1>3, <1>4, <3>2, UsesFacts
  <2> QED
    BY <2>1, <2>2 DEF PlaceInv
<1>12. CountInv'
  BY <1>0, <1>9, CountKept DEF SameAnnounce
<1>13. host[w] = Val(w)
  <2>1. CASE cuse[0] = 1
    <3>1. ~Found(FirstTask(w), 1)
      BY <1>0, <1>2, <1>3, <2>1, SearchAhead
    <3> QED
      BY <1>2, <3>1, Untouched
  <2>2. CASE cuse[0] # 1
    <3>1. Brought(w)
      <4>1. ~(FirstTask(w) = cpos[0] /\ 1 = cuse[0])
        BY <2>2
      <4> QED
        <5>1. \A t \in Tiles : t = w => Brought(t)
          BY <1>9, <1>10, <4>1, FirstUse DEF Brought
        <5> QED
          BY <1>2, <5>1
    <3>2. Returned(w)
      BY <1>2, <1>3, <3>1 DEF IInv, PlaceInv, Returned
    <3> QED
      BY <1>2, <3>2 DEF IInv, DataInv
  <2> QED
    BY <2>1, <2>2
<1>14. DataInv'
  <2>1. ASSUME NEW t \in Tiles, ptr'[t] # None
        PROVE  dev'[ptr'[t]] = [t |-> t, v |-> Val(t)]
    <3>1. CASE t = w
      BY <1>3, <1>4, <1>5, <1>13, <3>1
    <3>2. CASE t # w
      <4>1. ptr'[t] = ptr[t] /\ ptr[t] # None /\ ptr[t] # b
        BY <1>0, <1>4, <2>1, <3>2 DEF IInv, BufferInv, b
      <4>2. ptr[t] \in Buffers
        BY <4>1 DEF IInv, BufferInv, Owned
      <4>3. dev[ptr[t]] = [t |-> t, v |-> Val(t)]
        BY <1>0, <4>1, NotFreed
      <4> QED
        BY <1>5, <4>1, <4>2, <4>3
    <3> QED
      BY <3>1, <3>2
  <2> QED
    BY <1>1, <2>1, C2gData
<1> QED
  BY <1>6, <1>7, <1>8, <1>11, <1>12, <1>14

\* Going on to the next tile, or the next task, changes no view.
LEMMA AdvanceStep ==
  ASSUME SIZE = 1, IInv, Advance(0)
  PROVE  TypeInv' /\ C2gInv' /\ BufferInv' /\ PlaceInv' /\ CountInv' /\ DataInv'
<1> DEFINE more == cuse[0] < Len(Uses(cpos[0]))
<1>0. /\ cpc[0] = "advance"
      /\ UNCHANGED <<mine, spare, ptr, count, dev, host, abort, gpos>>
      /\ more => cuse'[0] = cuse[0] + 1 /\ cpc'[0] = "announce" /\ cpos'[0] = cpos[0]
      /\ ~more => cuse'[0] = 1 /\ cpc'[0] = "top" /\ cpos'[0] = NextOf(cpos[0])
      /\ cpc' \in [Ranks -> CWorks \cup {"top", "cleanup", "done"}]
      /\ cuse' \in [Ranks -> Nat]
      /\ cpos' = cpos \/ cpos' = [cpos EXCEPT ![0] = NextOf(cpos[0])]
  BY DEF Advance, CGoto, IInv, TypeInv, CWorks, Ranks, g2c, compute
<1>1. C2g(0)
  BY DEF C2g
<1>2. /\ cpos[0] \in Tasks /\ cuse[0] \in 1 .. Len(Uses(cpos[0]))
      /\ Len(Uses(cpos[0])) \in 1 .. 3 /\ cpos[0] \in Places /\ NextOf(cpos[0]) \in Places
  BY <1>0, WantedIs, UsesFacts, NextPlace, TaskPlace DEF CWorks
<1> HIDE DEF more
<1>3. TypeInv'
  <2>1. cpos' \in [Ranks -> Places]
    BY <1>0, <1>2 DEF IInv, TypeInv
  <2> QED
    BY <1>0, <2>1 DEF Advance, IInv, TypeInv, g2c, compute
<1>4. C2gInv'
  BY <1>0, <1>2 DEF C2gInv, CWorks, more
<1>5. BufferInv'
  BY <1>0 DEF IInv, BufferInv, Owned
<1>6. ASSUME NEW p \in Tasks, NEW i \in 1 .. Len(Uses(p))
      PROVE  /\ ToBring(p, i)' <=> ToBring(p, i)
             /\ ToAnnounce(p, i)' <=> ToAnnounce(p, i)
  <2>1. /\ p \in Places /\ i \in Nat /\ i >= 1
        /\ p = cpos[0] => i =< Len(Uses(cpos[0]))
    BY TaskPlace, UsesFacts
  <2>2. CASE more
    BY <1>0, <1>2, <2>1, <2>2 DEF ToBring, ToAnnounce
  <2>3. CASE ~more
    <3>1. cuse[0] = Len(Uses(cpos[0])) /\ ~(p = cpos[0] /\ i > cuse[0])
      BY <1>2, <2>1, <2>3 DEF more
    <3>2. Before(cpos[0], p) <=> Before(NextOf(cpos[0]), p) \/ p = NextOf(cpos[0])
      <4>1. Before(p, NextOf(cpos[0])) <=> Before(p, cpos[0]) \/ p = cpos[0]
        BY <1>2, <2>1, NextFollows
      <4> QED
        BY <1>2, <2>1, <4>1, Linear
    <3> QED
      BY <1>0, <2>1, <2>3, <3>1, <3>2 DEF ToBring, ToAnnounce
  <2> QED
    BY <2>2, <2>3
<1>7. PlaceInv' /\ CountInv'
  BY <1>0, <1>1, <1>6, PlaceKept, CountKept, C2gOthers DEF SameAnnounce, SameBring
<1>8. DataInv'
  BY <1>0, <1>1, NotFreed, C2gData
<1> QED
  BY <1>3, <1>4, <1>5, <1>7, <1>8
\* Where the threads are when the call was aborted: the panel that failed was
\* found, and compute has not gone on.
LEMMA AfterAbort ==
  ASSUME SIZE = 1, IInv, status # 0
  PROVE  LET T == <<status - 1, status - 1>> IN
         /\ T \in Tiles /\ Found(FirstTask(T), 1) /\ Val(T) = Garbage
         /\ \A t \in Tiles : t # T =>
              IF Before(LastTask(t), mpos[0])
              THEN Val(t) = t[2] + 1 /\ Before(LastTask(t), FirstTask(T)) ELSE Val(t) = 0
<1> DEFINE T == <<status - 1, status - 1>>
           f == LastTask(T)
<1>0. /\ status - 1 \in Index
      /\ \/ mpos[0] = f /\ mpc[0] = "abort" /\ ~abort
         \/ mpos[0] = f /\ mpc[0] = "step" /\ abort
         \/ mpos[0] = NextOf(f) /\ mpc[0] \in {"top", "leave", "done"} /\ abort
      /\ mpos[0] \in Places
  BY OneRank DEF IInv, FailInv
<1>1. T \in Tiles
  <2>1. status - 1 \in Nat /\ status - 1 < NT
    BY <1>0, NTAssumption DEF Index
  <2> QED
    BY <2>1, TileIn
<1>2. Val(T) = Garbage
  BY DEF Val, Broken
<1>t. T = <<status - 1, status - 1>>
  OBVIOUS
<1> HIDE DEF T
<1>3. /\ f \in Tasks /\ TileOf(f) = T /\ f \in Places /\ FirstTask(T) \in Places
      /\ FirstTask(T) \in Tasks /\ ~Before(f, FirstTask(T)) /\ f.n = f.k /\ f.n = T[2]
  BY <1>1, OfTile, TaskPlace DEF LastTask
<1>4. NextOf(f) \in Places /\ (\A q \in Places : Before(q, NextOf(f)) <=> Before(q, f) \/ q = f)
  BY <1>3, NextPlace, NextFollows
<1>5. Found(FirstTask(T), 1)
  <2>1. CASE FirstTask(T) = f
    BY <1>0, <1>3, <1>4, <2>1 DEF Found
  <2>2. CASE FirstTask(T) # f
    <3>1. Before(FirstTask(T), f)
      BY <1>3, <2>2, Linear
    <3> QED
      BY <1>0, <1>3, <1>4, <3>1 DEF Found
  <2> QED
    BY <2>1, <2>2
<1>6. ASSUME NEW t \in Tiles, t # T
      PROVE  IF Before(LastTask(t), mpos[0])
             THEN Val(t) = t[2] + 1 /\ Before(LastTask(t), FirstTask(T)) ELSE Val(t) = 0
  <2>0. LastTask(t) \in Tasks /\ LastTask(t) \in Places /\ TileOf(LastTask(t)) = t
    BY OfTile, TaskPlace
  <2>1. CASE Before(LastTask(t), mpos[0])
    <3>1. Val(t) = t[2] + 1
      BY <1>t, <1>6, <2>1, TileFinished
    <3>2. Before(LastTask(t), f)
      <4>1. LastTask(t) # f
        BY <1>3, <1>6, <2>0
      <4> QED
        BY <1>0, <1>4, <2>0, <2>1, <4>1
    <3>3. Before(LastTask(t), FirstTask(T))
      BY <1>1, <1>6, <2>0, <3>2, TilesApart
    <3> QED
      BY <2>1, <3>1, <3>3
  <2>2. CASE ~Before(LastTask(t), mpos[0])
    <3>1. ~Broken(t)
      BY <1>0, <1>t, <1>6 DEF Broken
    <3>2. ASSUME mpos[0] # End, t = TileOf(mpos[0])
          PROVE  mpos[0].n = 0 /\ mpc[0] \notin {"fail", "abort", "step"}
      <4>1. mpos[0] = NextOf(f) /\ mpc[0] \in {"top", "leave", "done"}
        BY <1>0, <1>3, <1>6, <3>2
      <4>2. \/ NextOf(f) = [k |-> f.k, m |-> f.m + 1, n |-> 0]
            \/ NextOf(f) = [k |-> f.k + 1, m |-> f.k + 1, n |-> 0]
        <5>1. /\ f.m + 1 < NT \/ f.m + 1 = NT
              /\ f.m = f.k
          <6>1. f.m \in Nat /\ f.m < NT /\ NT \in Nat
            BY <1>3, PlaceFields, NTAssumption
          <6>2. f.m = f.k
            BY <1>t DEF LastTask
          <6> QED
            BY <6>1, <6>2
        <5> HIDE DEF f
        <5> QED
          BY <1>3, <5>1, NextIs
      <4> QED
        BY <4>1, <4>2
    <3>3. Val(t) = 0
      BY <2>2, <3>1, <3>2 DEF Val
    <3> QED
      BY <2>2, <3>3
  <2> QED
    BY <2>1, <2>2
<1> QED
  BY <1>1, <1>2, <1>5, <1>6, <1>t

\* A buffer that the cleanup frees holds nothing that is still needed.
LEMMA FreedInTime ==
  ASSUME SIZE = 1, IInv, cpc[0] = "cleanup", NEW t \in Tiles, ptr[t] # None,
         count[t] = 0
  PROVE  \/ abort /\ (host[t] = Val(t) \/ Val(t) = Garbage)
         \/ \A p \in Tasks : UsedBy(t, p) => Before(p, gpos[0])
<1>0. /\ cuse[0] = 1 /\ cpos[0] \in Places /\ mpos[0] \in Places /\ gpos[0] \in Places
      /\ cpos[0] = End \/ abort
      /\ ~Before(mpos[0], gpos[0])
  BY OneRank DEF IInv, C2gInv, CWorks, G2cInv
<1>1. CASE cpos[0] = End
  <2>1. \A q \in Tasks : Before(q, cpos[0])
    BY <1>1, TaskPlace, Linear
  <2>2. ASSUME NEW p \in Tasks, UsedBy(t, p) PROVE p \in Announced(t)
    <3>1. PICK i \in 1 .. Len(Uses(p)) : Uses(p)[i] = t
      BY <2>2 DEF UsedBy
    <3>2. ~ToAnnounce(p, i)
      BY <1>0, <1>1, <2>1, TaskPlace, Linear DEF ToAnnounce
    <3> QED
      BY <3>1, <3>2 DEF Announced
  <2> QED
    BY <2>1, <2>2, CountZero
<1>2. CASE abort
  <2> DEFINE T == <<status - 1, status - 1>>
  <2>1. status # 0
    BY <1>2 DEF IInv, FailInv
  <2>2. /\ T \in Tiles /\ Found(FirstTask(T), 1) /\ Val(T) = Garbage
        /\ \A u \in Tiles : u # T =>
              IF Before(LastTask(u), mpos[0])
              THEN Val(u) = u[2] + 1 /\ Before(LastTask(u), FirstTask(T)) ELSE Val(u) = 0
    BY <2>1, AfterAbort
  <2> HIDE DEF T
  <2>3. CASE t = T
    BY <1>2, <2>2, <2>3
  <2>4. CASE t # T /\ ~Before(LastTask(t), mpos[0])
    <3>1. Val(t) = 0
      BY <2>2, <2>4
    <3> QED
      BY <1>2, <3>1 DEF IInv, DataInv
  <2>5. CASE t # T /\ Before(LastTask(t), mpos[0]) /\ Returned(t)
    BY <1>2, <2>5 DEF IInv, DataInv
  <2>6. CASE t # T /\ Before(LastTask(t), mpos[0]) /\ ~Returned(t)
    <3>0. /\ LastTask(t) \in Tasks /\ LastTask(t) \in Places
          /\ FirstTask(T) \in Places /\ FirstTask(T) \in Tasks
      BY <2>2, OfTile, TaskPlace
    <3>1. Before(LastTask(t), FirstTask(T))
      BY <2>2, <2>6
    <3>2. Brought(T)
      BY <2>2, Unfound
    <3>3. ~Before(cpos[0], FirstTask(T))
      BY <3>2 DEF Brought, ToBring
    <3>4. Before(LastTask(t), cpos[0])
      BY <1>0, <3>0, <3>1, <3>3, Transitive
    <3>5. ~Before(LastTask(t), gpos[0])
      BY <2>6 DEF Returned
    <3>6. \A q \in Tasks : Before(q, gpos[0]) => Before(q, cpos[0])
      BY <1>0, <3>0, <3>4, <3>5, TaskPlace, Transitive
    <3>7. LastTask(t) \in Announced(t)
      <4>1. ~ToAnnounce(LastTask(t), 1)
        BY <1>0, <3>0, <3>4, Linear DEF ToAnnounce
      <4>2. 1 \in 1 .. Len(Uses(LastTask(t))) /\ Uses(LastTask(t))[1] = t
        BY <3>0, UsesFacts, OfTile
      <4> QED
        BY <3>0, <4>1, <4>2 DEF Announced
    <3> QED
      BY <3>5, <3>6, <3>7, CountZero
  <2> QED
    BY <2>3, <2>4, <2>5, <2>6
<1> QED
  BY <1>0, <1>1, <1>2

\* The cleanup frees only what is not needed any more.
LEMMA CleanupStep ==
  ASSUME SIZE = 1, IInv, Cleanup(0)
  PROVE  TypeInv' /\ C2gInv' /\ BufferInv' /\ PlaceInv' /\ CountInv' /\ DataInv'
<1> DEFINE c == cursor[0]
<1>0. /\ cpc[0] = "cleanup" /\ cpc'[0] \in {"cleanup", "done"}
      /\ UNCHANGED <<cpos, cuse, mine, spare, ptr, count, host, abort, gpos>>
      /\ cpc' \in [Ranks -> CWorks \cup {"top", "cleanup", "done"}]
      /\ \/ UNCHANGED dev
         \/ /\ c \in Tiles /\ ptr[c] # None /\ count[c] = 0
            /\ dev' = [dev EXCEPT ![ptr[c]] = Empty] /\ cpc'[0] = "cleanup"
  BY DEF Cleanup, CGoto, IInv, TypeInv, CWorks, Ranks, g2c, compute
<1>1. C2g(0)
  BY DEF C2g
<1> HIDE DEF c
<1>2. TypeInv'
  <2>1. Empty \in [t : Int \X Int, v : Int]
    BY DEF Empty, Garbage
  <2>2. dev' \in [Buffers -> [t : Int \X Int, v : Int]]
    BY <1>0, <2>1 DEF IInv, TypeInv
  <2> QED
    BY <1>0, <2>2 DEF Cleanup, IInv, TypeInv, g2c, compute
<1>3. C2gInv'
  BY <1>0 DEF IInv, C2gInv, CWorks
<1>4. BufferInv'
  BY <1>0 DEF IInv, BufferInv, Owned
<1>5. SameAnnounce /\ SameBring
  BY <1>0 DEF SameAnnounce, SameBring, ToAnnounce, ToBring
<1>6. PlaceInv' /\ CountInv'
  BY <1>0, <1>1, <1>5, PlaceKept, CountKept, C2gOthers
<1>7. SameVal
  BY <1>1, C2gOthers
<1>8. DataInv'
  <2> SUFFICES ASSUME NEW t \in Tiles, ptr'[t] # None
               PROVE  dev'[ptr'[t]] = [t |-> t, v |-> Val(t)] \/ Freed(t)'
    BY <1>1, C2gData
  <2>0. ptr[t] # None /\ ptr[t] \in Buffers /\ Val(t)' = Val(t)
    BY <1>0, <1>7 DEF IInv, BufferInv, Owned, SameVal
  <2>1. CASE dev'[ptr[t]] = dev[ptr[t]]
    <3>1. Freed(t) => Freed(t)'
      BY <1>0, <2>0, <2>1 DEF Freed
    <3> QED
      BY <1>0, <2>0, <2>1, <3>1 DEF IInv, DataInv
  <2>2. CASE dev'[ptr[t]] # dev[ptr[t]]
    <3>1. c \in Tiles /\ ptr[c] # None /\ count[c] = 0 /\ dev' = [dev EXCEPT ![ptr[c]] = Empty]
      BY <1>0, <2>2
    <3>2. ptr[t] = ptr[c] /\ dev'[ptr[t]] = Empty
      BY <2>0, <2>2, <3>1 DEF IInv, TypeInv
    <3>3. t = c
      BY <2>0, <3>1, <3>2 DEF IInv, BufferInv
    <3>4. \/ abort /\ (host[t] = Val(t) \/ Val(t) = Garbage)
          \/ \A p \in Tasks : UsedBy(t, p) => Before(p, gpos[0])
      BY <1>0, <3>1, <3>3, FreedInTime
    <3> QED
      BY <1>0, <2>0, <3>2, <3>4 DEF Freed
  <2> QED
    BY <2>1, <2>2
<1> QED
  BY <1>2, <1>3, <1>4, <1>6, <1>8

\* Every step of c2g keeps the invariant.
LEMMA C2gStep ==
  ASSUME SIZE = 1, IInv, C2g(0)
  PROVE  IInv'
<1>1. ComputeInv' /\ FailInv' /\ G2cInv'
  BY C2gOthers
<1>2. TypeInv' /\ C2gInv' /\ BufferInv' /\ PlaceInv' /\ CountInv' /\ DataInv'
  BY CTopStep, AnnounceStep, AllocateStep, ScanStep, TakeOverStep, BringStep,
     AdvanceStep, CleanupStep DEF C2g
<1> QED
  BY <1>1, <1>2 DEF IInv
-----------------------------------------------------------------------------
(* The steps of the compute thread                                         *)

\* A step of compute leaves the other two threads alone.
LEMMA ComputeOthers ==
  ASSUME IInv, Compute(0)
  PROVE  /\ C2gInv' /\ BufferInv' /\ CountInv' /\ SameBring
         /\ UNCHANGED <<ptr, host, cpc, gpos, gpc, gstep>>
         /\ abort => abort'
<1>1. UNCHANGED <<c2g, g2c, ptr, count, host>> /\ (abort' = abort \/ abort')
  BY DEF Compute, MTop, MWait, Kernel, RequestFail, SsAbort, Step, Leave
<1>2. UNCHANGED <<ptr, host, cpc, gpos, gpc, gstep, count>>
  BY <1>1 DEF c2g, g2c
<1> QED
  BY <1>1, <1>2, C2gKept, CountKept

\* A tile that compute finds is on the device.
LEMMA ComputePlace ==
  ASSUME IInv, Compute(0),
         \A p \in Tasks : \A i \in 1 .. Len(Uses(p)) :
           Found(p, i)' => Found(p, i) \/ ptr[Uses(p)[i]] # None
  PROVE  PlaceInv'
<1>1. SameBring /\ UNCHANGED <<ptr, gpos>>
  BY ComputeOthers
<1>2. \A t \in Tiles : Brought(t)' <=> Brought(t)
  BY <1>1, FirstUse DEF SameBring, Brought
<1> QED
  BY <1>1, <1>2 DEF IInv, PlaceInv, SameBring

\* Without a kernel the data stay as they are.
LEMMA ComputeData ==
  ASSUME IInv, Compute(0), SameVal, UNCHANGED dev
  PROVE  DataInv'
<1>1. UNCHANGED <<ptr, host, cpc, gpos, gpc>> /\ (abort => abort')
  BY ComputeOthers
<1>2. ASSUME NEW t \in Tiles
      PROVE  Val(t)' = Val(t) /\ (Returned(t)' <=> Returned(t)) /\ (Freed(t) => Freed(t)')
  <2>1. Val(t)' = Val(t)
    BY DEF SameVal
  <2> QED
    BY <1>1, <2>1 DEF Returned, Freed
<1> QED
  BY <1>1, <1>2 DEF IInv, DataInv

\* A step of compute keeps the types.
LEMMA ComputeTypes ==
  ASSUME SIZE = 1, IInv, Compute(0)
  PROVE  TypeInv'
<1>0. Ranks = {0} /\ mpos[0] \in Places
  BY OneRank DEF IInv
<1>1. mpc' \in [Ranks -> MWorks \cup {"top", "leave", "done"}]
  BY <1>0 DEF Compute, MTop, MWait, Kernel, RequestFail, SsAbort, Step, Leave, MGoto, IInv,
     TypeInv, MWorks
<1>2. muse' \in [Ranks -> Nat] /\ step' \in [Ranks -> Int]
  BY <1>0 DEF Compute, MTop, MWait, Kernel, RequestFail, SsAbort, Step, Leave, IInv, TypeInv
<1>3. mpos' \in [Ranks -> Places]
  <2>1. CASE Step(0)
    <3>1. mpos[0] \in Tasks
      BY <2>1 DEF Step, IInv, ComputeInv, MWorks
    <3>2. NextOf(mpos[0]) \in Places
      BY <3>1, NextPlace
    <3> QED
      BY <2>1, <3>2 DEF Step, IInv, TypeInv
  <2>2. CASE UNCHANGED mpos
    BY <2>2 DEF IInv, TypeInv
  <2> QED
    BY <2>1, <2>2 DEF Compute, MTop, MWait, Kernel, RequestFail, SsAbort, Leave
<1>4. status' \in Nat /\ abort' \in BOOLEAN
  <2>1. mpos[0].k \in Nat
    BY <1>0, PlaceFields
  <2>2. /\ status' = status \/ status' = mpos[0].k + 1
        /\ abort' = abort \/ abort' = TRUE
    BY DEF Compute, MTop, MWait, Kernel, RequestFail, SsAbort, Step, Leave
  <2>3. status \in Nat /\ abort \in BOOLEAN
    BY DEF IInv, TypeInv
  <2>4. status' \in Nat
    BY <2>1, <2>2, <2>3
  <2>5. abort' \in BOOLEAN
    <3>1. CASE abort' = abort
      BY <2>3, <3>1, Zenon
    <3>2. CASE abort' = TRUE
      BY <3>2, Zenon
    <3> QED
      BY <2>2, <3>1, <3>2
  <2> QED
    BY <2>4, <2>5
<1>5. dev' \in [Buffers -> [t : Int \X Int, v : Int]]
  <2>1. CASE Kernel(0)
    <3>0. mpos[0] \in Tasks /\ TileOf(mpos[0]) \in Int \X Int /\ mpos[0].n + 1 \in Int
      <4>1. mpos[0] \in Tasks
        BY <2>1 DEF Kernel, IInv, ComputeInv, MWorks
      <4> QED
        BY <4>1, PlaceFields, TaskPlace DEF TileOf
    <3>1. PICK x \in Int :
            dev' = [b \in Buffers |-> IF b # ptr[TileOf(mpos[0])] THEN dev[b]
                                      ELSE [t |-> TileOf(mpos[0]), v |-> x]]
      <4>1. PICK broke \in BOOLEAN :
              dev' = [b \in Buffers |->
                IF b # ptr[TileOf(mpos[0])] THEN dev[b]
                ELSE [t |-> TileOf(mpos[0]),
                      v |-> IF InputsGood(0) /\ ~broke THEN mpos[0].n + 1 ELSE Garbage]]
        BY <2>1 DEF Kernel
      <4>2. (IF InputsGood(0) /\ ~broke THEN mpos[0].n + 1 ELSE Garbage) \in Int
        BY <3>0 DEF Garbage
      <4> QED
        BY <4>1, <4>2
    <3> QED
      BY <3>0, <3>1 DEF IInv, TypeInv
  <2>2. CASE UNCHANGED dev
    BY <2>2 DEF IInv, TypeInv
  <2> QED
    BY <2>1, <2>2 DEF Compute, MTop, MWait, RequestFail, SsAbort, Step, Leave
<1>6. UNCHANGED <<c2g, g2c, ptr, count, host>>
  BY DEF Compute, MTop, MWait, Kernel, RequestFail, SsAbort, Step, Leave
<1> QED
  BY <1>1, <1>2, <1>3, <1>4, <1>5, <1>6 DEF IInv, TypeInv, c2g, g2c

\* The walk goes on only as long as no panel has failed.
LEMMA Working ==
  ASSUME IInv, mpc[0] \in {"wait", "kernel", "fail"}
  PROVE  status = 0 /\ ~abort
BY DEF IInv, FailInv

\* compute begins the next task, or leaves the walk.
LEMMA MTopStep ==
  ASSUME SIZE = 1, IInv, MTop(0)
  PROVE  PlaceInv' /\ ComputeInv' /\ FailInv' /\ G2cInv' /\ DataInv' /\ SameVal
<1>0. /\ mpc[0] = "top" /\ UNCHANGED <<mpos, muse, step, dev, abort, status, gpos, gpc, gstep>>
      /\ mpc'[0] = "wait" \/ mpc'[0] = "leave"
      /\ mpc'[0] = "wait" => InTriangle(mpos[0]) /\ ~abort
      /\ mpc'[0] = "leave" => ~InTriangle(mpos[0]) \/ abort
      /\ mpos[0] \in Places
  BY OneRank DEF MTop, MGoto, IInv, TypeInv, MWorks, g2c
<1>1. Compute(0)
  BY DEF Compute
<1>2. InTriangle(mpos[0]) => mpos[0] \in Tasks /\ 1 \in 1 .. Len(Uses(mpos[0]))
  BY <1>0, PlaceFields, UsesFacts
<1>3. ~InTriangle(mpos[0]) => mpos[0] = End
  BY <1>0, PlaceFields
<1>4. ComputeInv'
  BY <1>0, <1>2 DEF IInv, ComputeInv, MWorks
<1>5. FailInv'
  BY <1>0, <1>3 DEF IInv, FailInv
<1>6. G2cInv'
  BY <1>0 DEF IInv, G2cInv
<1>7. SameVal
  BY <1>0 DEF SameVal, Val, Broken
<1>8. PlaceInv'
  BY <1>0, <1>1, ComputePlace DEF Found
<1> QED
  BY <1>0, <1>1, <1>4, <1>5, <1>6, <1>7, <1>8, ComputeData

\* compute goes on when the tile it waits for is on the device.
LEMMA MWaitStep ==
  ASSUME SIZE = 1, IInv, MWait(0)
  PROVE  PlaceInv' /\ ComputeInv' /\ FailInv' /\ G2cInv' /\ DataInv' /\ SameVal
<1> DEFINE more == muse[0] < Len(Uses(mpos[0]))
<1>0. /\ mpc[0] = "wait" /\ UNCHANGED <<mpos, step, dev, abort, status, gpos, gpc, gstep>>
      /\ ptr[Uses(mpos[0])[muse[0]]] # None
      /\ more => mpc'[0] = "wait" /\ muse'[0] = muse[0] + 1
      /\ ~more => mpc'[0] = "kernel" /\ muse'[0] = muse[0]
  BY Working DEF MWait, MGoto, IInv, TypeInv, MWorks, g2c, Ranks
<1>1. /\ mpos[0] \in Tasks /\ muse[0] \in 1 .. Len(Uses(mpos[0]))
      /\ Len(Uses(mpos[0])) \in Nat /\ ~Before(mpos[0], mpos[0])
      /\ status = 0 /\ ~abort
  BY <1>0, Working, UsesFacts, TaskPlace, Linear DEF IInv, ComputeInv, MWorks
<1>2. Compute(0)
  BY DEF Compute
<1>3. ComputeInv'
  BY <1>0, <1>1 DEF IInv, ComputeInv, MWorks
<1>4. FailInv'
  BY <1>0, <1>1 DEF IInv, FailInv
<1>5. G2cInv'
  BY <1>0, <1>1 DEF IInv, G2cInv
<1>6. SameVal
  BY <1>0, <1>1 DEF SameVal, Val, Broken
<1>7. PlaceInv'
  <2> SUFFICES ASSUME NEW p \in Tasks, NEW i \in 1 .. Len(Uses(p)), Found(p, i)'
               PROVE  Found(p, i) \/ ptr[Uses(p)[i]] # None
    BY <1>2, ComputePlace
  <2>1. CASE Before(p, mpos[0])
    BY <2>1 DEF Found
  <2>2. CASE p = mpos[0]
    <3>1. i < muse[0] \/ i = muse[0]
      BY <1>0, <1>1, <2>2 DEF Found
    <3> QED
      BY <1>0, <2>2, <3>1 DEF Found
  <2> QED
    BY <1>0, <2>1, <2>2 DEF Found
<1> QED
  BY <1>0, <1>2, <1>3, <1>4, <1>5, <1>6, <1>7, ComputeData
\* The kernel runs on the right versions of all its tiles.
LEMMA KernelInputs ==
  ASSUME SIZE = 1, IInv, mpc[0] = "kernel"
  PROVE  LET t == TileOf(mpos[0]) IN
         /\ mpos[0] \in Tasks /\ t \in Tiles /\ status = 0 /\ ~abort
         /\ Val(t) = mpos[0].n /\ ~Returned(t) /\ ptr[t] # None
         /\ dev[ptr[t]] = [t |-> t, v |-> mpos[0].n]
         /\ \A i \in 2 .. Len(Uses(mpos[0])) :
              LET u == Uses(mpos[0])[i] IN
              /\ Before(LastTask(u), mpos[0]) /\ Val(u) = u[2] + 1
              /\ Holds(ptr[u], u, u[2] + 1)
         /\ InputsGood(0)
<1> DEFINE p == mpos[0]
           t == TileOf(p)
<1>0. /\ p \in Tasks /\ p \in Places /\ gpos[0] \in Places /\ status = 0 /\ ~abort
      /\ ~Before(p, gpos[0])
  BY OneRank, Working, TaskPlace DEF IInv, ComputeInv, MWorks, G2cInv
<1>1. /\ t \in Tiles /\ Uses(p)[1] = t /\ 1 \in 1 .. Len(Uses(p)) /\ Len(Uses(p)) \in Nat
      /\ ~Before(p, FirstTask(t)) /\ ~Before(LastTask(t), p)
      /\ LastTask(t) \in Places /\ FirstTask(t) \in Places
  BY <1>0, UsesFacts, OfTile, TaskPlace
<1>2. Val(t) = p.n
  <2>1. p # End
    BY <1>0, PlaceFields
  <2>2. ~Broken(t)
    BY <1>0 DEF Broken
  <2> QED
    BY <1>1, <2>1, <2>2 DEF Val
<1>3. ~Returned(t)
  <2>1. gpc[0] = "release" => Before(gpos[0], p)
    BY DEF IInv, G2cInv
  <2>2. ~Before(LastTask(t), gpos[0])
    BY <1>0, <1>1, Transitive
  <2> QED
    BY <1>1, <2>1, <2>2 DEF Returned
<1>4. ASSUME NEW i \in 1 .. Len(Uses(p))
      PROVE  LET u == Uses(p)[i] IN
             u \in Tiles /\ ptr[u] # None /\ dev[ptr[u]] = [t |-> u, v |-> Val(u)]
  <2> DEFINE u == Uses(p)[i]
  <2>1. u \in Tiles
    BY <1>0, UsesFacts
  <2>2. Found(p, i)
    BY DEF Found
  <2>3. ptr[u] # None
    BY <1>0, <2>2 DEF IInv, PlaceInv
  <2>4. ~Freed(u)
    <3>1. UsedBy(u, p)
      BY DEF UsedBy
    <3> QED
      BY <1>0, <3>1 DEF Freed
  <2> QED
    BY <2>1, <2>3, <2>4 DEF IInv, DataInv
<1>5. ASSUME NEW i \in 2 .. Len(Uses(p))
      PROVE  LET u == Uses(p)[i] IN
             /\ Before(LastTask(u), p) /\ Val(u) = u[2] + 1
             /\ Holds(ptr[u], u, u[2] + 1)
  <2> DEFINE u == Uses(p)[i]
  <2>1. i \in 1 .. Len(Uses(p))
    BY <1>1
  <2>2. u \in Tiles /\ ptr[u] # None /\ dev[ptr[u]] = [t |-> u, v |-> Val(u)]
    BY <1>4, <2>1
  <2>3. Before(LastTask(u), FirstTask(t))
    BY <1>0, UsesFacts
  <2>4. Before(LastTask(u), p)
    <3>1. LastTask(u) \in Places
      BY <2>2, OfTile, TaskPlace
    <3> HIDE DEF u, p, t
    <3> QED
      BY <1>0, <1>1, <2>3, <3>1, Transitive
  <2>5. Val(u) = u[2] + 1
    <3> HIDE DEF u
    <3> QED
      BY <1>0, <2>2, <2>4, TileFinished
  <2> QED
    BY <2>2, <2>4, <2>5 DEF Holds
<1>6. ptr[t] # None /\ dev[ptr[t]] = [t |-> t, v |-> p.n]
  BY <1>1, <1>2, <1>4
<1>7. InputsGood(0)
  BY <1>1, <1>5, <1>6 DEF InputsGood, Holds
<1> QED
  BY <1>0, <1>1, <1>2, <1>3, <1>5, <1>6, <1>7

\* The kernel writes the tile of its task and nothing else.
LEMMA KernelWrites ==
  ASSUME SIZE = 1, IInv, Kernel(0)
  PROVE  \E v \in {mpos[0].n + 1, Garbage} :
           /\ \A t \in Tiles : Val(t)' = IF t = TileOf(mpos[0]) THEN v ELSE Val(t)
           /\ \A b \in Buffers : dev'[b] = IF b = ptr[TileOf(mpos[0])]
                                           THEN [t |-> TileOf(mpos[0]), v |-> v] ELSE dev[b]
           /\ mpc'[0] = (IF v = Garbage THEN "fail" ELSE "step")
           /\ v = Garbage => IsPotrf(mpos[0])
<1> DEFINE p == mpos[0]
<1>0. /\ mpc[0] = "kernel" /\ UNCHANGED <<mpos, status>>
      /\ p \in Tasks /\ TileOf(p) \in Tiles /\ status = 0 /\ InputsGood(0)
      /\ p # End /\ ~Before(LastTask(TileOf(p)), p)
      /\ p.n + 1 # Garbage
  <2>1. mpc[0] = "kernel" /\ UNCHANGED <<mpos, status>>
    BY DEF Kernel
  <2>2. p \in Tasks /\ TileOf(p) \in Tiles /\ status = 0 /\ InputsGood(0)
    BY <2>1, KernelInputs
  <2>3. p # End /\ ~Before(LastTask(TileOf(p)), p) /\ p.n \in Nat
    BY <2>2, OfTile, PlaceFields, TaskPlace
  <2> QED
    BY <2>1, <2>2, <2>3 DEF Garbage
<1>1. PICK broke \in BOOLEAN :
        /\ broke => IsPotrf(p)
        /\ dev' = [b \in Buffers |->
                IF b # ptr[TileOf(p)] THEN dev[b]
                ELSE [t |-> TileOf(p),
                      v |-> IF InputsGood(0) /\ ~broke THEN p.n + 1 ELSE Garbage]]
        /\ MGoto(0, IF broke THEN "fail" ELSE "step")
  BY DEF Kernel
<1>2. mpc'[0] = (IF broke THEN "fail" ELSE "step")
  BY <1>1, OneRank DEF MGoto, IInv, TypeInv
<1> DEFINE v == IF broke THEN Garbage ELSE p.n + 1
<1>3. \A b \in Buffers : dev'[b] = IF b = ptr[TileOf(p)] THEN [t |-> TileOf(p), v |-> v] ELSE dev[b]
  BY <1>0, <1>1
<1>4. ASSUME NEW t \in Tiles
      PROVE  Val(t)' = IF t = TileOf(p) THEN v ELSE Val(t)
  <2>1. Broken(t)' <=> broke /\ t = TileOf(p)
    BY <1>0, <1>2 DEF Broken
  <2>2. ~Broken(t)
    BY <1>0 DEF Broken
  <2>3. mpos'[0] = p
    BY <1>0
  <2>4. CASE t = TileOf(p)
    BY <1>0, <1>2, <2>1, <2>3, <2>4 DEF Val
  <2>5. CASE t # TileOf(p)
    BY <1>0, <1>2, <2>1, <2>2, <2>3, <2>5 DEF Val
  <2> QED
    BY <2>4, <2>5
<1>5. /\ mpc'[0] = (IF v = Garbage THEN "fail" ELSE "step")
      /\ v = Garbage => IsPotrf(p)
      /\ v \in {p.n + 1, Garbage}
  BY <1>0, <1>1, <1>2
<1> HIDE DEF v
<1> QED
  BY <1>3, <1>4, <1>5

\* A kernel makes the next version of one tile.
LEMMA KernelStep ==
  ASSUME SIZE = 1, IInv, Kernel(0)
  PROVE  PlaceInv' /\ ComputeInv' /\ FailInv' /\ G2cInv' /\ DataInv'
<1>0. /\ mpc[0] = "kernel" /\ mpc'[0] \in {"fail", "step"}
      /\ UNCHANGED <<mpos, muse, step, status, abort>>
      /\ mpc'[0] = "fail" => IsPotrf(mpos[0])
  BY KernelWrites DEF Kernel
<1>1. /\ mpos[0] \in Tasks /\ TileOf(mpos[0]) \in Tiles /\ status = 0 /\ ~abort
      /\ ptr[TileOf(mpos[0])] # None /\ ~Returned(TileOf(mpos[0]))
  BY <1>0, KernelInputs
<1>2. Compute(0) /\ UNCHANGED <<ptr, host, cpc, gpos, gpc, gstep>>
  BY ComputeOthers DEF Compute
<1>3. ComputeInv'
  BY <1>0 DEF IInv, ComputeInv, MWorks
<1>4. FailInv'
  BY <1>0, <1>1 DEF IInv, FailInv
<1>5. G2cInv'
  BY <1>0, <1>1, <1>2 DEF IInv, G2cInv
<1>6. PlaceInv'
  BY <1>0, <1>2, ComputePlace DEF Found
<1>7. DataInv'
  <2>0. PICK v :
          /\ \A t \in Tiles : Val(t)' = IF t = TileOf(mpos[0]) THEN v ELSE Val(t)
          /\ \A b \in Buffers : dev'[b] = IF b = ptr[TileOf(mpos[0])]
                                          THEN [t |-> TileOf(mpos[0]), v |-> v] ELSE dev[b]
    BY KernelWrites
  <2>1. ASSUME NEW t \in Tiles
        PROVE  host'[t] = IF Returned(t)' THEN Val(t)' ELSE 0
    <3>1. Returned(t)' <=> Returned(t)
      BY <1>2 DEF Returned
    <3> QED
      BY <1>1, <1>2, <2>0, <3>1 DEF IInv, DataInv
  <2>2. ASSUME NEW t \in Tiles, ptr'[t] # None
        PROVE  dev'[ptr'[t]] = [t |-> t, v |-> Val(t)'] \/ Freed(t)'
    <3>1. ptr'[t] = ptr[t] /\ ptr[t] \in Buffers /\ ptr[t] # None
      BY <1>2, <2>2 DEF IInv, BufferInv, Owned
    <3>2. CASE t = TileOf(mpos[0])
      BY <2>0, <3>1, <3>2
    <3>3. CASE t # TileOf(mpos[0])
      <4>1. ptr[t] # ptr[TileOf(mpos[0])]
        BY <1>1, <3>1, <3>3 DEF IInv, BufferInv
      <4>2. dev'[ptr[t]] = dev[ptr[t]] /\ Val(t)' = Val(t)
        BY <2>0, <3>1, <3>3, <4>1
      <4>3. Freed(t) => Freed(t)'
        BY <1>0, <1>2, <3>1, <4>2 DEF Freed
      <4> QED
        BY <3>1, <4>2, <4>3 DEF IInv, DataInv
    <3> QED
      BY <3>2, <3>3
  <2> QED
    BY <2>1, <2>2 DEF DataInv
<1> QED
  BY <1>3, <1>4, <1>5, <1>6, <1>7
\* The panel that failed is named in the status.
LEMMA RequestFailStep ==
  ASSUME SIZE = 1, IInv, RequestFail(0)
  PROVE  PlaceInv' /\ ComputeInv' /\ FailInv' /\ G2cInv' /\ DataInv' /\ SameVal
<1>0. /\ mpc[0] = "fail" /\ mpc'[0] = "abort" /\ status' = mpos[0].k + 1
      /\ UNCHANGED <<mpos, muse, step, dev, abort>>
  BY DEF RequestFail, MGoto, IInv, TypeInv, MWorks, Ranks
<1>1. /\ mpos[0] \in Tasks /\ IsPotrf(mpos[0]) /\ status = 0 /\ ~abort
      /\ mpos[0].k \in Index /\ mpos[0].k \in Nat
      /\ mpos[0] = LastTask(<<mpos[0].k, mpos[0].k>>)
      /\ TileOf(mpos[0]) = <<mpos[0].k, mpos[0].k>>
  <2>1. mpos[0] \in Tasks /\ IsPotrf(mpos[0]) /\ status = 0 /\ ~abort
    BY <1>0, Working DEF IInv, ComputeInv, MWorks
  <2>2. mpos[0] = [k |-> mpos[0].k, m |-> mpos[0].m, n |-> mpos[0].n] /\ mpos[0].k \in Nat
    BY <2>1, TaskPlace, PlaceFields
  <2>3. mpos[0].k \in Index
    BY <2>1 DEF Tasks
  <2> QED
    BY <2>1, <2>2, <2>3 DEF IsPotrf, LastTask, TileOf
<1>2. Compute(0) /\ UNCHANGED <<gpos, gpc, gstep>>
  BY ComputeOthers DEF Compute
<1>3. ComputeInv'
  BY <1>0, <1>1 DEF IInv, ComputeInv, MWorks
<1>4. status' # 0 /\ status' - 1 = mpos[0].k
  BY <1>0, <1>1
<1>5. FailInv'
  BY <1>0, <1>1, <1>4 DEF FailInv
<1>6. G2cInv'
  BY <1>0, <1>1, <1>2 DEF IInv, G2cInv
<1>7. SameVal
  <2> SUFFICES ASSUME NEW t \in Tiles PROVE Val(t)' = Val(t)
    BY DEF SameVal
  <2>1. Broken(t)' <=> Broken(t)
    BY <1>0, <1>1, <1>4 DEF Broken
  <2> QED
    BY <1>0, <2>1 DEF Val
<1>8. PlaceInv'
  BY <1>0, <1>2, ComputePlace DEF Found
<1> QED
  BY <1>0, <1>2, <1>3, <1>5, <1>6, <1>7, <1>8, ComputeData

\* Raising the abort flag moves nobody.
LEMMA SsAbortStep ==
  ASSUME SIZE = 1, IInv, SsAbort(0)
  PROVE  PlaceInv' /\ ComputeInv' /\ FailInv' /\ G2cInv' /\ DataInv' /\ SameVal
<1>0. /\ mpc[0] = "abort" /\ mpc'[0] = "step" /\ abort'
      /\ UNCHANGED <<mpos, muse, step, dev, status>>
  BY DEF SsAbort, MGoto, IInv, TypeInv, MWorks, Ranks
<1>1. status # 0
  BY <1>0 DEF IInv, FailInv
<1>2. Compute(0) /\ UNCHANGED <<gpos, gpc, gstep>>
  BY ComputeOthers DEF Compute
<1>3. ComputeInv'
  BY <1>0 DEF IInv, ComputeInv, MWorks
<1>4. FailInv'
  BY <1>0, <1>1 DEF IInv, FailInv
<1>5. G2cInv'
  BY <1>0, <1>2 DEF IInv, G2cInv
<1>6. SameVal
  BY <1>0 DEF SameVal, Val, Broken
<1>7. PlaceInv'
  BY <1>0, <1>2, ComputePlace DEF Found
<1> QED
  BY <1>0, <1>2, <1>3, <1>4, <1>5, <1>6, <1>7, ComputeData

\* The next task has not been begun.
LEMMA StepVal ==
  ASSUME SIZE = 1, IInv, Step(0), NEW t \in Tiles
  PROVE  Val(t)' = Val(t)
<1> DEFINE p == mpos[0]
           q == NextOf(p)
<1>0. /\ mpc[0] = "step" /\ mpc'[0] = "top" /\ mpos'[0] = q /\ UNCHANGED status
  BY DEF Step, MGoto, IInv, TypeInv, MWorks, Ranks
<1>1. p \in Tasks /\ p \in Places /\ q \in Places /\ p # End
  BY <1>0, NextPlace, TaskPlace, PlaceFields DEF IInv, ComputeInv, MWorks
<1>2. LastTask(t) \in Places /\ LastTask(t).n = t[2]
  BY OfTile, TaskPlace DEF LastTask
<1>3. Before(LastTask(t), q) <=> Before(LastTask(t), p) \/ LastTask(t) = p
  BY <1>1, <1>2, NextFollows
<1>4. Broken(t)' <=> Broken(t)
  BY <1>0 DEF Broken
<1>5. /\ p.n < p.k => q.n = p.n + 1 /\ TileOf(q) = TileOf(p)
      /\ p.n = p.k => q.n = 0
      /\ p.n < p.k \/ p.n = p.k
  <2>1. /\ p.n \in Nat /\ p.k \in Nat /\ p.m \in Nat /\ p.m < NT /\ NT \in Nat /\ p.n =< p.k
    BY <1>1, PlaceFields, NTAssumption
  <2>2. p.m + 1 < NT \/ p.m + 1 = NT
    BY <2>1
  <2> QED
    BY <1>1, <2>1, <2>2, NextIs DEF TileOf
<1> HIDE DEF p, q
<1>p. mpos[0] = p
  BY DEF p
<1>6. CASE Broken(t)
  BY <1>4, <1>6 DEF Val
<1>7. CASE ~Broken(t) /\ t = TileOf(p)
  <2>1. ~Before(LastTask(t), p)
    BY <1>1, <1>7, OfTile
  <2>2. Val(t) = p.n + 1
    BY <1>0, <1>1, <1>7, <1>p, <2>1 DEF Val
  <2>3. CASE LastTask(t) = p
    BY <1>0, <1>2, <1>3, <1>4, <1>7, <2>2, <2>3 DEF Val
  <2>4. CASE LastTask(t) # p
    <3>1. p.n < p.k
      BY <1>1, <1>5, <1>7, <2>4, OfTile
    <3>2. ~Before(LastTask(t), q)
      BY <1>3, <2>1, <2>4
    <3>3. q # End
      <4>1. TileOf(q) \in Tiles
        BY <1>5, <1>7, <3>1
      <4>2. TileOf(q)[1] < NT
        BY <4>1, TileFields
      <4> QED
        BY <4>2, NTAssumption DEF TileOf, End
    <3> QED
      BY <1>0, <1>4, <1>5, <1>7, <2>2, <3>1, <3>2, <3>3 DEF Val
  <2> QED
    BY <2>3, <2>4
<1>8. CASE ~Broken(t) /\ t # TileOf(p)
  <2>1. LastTask(t) # p
    BY <1>8, OfTile
  <2>2. q = End \/ t # TileOf(q) \/ q.n = 0
    BY <1>5, <1>8
  <2> QED
    BY <1>0, <1>3, <1>4, <1>8, <1>p, <2>1, <2>2 DEF Val
<1> QED
  BY <1>6, <1>7, <1>8

\* Counting the step moves compute to the next task.
LEMMA StepStep ==
  ASSUME SIZE = 1, IInv, Step(0)
  PROVE  PlaceInv' /\ ComputeInv' /\ FailInv' /\ G2cInv' /\ DataInv' /\ SameVal
<1>0. /\ mpc[0] = "step" /\ mpc'[0] = "top" /\ mpos'[0] = NextOf(mpos[0]) /\ muse'[0] = 1
      /\ step'[0] = step[0] + 1 /\ UNCHANGED <<dev, abort, status>>
  BY DEF Step, MGoto, IInv, TypeInv, MWorks, Ranks
<1>1. /\ mpos[0] \in Tasks /\ mpos[0] \in Places /\ NextOf(mpos[0]) \in Places
      /\ \A q \in Places : Before(q, NextOf(mpos[0])) <=> Before(q, mpos[0]) \/ q = mpos[0]
  BY <1>0, NextPlace, TaskPlace, NextFollows DEF IInv, ComputeInv, MWorks
<1>2. Compute(0) /\ UNCHANGED <<gpos, gpc, gstep>>
  BY ComputeOthers DEF Compute
<1>3. ComputeInv'
  <2>1. Serial(NextOf(mpos[0])) = Serial(mpos[0]) + 1 /\ Serial(mpos[0]) \in Nat
    BY <1>1, SerialNext, SerialNat
  <2>2. step[0] = Serial(mpos[0])
    BY <1>0, <2>1 DEF IInv, ComputeInv
  <2> QED
    BY <1>0, <2>1, <2>2 DEF ComputeInv, MWorks
<1>4. FailInv'
  BY <1>0 DEF IInv, FailInv
<1>5. G2cInv'
  <2>1. gpos[0] \in Places
    BY OneRank DEF IInv
  <2>2. Before(gpos[0], NextOf(mpos[0]))
    BY <1>1, <2>1, Linear DEF IInv, G2cInv
  <2>3. ~Before(NextOf(mpos[0]), gpos[0])
    BY <1>1, <2>1, <2>2, Linear
  <2> QED
    BY <1>0, <1>2, <2>2, <2>3 DEF IInv, G2cInv
<1>6. SameVal
  BY StepVal DEF SameVal
<1>7. PlaceInv'
  <2> SUFFICES ASSUME NEW p \in Tasks, NEW i \in 1 .. Len(Uses(p)), Found(p, i)'
               PROVE  Found(p, i)
    BY <1>2, ComputePlace
  <2>1. i \in Nat /\ i >= 1 /\ p \in Places
    BY UsesFacts, TaskPlace
  <2> QED
    BY <1>0, <1>1, <2>1 DEF Found
<1> QED
  BY <1>0, <1>2, <1>3, <1>4, <1>5, <1>6, <1>7, ComputeData

\* The extra step at the end only releases g2c.
LEMMA LeaveStep ==
  ASSUME SIZE = 1, IInv, Leave(0)
  PROVE  PlaceInv' /\ ComputeInv' /\ FailInv' /\ G2cInv' /\ DataInv' /\ SameVal
<1>0. /\ mpc[0] = "leave" /\ mpc'[0] = "done" /\ step'[0] = step[0] + 1
      /\ UNCHANGED <<mpos, muse, dev, abort, status>>
  BY DEF Leave, MGoto, IInv, TypeInv, MWorks, Ranks
<1>1. Serial(mpos[0]) \in Nat
  BY OneRank, SerialNat DEF IInv
<1>2. Compute(0) /\ UNCHANGED <<gpos, gpc, gstep>>
  BY ComputeOthers DEF Compute
<1>3. ComputeInv'
  BY <1>0, <1>1 DEF IInv, ComputeInv, MWorks
<1>4. FailInv'
  BY <1>0 DEF IInv, FailInv
<1>5. G2cInv'
  BY <1>0, <1>2 DEF IInv, G2cInv
<1>6. SameVal
  BY <1>0 DEF SameVal, Val, Broken
<1>7. PlaceInv'
  BY <1>0, <1>2, ComputePlace DEF Found
<1> QED
  BY <1>0, <1>2, <1>3, <1>4, <1>5, <1>6, <1>7, ComputeData

\* Every step of compute keeps the invariant.
LEMMA ComputeStep ==
  ASSUME SIZE = 1, IInv, Compute(0)
  PROVE  IInv'
<1>1. TypeInv' /\ C2gInv' /\ BufferInv' /\ CountInv'
  BY ComputeTypes, ComputeOthers
<1>2. PlaceInv' /\ ComputeInv' /\ FailInv' /\ G2cInv' /\ DataInv'
  BY MTopStep, MWaitStep, KernelStep, RequestFailStep, SsAbortStep, StepStep,
     LeaveStep DEF Compute
<1> QED
  BY <1>1, <1>2 DEF IInv
-----------------------------------------------------------------------------
(* The steps of the g2c thread                                             *)

\* A step of g2c leaves the other two threads alone.
LEMMA G2cOthers ==
  ASSUME IInv, G2c(0)
  PROVE  /\ C2gInv' /\ BufferInv' /\ ComputeInv' /\ FailInv'
         /\ SameAnnounce /\ SameBring /\ SameFound /\ SameVal
         /\ UNCHANGED <<ptr, dev, cpc, mpos, mpc, step, abort, status>>
<1>1. UNCHANGED <<c2g, compute, ptr, dev, abort, status>>
  BY DEF G2c, GTop, Behind, Return, Release
<1>2. UNCHANGED <<ptr, dev, cpc, mpos, mpc, step, abort, status>>
  BY <1>1 DEF c2g, compute
<1> QED
  BY <1>1, <1>2, C2gKept, ComputeKept, FailKept

\* A step of g2c keeps the types.
LEMMA G2cTypes ==
  ASSUME SIZE = 1, IInv, G2c(0)
  PROVE  TypeInv'
<1>0. Ranks = {0} /\ gpos[0] \in Places
  BY OneRank DEF IInv
<1>1. gpc' \in [Ranks -> GWorks \cup {"top", "done"}] /\ gstep' \in [Ranks -> Int]
  BY <1>0 DEF G2c, GTop, Behind, Return, Release, GGoto, IInv, TypeInv, GWorks
<1>2. gpos' \in [Ranks -> Places]
  <2>1. CASE Release(0)
    <3>1. gpos[0] \in Tasks
      BY <2>1 DEF Release, IInv, G2cInv, GWorks
    <3>2. NextOf(gpos[0]) \in Places
      BY <3>1, NextPlace
    <3> QED
      BY <2>1, <3>2 DEF Release, IInv, TypeInv
  <2>2. CASE UNCHANGED gpos
    BY <2>2 DEF IInv, TypeInv
  <2> QED
    BY <2>1, <2>2 DEF G2c, GTop, Behind, Return
<1>3. count' \in [Tiles -> Int]
  <2>1. CASE UNCHANGED count
    BY <2>1 DEF IInv, TypeInv
  <2>2. CASE Release(0)
    BY <2>2 DEF Release, IInv, TypeInv
  <2> QED
    BY <2>1, <2>2 DEF G2c, GTop, Behind, Return
<1>4. host' \in [Tiles -> Int]
  <2>1. CASE UNCHANGED host
    BY <2>1 DEF IInv, TypeInv
  <2>2. CASE Return(0)
    <3> DEFINE t == TileOf(gpos[0])
               v == IF ptr[t] # None /\ dev[ptr[t]].t = t THEN dev[ptr[t]].v ELSE Garbage
    <3>1. t \in Tiles
      BY <2>2, UsesFacts DEF Return, IInv, G2cInv, GWorks
    <3>2. v \in Int
      <4>1. CASE ptr[t] # None
        <5>1. ptr[t] \in Buffers
          BY <3>1, <4>1 DEF IInv, TypeInv
        <5>2. dev[ptr[t]].v \in Int
          BY <5>1 DEF IInv, TypeInv
        <5> QED
          BY <5>2 DEF Garbage
      <4>2. CASE ptr[t] = None
        BY <4>2 DEF Garbage
      <4> QED
        BY <4>1, <4>2
    <3>3. host' = [host EXCEPT ![t] = v]
      BY <2>2 DEF Return
    <3> HIDE DEF t, v
    <3> QED
      BY <3>1, <3>2, <3>3 DEF IInv, TypeInv
  <2> QED
    BY <2>1, <2>2 DEF G2c, GTop, Behind, Release
<1>5. UNCHANGED <<c2g, compute, ptr, dev, abort, status>>
  BY DEF G2c, GTop, Behind, Return, Release
<1> QED
  BY <1>1, <1>2, <1>3, <1>4, <1>5 DEF IInv, TypeInv, c2g, compute

\* The host has what it had and the device too.
LEMMA G2cData ==
  ASSUME SIZE = 1, IInv, G2c(0), UNCHANGED host,
         gpos' = gpos \/ (gpos'[0] = NextOf(gpos[0]) /\ gpos[0] \in Tasks),
         \A t \in Tiles : Returned(t)' <=> Returned(t)
  PROVE  DataInv'
<1>1. SameVal /\ UNCHANGED <<ptr, dev, cpc, abort>>
  BY G2cOthers
<1>2. \A p \in Tasks : Before(p, gpos[0]) => Before(p, gpos'[0])
  BY TaskPlace, NextFollows
<1>3. ASSUME NEW t \in Tiles PROVE Freed(t) => Freed(t)'
  BY <1>1, <1>2 DEF Freed, SameVal
<1> QED
  BY <1>1, <1>3 DEF IInv, DataInv, SameVal

\* g2c begins the next task, or ends.
LEMMA GTopStep ==
  ASSUME SIZE = 1, IInv, GTop(0)
  PROVE  G2cInv' /\ PlaceInv' /\ CountInv' /\ DataInv'
<1>0. /\ gpc[0] = "top" /\ UNCHANGED <<gpos, gstep, count, host>>
      /\ gpc'[0] = "behind" \/ gpc'[0] = "done"
      /\ gpc'[0] = "behind" => InTriangle(gpos[0]) /\ ~abort
      /\ gpc'[0] = "done" => ~InTriangle(gpos[0]) \/ abort
      /\ gpos[0] \in Places
  BY OneRank DEF GTop, GGoto, IInv, TypeInv, GWorks
<1>1. G2c(0)
  BY DEF G2c
<1>2. UNCHANGED <<ptr, mpos, mpc, abort>>
  BY <1>1, G2cOthers
<1>3. /\ InTriangle(gpos[0]) => gpos[0] \in Tasks
      /\ ~InTriangle(gpos[0]) => gpos[0] = End
  BY <1>0, PlaceFields
<1>4. G2cInv'
  BY <1>0, <1>2, <1>3 DEF IInv, G2cInv, GWorks
<1>5. PlaceInv' /\ CountInv'
  BY <1>0, <1>1, <1>2, G2cOthers, PlaceKept, CountKept
<1>6. DataInv'
  BY <1>0, <1>1, G2cData DEF Returned
<1> QED
  BY <1>4, <1>5, <1>6

\* g2c waits for the step counter: it stays behind the task being computed.
LEMMA BehindStep ==
  ASSUME SIZE = 1, IInv, Behind(0)
  PROVE  G2cInv' /\ PlaceInv' /\ CountInv' /\ DataInv'
<1>0. /\ gpc[0] = "behind" /\ UNCHANGED <<gpos, count, host>>
      /\ gstep[0] < step[0] /\ gstep'[0] = gstep[0] + 1
      /\ gpc'[0] = (IF gpos[0].n = gpos[0].k THEN "store" ELSE "release")
      /\ gpos[0] \in Places /\ mpos[0] \in Places
  BY OneRank DEF Behind, GGoto, IInv, TypeInv, GWorks
<1>1. G2c(0)
  BY DEF G2c
<1>2. UNCHANGED <<ptr, mpos, mpc, abort>>
  BY <1>1, G2cOthers
<1>3. gpos[0] \in Tasks /\ gstep[0] = Serial(gpos[0]) /\ ~Before(mpos[0], gpos[0])
  <2>1. Serial(gpos[0]) \in Nat
    BY <1>0, SerialNat
  <2> QED
    BY <1>0, <2>1 DEF IInv, G2cInv, GWorks
<1>4. Before(gpos[0], mpos[0])
  <2>0. Serial(gpos[0]) \in Nat /\ Serial(mpos[0]) \in Nat
    BY <1>0, SerialNat
  <2>1. CASE mpc[0] # "done"
    <3>1. Serial(gpos[0]) < Serial(mpos[0])
      BY <1>0, <1>3, <2>0, <2>1 DEF IInv, ComputeInv
    <3> QED
      BY <1>0, <3>1, SerialOrder
  <2>2. CASE mpc[0] = "done" /\ status = 0
    <3>1. mpos[0] = End
      BY <2>2 DEF IInv, FailInv
    <3> QED
      BY <1>3, <3>1, TaskPlace, Linear
  <2>3. CASE mpc[0] = "done" /\ status # 0
    <3>1. abort
      BY <2>3 DEF IInv, FailInv
    <3> QED
      BY <1>0, <2>3, <3>1 DEF IInv, G2cInv
  <2> QED
    BY <2>1, <2>2, <2>3
<1>5. G2cInv'
  <2>1. Serial(gpos[0]) \in Nat
    BY <1>0, SerialNat
  <2>2. gstep'[0] = Serial(gpos[0]) + 1
    BY <1>0, <1>3, <2>1
  <2>3. ~Before(mpos[0], gpos[0])
    BY <1>3
  <2> QED
    BY <1>0, <1>2, <1>3, <1>4, <2>2, <2>3 DEF G2cInv, GWorks
<1>6. PlaceInv' /\ CountInv'
  BY <1>0, <1>1, <1>2, G2cOthers, PlaceKept, CountKept
<1>7. DataInv'
  <2>1. \A t \in Tiles : Returned(t)' <=> Returned(t)
    BY <1>0 DEF Returned, LastTask
  <2> QED
    BY <1>0, <1>1, <2>1, G2cData
<1> QED
  BY <1>5, <1>6, <1>7

\* The tile that goes back to the host is on the device and is finished.
LEMMA ReturnStep ==
  ASSUME SIZE = 1, IInv, Return(0)
  PROVE  G2cInv' /\ PlaceInv' /\ CountInv' /\ DataInv'
<1> DEFINE u == TileOf(gpos[0])
<1>0. /\ gpc[0] = "store" /\ gpc'[0] = "release" /\ UNCHANGED <<gpos, gstep, count>>
      /\ host' = [host EXCEPT ![u] = IF ptr[u] # None /\ dev[ptr[u]].t = u
                                     THEN dev[ptr[u]].v ELSE Garbage]
      /\ gpos[0] \in Places /\ mpos[0] \in Places
  BY OneRank DEF Return, GGoto, IInv, TypeInv, GWorks
<1>1. G2c(0)
  BY DEF G2c
<1>2. SameVal /\ UNCHANGED <<ptr, dev, cpc, mpos, mpc, abort>>
  BY <1>1, G2cOthers
<1>3. /\ gpos[0] \in Tasks /\ gpos[0].n = gpos[0].k /\ Before(gpos[0], mpos[0])
  BY <1>0 DEF IInv, G2cInv, GWorks
<1>4. /\ u \in Tiles /\ gpos[0] = LastTask(u) /\ 1 \in 1 .. Len(Uses(gpos[0]))
      /\ Uses(gpos[0])[1] = u /\ ~Before(gpos[0], gpos[0])
  BY <1>0, <1>3, UsesFacts, OfTile, Linear
<1> HIDE DEF u
<1>5. G2cInv'
  BY <1>0, <1>2, <1>3 DEF IInv, G2cInv, GWorks
<1>6. PlaceInv' /\ CountInv'
  BY <1>0, <1>1, <1>2, G2cOthers, PlaceKept, CountKept
<1>7. host'[u] = Val(u)
  <2>1. ptr[u] # None
    <3>1. Found(gpos[0], 1)
      BY <1>3 DEF Found
    <3> QED
      BY <1>3, <1>4, <3>1 DEF IInv, PlaceInv
  <2>2. CASE dev[ptr[u]] = [t |-> u, v |-> Val(u)]
    BY <1>0, <1>4, <2>1, <2>2 DEF IInv, TypeInv
  <2>3. CASE Freed(u)
    <3>1. host'[u] = Garbage
      <4>1. dev[ptr[u]].t # u
        <5>1. dev[ptr[u]].t[1] = -1
          BY <2>3 DEF Freed, Empty
        <5> QED
          BY <1>4, <5>1, TileFields
      <4> QED
        BY <1>0, <1>4, <4>1 DEF IInv, TypeInv
    <3>2. abort /\ (host[u] = Val(u) \/ Val(u) = Garbage)
      <4>1. UsedBy(u, gpos[0])
        BY <1>4 DEF UsedBy
      <4> QED
        BY <1>3, <1>4, <2>3, <4>1 DEF Freed
    <3>3. host[u] = 0
      <4>1. ~Returned(u)
        BY <1>0, <1>4 DEF Returned
      <4> QED
        BY <1>4, <4>1 DEF IInv, DataInv
    <3>4. Val(u) # 0
      <4>1. status # 0
        BY <3>2 DEF IInv, FailInv
      <4>2. u[2] + 1 # 0
        BY <1>4, TileFields
      <4> QED
        BY <1>3, <1>4, <4>1, <4>2, AfterAbort DEF Garbage
    <3> QED
      BY <3>1, <3>2, <3>3, <3>4
  <2> QED
    BY <1>4, <2>1, <2>2, <2>3 DEF IInv, DataInv
<1>8. DataInv'
  <2>1. ASSUME NEW t \in Tiles
        PROVE  host'[t] = IF Returned(t)' THEN Val(t)' ELSE 0
    <3>1. Val(t)' = Val(t)
      BY <1>2 DEF SameVal
    <3>2. CASE t = u
      <4>1. Returned(t)'
        BY <1>0, <1>4, <3>2 DEF Returned
      <4> QED
        BY <1>7, <3>1, <3>2, <4>1
    <3>3. CASE t # u
      <4>1. gpos[0] # LastTask(t)
        BY <1>4, <3>3, OfTile
      <4>2. Returned(t)' <=> Returned(t)
        BY <1>0, <4>1 DEF Returned
      <4>3. host'[t] = host[t]
        BY <1>0, <1>4, <3>3 DEF IInv, TypeInv
      <4> QED
        BY <3>1, <4>2, <4>3 DEF IInv, DataInv
    <3> QED
      BY <3>2, <3>3
  <2>2. ASSUME NEW t \in Tiles, Freed(t) PROVE Freed(t)'
    <3>1. Val(t)' = Val(t)
      BY <1>2 DEF SameVal
    <3>2. host'[t] = host[t] \/ host'[t] = Val(t)
      BY <1>0, <1>4, <1>7 DEF IInv, TypeInv
    <3> QED
      BY <1>0, <1>2, <2>2, <3>1, <3>2 DEF Freed
  <2> QED
    BY <1>2, <2>1, <2>2 DEF IInv, DataInv, SameVal
<1> QED
  BY <1>5, <1>6, <1>8

\* Releasing moves one task to the set that the tile's count subtracts.
LEMMA ReleaseStep ==
  ASSUME SIZE = 1, IInv, Release(0)
  PROVE  G2cInv' /\ PlaceInv' /\ CountInv' /\ DataInv'
<1> DEFINE g == gpos[0]
           u == Uses(g)
<1>0. /\ gpc[0] = "release" /\ gpc'[0] = "top" /\ gpos'[0] = NextOf(g)
      /\ UNCHANGED <<gstep, host>>
      /\ count' = [t \in Tiles |-> IF \E i \in 1 .. Len(u) : u[i] = t
                                   THEN count[t] - 1 ELSE count[t]]
      /\ g \in Places /\ mpos[0] \in Places
  BY OneRank DEF Release, GGoto, IInv, TypeInv, GWorks
<1>1. G2c(0)
  BY DEF G2c
<1>2. UNCHANGED <<ptr, mpos, mpc, abort>> /\ SameAnnounce /\ SameBring /\ SameFound
  BY <1>1, G2cOthers
<1>3. g \in Tasks /\ Before(g, mpos[0])
  BY <1>0 DEF IInv, G2cInv, GWorks
<1>4. /\ NextOf(g) \in Places
      /\ \A q \in Places : Before(q, NextOf(g)) <=> Before(q, g) \/ q = g
  BY <1>3, NextPlace, NextFollows
<1>5. G2cInv'
  <2>1. ~Before(mpos[0], NextOf(g))
    BY <1>0, <1>3, <1>4, Linear
  <2>2. Serial(NextOf(g)) = Serial(g) + 1 /\ Serial(g) \in Nat
    BY <1>0, <1>3, SerialNext, SerialNat
  <2>3. gstep'[0] = Serial(gpos'[0])
    BY <1>0, <2>2 DEF IInv, G2cInv
  <2>4. Serial(gpos'[0]) \in Nat
    BY <1>0, <2>2
  <2> QED
    BY <1>0, <1>2, <1>4, <2>1, <2>3, <2>4 DEF G2cInv, GWorks
<1> HIDE DEF u, g
<1>g. g = gpos[0] /\ u = Uses(g)
  BY DEF g, u
<1>6. PlaceInv'
  <2>1. \A t \in Tiles : Brought(t)' <=> Brought(t)
    BY <1>2, FirstUse DEF SameBring, Brought
  <2>2. ASSUME NEW p \in Tasks PROVE Before(p, gpos[0]) => Before(p, gpos'[0])
    BY <1>0, <1>4, <1>g, TaskPlace
  <2>3. \A t \in Tiles : LastTask(t) \in Tasks
    BY OfTile
  <2> QED
    BY <1>2, <2>1, <2>2, <2>3 DEF IInv, PlaceInv, SameBring, SameFound
<1>7. CountInv'
  <2> SUFFICES ASSUME NEW t \in Tiles
               PROVE  count'[t] = Cardinality(Announced(t))' - Cardinality(Released(t))'
    BY DEF CountInv
  <2>1. Announced(t)' = Announced(t)
    BY <1>2 DEF Announced, SameAnnounce
  <2>2. count[t] = Cardinality(Announced(t)) - Cardinality(Released(t))
    BY DEF IInv, CountInv
  <2>3. Cardinality(Announced(t)) \in Nat /\ Cardinality(Released(t)) \in Nat
    BY AnnouncedFinite, FS_CardinalityType
  <2>4. CASE UsedBy(t, g)
    <3>1. Released(t)' = Released(t) \cup {g}
      BY <1>0, <1>3, <1>4, <1>g, <2>4, TaskPlace DEF Released
    <3>2. g \notin Released(t)
      BY <1>0, <1>g, Linear DEF Released
    <3>3. Cardinality(Released(t) \cup {g}) = Cardinality(Released(t)) + 1
      BY <3>2, AnnouncedFinite, FS_AddElement
    <3>4. count'[t] = count[t] - 1
      BY <1>0, <1>g, <2>4 DEF UsedBy
    <3> QED
      BY <2>1, <2>2, <2>3, <3>1, <3>3, <3>4
  <2>5. CASE ~UsedBy(t, g)
    <3>1. Released(t)' = Released(t)
      BY <1>0, <1>4, <1>g, <2>5, TaskPlace DEF Released
    <3>2. count'[t] = count[t]
      BY <1>0, <1>g, <2>5 DEF UsedBy
    <3> QED
      BY <2>1, <2>2, <3>1, <3>2
  <2> QED
    BY <2>4, <2>5
<1>8. DataInv'
  <2>1. \A t \in Tiles : Returned(t)' <=> Returned(t)
    BY <1>0, <1>4, <1>g, OfTile, TaskPlace DEF Returned
  <2> QED
    BY <1>0, <1>1, <1>3, <1>g, <2>1, G2cData
<1> QED
  BY <1>5, <1>6, <1>7, <1>8

\* Every step of g2c keeps the invariant.
LEMMA G2cStep ==
  ASSUME SIZE = 1, IInv, G2c(0)
  PROVE  IInv'
<1>1. TypeInv' /\ C2gInv' /\ BufferInv' /\ ComputeInv' /\ FailInv'
  BY G2cTypes, G2cOthers
<1>2. G2cInv' /\ PlaceInv' /\ CountInv' /\ DataInv'
  BY GTopStep, BehindStep, ReturnStep, ReleaseStep DEF G2c
<1> QED
  BY <1>1, <1>2 DEF IInv
-----------------------------------------------------------------------------
(* The theorems                                                            *)

\* The invariant holds when the threads begin.
LEMMA InitHolds ==
  ASSUME SIZE = 1, Init
  PROVE  IInv
<1> DEFINE s == StartOf(0)
<1>0. /\ Ranks = {0} /\ s = [k |-> 0, m |-> 0, n |-> 0] /\ s \in Tasks /\ s \in Places
      /\ \A q \in Places : ~Before(q, s)
  BY StartIs, TaskPlace DEF Ranks
<1>1. /\ cpc[0] = "top" /\ mpc[0] = "top" /\ gpc[0] = "top" /\ cpos[0] = s /\ mpos[0] = s
      /\ gpos[0] = s /\ cuse[0] = 1 /\ muse[0] = 1 /\ mine[0] = 0 /\ step[0] = 0
      /\ gstep[0] = 0 /\ ~abort /\ status = 0
      /\ \A t \in Tiles : ptr[t] = None /\ count[t] = 0 /\ host[t] = 0
  BY <1>0 DEF Init
<1>2. TypeInv
  <2>1. cpos \in [Ranks -> Places] /\ mpos \in [Ranks -> Places] /\ gpos \in [Ranks -> Places]
    BY <1>0 DEF Init
  <2>2. dev \in [Buffers -> [t : Int \X Int, v : Int]]
    BY DEF Init, Empty, Garbage
  <2>3. /\ cpc \in [Ranks -> CWorks \cup {"top", "cleanup", "done"}]
        /\ mpc \in [Ranks -> MWorks \cup {"top", "leave", "done"}]
        /\ gpc \in [Ranks -> GWorks \cup {"top", "done"}]
    BY DEF Init
  <2>4. /\ cuse \in [Ranks -> Nat] /\ muse \in [Ranks -> Nat]
        /\ spare \in [Ranks -> Buffers \cup {None}]
        /\ mine \in [Ranks -> Nat] /\ step \in [Ranks -> Int] /\ gstep \in [Ranks -> Int]
        /\ ptr \in [Tiles -> Buffers \cup {None}] /\ count \in [Tiles -> Int]
        /\ host \in [Tiles -> Int] /\ status \in Nat
    BY DEF Init
  <2>5. abort \in BOOLEAN
    BY DEF Init
  <2> QED
    BY <2>1, <2>2, <2>3, <2>4, <2>5 DEF TypeInv
<1> HIDE DEF s
<1>3. C2gInv
  BY <1>0, <1>1 DEF C2gInv, CWorks
<1>4. BufferInv
  BY <1>1 DEF BufferInv
<1>5. Serial(s) = 0
  <2>1. {q \in Tasks : Before(q, s)} = {}
    BY <1>0, TaskPlace
  <2> QED
    BY <2>1, FS_EmptySet DEF Serial
<1>6. ComputeInv
  BY <1>0, <1>1, <1>5 DEF ComputeInv, MWorks
<1>7. FailInv
  BY <1>1 DEF FailInv
<1>8. G2cInv
  BY <1>0, <1>1, <1>5 DEF G2cInv, GWorks
<1>9. \A p \in Tasks : \A i \in 1 .. Len(Uses(p)) :
        ToAnnounce(p, i) /\ ToBring(p, i) /\ ~Found(p, i)
  <2> SUFFICES ASSUME NEW p \in Tasks, NEW i \in 1 .. Len(Uses(p))
               PROVE  ToAnnounce(p, i) /\ ToBring(p, i) /\ ~Found(p, i)
    OBVIOUS
  <2>1. p \in Places /\ i >= 1 /\ i \in Nat /\ (Before(s, p) \/ p = s) /\ ~Before(p, s)
    BY <1>0, TaskPlace, UsesFacts, Linear
  <2> QED
    BY <1>1, <2>1 DEF ToAnnounce, ToBring, Found
<1>10. PlaceInv
  <2>1. \A t \in Tiles : ~Brought(t)
    BY <1>9, FirstUse DEF Brought
  <2> QED
    BY <1>1, <1>9, <2>1 DEF PlaceInv
<1>11. CountInv
  <2> SUFFICES ASSUME NEW t \in Tiles
               PROVE  count[t] = Cardinality(Announced(t)) - Cardinality(Released(t))
    BY DEF CountInv
  <2>1. Announced(t) = {} /\ Released(t) = {}
    BY <1>0, <1>1, <1>9, TaskPlace DEF Announced, Released
  <2> QED
    BY <1>1, <2>1, FS_EmptySet
<1>12. DataInv
  <2>1. \A t \in Tiles : ~Returned(t)
    BY <1>0, <1>1, OfTile, TaskPlace DEF Returned
  <2> QED
    BY <1>1, <2>1 DEF DataInv
<1> QED
  BY <1>2, <1>3, <1>4, <1>6, <1>7, <1>8, <1>10, <1>11, <1>12 DEF IInv

\* A step of somebody else keeps the invariant.
LEMMA Stutter ==
  ASSUME IInv, UNCHANGED vars
  PROVE  IInv'
<1>0. /\ UNCHANGED <<c2g, compute, g2c, ptr, count, dev, host, abort, status>>
      /\ UNCHANGED <<gpos, gpc, cpc>>
  BY DEF vars, c2g, g2c
<1>1. TypeInv'
  BY <1>0 DEF IInv, TypeInv, c2g, compute, g2c
<1>2. ComputeInv' /\ SameFound /\ FailInv' /\ SameVal /\ G2cInv'
  BY <1>0, ComputeKept, FailKept, G2cKept
<1>3. C2gInv' /\ BufferInv' /\ SameAnnounce /\ SameBring
  BY <1>0, C2gKept
<1>4. CountInv' /\ PlaceInv'
  BY <1>0, <1>2, <1>3, CountKept, PlaceKept
<1>5. DataInv'
  BY <1>0, <1>2 DEF IInv, DataInv, SameVal, Returned, Freed
<1> QED
  BY <1>1, <1>2, <1>3, <1>4, <1>5 DEF IInv

\* Every step keeps the invariant.
LEMMA NextHolds ==
  ASSUME SIZE = 1, IInv, [Next]_vars
  PROVE  IInv'
<1>1. Ranks = {0}
  BY OneRank DEF IInv
<1> QED
  BY <1>1, C2gStep, ComputeStep, G2cStep, Stutter DEF Next

\* For one rank, any triangle and any number of buffers the three threads keep
\* the invariant: the counts are what was announced and not released, and every
\* buffer in the table holds the tile's newest version.
THEOREM Invariance ==
  ASSUME SIZE = 1
  PROVE  Spec => []IInv
<1>1. Init => IInv
  BY InitHolds
<1>2. IInv /\ [Next]_vars => IInv'
  BY NextHolds
<1> QED
  BY <1>1, <1>2, PTL DEF Spec

\* Whatever was evicted is on the host as its last task left it.
LEMMA EvictStep ==
  ASSUME SIZE = 1, IInv, [Next]_vars, NEW t \in Tiles,
         ptr[t] # None, ptr'[t] = None
  PROVE  Done(host[t], t) \/ abort
<1>0. Ranks = {0}
  BY OneRank DEF IInv
<1>1. TakeOver(0) /\ t = cursor[0]
  <2>1. CASE TakeOver(0)
    <3>1. ptr' = [ptr EXCEPT ![cursor[0]] = None]
      BY <2>1 DEF TakeOver
    <3> QED
      BY <2>1, <3>1 DEF IInv, TypeInv
  <2>2. CASE Bring(0)
    <3>1. ptr' = [ptr EXCEPT ![Wanted(0)] = spare[0]] /\ cpc[0] = "copy"
      BY <2>2 DEF Bring
    <3>2. ptr'[t] = ptr[t] \/ ptr'[t] = spare[0]
      BY <3>1 DEF IInv, TypeInv
    <3>3. spare[0] # None
      <4>1. spare[0] \in Buffers
        BY <3>1 DEF IInv, BufferInv, Owned
      <4>2. spare[0][1] \in Ranks
        BY <4>1 DEF Buffers
      <4> QED
        BY <1>0, <4>2 DEF None
    <3> QED
      BY <3>2, <3>3
  <2>3. CASE UNCHANGED ptr
    BY <2>3
  <2> QED
    BY <1>0, <2>1, <2>2, <2>3
    DEF Next, C2g, Compute, G2c, vars, CTop, Announce, Allocate, Scan, Advance, Cleanup, MTop,
        MWait, Kernel, RequestFail, SsAbort, Step, Leave, GTop, Behind, Return, Release
<1>2. Before(LastTask(t), gpos[0])
  BY <1>1, TakenBehind
<1>3. Before(LastTask(t), mpos[0]) /\ LastTask(t) \in Places
  BY <1>2, OfTile, ReleasedFound, TaskPlace
<1>4. host[t] = Val(t)
  BY <1>2 DEF IInv, DataInv, Returned
<1>5. ASSUME ~abort PROVE status = 0 \/ t # <<status - 1, status - 1>>
  <2> SUFFICES ASSUME status # 0, t = <<status - 1, status - 1>> PROVE FALSE
    OBVIOUS
  <2>1. mpos[0] = LastTask(t)
    BY <1>5 DEF IInv, FailInv
  <2> QED
    BY <1>3, <2>1, Linear
<1> QED
  BY <1>3, <1>4, <1>5, TileFinished DEF Done

\* With one rank, c2g takes a buffer only from a tile whose factor the host has:
\* counting announced and released tasks, without a lock over the two, loses none.
THEOREM EvictSafeHolds ==
  ASSUME SIZE = 1
  PROVE  Spec => EvictSafe
<1>1. IInv /\ [Next]_vars =>
        [\A t \in Tiles :
           ptr[t] # None /\ ptr'[t] = None => Done(host[t], t) \/ abort]_vars
  BY EvictStep
<1> QED
  BY <1>1, Invariance, PTL DEF Spec, EvictSafe

\* With one rank, and not with two (StaticTableRanks.cfg), a call that ends with
\* PLASMA_SUCCESS leaves the whole factor in host memory.
THEOREM SuccessMeansFactorHolds ==
  ASSUME SIZE = 1
  PROVE  Spec => []SuccessMeansFactor
<1>1. IInv => SuccessMeansFactor
  <2> SUFFICES ASSUME IInv, AllDone, status = 0, NEW t \in Tiles
               PROVE  Done(host[t], t)
    BY DEF SuccessMeansFactor
  <2>1. gpc[0] = "done" /\ mpc[0] = "done"
    BY OneRank DEF AllDone, IInv
  <2>2. gpos[0] = End /\ mpos[0] = End
    BY <2>1 DEF IInv, G2cInv, FailInv
  <2>3. Before(LastTask(t), End)
    BY OfTile, TaskPlace, Linear
  <2>4. Val(t) = t[2] + 1
    BY <2>2, <2>3, TileFinished
  <2> QED
    BY <2>2, <2>3, <2>4 DEF IInv, DataInv, Returned, Done
<1> QED
  BY <1>1, Invariance, PTL
-----------------------------------------------------------------------------
(* The refinement                                                          *)

\* The newest version of a tile, wherever it is, is the one that the tasks
\* behind compute have made.
LEMMA LatestIs ==
  ASSUME SIZE = 1, IInv, NEW t \in Tiles
  PROVE  Latest(t) = Val(t)
<1>1. CASE status # 0 /\ t = <<status - 1, status - 1>>
  BY <1>1 DEF Latest, Val, Broken
<1>2. CASE ~(status # 0 /\ t = <<status - 1, status - 1>>) /\ ptr[t] # None
  <2>1. CASE dev[ptr[t]] = [t |-> t, v |-> Val(t)]
    BY <1>2, <2>1 DEF Latest
  <2>2. CASE Freed(t)
    <3>1. dev[ptr[t]].t # t
      <4>1. dev[ptr[t]].t[1] = -1
        BY <2>2 DEF Freed, Empty
      <4> QED
        BY <4>1, TileFields
    <3>2. host[t] = Val(t)
      <4>1. CASE abort
        <5>1. Val(t) # Garbage
          <6>1. mpc[0] # "fail"
            BY <4>1, Working
          <6>2. ~Broken(t)
            BY <1>2, <6>1 DEF Broken
          <6>3. t[2] + 1 # Garbage /\ Garbage # 0
            BY TileFields DEF Garbage
          <6>4. mpos[0] # End => mpos[0].n # Garbage /\ mpos[0].n + 1 # Garbage
            BY OneRank, PlaceFields DEF Garbage, IInv
          <6> QED
            BY <6>2, <6>3, <6>4 DEF Val
        <5>2. CASE host[t] = Val(t)
          BY <5>2
        <5>3. CASE \A p \in Tasks : UsedBy(t, p) => Before(p, gpos[0])
          <6>1. UsedBy(t, LastTask(t)) /\ LastTask(t) \in Tasks
            BY OfTile, UsesFacts DEF UsedBy
          <6> QED
            BY <5>3, <6>1 DEF IInv, DataInv, Returned
        <5> QED
          BY <2>2, <5>1, <5>2, <5>3 DEF Freed
      <4>2. CASE ~abort
        <5>1. UsedBy(t, LastTask(t)) /\ LastTask(t) \in Tasks
          BY OfTile, UsesFacts DEF UsedBy
        <5> QED
          BY <2>2, <4>2, <5>1 DEF Freed, IInv, DataInv, Returned
      <4> QED
        BY <4>1, <4>2
    <3> QED
      BY <1>2, <3>1, <3>2 DEF Latest
  <2> QED
    BY <1>2, <2>1, <2>2 DEF IInv, DataInv
<1>3. CASE ~(status # 0 /\ t = <<status - 1, status - 1>>) /\ ptr[t] = None
  <2>1. Latest(t) = host[t]
    BY <1>3 DEF Latest
  <2>2. CASE Brought(t)
    BY <1>3, <2>1, <2>2 DEF IInv, PlaceInv, DataInv, Returned
  <2>3. CASE ~Brought(t)
    BY <2>1, <2>3, Unfound, Untouched
  <2> QED
    BY <2>2, <2>3
<1> QED
  BY <1>1, <1>2, <1>3

\* What the abstract task reads, the task of the walk announces.
LEMMA OperandsUsed ==
  ASSUME NEW p \in Tasks, NEW o \in Abstract!Operands(TileOf(p), p.n)
  PROVE  o \in Tiles /\ \E i \in 2 .. Len(Uses(p)) : Uses(p)[i] = o
<1>0. /\ p.k \in Nat /\ p.m \in Nat /\ p.n \in Nat /\ p.n =< p.k /\ p.k =< p.m
      /\ TileOf(p) = <<p.m, p.k>>
  BY PlaceFields, TaskPlace DEF TileOf
<1>1. \E i \in 2 .. Len(Uses(p)) : Uses(p)[i] = o
  <2>1. CASE p.n = p.k
    <3>1. o = <<p.k, p.k>> /\ p.m # p.k
      BY <1>0, <2>1 DEF Abstract!Operands
    <3>2. Uses(p) = <<TileOf(p), First(p)>> /\ First(p) = o
      BY <2>1, <3>1 DEF Uses, IsPotrf, IsGemm, First
    <3> QED
      BY <3>2
  <2>2. CASE p.n # p.k /\ p.m = p.k
    <3>1. o = <<p.k, p.n>>
      BY <1>0, <2>2 DEF Abstract!Operands
    <3>2. Uses(p) = <<TileOf(p), First(p)>> /\ First(p) = o
      BY <2>2, <3>1 DEF Uses, IsPotrf, IsGemm, First
    <3> QED
      BY <3>2
  <2>3. CASE p.n # p.k /\ p.m # p.k
    <3>1. o = <<p.k, p.n>> \/ o = <<p.m, p.n>>
      BY <1>0, <2>3 DEF Abstract!Operands
    <3>2. Uses(p) = <<TileOf(p), First(p), Second(p)>>
      BY <2>3 DEF Uses, IsPotrf, IsGemm
    <3>3. o = First(p) \/ o = Second(p)
      BY <3>1 DEF First, Second
    <3> QED
      BY <3>2, <3>3
  <2> QED
    BY <2>1, <2>2, <2>3
<1>2. o \in Tiles
  <2>1. PICK i \in 2 .. Len(Uses(p)) : Uses(p)[i] = o
    BY <1>1
  <2>2. i \in 1 .. Len(Uses(p))
    BY UsesFacts
  <2> QED
    BY <2>1, <2>2, UsesFacts
<1> QED
  BY <1>1, <1>2

\* The newest version of every tile is the one that compute has made.
Newest == \A t \in Tiles : Latest(t) = Val(t)

\* The kernel is a task of the abstract algorithm, or the breakdown of a panel.
LEMMA KernelRefines ==
  ASSUME SIZE = 1, IInv, Newest, Newest', Kernel(0)
  PROVE  Abstract!Next
<1> DEFINE now == [u \in Tiles |-> Latest(u)]
<1>0. PICK p \in Tasks : p = mpos[0] /\ p.n \in Nat /\ p.k \in Nat /\ p.n =< p.k
  BY KernelInputs, PlaceFields, TaskPlace DEF Kernel
<1>1. PICK t \in Tiles : t = TileOf(p) /\ t[2] = p.k /\ t = <<p.m, p.k>>
  BY UsesFacts DEF TileOf
<1>2. /\ Val(t) = p.n
      /\ \A i \in 2 .. Len(Uses(p)) : Val(Uses(p)[i]) = Uses(p)[i][2] + 1
  BY <1>0, <1>1, KernelInputs DEF Kernel
<1>3. PICK v \in {p.n + 1, Garbage} :
        /\ \A u \in Tiles : Val(u)' = IF u = t THEN v ELSE Val(u)
        /\ v = Garbage => IsPotrf(p)
  BY <1>0, <1>1, KernelWrites
<1>4. now' = [now EXCEPT ![t] = v]
  <2>1. now' = [u \in Tiles |-> Val(u)']
    BY DEF Newest
  <2>2. now = [u \in Tiles |-> Val(u)]
    BY DEF Newest
  <2> QED
    BY <1>3, <2>1, <2>2
<1>5. now[t] = p.n
  BY <1>2 DEF Newest
<1>6. Abstract!Tiles = Tiles /\ Abstract!Index = Index
  BY DEF Abstract!Tiles, Abstract!Index, Tiles, Index
<1>7. Abstract!Ready(t)
  <2>1. now[t] \in 0 .. t[2]
    BY <1>0, <1>1, <1>5
  <2>2. ASSUME NEW o \in Abstract!Operands(t, p.n)
        PROVE  now[o] = o[2] + 1
    <3>1. o \in Tiles /\ \E i \in 2 .. Len(Uses(p)) : Uses(p)[i] = o
      BY <1>1, <2>2, OperandsUsed
    <3> QED
      BY <1>2, <3>1 DEF Newest
  <2> QED
    BY <1>5, <2>1, <2>2 DEF Abstract!Ready, Abstract!Finished
<1>8. CASE v = Garbage
  <2>1. t = <<p.k, p.k>> /\ p.n = p.k /\ p.k \in Index
    BY <1>1, <1>3, <1>8 DEF IsPotrf, Tasks
  <2>2. Abstract!Breakdown(p.k)
    BY <1>4, <1>5, <1>7, <1>8, <2>1 DEF Abstract!Breakdown, Abstract!Garbage, Garbage
  <2> QED
    BY <1>6, <2>1, <2>2 DEF Abstract!Next
<1>9. CASE v = p.n + 1
  <2>1. Abstract!Task(t)
    BY <1>4, <1>5, <1>7, <1>9 DEF Abstract!Task
  <2> QED
    BY <1>6, <2>1 DEF Abstract!Next
<1> QED
  BY <1>3, <1>8, <1>9

\* Every other step leaves the newest versions as they are: the copies, the
\* evictions and the frees of a pipeline lose nothing.
LEMMA QuietSteps ==
  ASSUME SIZE = 1, IInv, [Next]_vars
  PROVE  Kernel(0) \/ SameVal
<1>1. Ranks = {0}
  BY OneRank DEF IInv
<1>2. ASSUME UNCHANGED vars PROVE SameVal
  BY <1>2, FailKept DEF vars
<1> QED
  BY <1>1, <1>2, C2gOthers, G2cOthers, MTopStep, MWaitStep, RequestFailStep, SsAbortStep,
     StepStep, LeaveStep DEF Next, Compute

\* The pipeline of one rank implements the abstract tile algorithm: each kernel is
\* one of its tasks on finished operands, whatever the three threads do in between.
THEOREM RefinesHolds ==
  ASSUME SIZE = 1
  PROVE  Spec => Refines
<1>1. IInv => Newest
  BY LatestIs DEF Newest
<1>2. Init => Abstract!Init
  <2> SUFFICES ASSUME Init PROVE Abstract!Init
    OBVIOUS
  <2>1. \A t \in Tiles : Latest(t) = 0
    BY DEF Init, Latest
  <2> QED
    BY <2>1 DEF Abstract!Init, Abstract!Tiles, Abstract!Index, Tiles, Index
<1>3. IInv /\ Newest /\ Newest' /\ [Next]_vars => [Abstract!Next]_([t \in Tiles |-> Latest(t)])
  <2> SUFFICES ASSUME IInv, Newest, Newest', [Next]_vars
               PROVE  Abstract!Next \/ UNCHANGED [t \in Tiles |-> Latest(t)]
    OBVIOUS
  <2>1. CASE Kernel(0)
    BY <2>1, KernelRefines
  <2>2. CASE SameVal
    <3>1. \A t \in Tiles : Latest(t)' = Latest(t)
      BY <2>2 DEF Newest, SameVal
    <3> QED
      BY <3>1
  <2> QED
    BY <2>1, <2>2, QuietSteps
<1> QED
  BY <1>1, <1>2, <1>3, Invariance, PTL DEF Spec, Refines, Abstract!Spec
=============================================================================
