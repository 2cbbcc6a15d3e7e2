------------------------- MODULE PotrfStatic_proof -------------------------
(***************************************************************************)
(* Proofs about PotrfStatic for every number of tiles, ranks and calls;    *)
(* at the end, about PotrfOrder, the tasks of the dynamic routine.         *)
(*                                                                         *)
(* The argument.  Rank r only ever stands at numbers r + j*SIZE of the     *)
(* walk (Triangle_proof), so ranks never meet (Walk) and what lies ahead   *)
(* of a rank in its own share is untouched (Ahead).  Hence the tile a rank *)
(* works on has exactly the updates of the panels before its step          *)
(* (Current), a cell of the progress table is 1 only for a finished tile,  *)
(* or under the abort flag for a panel that failed (Published), and what a *)
(* rank has waited for is still finished when it is read and when the      *)
(* kernel runs (Waited).                                                   *)
(*                                                                         *)
(* For the refinement of TileCholesky and the meaning of the status: what  *)
(* a rank has waited for is still finished when it stores (Fresh), and     *)
(* unless a panel has failed, every tile of a rank's share is final, under *)
(* way or ahead of the rank (Covered).  All tiles belong to some rank,     *)
(* none is ahead of a rank that has left the triangle, so the matrix is    *)
(* settled when the last rank leaves: only then may a new one come.        *)
(***************************************************************************)
EXTENDS PotrfStatic, Triangle_proof, TLAPS

Entering == {"enter", "init", "init_bar"}
Running  == {"start", "roll", "top", "fini_bar"} \cup Working
Closing  == {"free", "exit_bar"}

InPhase(S) == \A r \in Ranks : pc[r] \in S

Phases ==
  \/ InPhase({"idle"})
  \/ /\ InPhase(Entering)
     /\ status = Success
     /\ host = [t \in Tiles |-> 0]
     /\ pc[0] = "init_bar" => allocated /\ progress = [t \in Tiles |-> 0]
  \/ /\ InPhase(Running)
     /\ allocated
  \/ InPhase(Closing)

\* Where rank r stands, and that it works on a tile of the triangle.
Walk(r) ==
  pc[r] \in Running =>
    /\ Own(r, row[r], col[r])
    /\ row[r] >= col[r]
    /\ pc[r] \in Working => row[r] < NT /\ step[r] =< col[r]
    /\ pc[r] = "top" /\ step[r] # 0 => row[r] < NT /\ step[r] =< col[r]
    /\ pc[r] = "roll" => step[r] = 0

\* Tiles of rank r's share that it has not begun to work on.
Beyond(r, t) ==
  \/ Number2(t[1], t[2]) > Number2(row[r], col[r])
  \/ /\ Number2(t[1], t[2]) = Number2(row[r], col[r])
     /\ pc[r] = "start" \/ (pc[r] \in {"roll", "top"} /\ step[r] = 0)

Ahead(r) ==
  pc[r] \in Running =>
    \A t \in Tiles : Own(r, t[1], t[2]) /\ Beyond(r, t) =>
                       host[t] = 0 /\ progress[t] = 0

\* The tile of rank r before and after the task of its step.
Before == {"load", "wait1", "load1", "wait2", "load2", "kernel", "store"}
After  == {"fail", "abort", "publish", "next"}

Current(r) ==
  /\ pc[r] \in Before \/ (pc[r] = "top" /\ step[r] # 0) =>
       host[Mine(r)] = step[r] /\ progress[Mine(r)] = 0
  /\ pc[r] \in Before \ {"load", "store"} => dst[r] = step[r]
  /\ pc[r] \in After \cup {"store"} =>
       /\ dst[r] = IF info[r] THEN Garbage ELSE step[r] + 1
       /\ info[r] => IsPotrf(r)
  /\ pc[r] \in After => host[Mine(r)] = dst[r]
  /\ pc[r] \in {"fail", "abort", "publish"} =>
       step[r] = col[r] /\ progress[Mine(r)] = 0
  /\ pc[r] = "next" /\ step[r] # col[r] => progress[Mine(r)] = 0
  /\ pc[r] \in {"fail", "abort"} => info[r]
  /\ pc[r] = "publish" /\ info[r] => abort
  /\ pc[r] \in {"wait1", "load1", "wait2", "load2"} => ~IsPotrf(r)
  /\ pc[r] \in {"wait2", "load2"} => IsGemm(r)

\* A published tile is finished, or it is a failed panel and all may see it.
Published ==
  InPhase(Running) =>
    \A t \in Tiles : progress[t] = 1 =>
      Done(host[t], t) \/ (abort /\ host[t] = Garbage)

\* What rank r has waited for.
Waited(r) ==
  /\ pc[r] = "load1" => /\ progress[Operand1(r)] = 1
                        /\ Done(host[Operand1(r)], Operand1(r))
  /\ pc[r] \in {"wait2", "load2", "kernel"} /\ ~IsPotrf(r) =>
       Done(op1[r], Operand1(r))
  /\ pc[r] = "load2" => /\ progress[Operand2(r)] = 1
                        /\ Done(host[Operand2(r)], Operand2(r))
  /\ pc[r] = "kernel" /\ IsGemm(r) => Done(op2[r], Operand2(r))

IInv == /\ TypeOK
        /\ Phases
        /\ \A r \in Ranks : Walk(r) /\ Ahead(r) /\ Current(r) /\ Waited(r)
        /\ Published
-----------------------------------------------------------------------------
\* The initial states satisfy the invariant: nothing has been asked for.
LEMMA Initial == Init => IInv
<1> SUFFICES ASSUME Init PROVE IInv
  OBVIOUS
<1>1. 0 \in Ranks
  BY SizeAssumption DEF Ranks
<1>2. TypeOK
  <2>1. 0 \in Value /\ Garbage \in Value /\ Success \in 0 .. NT + 1
        /\ 0 \in 0 .. MaxCalls /\ 0 \in Nat
    BY NTAssumption, CallsAssumption DEF Value, Garbage, Success
  <2>2. QED
    BY <2>1 DEF Init, TypeOK, PC
<1>3. Phases
  BY DEF Init, Phases, InPhase
<1>4. ASSUME NEW r \in Ranks
      PROVE  Walk(r) /\ Ahead(r) /\ Current(r) /\ Waited(r)
  BY DEF Init, Walk, Ahead, Current, Waited, Running, Working, Before, After
<1>5. Published
  BY <1>1 DEF Init, Published, InPhase, Running, Working
<1>6. QED
  BY <1>2, <1>3, <1>4, <1>5 DEF IInv

\* When one rank is running, all are, and the progress table exists.
LEMMA AllRunning ==
  ASSUME IInv, NEW r \in Ranks, pc[r] \in Running
  PROVE  InPhase(Running) /\ allocated
BY DEF IInv, Phases, InPhase, Running, Working, Entering, Closing

\* A running rank that works stands on a tile of the triangle.
LEMMA OnTile ==
  ASSUME IInv, NEW r \in Ranks,
         pc[r] \in Working \/ (pc[r] = "top" /\ row[r] < NT)
  PROVE  /\ Mine(r) \in Tiles
         /\ Own(r, row[r], col[r])
         /\ col[r] \in Index /\ row[r] \in Index
<1>1. pc[r] \in Running /\ Walk(r) /\ TypeOK
  BY DEF IInv, Running
<1>2. row[r] < NT /\ col[r] =< row[r] /\ row[r] \in Nat /\ col[r] \in Nat
      /\ Own(r, row[r], col[r])
  BY <1>1 DEF Walk, TypeOK
<1>3. QED
  BY <1>2, NTAssumption DEF Mine, Tiles, Index

\* The operands of a working rank are tiles of the triangle.
LEMMA OperandTiles ==
  ASSUME IInv, NEW r \in Ranks, pc[r] \in Working
  PROVE  Operand1(r) \in Tiles /\ Operand2(r) \in Tiles
<1>1. col[r] \in Index /\ row[r] \in Index
  BY OnTile
<1>2. step[r] =< col[r] /\ col[r] =< row[r] /\ step[r] \in Nat
  BY DEF IInv, Walk, Running, TypeOK
<1>3. step[r] \in Index
  BY <1>1, <1>2, NTAssumption DEF Index
<1>4. QED
  BY <1>1, <1>2, <1>3, NTAssumption DEF Operand1, Operand2, Tiles, Index

\* What a rank needs from a step of another rank r for its own part of the
\* invariant to stay: r may change its own tile only, and may raise the abort.
StepOf(r) ==
  /\ \A q \in Ranks \ {r} :
       /\ pc'[q] = pc[q]
       /\ row'[q] = row[q] /\ col'[q] = col[q] /\ step'[q] = step[q]
       /\ dst'[q] = dst[q] /\ op1'[q] = op1[q] /\ op2'[q] = op2[q]
       /\ info'[q] = info[q]
  /\ abort => abort'
  /\ \A t \in Tiles :
       \/ host'[t] = host[t] /\ progress'[t] = progress[t]
       \/ pc[r] \in {"store", "publish"} /\ t = Mine(r)

\* No step of a running rank touches a tile that has been published.
LEMMA PublishedStays ==
  ASSUME IInv, NEW r \in Ranks, StepOf(r), NEW t \in Tiles, progress[t] = 1
  PROVE  host'[t] = host[t] /\ progress'[t] = progress[t]
<1>1. SUFFICES ASSUME pc[r] \in {"store", "publish"}, t = Mine(r) PROVE FALSE
  BY DEF StepOf
<1>2. Current(r)
  BY DEF IInv
<1>3. QED
  BY <1>1, <1>2 DEF Current, Before

LEMMA OthersKeep ==
  ASSUME IInv, NEW r \in Ranks, pc[r] \in Running, StepOf(r),
         NEW q \in Ranks, q # r
  PROVE  Walk(q)' /\ Ahead(q)' /\ Current(q)' /\ Waited(q)'
<1>0. InPhase(Running)
  BY AllRunning
<1>1. pc[q] \in Running /\ Walk(q) /\ Ahead(q) /\ Current(q) /\ Waited(q) /\ TypeOK
  BY <1>0 DEF IInv, InPhase
<1>2. /\ pc'[q] = pc[q]
      /\ row'[q] = row[q] /\ col'[q] = col[q] /\ step'[q] = step[q]
      /\ dst'[q] = dst[q] /\ op1'[q] = op1[q] /\ op2'[q] = op2[q]
      /\ info'[q] = info[q]
      /\ abort => abort'
  BY DEF StepOf
<1>3. ASSUME NEW t \in Tiles, Own(q, t[1], t[2])
      PROVE  host'[t] = host[t] /\ progress'[t] = progress[t]
  <2>1. SUFFICES ASSUME pc[r] \in {"store", "publish"}, t = Mine(r) PROVE FALSE
    BY DEF StepOf
  <2>2. Own(r, t[1], t[2])
    BY <2>1, OnTile DEF Working, Mine
  <2>3. QED
    BY <2>2, <1>3, OwnUnique
<1>4. ASSUME NEW t \in Tiles, progress[t] = 1
      PROVE  host'[t] = host[t] /\ progress'[t] = progress[t]
  BY <1>4, PublishedStays
<1>5. Walk(q)'
  BY <1>1, <1>2 DEF Walk
<1>6. Ahead(q)'
  BY <1>1, <1>2, <1>3 DEF Ahead, Beyond
<1>7. Current(q)'
  <2>1. CASE pc[q] \in Working \/ (pc[q] = "top" /\ step[q] # 0)
    <3>1. Mine(q) \in Tiles /\ Own(q, row[q], col[q])
      BY <2>1, <1>1, OnTile DEF Walk
    <3>2. Mine(q)' = Mine(q)
      BY <1>2 DEF Mine
    <3>3. host'[Mine(q)] = host[Mine(q)] /\ progress'[Mine(q)] = progress[Mine(q)]
      BY <3>1, <1>3 DEF Mine
    <3>4. QED
      BY <1>1, <1>2, <3>2, <3>3 DEF Current, IsPotrf, IsGemm
  <2>2. CASE ~(pc[q] \in Working \/ (pc[q] = "top" /\ step[q] # 0))
    BY <2>2, <1>2 DEF Current, Working, Before, After
  <2>3. QED
    BY <2>1, <2>2
<1>8. Waited(q)'
  <2>1. CASE pc[q] \in {"load1", "load2"}
    <3>2. Operand1(q) \in Tiles /\ Operand2(q) \in Tiles
      BY <2>1, OperandTiles DEF Working
    <3>3. Operand1(q)' = Operand1(q) /\ Operand2(q)' = Operand2(q)
      BY <1>2 DEF Operand1, Operand2
    <3>4. QED
      BY <1>1, <1>2, <1>4, <2>1, <3>2, <3>3 DEF Waited, IsPotrf, IsGemm, Done
  <2>2. CASE pc[q] \notin {"load1", "load2"}
    BY <2>2, <1>1, <1>2
    DEF Waited, IsPotrf, IsGemm, Done, Operand1, Operand2
  <2>3. QED
    BY <2>1, <2>2
<1>9. QED
  BY <1>5, <1>6, <1>7, <1>8

\* The part of the invariant that is about rank r alone.
Own4(r) == Walk(r) /\ Ahead(r) /\ Current(r) /\ Waited(r)

\* A step of a running rank keeps the invariant when it keeps the rank's own
\* part, and publishes nothing unless it is the step that does.
LEMMA Combine ==
  ASSUME IInv, NEW r \in Ranks, pc[r] \in Running, StepOf(r),
         pc'[r] \in Running, allocated' = allocated, TypeOK', Own4(r)',
         progress' = progress \/ Published'
  PROVE  IInv'
<1>1. InPhase(Running) /\ allocated
  BY AllRunning
<1>2. InPhase(Running)'
  BY <1>1 DEF InPhase, StepOf
<1>3. Phases'
  BY <1>1, <1>2 DEF Phases
<1>4. \A q \in Ranks : Own4(q)'
  BY OthersKeep DEF Own4
<1>5. Published'
  <2>1. CASE progress' = progress
    <3>1. ASSUME NEW t \in Tiles, progress'[t] = 1
          PROVE  Done(host'[t], t) \/ (abort' /\ host'[t] = Garbage)
      <4>1. progress[t] = 1
        BY <2>1, <3>1
      <4>2. host'[t] = host[t]
        BY <4>1, PublishedStays
      <4>3. Done(host[t], t) \/ (abort /\ host[t] = Garbage)
        BY <1>1, <4>1 DEF IInv, Published
      <4>4. abort => abort'
        BY DEF StepOf
      <4>5. QED
        BY <4>2, <4>3, <4>4 DEF Done
    <3>2. QED
      BY <3>1 DEF Published, Done
  <2>2. QED
    BY <2>1
<1>6. QED
  BY <1>3, <1>4, <1>5 DEF IInv, Own4

\* Steps that change only the control of rank r (and its device buffers).
LEMMA ControlStep ==
  ASSUME IInv, NEW r \in Ranks,
         \/ Top(r) \/ WaitFirst(r) \/ WaitSecond(r)
         \/ LoadTile(r) \/ LoadFirst(r) \/ LoadSecond(r) \/ Kernel(r)
  PROVE  IInv'
<1> DEFINE tests == Top(r) \/ WaitFirst(r) \/ WaitSecond(r)
<1>0. TypeOK /\ Walk(r) /\ Ahead(r) /\ Current(r) /\ Waited(r) /\ Published
  BY DEF IInv
<1>1. pc[r] \in Running /\ pc'[r] \in Running /\ StepOf(r)
      /\ progress' = progress /\ host' = host /\ abort' = abort
      /\ allocated' = allocated
      /\ row' = row /\ col' = col /\ step' = step
  BY <1>0 DEF Top, WaitFirst, WaitSecond, CondWait, LoadTile, LoadFirst,
     LoadSecond, Kernel, Goto, StepOf, Running, Working, TypeOK, work, bufs,
     shared
<1>2. InPhase(Running)
  BY <1>1, AllRunning
<1>3. CASE Top(r)
  <2>1. TypeOK'
    BY <1>0, <1>3 DEF Top, Goto, TypeOK, PC, work, bufs, shared
  <2>2. Walk(r)'
    BY <1>0, <1>1, <1>3
    DEF Top, Goto, TypeOK, Walk, Running, Working
  <2>3. Ahead(r)'
    BY <1>0, <1>1, <1>3
    DEF Top, Goto, TypeOK, Ahead, Beyond, Running, Working
  <2>4. Current(r)'
    <3>1. CASE pc'[r] = "fini_bar"
      BY <3>1 DEF Current, Before, After
    <3>2. CASE pc'[r] = "load"
      <4>1. pc[r] = "top" /\ row[r] < NT
        BY <3>2, <1>0, <1>3 DEF Top, Goto, TypeOK
      <4>2. Mine(r) \in Tiles /\ Own(r, row[r], col[r])
        BY <4>1, OnTile
      <4>3. host[Mine(r)] = step[r] /\ progress[Mine(r)] = 0
        BY <4>1, <4>2, <1>0, <1>1 DEF Ahead, Beyond, Current, Mine
      <4>4. Mine(r)' = Mine(r)
        BY <1>1 DEF Mine
      <4>5. QED
        BY <3>2, <1>1, <4>3, <4>4 DEF Current, Before, After
    <3>3. QED
      BY <3>1, <3>2, <1>0, <1>3 DEF Top, Goto, TypeOK
  <2>5. Waited(r)'
    BY <1>0, <1>3 DEF Top, Goto, TypeOK, Waited
  <2>6. QED
    BY <1>1, <2>1, <2>2, <2>3, <2>4, <2>5, Combine DEF Own4
<1>4. ASSUME WaitFirst(r) \/ WaitSecond(r) PROVE IInv'
  <2>1. TypeOK'
    BY <1>0, <1>4
    DEF WaitFirst, WaitSecond, CondWait, Goto, TypeOK, PC, work, bufs, shared
  <2>2. Walk(r)'
    BY <1>0, <1>1, <1>4
    DEF WaitFirst, WaitSecond, CondWait, Goto, TypeOK, Walk, Running, Working
  <2>3. Ahead(r)'
    BY <1>0, <1>1, <1>4
    DEF WaitFirst, WaitSecond, CondWait, Goto, TypeOK, Ahead, Beyond, Running,
        Working
  <2>4. dst' = dst /\ op1' = op1 /\ op2' = op2 /\ info' = info
    BY <1>4 DEF WaitFirst, WaitSecond, bufs
  <2>5. /\ Mine(r)' = Mine(r) /\ Operand1(r)' = Operand1(r)
        /\ Operand2(r)' = Operand2(r) /\ IsPotrf(r)' = IsPotrf(r)
        /\ IsGemm(r)' = IsGemm(r)
    BY <1>1 DEF Mine, Operand1, Operand2, IsPotrf, IsGemm
  <2>6. Current(r)'
    BY <1>0, <1>1, <1>4, <2>4, <2>5
    DEF WaitFirst, WaitSecond, CondWait, Goto, TypeOK, Current, Before, After
  <2>7. Operand1(r) \in Tiles /\ Operand2(r) \in Tiles
    BY <1>4, OperandTiles DEF WaitFirst, WaitSecond, Working
  <2>8. Waited(r)'
    BY <1>0, <1>1, <1>2, <1>4, <2>4, <2>5, <2>7
    DEF WaitFirst, WaitSecond, CondWait, Goto, TypeOK, Waited, Published, Done
  <2>9. QED
    BY <1>1, <2>1, <2>2, <2>3, <2>6, <2>8, Combine DEF Own4
<1>5. ASSUME LoadTile(r) \/ LoadFirst(r) \/ LoadSecond(r) \/ Kernel(r)
      PROVE  IInv'
  <2>1. pc[r] \in Working /\ pc'[r] \in Working
    BY <1>0, <1>5
    DEF LoadTile, LoadFirst, LoadSecond, Kernel, Goto, Working, TypeOK
  <2>2. Mine(r) \in Tiles /\ Operand1(r) \in Tiles /\ Operand2(r) \in Tiles
    BY <2>1, OnTile, OperandTiles
  <2>3. step[r] + 1 \in Value /\ Garbage \in Value /\ step[r] \in Nat
    <3>1. step[r] =< col[r] /\ col[r] \in Index /\ step[r] \in Nat
      BY <1>0, <1>1, <2>1, OnTile DEF Walk, TypeOK
    <3>2. QED
      BY <3>1, NTAssumption DEF Value, Index
  <2>4. TypeOK'
    <3>1. pc' \in [Ranks -> PC]
      BY <1>0, <1>5
      DEF LoadTile, LoadFirst, LoadSecond, Kernel, Goto, TypeOK, PC
    <3>2. dst' \in [Ranks -> Value] /\ op1' \in [Ranks -> Value]
          /\ op2' \in [Ranks -> Value]
      BY <1>0, <1>5, <2>2, <2>3
      DEF LoadTile, LoadFirst, LoadSecond, Kernel, TypeOK
    <3>3. info' \in [Ranks -> BOOLEAN]
      BY <1>0, <1>5
      DEF LoadTile, LoadFirst, LoadSecond, Kernel, TypeOK
    <3>4. QED
      BY <1>0, <1>1, <1>5, <3>1, <3>2, <3>3
      DEF LoadTile, LoadFirst, LoadSecond, Kernel, TypeOK, shared
  <2>5. /\ Mine(r)' = Mine(r) /\ Operand1(r)' = Operand1(r)
        /\ Operand2(r)' = Operand2(r) /\ IsPotrf(r)' = IsPotrf(r)
        /\ IsGemm(r)' = IsGemm(r)
    BY <1>1 DEF Mine, Operand1, Operand2, IsPotrf, IsGemm
  <2>6. Walk(r)'
    BY <1>0, <1>1, <2>1 DEF Walk, Running, Working
  <2>7. Ahead(r)'
    BY <1>0, <1>1, <2>1 DEF Ahead, Beyond, Running, Working
  <2>8. Current(r)' /\ Waited(r)'
    <3>1. CASE LoadTile(r)
      BY <1>0, <1>1, <2>5, <3>1
      DEF LoadTile, Goto, TypeOK, Current, Waited, Before, After, IsGemm, IsPotrf
    <3>2. CASE LoadFirst(r)
      BY <1>0, <1>1, <2>5, <3>2
      DEF LoadFirst, Goto, TypeOK, Current, Waited, Before, After, Done
    <3>3. CASE LoadSecond(r)
      BY <1>0, <1>1, <2>5, <3>3
      DEF LoadSecond, Goto, TypeOK, Current, Waited, Before, After, Done
    <3>4. CASE Kernel(r)
      <4>1. OperandsGood(r) /\ dst[r] = step[r]
        BY <1>0, <3>4 DEF Kernel, OperandsGood, Waited, Current, Before
      <4>2. PICK broke \in BOOLEAN :
              /\ broke => IsPotrf(r)
              /\ info'[r] = broke
              /\ dst'[r] = IF broke THEN Garbage ELSE step[r] + 1
        BY <1>0, <3>4, <4>1 DEF Kernel, TypeOK
      <4>3. pc'[r] = "store" /\ pc[r] = "kernel"
        BY <1>0, <3>4 DEF Kernel, Goto, TypeOK
      <4>4. QED
        BY <1>0, <1>1, <2>5, <4>2, <4>3
        DEF Current, Waited, Before, After
    <3>5. QED
      BY <1>5, <3>1, <3>2, <3>3, <3>4
  <2>9. QED
    BY <1>1, <2>4, <2>6, <2>7, <2>8, Combine DEF Own4
<1>6. QED
  BY <1>3, <1>4, <1>5

\* Steps that write the shared state: the tile, the status, the abort flag and
\* the progress table, in this order.
LEMMA SharedStep ==
  ASSUME IInv, NEW r \in Ranks,
         StoreTile(r) \/ RequestFail(r) \/ SsAbort(r) \/ Publish(r)
  PROVE  IInv'
<1>0. TypeOK /\ Walk(r) /\ Ahead(r) /\ Current(r) /\ Waited(r) /\ Published
  BY DEF IInv
<1>1. pc[r] \in Working /\ pc'[r] \in Working /\ pc[r] \in Running
      /\ pc'[r] \in Running
  BY <1>0
  DEF StoreTile, RequestFail, SsAbort, Publish, Goto, Running, Working, TypeOK
<1>2. row' = row /\ col' = col /\ step' = step /\ dst' = dst /\ op1' = op1
      /\ op2' = op2 /\ info' = info /\ allocated' = allocated
  BY DEF StoreTile, RequestFail, SsAbort, Publish, work, bufs
<1>3. Mine(r) \in Tiles /\ Own(r, row[r], col[r])
      /\ col[r] \in Index /\ row[r] \in Index
  BY <1>1, OnTile
<1>4. /\ Mine(r)' = Mine(r) /\ Operand1(r)' = Operand1(r)
      /\ Operand2(r)' = Operand2(r) /\ IsPotrf(r)' = IsPotrf(r)
      /\ IsGemm(r)' = IsGemm(r)
  BY <1>2 DEF Mine, Operand1, Operand2, IsPotrf, IsGemm
<1>5. /\ abort => abort'
      /\ \A t \in Tiles : t # Mine(r) =>
            host'[t] = host[t] /\ progress'[t] = progress[t]
      /\ pc[r] \notin {"store", "publish"} => host' = host /\ progress' = progress
  BY <1>0, <1>3 DEF StoreTile, RequestFail, SsAbort, Publish, TypeOK
<1>6. StepOf(r)
  <2>1. \A q \in Ranks \ {r} : pc'[q] = pc[q]
    BY <1>0 DEF StoreTile, RequestFail, SsAbort, Publish, Goto, TypeOK
  <2>2. QED
    BY <2>1, <1>2, <1>5 DEF StepOf
<1>7. TypeOK'
  <2>1. pc' \in [Ranks -> PC]
    BY <1>0 DEF StoreTile, RequestFail, SsAbort, Publish, Goto, TypeOK, PC
  <2>2. host' \in [Tiles -> Value]
    BY <1>0 DEF StoreTile, RequestFail, SsAbort, Publish, TypeOK
  <2>3. progress' \in [Tiles -> {0, 1}]
    BY <1>0 DEF StoreTile, RequestFail, SsAbort, Publish, TypeOK
  <2>4. abort' \in BOOLEAN
    BY <1>0 DEF StoreTile, RequestFail, SsAbort, Publish, TypeOK
  <2>5. status' \in 0 .. NT + 1
    <3>1. Failed(col[r]) \in 0 .. NT + 1
      BY <1>3, NTAssumption DEF Failed, Index
    <3>2. QED
      BY <1>0, <3>1 DEF StoreTile, RequestFail, SsAbort, Publish, TypeOK
  <2>6. calls' = calls
    BY DEF StoreTile, RequestFail, SsAbort, Publish
  <2>7. QED
    BY <1>0, <1>2, <2>1, <2>2, <2>3, <2>4, <2>5, <2>6 DEF TypeOK
<1>8. Walk(r)'
  BY <1>0, <1>1, <1>2 DEF Walk, Running, Working
<1>9. Ahead(r)'
  <2>1. ASSUME NEW t \in Tiles,
               Number2(t[1], t[2]) > Number2(row[r], col[r])
        PROVE  t # Mine(r)
    <3>1. Number2(row[r], col[r]) \in Int
      BY <1>0, NumberInt DEF TypeOK
    <3>2. QED
      BY <2>1, <3>1 DEF Mine
  <2>2. ASSUME NEW t \in Tiles, Own(r, t[1], t[2]), Beyond(r, t)'
        PROVE  host'[t] = 0 /\ progress'[t] = 0
    <3>1. Number2(t[1], t[2]) > Number2(row[r], col[r])
      BY <2>2, <1>1, <1>2 DEF Beyond, Working
    <3>2. host[t] = 0 /\ progress[t] = 0
      BY <1>0, <1>1, <2>2, <3>1 DEF Ahead, Beyond
    <3>3. QED
      BY <1>5, <2>1, <3>1, <3>2
  <2>3. QED
    BY <2>2 DEF Ahead
<1>10. Current(r)' /\ Waited(r)'
  <2>1. CASE StoreTile(r)
    <3>1. host'[Mine(r)] = dst[r] /\ progress' = progress /\ pc[r] = "store"
          /\ pc'[r] = CASE info[r] -> "fail"
                      [] step[r] = col[r] /\ ~info[r] -> "publish"
                      [] OTHER -> "next"
      BY <1>0, <1>3, <2>1 DEF StoreTile, Goto, TypeOK
    <3>2. CASE info[r]
      <4>1. pc'[r] = "fail"
        BY <3>1, <3>2
      <4>2. QED
        BY <1>0, <1>2, <1>4, <3>1, <3>2, <4>1
        DEF Current, Waited, Before, After, IsPotrf
    <3>3. CASE ~info[r] /\ step[r] = col[r]
      <4>1. pc'[r] = "publish"
        BY <3>1, <3>3
      <4>2. QED
        BY <1>0, <1>2, <1>4, <3>1, <3>3, <4>1 DEF Current, Waited, Before, After
    <3>4. CASE ~info[r] /\ step[r] # col[r]
      <4>1. pc'[r] = "next"
        BY <3>1, <3>4
      <4>2. QED
        BY <1>0, <1>2, <1>4, <3>1, <3>4, <4>1 DEF Current, Waited, Before, After
    <3>5. QED
      BY <3>2, <3>3, <3>4
  <2>2. CASE RequestFail(r)
    BY <1>0, <1>2, <1>4, <2>2
    DEF RequestFail, Goto, TypeOK, Current, Waited, Before, After
  <2>3. CASE SsAbort(r)
    BY <1>0, <1>2, <1>4, <2>3
    DEF SsAbort, Goto, TypeOK, Current, Waited, Before, After
  <2>4. CASE Publish(r)
    BY <1>0, <1>2, <1>4, <2>4
    DEF Publish, Goto, TypeOK, Current, Waited, Before, After
  <2>5. QED
    BY <2>1, <2>2, <2>3, <2>4
<1>11. progress' = progress \/ Published'
  <2>1. CASE Publish(r)
    <3>1. InPhase(Running) /\ host' = host /\ abort' = abort
      BY <1>1, <2>1, AllRunning DEF Publish
    <3>2. Done(host[Mine(r)], Mine(r)) \/ (abort /\ host[Mine(r)] = Garbage)
      BY <1>0, <2>1 DEF Publish, Current, After, Done, Mine
    <3>3. ASSUME NEW t \in Tiles, progress'[t] = 1
          PROVE  Done(host[t], t) \/ (abort /\ host[t] = Garbage)
      BY <1>0, <1>5, <3>1, <3>2, <3>3 DEF Published
    <3>4. QED
      BY <3>1, <3>3 DEF Published, Done
  <2>2. QED
    BY <2>1 DEF StoreTile, RequestFail, SsAbort
<1>12. QED
  BY <1>1, <1>2, <1>6, <1>7, <1>8, <1>9, <1>10, <1>11, Combine DEF Own4

\* Steps of the walk: the start tile, the next step or tile, the carries.
LEMMA WalkStep ==
  ASSUME IInv, NEW r \in Ranks, StartTile(r) \/ NextStep(r) \/ Roll(r)
  PROVE  IInv'
<1>0. TypeOK /\ Walk(r) /\ Ahead(r) /\ Current(r) /\ Waited(r) /\ Published
  BY DEF IInv
<1>1. pc[r] \in Running /\ pc'[r] \in {"start", "roll", "top"}
      /\ pc'[r] \in Running
  BY <1>0
  DEF StartTile, NextStep, Roll, Carry, Goto, Running, Working, TypeOK
<1>2. /\ UNCHANGED <<bufs, shared>>
      /\ \A q \in Ranks \ {r} : /\ pc'[q] = pc[q]
                               /\ row'[q] = row[q] /\ col'[q] = col[q]
                               /\ step'[q] = step[q]
  BY <1>0 DEF StartTile, NextStep, Roll, Carry, Goto, TypeOK
<1>3. StepOf(r)
  BY <1>2 DEF StepOf, bufs, shared
<1>4. row[r] \in Nat /\ col[r] \in Nat /\ step[r] \in Nat /\ row[r] >= col[r]
      /\ Own(r, row[r], col[r]) /\ Number2(row[r], col[r]) \in Int
  BY <1>0, <1>1, NumberInt DEF TypeOK, Walk
<1>5. ASSUME row'[r] \in Nat, col'[r] \in Nat, row'[r] >= col'[r],
             step'[r] \in Nat, TypeOK',
             Own(r, row'[r], col'[r]),
             pc'[r] = "top" /\ step'[r] # 0 =>
                /\ row'[r] < NT /\ step'[r] =< col'[r]
                /\ host[Mine(r)'] = step'[r] /\ progress[Mine(r)'] = 0,
             pc'[r] = "roll" => step'[r] = 0,
             \A t \in Tiles : Own(r, t[1], t[2]) /\ Beyond(r, t)' =>
                host[t] = 0 /\ progress[t] = 0
      PROVE  IInv'
  <2>1. Walk(r)'
    BY <1>1, <1>5 DEF Walk, Working
  <2>2. Ahead(r)'
    BY <1>2, <1>5 DEF Ahead, shared
  <2>3. Current(r)'
    BY <1>1, <1>2, <1>5 DEF Current, Before, After, shared
  <2>4. Waited(r)'
    BY <1>1 DEF Waited
  <2>5. QED
    BY <1>1, <1>2, <1>3, <1>5, <2>1, <2>2, <2>3, <2>4, Combine DEF Own4, shared
<1>6. ASSUME Carry(r), step' = step, pc' = pc, pc[r] \in {"start", "roll"}
      PROVE  IInv'
  <2>1. /\ row'[r] = row[r] - NT + col[r] + 1 /\ col'[r] = col[r] + 1
        /\ row[r] >= NT
    BY <1>0, <1>6 DEF Carry, TypeOK
  <2>2. row'[r] \in Nat /\ col'[r] \in Nat /\ row'[r] >= col'[r]
    BY <1>4, <2>1, NTAssumption
  <2>3. Number2(row'[r], col'[r]) = Number2(row[r], col[r])
    BY <1>4, <2>1, CarryKeeps
  <2>4. Own(r, row'[r], col'[r])
    BY <1>4, <2>3 DEF Own
  <2>5. TypeOK'
    BY <1>0, <1>2, <1>6, <2>2 DEF Carry, TypeOK, bufs, shared
  <2>6. \A t \in Tiles : Beyond(r, t)' => Beyond(r, t)
    BY <1>6, <2>3 DEF Beyond
  <2>7. \A t \in Tiles : Own(r, t[1], t[2]) /\ Beyond(r, t)' =>
                host[t] = 0 /\ progress[t] = 0
    BY <1>0, <1>1, <2>6 DEF Ahead
  <2>8. pc'[r] = "roll" => step'[r] = 0
    BY <1>0, <1>1, <1>6 DEF Walk
  <2>9. QED
    BY <1>4, <1>5, <1>6, <2>2, <2>4, <2>5, <2>7, <2>8
<1>7. CASE StartTile(r)
  <2>1. CASE Carry(r) /\ UNCHANGED <<pc, step>>
    BY <1>6, <1>7, <2>1 DEF StartTile
  <2>2. CASE /\ step' = [step EXCEPT ![r] = 0]
             /\ Goto(r, "top")
             /\ UNCHANGED <<col, row>>
    <3>1. pc[r] = "start" /\ pc'[r] = "top" /\ step'[r] = 0
      BY <1>0, <1>7, <2>2 DEF StartTile, Goto, TypeOK
    <3>2. TypeOK'
      BY <1>0, <1>2, <2>2 DEF Goto, TypeOK, PC, bufs, shared
    <3>3. \A t \in Tiles : Own(r, t[1], t[2]) /\ Beyond(r, t)' =>
                host[t] = 0 /\ progress[t] = 0
      BY <1>0, <1>1, <2>2, <3>1 DEF Ahead, Beyond
    <3>4. QED
      BY <1>4, <1>5, <2>2, <3>1, <3>2, <3>3
  <2>3. QED
    BY <1>7, <2>1, <2>2 DEF StartTile
<1>8. CASE NextStep(r)
  <2>0. pc[r] = "next" /\ UNCHANGED col /\ Mine(r) \in Tiles
        /\ row[r] < NT /\ step[r] =< col[r]
    BY <1>0, <1>8, OnTile DEF NextStep, Working, Walk, Running
  <2>1. CASE step[r] < col[r]
    <3>1. pc'[r] = "top" /\ step'[r] = step[r] + 1 /\ row' = row
      BY <1>0, <1>8, <2>1 DEF NextStep, Goto, TypeOK
    <3>2. Mine(r)' = Mine(r)
      BY <2>0, <3>1 DEF Mine
    <3>3. ~IsPotrf(r) /\ step[r] # col[r]
      BY <1>4, <2>1 DEF IsPotrf
    <3>4. host[Mine(r)] = step[r] + 1 /\ progress[Mine(r)] = 0
      BY <1>0, <2>0, <3>3 DEF Current, After
    <3>5. TypeOK'
      BY <1>0, <1>2, <1>8, <2>1 DEF NextStep, Goto, TypeOK, PC, bufs, shared
    <3>6. \A t \in Tiles : Own(r, t[1], t[2]) /\ Beyond(r, t)' =>
                host[t] = 0 /\ progress[t] = 0
      BY <1>0, <1>1, <1>4, <2>0, <3>1 DEF Ahead, Beyond
    <3>7. QED
      BY <1>4, <1>5, <2>0, <2>1, <3>1, <3>2, <3>4, <3>5, <3>6
  <2>2. CASE ~(step[r] < col[r])
    <3>1. pc'[r] = "roll" /\ step'[r] = 0 /\ row'[r] = row[r] + SIZE
      BY <1>0, <1>8, <2>2 DEF NextStep, Goto, TypeOK
    <3>2. Own(r, row'[r], col'[r])
          /\ Number2(row'[r], col'[r]) = Number2(row[r], col[r]) + 2 * SIZE
      BY <1>4, <2>0, <3>1, StrideOwn
    <3>3. TypeOK'
      BY <1>0, <1>2, <1>8, <2>2, SizeAssumption
      DEF NextStep, Goto, TypeOK, PC, bufs, shared
    <3>4. ASSUME NEW t \in Tiles, Beyond(r, t)'
          PROVE  Number2(t[1], t[2]) > Number2(row[r], col[r])
      <4>1. Number2(t[1], t[2]) \in Int
        BY NumberInt, NTAssumption DEF Tiles, Index
      <4>2. QED
        BY <1>4, <2>0, <3>1, <3>2, <3>4, <4>1, SizeAssumption DEF Beyond
    <3>5. \A t \in Tiles : Own(r, t[1], t[2]) /\ Beyond(r, t)' =>
                host[t] = 0 /\ progress[t] = 0
      BY <1>0, <1>1, <3>4 DEF Ahead, Beyond
    <3>6. QED
      BY <1>4, <1>5, <2>0, <3>1, <3>2, <3>3, <3>5, SizeAssumption
  <2>3. QED
    BY <2>1, <2>2
<1>9. CASE Roll(r)
  <2>1. CASE col[r] < NT /\ Carry(r) /\ UNCHANGED pc
    BY <1>6, <1>9, <2>1 DEF Roll
  <2>2. CASE Goto(r, "top") /\ UNCHANGED <<col, row>>
    <3>1. pc[r] = "roll" /\ pc'[r] = "top" /\ step' = step /\ step[r] = 0
      BY <1>0, <1>1, <1>9, <2>2 DEF Roll, Goto, TypeOK, Walk
    <3>2. TypeOK'
      BY <1>0, <1>2, <2>2, <3>1 DEF Goto, TypeOK, PC, bufs, shared
    <3>3. \A t \in Tiles : Own(r, t[1], t[2]) /\ Beyond(r, t)' =>
                host[t] = 0 /\ progress[t] = 0
      BY <1>0, <1>1, <2>2, <3>1 DEF Ahead, Beyond
    <3>4. QED
      BY <1>4, <1>5, <2>2, <3>1, <3>2, <3>3
  <2>3. QED
    BY <1>9, <2>1, <2>2 DEF Roll
<1>10. QED
  BY <1>7, <1>8, <1>9

\* When no rank is running its part of the invariant asks nothing of it.
LEMMA NotRunning ==
  ASSUME NEW S, \A l \in S : l \notin Running, InPhase(S)', TypeOK', Phases'
  PROVE  IInv'
<1>1. 0 \in Ranks
  BY SizeAssumption DEF Ranks
<1>2. \A r \in Ranks : pc'[r] \notin Running
  BY DEF InPhase
<1>3. ASSUME NEW r \in Ranks
      PROVE  (Walk(r) /\ Ahead(r) /\ Current(r) /\ Waited(r))'
  BY <1>2 DEF Walk, Ahead, Current, Waited, Running, Working, Before, After
<1>4. Published'
  BY <1>1, <1>2 DEF Published, InPhase
<1>5. QED
  BY <1>3, <1>4 DEF IInv

\* Calls, the entry of a rank, ss_init and the end of a call.
LEMMA OutsideStep ==
  ASSUME IInv,
         \/ StartCall \/ RefuseCall \/ FiniBarrier \/ ExitBarrier
         \/ \E r \in Ranks : Enter(r) \/ SsInit(r) \/ FreeTable(r)
  PROVE  IInv'
<1>0. TypeOK /\ Phases /\ 0 \in Ranks /\ 0 \in Value
  BY NTAssumption, SizeAssumption DEF IInv, Ranks, Value
<1>1. CASE StartCall
  <2>1. TypeOK'
    <3>1. status' \in 0 .. NT + 1 /\ calls' \in 0 .. MaxCalls
      BY <1>0, <1>1, NTAssumption, CallsAssumption DEF StartCall, TypeOK, Success
    <3>2. QED
      BY <1>0, <1>1, <3>1 DEF StartCall, TypeOK, PC, work, bufs
  <2>2. InPhase(Entering)' /\ Phases'
    BY <1>0, <1>1 DEF StartCall, Phases, InPhase, Entering
  <2>3. QED
    BY <2>1, <2>2, NotRunning DEF Entering, Running, Working
<1>2. CASE RefuseCall
  <2>1. TypeOK'
    <3>1. status' \in 0 .. NT + 1 /\ calls' \in 0 .. MaxCalls
      BY <1>0, <1>2, NTAssumption, CallsAssumption DEF RefuseCall, TypeOK, Flushed
    <3>2. QED
      BY <1>0, <1>2, <3>1 DEF RefuseCall, TypeOK, PC, work, bufs
  <2>2. InPhase({"idle"})' /\ Phases'
    BY <1>0, <1>2 DEF RefuseCall, Phases, InPhase
  <2>3. QED
    BY <2>1, <2>2, NotRunning DEF Running, Working
<1>3. ASSUME NEW r \in Ranks, Enter(r) PROVE IInv'
  <2>1. InPhase(Entering) /\ status = Success /\ host = [t \in Tiles |-> 0]
        /\ (pc[0] = "init_bar" => allocated /\ progress = [t \in Tiles |-> 0])
    BY <1>0, <1>3
    DEF Enter, Phases, InPhase, Entering, Running, Working, Closing
  <2>2. pc' = [pc EXCEPT ![r] = "init"] /\ UNCHANGED <<work, bufs, shared>>
    BY <1>3, <2>1 DEF Enter, Goto
  <2>3. TypeOK'
    BY <1>0, <2>2 DEF TypeOK, PC, work, bufs, shared
  <2>4. InPhase(Entering)' /\ Phases'
    BY <1>0, <2>1, <2>2 DEF InPhase, Phases, Entering, TypeOK, shared
  <2>5. QED
    BY <2>3, <2>4, NotRunning DEF Entering, Running, Working
<1>4. ASSUME NEW r \in Ranks, SsInit(r) PROVE IInv'
  <2>1. InPhase(Entering) /\ status = Success /\ host = [t \in Tiles |-> 0]
        /\ (pc[0] = "init_bar" => allocated /\ progress = [t \in Tiles |-> 0])
    BY <1>0, <1>4
    DEF SsInit, Phases, InPhase, Entering, Running, Working, Closing
  <2>2. TypeOK'
    BY <1>0, <1>4 DEF SsInit, Goto, TypeOK, PC, work, bufs
  <2>3. pc'[0] = "init_bar" => allocated' /\ progress' = [t \in Tiles |-> 0]
    BY <1>0, <1>4, <2>1 DEF SsInit, Goto, TypeOK
  <2>4. InPhase(Entering)'
    BY <1>0, <1>4, <2>1 DEF SsInit, Goto, InPhase, Entering, TypeOK
  <2>5. status' = Success /\ host' = [t \in Tiles |-> 0]
    BY <1>4, <2>1 DEF SsInit
  <2>6. Phases'
    BY <2>3, <2>4, <2>5 DEF Phases
  <2>7. QED
    BY <2>2, <2>4, <2>6, NotRunning DEF Entering, Running, Working
<1>5. CASE FiniBarrier
  <2>1. TypeOK'
    BY <1>0, <1>5 DEF FiniBarrier, TypeOK, PC, work, bufs, shared
  <2>2. InPhase(Closing)' /\ Phases'
    BY <1>0, <1>5 DEF FiniBarrier, InPhase, Phases, Closing
  <2>3. QED
    BY <2>1, <2>2, NotRunning DEF Closing, Running, Working
<1>6. ASSUME NEW r \in Ranks, FreeTable(r) PROVE IInv'
  <2>1. InPhase(Closing)
    BY <1>0, <1>6
    DEF FreeTable, Phases, InPhase, Entering, Running, Working, Closing
  <2>2. TypeOK'
    BY <1>0, <1>6 DEF FreeTable, Goto, TypeOK, PC, work, bufs
  <2>3. InPhase(Closing)' /\ Phases'
    BY <1>0, <1>6, <2>1 DEF FreeTable, Goto, InPhase, Phases, Closing, TypeOK
  <2>4. QED
    BY <2>2, <2>3, NotRunning DEF Closing, Running, Working
<1>7. CASE ExitBarrier
  <2>1. TypeOK'
    BY <1>0, <1>7 DEF ExitBarrier, TypeOK, PC, work, bufs, shared
  <2>2. InPhase({"idle"})' /\ Phases'
    BY <1>0, <1>7 DEF ExitBarrier, InPhase, Phases
  <2>3. QED
    BY <2>1, <2>2, NotRunning DEF Running, Working
<1>8. QED
  BY <1>1, <1>2, <1>3, <1>4, <1>5, <1>6, <1>7

\* The barrier of ss_init puts every rank at its own start position, with the
\* progress table cleared and the matrix untouched.
LEMMA InitBarrierStep == ASSUME IInv, InitBarrier PROVE IInv'
<1>0. TypeOK /\ Phases /\ 0 \in Ranks
  BY SizeAssumption DEF IInv, Ranks
<1>1. InPhase(Entering) /\ host = [t \in Tiles |-> 0] /\ allocated
      /\ progress = [t \in Tiles |-> 0]
  BY <1>0 DEF InitBarrier, Phases, InPhase, Entering, Running, Working, Closing
<1>2. pc' = [r \in Ranks |-> "start"] /\ col' = [r \in Ranks |-> 0]
      /\ row' = [r \in Ranks |-> r] /\ UNCHANGED <<step, bufs, shared>>
  BY DEF InitBarrier
<1>3. TypeOK'
  BY <1>0, <1>2 DEF TypeOK, PC, bufs, shared, Ranks
<1>4. Phases'
  BY <1>1, <1>2 DEF Phases, InPhase, Running, shared
<1>5. ASSUME NEW r \in Ranks
      PROVE  (Walk(r) /\ Ahead(r) /\ Current(r) /\ Waited(r))'
  <2>1. pc'[r] = "start" /\ row'[r] = r /\ col'[r] = 0 /\ r >= 0
    BY <1>2 DEF Ranks
  <2>2. Walk(r)'
    BY <2>1, StartOwn DEF Walk, Working
  <2>3. Ahead(r)' /\ Current(r)' /\ Waited(r)'
    BY <1>1, <1>2, <2>1 DEF Ahead, Current, Waited, Before, After, shared
  <2>4. QED
    BY <2>2, <2>3
<1>6. Published'
  BY <1>1, <1>2 DEF Published, shared
<1>7. QED
  BY <1>3, <1>4, <1>5, <1>6 DEF IInv
-----------------------------------------------------------------------------
\* IInv is an inductive invariant of the static schedule.
THEOREM Inductive == Spec => []IInv
<1>1. Init => IInv
  BY Initial
<1>2. IInv /\ [Next]_vars => IInv'
  <2>1. SUFFICES ASSUME IInv, [Next]_vars PROVE IInv'
    OBVIOUS
  <2>2. CASE UNCHANGED vars
    BY <2>1, <2>2
    DEF IInv, vars, work, bufs, shared, TypeOK, Phases, InPhase, Walk, Ahead,
        Beyond, Current, Waited, Published, Mine, Operand1, Operand2, IsPotrf,
        IsGemm
  <2>3. ASSUME NEW r \in Ranks, Rank(r) PROVE IInv'
    BY <2>1, <2>3, OutsideStep, WalkStep, SharedStep, ControlStep DEF Rank
  <2>4. CASE StartCall \/ RefuseCall \/ Barriers
    BY <2>1, <2>4, OutsideStep, InitBarrierStep DEF Barriers
  <2>5. QED
    BY <2>1, <2>2, <2>3, <2>4 DEF Next
<1>3. QED
  BY <1>1, <1>2, PTL DEF Spec

\* Every variable keeps its type: in particular the coordinates of the walk
\* never become negative, whatever the number of ranks and tiles.
THEOREM TypeCorrect == Spec => []TypeOK
<1>1. IInv => TypeOK
  BY DEF IInv
<1>2. QED
  BY <1>1, Inductive, PTL

\* Two ranks never work on the same tile.
THEOREM OneOwnerHolds == Spec => []OneOwner
<1>1. IInv => OneOwner
  <2>1. SUFFICES ASSUME IInv, NEW r \in Ranks, NEW s \in Ranks,
                        pc[r] \in Working, pc[s] \in Working,
                        Mine(r) = Mine(s)
                 PROVE  r = s
    BY DEF OneOwner
  <2>2. Own(r, row[r], col[r]) /\ Own(s, row[s], col[s])
    BY <2>1, OnTile
  <2>3. row[r] = row[s] /\ col[r] = col[s]
    BY <2>1 DEF Mine
  <2>4. QED
    BY <2>2, <2>3, OwnUnique
<1>2. QED
  BY <1>1, Inductive, PTL

\* Every kernel runs on finished operands and on a tile that carries exactly
\* the updates of the earlier panels.
THEOREM KernelInputsHold == Spec => []KernelInputs
<1>1. IInv => KernelInputs
  BY DEF IInv, KernelInputs, Current, Waited, OperandsGood, Before, IsGemm, IsPotrf
<1>2. QED
  BY <1>1, Inductive, PTL

\* Nobody waits on or sets a cell of a progress table that is not there.
THEOREM TableLiveHolds == Spec => []TableLive
<1>1. IInv => TableLive
  BY AllRunning DEF TableLive, Running, Working
<1>2. QED
  BY <1>1, Inductive, PTL

\* A published panel that failed is always accompanied by the abort flag.
THEOREM FailureShadowedHolds == Spec => []FailureShadowed
<1>1. IInv => FailureShadowed
  <2>1. SUFFICES ASSUME IInv, NEW k \in Index, progress[<<k, k>>] = 1,
                        host[<<k, k>>] = Garbage, NEW r \in Ranks,
                        pc[r] \in Working \cup {"top", "roll"}
                 PROVE  abort
    BY DEF FailureShadowed
  <2>2. InPhase(Running)
    BY <2>1, AllRunning DEF Running
  <2>3. <<k, k>> \in Tiles
    BY NTAssumption DEF Tiles, Index
  <2>4. ~Done(Garbage, <<k, k>>)
    BY <2>3 DEF Done, Garbage, Index
  <2>5. QED
    BY <2>1, <2>2, <2>3, <2>4 DEF IInv, Published
<1>2. QED
  BY <1>1, Inductive, PTL
-----------------------------------------------------------------------------
(* The refinement of TileCholesky                                          *)

Final(t) == Done(host[t], t) \/ host[t] = Garbage

\* What rank r has waited for is finished, until its task is stored.
Fresh(r) ==
  /\ pc[r] \in {"load1", "wait2", "load2", "kernel", "store"} /\ ~IsPotrf(r) =>
       progress[Operand1(r)] = 1 /\ Done(host[Operand1(r)], Operand1(r))
  /\ pc[r] \in {"load2", "kernel", "store"} /\ IsGemm(r) =>
       progress[Operand2(r)] = 1 /\ Done(host[Operand2(r)], Operand2(r))

\* A rank leaves the task loop behind the triangle, or on an abort.
Left(r) ==
  /\ pc[r] \in Running \ {"start"} => col[r] =< NT
  /\ pc[r] = "top" => row[r] < NT \/ col[r] = NT
  /\ pc[r] = "fini_bar" => abort \/ col[r] = NT

\* No tile of rank r's share is left out.
Covered(r) ==
  pc[r] \in Running /\ ~abort =>
    \A t \in Tiles : Own(r, t[1], t[2]) =>
      \/ Final(t)
      \/ Beyond(r, t)
      \/ /\ t = Mine(r)
         /\ pc[r] \in Working \/ (pc[r] = "top" /\ step[r] # 0)

OfRank(r) == Fresh(r) /\ Left(r) /\ Covered(r)

\* Only a factorization fails.
Diagonal == \A t \in Tiles : host[t] = Garbage => t[1] = t[2]

\* The tasks that a tile has had found their operands finished.
Sound ==
  \A t \in Tiles : \A n \in 0 .. t[2] :
    n < host[t] \/ (host[t] = Garbage /\ n < t[2]) =>
      \A o \in Abstract!Operands(t, n) : Done(host[o], o)

BrokeDown == \E k \in Index : host[<<k, k>>] = Garbage

\* The abort flag is up only when a panel has failed.
Aborts ==
  /\ abort /\ InPhase(Running) => BrokeDown
  /\ abort /\ InPhase(Entering) => \A r \in Ranks : pc[r] # "init_bar"

\* A status that names a panel is true, and a failed panel is reported.
Told == \A k \in Index : status = Failed(k) => host[<<k, k>>] = Garbage

Reported ==
  InPhase(Running) \/ InPhase(Closing) =>
    \A k \in Index : host[<<k, k>>] = Garbage =>
      \/ status # Success
      \/ \E r \in Ranks : pc[r] = "fail" /\ Mine(r) = <<k, k>>

\* When the ranks have met at the end of a call, the matrix is settled.
Over ==
  /\ InPhase(Closing) => Abstract!Settled
  /\ InPhase({"idle"}) => Abstract!Settled \/ host = [t \in Tiles |-> 0]

RInv == /\ \A r \in Ranks : OfRank(r)
        /\ Diagonal
        /\ Sound
        /\ Aborts
        /\ Told
        /\ Reported
        /\ Over
-----------------------------------------------------------------------------
(* The steps of a running rank                                             *)

\* What a step of a running rank leaves alone.
LEMMA RunningRank ==
  ASSUME IInv, NEW r \in Ranks, Rank(r), pc[r] \in Running
  PROVE  /\ StepOf(r)
         /\ pc'[r] \in Running
         /\ host' = host \/ StoreTile(r)
         /\ status' = status \/ RequestFail(r)
         /\ abort' = abort \/ SsAbort(r)
<1>0. TypeOK
  BY DEF IInv
<1> USE DEF StepOf, Goto, work, bufs, shared, Running, Working
<1>1. CASE Top(r) \/ WaitFirst(r) \/ WaitSecond(r)
  BY <1>0, <1>1 DEF Top, WaitFirst, WaitSecond, CondWait, TypeOK
<1>2. CASE LoadTile(r) \/ LoadFirst(r) \/ LoadSecond(r) \/ Kernel(r)
  BY <1>0, <1>2 DEF LoadTile, LoadFirst, LoadSecond, Kernel, TypeOK
<1>3. CASE StoreTile(r)
  BY <1>0, <1>3 DEF StoreTile, TypeOK
<1>4. CASE RequestFail(r) \/ SsAbort(r)
  BY <1>0, <1>4 DEF RequestFail, SsAbort, TypeOK
<1>5. CASE Publish(r)
  BY <1>0, <1>5 DEF Publish, TypeOK
<1>6. CASE NextStep(r) \/ Roll(r) \/ StartTile(r)
  BY <1>0, <1>6 DEF NextStep, Roll, StartTile, Carry, TypeOK
<1>7. CASE Enter(r) \/ SsInit(r) \/ FreeTable(r)
  BY <1>7 DEF Enter, SsInit, FreeTable
<1> QED
  BY <1>1, <1>2, <1>3, <1>4, <1>5, <1>6, <1>7 DEF Rank

\* The other ranks keep their part.
LEMMA OthersOf ==
  ASSUME IInv, NEW r \in Ranks, pc[r] \in Running, StepOf(r),
         NEW q \in Ranks, q # r, OfRank(q)
  PROVE  OfRank(q)'
<1>0. InPhase(Running) /\ pc[q] \in Running
  BY AllRunning DEF InPhase
<1>1. /\ pc'[q] = pc[q]
      /\ row'[q] = row[q] /\ col'[q] = col[q] /\ step'[q] = step[q]
      /\ abort => abort'
  BY DEF StepOf
<1>2. Mine(q)' = Mine(q) /\ Operand1(q)' = Operand1(q)
      /\ Operand2(q)' = Operand2(q) /\ IsPotrf(q)' = IsPotrf(q)
      /\ IsGemm(q)' = IsGemm(q)
  BY <1>1 DEF Mine, Operand1, Operand2, IsPotrf, IsGemm
<1>3. Fresh(q)'
  <2>1. CASE pc[q] \in Working
    <3>1. Operand1(q) \in Tiles /\ Operand2(q) \in Tiles
      BY <2>1, OperandTiles
    <3>2. ASSUME NEW t \in Tiles, progress[t] = 1
          PROVE  host'[t] = host[t] /\ progress'[t] = progress[t]
      BY <3>2, PublishedStays
    <3> QED
      BY <1>1, <1>2, <3>1, <3>2 DEF OfRank, Fresh, Done
  <2>2. CASE pc[q] \notin Working
    BY <1>1, <2>2 DEF Fresh, Working
  <2> QED
    BY <2>1, <2>2
<1>4. Left(q)'
  BY <1>1 DEF OfRank, Left
<1>5. Covered(q)'
  <2>1. ASSUME NEW t \in Tiles, Own(q, t[1], t[2])
        PROVE  host'[t] = host[t]
    <3>1. SUFFICES ASSUME pc[r] \in {"store", "publish"}, t = Mine(r)
                   PROVE  FALSE
      BY DEF StepOf
    <3>2. Own(r, t[1], t[2])
      BY <3>1, OnTile DEF Working, Mine
    <3> QED
      BY <3>2, <2>1, OwnUnique
  <2>2. ASSUME NEW t \in Tiles PROVE Beyond(q, t)' = Beyond(q, t)
    BY <1>1 DEF Beyond
  <2> QED
    BY <1>1, <1>2, <2>1, <2>2 DEF OfRank, Covered, Final, Done
<1> QED
  BY <1>3, <1>4, <1>5 DEF OfRank

\* What the rank that moves has waited for.
LEMMA FreshOwn ==
  ASSUME IInv, NEW r \in Ranks, Rank(r), pc[r] \in Running, Fresh(r)
  PROVE  Fresh(r)'
<1>0. TypeOK /\ InPhase(Running) /\ Published /\ Current(r)
  BY AllRunning DEF IInv
<1>1. CASE WaitFirst(r) \/ WaitSecond(r)
  <2>1. /\ UNCHANGED <<work, host, progress>>
        /\ \/ pc'[r] = "fini_bar"
           \/ pc[r] = "wait1" /\ pc'[r] = "load1" /\ progress[Operand1(r)] = 1
              /\ ~abort
           \/ pc[r] = "wait2" /\ pc'[r] = "load2" /\ progress[Operand2(r)] = 1
              /\ ~abort
    BY <1>0, <1>1 DEF WaitFirst, WaitSecond, CondWait, Goto, TypeOK, shared
  <2>2. pc[r] \in Working
    BY <1>1 DEF WaitFirst, WaitSecond, Working
  <2>3. Operand1(r) \in Tiles /\ Operand2(r) \in Tiles
    BY <2>2, OperandTiles
  <2>4. ASSUME NEW t \in Tiles, progress[t] = 1, ~abort
        PROVE  Done(host[t], t)
    BY <1>0, <2>4 DEF Published
  <2> QED
    BY <2>1, <2>3, <2>4
    DEF Fresh, Operand1, Operand2, IsPotrf, IsGemm, Done, work
<1>2. CASE LoadFirst(r) \/ LoadSecond(r) \/ Kernel(r)
  <2>1. /\ UNCHANGED <<work, host, progress>>
        /\ \/ pc[r] = "load1" /\ IsGemm(r) /\ pc'[r] = "wait2"
           \/ pc[r] = "load1" /\ ~IsGemm(r) /\ pc'[r] = "kernel"
           \/ pc[r] = "load2" /\ pc'[r] = "kernel"
           \/ pc[r] = "kernel" /\ pc'[r] = "store"
    BY <1>0, <1>2 DEF LoadFirst, LoadSecond, Kernel, Goto, TypeOK, shared
  <2> QED
    BY <2>1 DEF Fresh, Operand1, Operand2, IsPotrf, IsGemm, Done, work
<1>3. CASE LoadTile(r)
  <2>1. pc'[r] = "wait1" \/ (pc'[r] = "kernel" /\ IsPotrf(r)')
    BY <1>0, <1>3 DEF LoadTile, Goto, TypeOK, work, IsPotrf
  <2> QED
    BY <2>1 DEF Fresh, IsGemm, IsPotrf
<1>4. CASE ~(\/ WaitFirst(r) \/ WaitSecond(r) \/ LoadFirst(r) \/ LoadSecond(r)
             \/ Kernel(r) \/ LoadTile(r))
  <2>1. pc'[r] \notin {"load1", "wait2", "load2", "kernel", "store"}
    BY <1>0, <1>4
    DEF Rank, Enter, SsInit, StartTile, Top, StoreTile, RequestFail, SsAbort,
        Publish, NextStep, Roll, FreeTable, Goto, TypeOK, Running, Working
  <2> QED
    BY <2>1 DEF Fresh
<1> QED
  BY <1>1, <1>2, <1>3, <1>4

\* How the rank that moves comes to leave.
LEMMA LeftOwn ==
  ASSUME IInv, NEW r \in Ranks, Rank(r), pc[r] \in Running, Left(r)
  PROVE  Left(r)'
<1>0. TypeOK /\ Walk(r) /\ NT \in Nat
  BY NTAssumption DEF IInv
<1>1. CASE StartTile(r)
  <2>1. \/ pc'[r] = "start"
        \/ /\ pc'[r] = "top"
           /\ row'[r] < NT /\ row'[r] = row[r] /\ col'[r] = col[r]
    BY <1>0, <1>1 DEF StartTile, Goto, Carry, TypeOK
  <2> QED
    BY <1>0, <2>1 DEF Left, Walk, TypeOK, Running
<1>2. CASE Roll(r)
  <2>1. /\ pc[r] = "roll"
        /\ \/ pc'[r] = "roll" /\ col[r] < NT /\ col'[r] = col[r] + 1
           \/ /\ pc'[r] = "top" /\ col'[r] = col[r]
              /\ row'[r] < NT \/ col'[r] >= NT
    BY <1>0, <1>2 DEF Roll, Goto, Carry, TypeOK
  <2> QED
    BY <1>0, <2>1 DEF Left, TypeOK, Running
<1>3. CASE NextStep(r)
  <2>1. /\ pc[r] = "next" /\ col'[r] = col[r]
        /\ pc'[r] = "roll" \/ (pc'[r] = "top" /\ row'[r] = row[r])
    BY <1>0, <1>3 DEF NextStep, Goto, TypeOK
  <2> QED
    BY <1>0, <2>1 DEF Left, Walk, TypeOK, Running, Working
<1>4. CASE Top(r)
  <2>1. /\ pc[r] = "top" /\ col'[r] = col[r] /\ row'[r] = row[r]
        /\ abort' = abort
        /\ pc'[r] = "load" \/ (pc'[r] = "fini_bar" /\
             ~(col[r] < NT /\ row[r] < NT /\ ~abort))
    BY <1>0, <1>4 DEF Top, Goto, TypeOK, work, shared
  <2> QED
    BY <1>0, <2>1 DEF Left, TypeOK, Running
<1>5. CASE WaitFirst(r) \/ WaitSecond(r)
  <2>1. /\ pc[r] \in Working /\ col'[r] = col[r] /\ abort' = abort
        /\ pc'[r] \in {"load1", "load2"} \/ (pc'[r] = "fini_bar" /\ abort)
    BY <1>0, <1>5
    DEF WaitFirst, WaitSecond, CondWait, Goto, TypeOK, work, shared, Working
  <2> QED
    BY <1>0, <2>1 DEF Left, TypeOK, Running, Working
<1>6. CASE \/ LoadTile(r) \/ LoadFirst(r) \/ LoadSecond(r) \/ Kernel(r)
           \/ StoreTile(r) \/ RequestFail(r) \/ SsAbort(r) \/ Publish(r)
  <2>1. pc[r] \in Working /\ pc'[r] \in Working /\ col'[r] = col[r]
    BY <1>0, <1>6
    DEF LoadTile, LoadFirst, LoadSecond, Kernel, StoreTile, RequestFail,
        SsAbort, Publish, Goto, TypeOK, work, Working
  <2> QED
    BY <1>0, <2>1 DEF Left, TypeOK, Running, Working
<1>7. CASE Enter(r) \/ SsInit(r) \/ FreeTable(r)
  BY <1>7 DEF Enter, SsInit, FreeTable, Running, Working
<1> QED
  BY <1>1, <1>2, <1>3, <1>4, <1>5, <1>6, <1>7 DEF Rank

\* The rank that moves leaves out no tile of its share.
LEMMA CoveredOwn ==
  ASSUME IInv, NEW r \in Ranks, Rank(r), pc[r] \in Running, OfRank(r)
  PROVE  Covered(r)'
<1>0. /\ TypeOK /\ Walk(r) /\ Current(r) /\ Left(r) /\ Covered(r)
      /\ NT \in Nat /\ row[r] \in Nat /\ col[r] \in Nat /\ step[r] \in Nat
  BY NTAssumption DEF IInv, OfRank, TypeOK
<1>1. StepOf(r) /\ pc'[r] \in Running /\ (abort => abort')
  BY RunningRank DEF StepOf
<1> SUFFICES ASSUME ~abort', NEW t \in Tiles, Own(r, t[1], t[2])
             PROVE  \/ Final(t)'
                    \/ Beyond(r, t)'
                    \/ /\ t = Mine(r)'
                       /\ pc'[r] \in Working \/ (pc'[r] = "top" /\ step'[r] # 0)
  BY DEF Covered, Own, Number2
<1>2. ~abort
  BY <1>1
<1>3. \/ Final(t)
      \/ Beyond(r, t)
      \/ /\ t = Mine(r)
         /\ pc[r] \in Working \/ (pc[r] = "top" /\ step[r] # 0)
  BY <1>0, <1>2 DEF Covered
<1>4. Number2(t[1], t[2]) \in Int /\ Number2(row[r], col[r]) \in Int
  BY <1>0, NumberInt DEF Tiles, Index
<1>5. CASE \/ LoadTile(r) \/ LoadFirst(r) \/ LoadSecond(r) \/ Kernel(r)
           \/ StoreTile(r) \/ RequestFail(r) \/ SsAbort(r) \/ Publish(r)
           \/ WaitFirst(r) \/ WaitSecond(r)
  <2>1. /\ pc[r] \in Working /\ row' = row /\ col' = col
        /\ pc'[r] \in Working
    BY <1>0, <1>2, <1>5
    DEF LoadTile, LoadFirst, LoadSecond, Kernel, StoreTile, RequestFail,
        SsAbort, Publish, WaitFirst, WaitSecond, CondWait, Goto, TypeOK, work,
        Working
  <2>2. Mine(r)' = Mine(r)
    BY <2>1 DEF Mine
  <2>3. t = Mine(r) \/ host'[t] = host[t]
    BY <1>1 DEF StepOf
  <2>4. Beyond(r, t) => Beyond(r, t)'
    BY <2>1 DEF Beyond, Working
  <2> QED
    BY <1>3, <2>1, <2>2, <2>3, <2>4 DEF Final, Done
<1>6. CASE Top(r)
  <2>1. /\ pc[r] = "top" /\ row' = row /\ col' = col /\ step' = step
        /\ host' = host
        /\ \/ pc'[r] = "load" /\ row[r] < NT
           \/ pc'[r] = "fini_bar" /\ ~(col[r] < NT /\ row[r] < NT)
    BY <1>0, <1>2, <1>6 DEF Top, Goto, TypeOK, work, shared
  <2>2. Mine(r)' = Mine(r) /\ (Final(t) => Final(t)')
    BY <2>1 DEF Mine, Final, Done
  <2>3. CASE pc'[r] = "load" /\ row[r] < NT
    <3>1. Mine(r) \in Tiles
      BY <2>1, <2>3, OnTile
    <3>2. Number2(t[1], t[2]) = Number2(row[r], col[r]) => t = Mine(r)
      BY <3>1, NumberTile DEF Mine
    <3> QED
      BY <1>3, <2>1, <2>2, <2>3, <3>2 DEF Beyond, Working
  <2>4. CASE pc'[r] = "fini_bar" /\ ~(col[r] < NT /\ row[r] < NT)
    <3>1. col[r] = NT /\ row[r] >= NT
      BY <1>0, <2>1, <2>4 DEF Left, Walk, Running
    <3>2. Number2(t[1], t[2]) < Number2(row[r], col[r])
      BY <1>0, <3>1, NoneBeyond
    <3>3. ~Beyond(r, t)
      BY <1>4, <3>2 DEF Beyond
    <3>4. ~(t = Mine(r))
      BY <3>1 DEF Mine, Tiles, Index
    <3> QED
      BY <1>3, <2>2, <3>3, <3>4
  <2> QED
    BY <2>1, <2>3, <2>4
<1>7. CASE NextStep(r)
  <2>1. /\ pc[r] = "next" /\ col' = col /\ host' = host
        /\ Mine(r) \in Tiles /\ row[r] < NT /\ step[r] =< col[r]
        /\ Own(r, row[r], col[r])
    BY <1>0, <1>7, OnTile DEF NextStep, Working, Walk, Running, shared
  <2>2. Final(t) => Final(t)'
    BY <2>1 DEF Final, Done
  <2>3. CASE step[r] < col[r]
    <3>1. pc'[r] = "top" /\ step'[r] = step[r] + 1 /\ row' = row
      BY <1>0, <1>7, <2>3 DEF NextStep, Goto, TypeOK
    <3>2. Mine(r)' = Mine(r) /\ step'[r] # 0
      BY <1>0, <2>1, <3>1 DEF Mine
    <3>3. Beyond(r, t) => Beyond(r, t)'
      BY <2>1, <3>1 DEF Beyond
    <3> QED
      BY <1>3, <2>2, <3>1, <3>2, <3>3
  <2>4. CASE ~(step[r] < col[r])
    <3>1. pc'[r] = "roll" /\ step'[r] = 0 /\ row'[r] = row[r] + SIZE
      BY <1>0, <1>7, <2>4, SizeAssumption DEF NextStep, Goto, TypeOK
    <3>2. Number2(row'[r], col'[r]) = Number2(row[r], col[r]) + 2 * SIZE
      BY <1>0, <2>1, <3>1, StrideOwn
    <3>3. Beyond(r, t) => Number2(t[1], t[2]) > Number2(row[r], col[r])
      BY <2>1 DEF Beyond
    <3>4. Beyond(r, t) =>
            Number2(t[1], t[2]) >= Number2(row[r], col[r]) + 2 * SIZE
      BY <2>1, <3>3, StrideGap
    <3>5. Beyond(r, t) => Beyond(r, t)'
      BY <1>4, <3>1, <3>2, <3>4, SizeAssumption DEF Beyond
    <3>6. step[r] = col[r] /\ col[r] = Mine(r)[2]
      BY <1>0, <2>1, <2>4 DEF Mine
    <3>7. Final(Mine(r))
      BY <1>0, <2>1, <3>6 DEF Current, After, Final, Done
    <3> QED
      BY <1>3, <2>2, <3>5, <3>7
  <2> QED
    BY <2>3, <2>4
<1>8. CASE StartTile(r) \/ Roll(r)
  <2>1. /\ pc[r] \in {"start", "roll"} /\ host' = host
        /\ pc'[r] = pc[r] \/ pc'[r] = "top"
        /\ (row'[r] = row[r] /\ col'[r] = col[r])
             \/ (/\ row[r] >= NT /\ row'[r] = row[r] - NT + col[r] + 1
                 /\ col'[r] = col[r] + 1)
        /\ pc[r] = "roll" => step' = step
        /\ pc[r] = "start" /\ pc'[r] = "top" => step'[r] = 0
    BY <1>0, <1>8 DEF StartTile, Roll, Carry, Goto, TypeOK, shared, bufs
  <2>2. pc[r] = "roll" => step[r] = 0
    BY <1>0 DEF Walk, Running
  <2>3. Number2(row'[r], col'[r]) = Number2(row[r], col[r])
    BY <1>0, <2>1, CarryKeeps
  <2>4. Beyond(r, t) => Beyond(r, t)'
    BY <2>1, <2>2, <2>3 DEF Beyond
  <2>5. Final(t) => Final(t)'
    BY <2>1 DEF Final, Done
  <2> QED
    BY <1>3, <2>1, <2>4, <2>5 DEF Working
<1>9. CASE Enter(r) \/ SsInit(r) \/ FreeTable(r)
  BY <1>9 DEF Enter, SsInit, FreeTable, Running, Working
<1> QED
  BY <1>5, <1>6, <1>7, <1>8, <1>9 DEF Rank

\* A tile that a step stores is no operand that has been found finished.
LEMMA StoreFacts ==
  ASSUME IInv, RInv, NEW r \in Ranks, StoreTile(r)
  PROVE  /\ Mine(r) \in Tiles
         /\ col[r] \in Index /\ row[r] \in Index /\ col[r] =< row[r]
         /\ step[r] \in Nat /\ step[r] =< col[r]
         /\ host[Mine(r)] = step[r]
         /\ host' = [host EXCEPT ![Mine(r)] = dst[r]]
         /\ dst[r] = IF info[r] THEN Garbage ELSE step[r] + 1
         /\ info[r] \in BOOLEAN /\ (info[r] => IsPotrf(r))
         /\ ~Done(host[Mine(r)], Mine(r)) /\ host[Mine(r)] # Garbage
         /\ \A o \in Abstract!Operands(Mine(r), step[r]) : Done(host[o], o)
<1>1. pc[r] = "store" /\ TypeOK /\ Walk(r) /\ Current(r) /\ Fresh(r)
  BY DEF StoreTile, IInv, RInv, OfRank
<1>2. Mine(r) \in Tiles /\ col[r] \in Index /\ row[r] \in Index
  BY <1>1, OnTile DEF Working
<1>3. step[r] \in Nat /\ step[r] =< col[r] /\ col[r] =< row[r]
  BY <1>1 DEF TypeOK, Walk, Running, Working
<1>4. /\ host[Mine(r)] = step[r]
      /\ dst[r] = IF info[r] THEN Garbage ELSE step[r] + 1
      /\ info[r] => IsPotrf(r)
  BY <1>1 DEF Current, Before
<1>5. host' = [host EXCEPT ![Mine(r)] = dst[r]] /\ info[r] \in BOOLEAN
  BY <1>1 DEF StoreTile, TypeOK
<1>6. ~Done(host[Mine(r)], Mine(r)) /\ host[Mine(r)] # Garbage
  BY <1>2, <1>3, <1>4 DEF Done, Mine, Garbage, Index
<1>7. ASSUME NEW o \in Abstract!Operands(Mine(r), step[r])
      PROVE  Done(host[o], o)
  <2>1. CASE IsPotrf(r)
    BY <1>7, <2>1 DEF Abstract!Operands, Mine, IsPotrf
  <2>2. CASE ~IsPotrf(r) /\ step[r] = col[r]
    <3>1. o = Operand1(r)
      BY <1>7, <2>2 DEF Abstract!Operands, Mine, Operand1
    <3> QED
      BY <1>1, <2>2, <3>1 DEF Fresh
  <2>3. CASE step[r] # col[r]
    <3>1. o = Operand1(r) \/ o = Operand2(r)
      BY <1>7, <2>3 DEF Abstract!Operands, Mine, Operand1, Operand2
    <3>2. ~IsPotrf(r) /\ (~IsGemm(r) => Operand1(r) = Operand2(r))
      BY <2>3 DEF IsPotrf, IsGemm, Operand1, Operand2
    <3> QED
      BY <1>1, <3>1, <3>2 DEF Fresh
  <2> QED
    BY <2>1, <2>2, <2>3
<1> QED
  BY <1>2, <1>3, <1>4, <1>5, <1>6, <1>7

\* Storing a tile is a task, or a breakdown, of the abstract algorithm.
LEMMA StoreStep ==
  ASSUME IInv, RInv, NEW r \in Ranks, StoreTile(r)
  PROVE  Abstract!Next
<1>0. NT \in Nat /\ Mine(r) \in Abstract!Tiles /\ col[r] \in Abstract!Index
  BY NTAssumption, StoreFacts DEF Abstract!Tiles, Abstract!Index, Tiles, Index
<1>1. Abstract!Ready(Mine(r))
  <2>1. host[Mine(r)] \in 0 .. Mine(r)[2]
    BY StoreFacts DEF Mine, Index
  <2>2. ASSUME NEW o \in Abstract!Operands(Mine(r), host[Mine(r)])
        PROVE  Abstract!Finished(host[o], o)
    BY <2>2, StoreFacts DEF Abstract!Finished, Done
  <2> QED
    BY <2>1, <2>2 DEF Abstract!Ready
<1>2. CASE ~info[r]
  <2>1. host' = [host EXCEPT ![Mine(r)] = host[Mine(r)] + 1]
    BY <1>2, StoreFacts
  <2>2. Abstract!Task(Mine(r))
    BY <1>1, <2>1 DEF Abstract!Task
  <2> QED
    BY <1>0, <2>2 DEF Abstract!Next
<1>3. CASE info[r]
  <2>1. Mine(r) = <<col[r], col[r]>> /\ step[r] = col[r]
    BY <1>3, StoreFacts DEF IsPotrf, Mine
  <2>2. host' = [host EXCEPT ![<<col[r], col[r]>>] = Abstract!Garbage]
    BY <1>3, <2>1, StoreFacts DEF Garbage, Abstract!Garbage
  <2>3. host[<<col[r], col[r]>>] = col[r]
    BY <2>1, StoreFacts
  <2>4. Abstract!Breakdown(col[r])
    BY <1>1, <2>1, <2>2, <2>3 DEF Abstract!Breakdown
  <2> QED
    BY <1>0, <2>4 DEF Abstract!Next
<1> QED
  BY <1>2, <1>3, StoreFacts

\* A step of a running rank keeps what is said of the whole matrix.
LEMMA MatrixStep ==
  ASSUME IInv, RInv, NEW r \in Ranks, Rank(r), pc[r] \in Running
  PROVE  /\ Diagonal' /\ Sound'
         /\ \A t \in Tiles : host[t] = Garbage => host'[t] = Garbage
         /\ \A t \in Tiles : host'[t] = Garbage /\ host[t] # Garbage =>
              StoreTile(r) /\ t = Mine(r) /\ info[r]
<1>0. host \in [Tiles -> Value] /\ Diagonal /\ Sound
  BY DEF IInv, TypeOK, RInv
<1>1. CASE host' = host
  BY <1>0, <1>1 DEF Diagonal, Sound, Done
<1>2. CASE StoreTile(r)
  <2>1. /\ Mine(r) \in Tiles
        /\ host'[Mine(r)] = IF info[r] THEN Garbage ELSE step[r] + 1
        /\ \A t \in Tiles : t # Mine(r) => host'[t] = host[t]
        /\ step[r] \in Nat /\ info[r] \in BOOLEAN
        /\ host[Mine(r)] # Garbage /\ step[r] + 1 # Garbage
    BY <1>0, <1>2, StoreFacts DEF Garbage
  <2>2. info[r] => Mine(r)[1] = Mine(r)[2] /\ step[r] = Mine(r)[2]
    BY <1>2, StoreFacts DEF Mine, IsPotrf
  <2>3. Diagonal'
    BY <1>0, <2>1, <2>2 DEF Diagonal
  <2>4. ASSUME NEW o \in Tiles, Done(host[o], o)
        PROVE  Done(host'[o], o)
    <3>1. o # Mine(r)
      BY <1>2, <2>4, StoreFacts
    <3> QED
      BY <2>1, <2>4, <3>1
  <2>5. ASSUME NEW t \in Tiles, NEW n \in 0 .. t[2],
               NEW o \in Abstract!Operands(t, n)
        PROVE  o \in Tiles
    <3>1. /\ t = <<t[1], t[2]>> /\ t[1] \in Index /\ t[2] \in Index
          /\ t[2] =< t[1] /\ n \in Index /\ n =< t[2]
      BY <2>5, NTAssumption DEF Tiles, Index
    <3>2. o \in {<<t[2], t[2]>>, <<t[2], n>>, <<t[1], n>>}
      BY <2>5 DEF Abstract!Operands
    <3> QED
      BY <3>1, <3>2 DEF Tiles, Index
  <2>6. ASSUME NEW t \in Tiles, NEW n \in 0 .. t[2],
               n < host'[t] \/ (host'[t] = Garbage /\ n < t[2]),
               NEW o \in Abstract!Operands(t, n)
        PROVE  Done(host'[o], o)
    <3>1. CASE t # Mine(r)
      BY <1>0, <2>1, <2>4, <2>5, <2>6, <3>1 DEF Sound
    <3>2. CASE t = Mine(r)
      <4>1. n < step[r] \/ n = step[r]
        BY <2>1, <2>2, <2>6, <3>2 DEF Garbage
      <4>2. host[t] = step[r]
        BY <1>2, <3>2, StoreFacts
      <4>3. Done(host[o], o)
        BY <1>0, <1>2, <2>6, <3>2, <4>1, <4>2, StoreFacts DEF Sound
      <4> QED
        BY <2>4, <2>5, <2>6, <4>3
    <3> QED
      BY <3>1, <3>2
  <2>7. Sound'
    BY <2>6 DEF Sound, Done
  <2> QED
    BY <1>0, <1>2, <2>1, <2>3, <2>7
<1> QED
  BY <1>1, <1>2, RunningRank

\* A failed panel that is the tile of rank r lies on the diagonal.
LEMMA FailedPanel ==
  ASSUME IInv, NEW r \in Ranks, pc[r] \in {"fail", "abort"}
  PROVE  /\ col[r] \in Index /\ Mine(r) = <<col[r], col[r]>>
         /\ host[<<col[r], col[r]>>] = Garbage
<1>1. Current(r) /\ col[r] \in Index
  BY OnTile DEF IInv, Working
<1>2. info[r] /\ IsPotrf(r) /\ host[Mine(r)] = Garbage
  BY <1>1 DEF Current, After
<1> QED
  BY <1>1, <1>2 DEF IsPotrf, Mine

\* Every step of a running rank keeps the invariant.
LEMMA RunningKeeps ==
  ASSUME IInv, RInv, NEW r \in Ranks, Rank(r), pc[r] \in Running
  PROVE  RInv'
<1>0. InPhase(Running) /\ InPhase(Running)' /\ 0 \in Ranks
  <2>1. InPhase(Running)
    BY AllRunning
  <2>2. InPhase(Running)'
    BY <2>1, RunningRank DEF InPhase, StepOf
  <2> QED
    BY <2>1, <2>2, SizeAssumption DEF Ranks
<1>1. /\ StepOf(r)
      /\ status' = status \/ RequestFail(r)
      /\ abort' = abort \/ SsAbort(r)
  BY RunningRank
<1>2. ASSUME NEW q \in Ranks PROVE OfRank(q)'
  <2>1. OfRank(q) /\ OfRank(r)
    BY DEF RInv
  <2>2. CASE q # r
    BY <1>1, <2>1, <2>2, OthersOf
  <2>3. OfRank(r)'
    BY <2>1, FreshOwn, LeftOwn, CoveredOwn DEF OfRank
  <2> QED
    BY <2>2, <2>3
<1>3. /\ Diagonal' /\ Sound'
      /\ \A t \in Tiles : host[t] = Garbage => host'[t] = Garbage
      /\ \A t \in Tiles : host'[t] = Garbage /\ host[t] # Garbage =>
           StoreTile(r) /\ t = Mine(r) /\ info[r]
  BY MatrixStep
<1>4. \A k \in Index : <<k, k>> \in Tiles /\ k \in Nat
  BY NTAssumption DEF Tiles, Index
<1>9. RequestFail(r) => col[r] \in Nat /\ status' = Failed(col[r])
  BY <1>4, FailedPanel DEF RequestFail
<1>5. Aborts'
  <2>1. BrokeDown => BrokeDown'
    BY <1>3, <1>4 DEF BrokeDown
  <2>2. SsAbort(r) => BrokeDown
    BY FailedPanel DEF SsAbort, BrokeDown
  <2>3. ~InPhase(Entering)'
    BY <1>0 DEF InPhase, Running, Entering, Working
  <2> QED
    BY <1>0, <1>1, <2>1, <2>2, <2>3 DEF RInv, Aborts
<1>6. Told'
  <2> SUFFICES ASSUME NEW k \in Index, status' = Failed(k)
               PROVE  host'[<<k, k>>] = Garbage
    BY DEF Told, Failed
  <2>1. CASE status' = status
    BY <1>3, <1>4, <2>1 DEF RInv, Told
  <2>2. CASE RequestFail(r)
    <3>1. k = col[r]
      <4>1. k \in Nat
        BY <1>4
      <4>2. col[r] \in Nat /\ k + 1 = col[r] + 1
        BY <1>9, <2>2 DEF Failed
      <4> QED
        BY <4>1, <4>2
    <3> QED
      BY <1>3, <1>4, <2>2, <3>1, FailedPanel DEF RequestFail
  <2> QED
    BY <1>1, <2>1, <2>2
<1>7. Reported'
  <2> SUFFICES ASSUME NEW k \in Index, host'[<<k, k>>] = Garbage,
                      status' = Success
               PROVE  \E q \in Ranks : pc'[q] = "fail" /\ Mine(q)' = <<k, k>>
    BY DEF Reported, Success
  <2>1. status' = status /\ ~RequestFail(r)
    BY <1>1, <1>9 DEF Failed, Success
  <2>2. CASE host[<<k, k>>] = Garbage
    <3>1. PICK q \in Ranks : pc[q] = "fail" /\ Mine(q) = <<k, k>>
      BY <1>0, <2>1, <2>2 DEF RInv, Reported
    <3>2. q # r
      <4> SUFFICES ASSUME pc[r] = "fail" PROVE FALSE
        BY <3>1
      <4>1. RequestFail(r)
        BY DEF Rank, Enter, SsInit, StartTile, Top, LoadTile, WaitFirst,
               LoadFirst, WaitSecond, LoadSecond, Kernel, StoreTile, SsAbort,
               Publish, NextStep, Roll, FreeTable
      <4> QED
        BY <2>1, <4>1
    <3> QED
      BY <1>1, <3>1, <3>2 DEF StepOf, Mine
  <2>3. CASE host[<<k, k>>] # Garbage
    <3>1. StoreTile(r) /\ <<k, k>> = Mine(r) /\ info[r]
      BY <1>3, <1>4, <2>3
    <3>2. pc'[r] = "fail" /\ Mine(r)' = Mine(r)
      <4>1. pc' = [pc EXCEPT ![r] = CASE info[r] -> "fail"
                 [] step[r] = col[r] /\ ~info[r] -> "publish"
                 [] OTHER -> "next"]
            /\ UNCHANGED work
        BY <3>1 DEF StoreTile, Goto
      <4>2. (CASE info[r] -> "fail"
               [] step[r] = col[r] /\ ~info[r] -> "publish"
               [] OTHER -> "next") = "fail"
        BY <3>1
      <4>3. pc \in [Ranks -> PC]
        BY DEF IInv, TypeOK
      <4> QED
        BY <4>1, <4>2, <4>3 DEF work, Mine
    <3> QED
      BY <3>1, <3>2
  <2> QED
    BY <2>2, <2>3
<1>8. Over'
  BY <1>0 DEF Over, InPhase, Running, Working, Closing
<1> QED
  BY <1>2, <1>3, <1>5, <1>6, <1>7, <1>8 DEF RInv
-----------------------------------------------------------------------------
(* The steps outside the task loops                                        *)

\* Ranks outside the task loop claim nothing.
LEMMA NoneRunning ==
  ASSUME NEW S, \A l \in S : l \notin Running, InPhase(S)'
  PROVE  (\A r \in Ranks : OfRank(r)') /\ ~InPhase(Running)'
<1>1. \A r \in Ranks : pc'[r] \notin Running
  BY DEF InPhase
<1>2. 0 \in Ranks
  BY SizeAssumption DEF Ranks
<1> QED
  BY <1>1, <1>2
  DEF InPhase, OfRank, Fresh, Left, Covered, Running, Working

\* The barrier of ss_init: every tile is ahead of its rank, and no abort is
\* left over from an earlier call.
LEMMA InitBarrierKeeps == ASSUME IInv, RInv, InitBarrier PROVE RInv'
<1>0. TypeOK /\ Phases /\ 0 \in Ranks /\ NT \in Nat /\ SIZE \in Nat
  BY NTAssumption, SizeAssumption DEF IInv, Ranks
<1>1. InPhase(Entering) /\ host = [t \in Tiles |-> 0]
  BY <1>0 DEF InitBarrier, Phases, InPhase, Entering, Running, Working, Closing
<1>2. pc' = [r \in Ranks |-> "start"] /\ col' = [r \in Ranks |-> 0]
      /\ row' = [r \in Ranks |-> r] /\ host' = host /\ abort' = abort
      /\ status' = status
  BY DEF InitBarrier, shared
<1>3. ~abort
  BY <1>0, <1>1 DEF RInv, Aborts, InitBarrier
<1>4. ~InPhase(Entering)' /\ ~InPhase(Closing)' /\ ~InPhase({"idle"})'
  BY <1>0, <1>2 DEF InPhase, Entering, Closing
<1>5. ASSUME NEW r \in Ranks PROVE OfRank(r)'
  <2>1. pc'[r] = "start" /\ row'[r] = r /\ col'[r] = 0 /\ r \in Nat
    BY <1>2 DEF Ranks
  <2>2. ASSUME NEW t \in Tiles, Own(r, t[1], t[2]) PROVE Beyond(r, t)'
    <3>1. PICK j \in Nat : Number2(t[1], t[2]) = 2 * r + 2 * (SIZE * j)
      BY <2>2 DEF Own
    <3>2. SIZE * j \in Nat
      BY <1>0
    <3>3. Number2(r, 0) = 2 * r
      BY <1>0, <2>1 DEF Number2
    <3> QED
      BY <2>1, <3>1, <3>2, <3>3 DEF Beyond
  <2>3. Covered(r)'
    BY <2>2 DEF Covered, Own, Number2
  <2> QED
    BY <2>1, <2>3 DEF OfRank, Fresh, Left
<1>6. \A k \in Index : host'[<<k, k>>] # Garbage
  BY <1>1, <1>2 DEF Tiles, Index, Garbage
<1>7. Diagonal' /\ Sound' /\ Told'
  BY <1>2 DEF RInv, Diagonal, Sound, Told, Done
<1>8. Aborts' /\ Reported' /\ Over'
  BY <1>2, <1>3, <1>4, <1>6 DEF Aborts, Reported, Over
<1> QED
  BY <1>5, <1>7, <1>8 DEF RInv

\* All ranks have left: the matrix is settled.
LEMMA AllLeft ==
  ASSUME IInv, RInv, FiniBarrier
  PROVE  Abstract!Settled
<1>0. InPhase(Running) /\ 0 \in Ranks
  <2>1. 0 \in Ranks
    BY SizeAssumption DEF Ranks
  <2> QED
    BY <2>1, AllRunning DEF FiniBarrier, Running
<1>1. CASE BrokeDown
  BY <1>1 DEF BrokeDown, Abstract!Settled, Garbage, Abstract!Garbage, Index,
     Abstract!Index
<1>2. CASE ~BrokeDown
  <2>1. ~abort
    BY <1>0, <1>2 DEF RInv, Aborts
  <2>2. ASSUME NEW t \in Tiles PROVE Done(host[t], t)
    <3>1. PICK r \in Ranks : Own(r, t[1], t[2])
      BY Shared
    <3>2. pc[r] = "fini_bar" /\ Walk(r) /\ Left(r) /\ Covered(r)
      BY DEF FiniBarrier, IInv, RInv, OfRank
    <3>3. row[r] \in Nat /\ col[r] = NT /\ row[r] >= NT
      BY <2>1, <3>2 DEF IInv, TypeOK, Left, Walk, Running
    <3>4. Number2(t[1], t[2]) < Number2(row[r], col[r])
      BY <3>3, NoneBeyond
    <3>5. Number2(t[1], t[2]) \in Int /\ Number2(row[r], col[r]) \in Int
      BY <3>3, NTAssumption, NumberInt DEF Tiles, Index
    <3>6. Final(t)
      BY <2>1, <3>1, <3>2, <3>4, <3>5 DEF Covered, Beyond, Running, Working
    <3>7. host[t] # Garbage
      <4> SUFFICES ASSUME host[t] = Garbage PROVE FALSE
        OBVIOUS
      <4>1. t = <<t[1], t[1]>> /\ t[1] \in Index
        BY DEF RInv, Diagonal, Tiles
      <4> QED
        BY <1>2, <4>1 DEF BrokeDown
    <3> QED
      BY <3>6, <3>7 DEF Final
  <2> QED
    BY <2>2 DEF Abstract!Settled, Abstract!Tiles, Abstract!Index, Tiles, Index,
       Done, Abstract!Finished
<1> QED
  BY <1>1, <1>2

\* Calls, ss_init, ss_finalize and the end of a call.
LEMMA OutsideKeeps ==
  ASSUME IInv, RInv,
         \/ StartCall \/ RefuseCall \/ FiniBarrier \/ ExitBarrier
         \/ \E r \in Ranks : Enter(r) \/ SsInit(r) \/ FreeTable(r)
  PROVE  RInv'
<1>0. TypeOK /\ Phases /\ 0 \in Ranks
  BY SizeAssumption DEF IInv, Ranks
<1>1. ASSUME host' = host PROVE Diagonal' /\ Sound'
  BY <1>1 DEF RInv, Diagonal, Sound, Done
<1>2. \A k \in Index : Failed(k) # Success /\ Failed(k) # Flushed
  BY NTAssumption DEF Index, Failed, Success, Flushed
<1>3. Abstract!Settled /\ host' = host => Abstract!Settled'
  BY DEF Abstract!Settled, Abstract!Finished
<1>4. CASE StartCall
  <2>1. InPhase({"enter"})' /\ status' = Success
    BY <1>4 DEF StartCall, InPhase
  <2>2. host' = [t \in Tiles |-> 0]
    BY <1>4 DEF StartCall
  <2>3. \A r \in Ranks : OfRank(r)'
    BY <2>1, NoneRunning DEF Running, Working
  <2>4. Diagonal' /\ Sound'
    <3>1. \A t \in Tiles : host'[t] = 0 /\ 0 # Garbage
      BY <2>2 DEF Garbage
    <3>2. \A t \in Tiles : \A n \in 0 .. t[2] : ~(n < 0)
      BY NTAssumption DEF Tiles, Index
    <3> QED
      BY <3>1, <3>2 DEF Diagonal, Sound
  <2>5. Aborts' /\ Reported' /\ Over' /\ Told'
    BY <1>0, <1>2, <2>1
    DEF InPhase, Aborts, Reported, Over, Told, Failed, Running, Working,
        Closing, Entering
  <2> QED
    BY <2>3, <2>4, <2>5 DEF RInv
<1>5. CASE RefuseCall
  <2>1. InPhase({"idle"})' /\ InPhase({"idle"}) /\ host' = host
        /\ status' = Flushed
    BY <1>5 DEF RefuseCall, InPhase
  <2>2. \A r \in Ranks : OfRank(r)'
    BY <2>1, NoneRunning DEF Running, Working
  <2>3. Aborts' /\ Reported' /\ Told'
    BY <1>0, <1>2, <2>1
    DEF InPhase, Aborts, Reported, Told, Failed, Running, Working, Closing,
        Entering
  <2>4. Over'
    BY <1>0, <1>3, <2>1 DEF RInv, Over, InPhase, Closing
  <2> QED
    BY <1>1, <2>1, <2>2, <2>3, <2>4 DEF RInv
<1>6. CASE FiniBarrier
  <2>1. InPhase(Closing)' /\ host' = host /\ status' = status
        /\ (\A r \in Ranks : pc[r] = "fini_bar") /\ InPhase(Running)
    BY <1>0, <1>6, AllRunning
    DEF FiniBarrier, InPhase, Closing, shared, Running
  <2>2. \A r \in Ranks : OfRank(r)'
    BY <2>1, NoneRunning DEF Closing, Running, Working
  <2>3. Aborts' /\ Told'
    BY <1>0, <2>1
    DEF InPhase, RInv, Aborts, Told, Failed, Running, Working, Closing, Entering
  <2>4. Reported'
    BY <2>1 DEF RInv, Reported
  <2>5. Over'
    BY <1>0, <1>3, <1>6, <2>1, AllLeft DEF Over, InPhase, Closing
  <2> QED
    BY <1>1, <2>1, <2>2, <2>3, <2>4, <2>5 DEF RInv
<1>7. CASE ExitBarrier
  <2>1. InPhase({"idle"})' /\ InPhase(Closing) /\ host' = host
        /\ status' = status
    BY <1>0, <1>7 DEF ExitBarrier, InPhase, Closing, shared
  <2>2. \A r \in Ranks : OfRank(r)'
    BY <2>1, NoneRunning DEF Running, Working
  <2>3. Aborts' /\ Reported' /\ Told'
    BY <1>0, <2>1
    DEF InPhase, RInv, Aborts, Reported, Told, Failed, Running, Working,
        Closing, Entering
  <2>4. Over'
    BY <1>0, <1>3, <2>1 DEF RInv, Over, InPhase, Closing
  <2> QED
    BY <1>1, <2>1, <2>2, <2>3, <2>4 DEF RInv
<1>8. ASSUME NEW r \in Ranks, Enter(r) \/ SsInit(r) PROVE RInv'
  <2>1. InPhase(Entering) /\ status = Success
    BY <1>0, <1>8
    DEF Enter, SsInit, Phases, InPhase, Entering, Running, Working, Closing
  <2>2. /\ host' = host /\ status' = status
        /\ \/ pc' = [pc EXCEPT ![r] = "init"] /\ abort' = abort
              /\ pc[r] = "enter"
           \/ pc' = [pc EXCEPT ![r] = "init_bar"] /\ abort' = FALSE
    BY <1>8, <2>1 DEF Enter, SsInit, Goto, shared
  <2>3. InPhase(Entering)' /\ pc \in [Ranks -> PC]
    BY <1>0, <2>1, <2>2 DEF InPhase, Entering, TypeOK
  <2>4. (\A q \in Ranks : OfRank(q)') /\ ~InPhase(Running)'
    BY <2>3, NoneRunning DEF Entering, Running, Working
  <2>5. Aborts'
    BY <1>0, <2>1, <2>2, <2>3, <2>4 DEF RInv, Aborts
  <2>6. Reported' /\ Told' /\ Over'
    BY <1>0, <2>2, <2>3, <2>4
    DEF InPhase, RInv, Reported, Told, Failed, Over, Closing, Entering
  <2> QED
    BY <1>1, <2>2, <2>4, <2>5, <2>6 DEF RInv
<1>9. ASSUME NEW r \in Ranks, FreeTable(r) PROVE RInv'
  <2>1. InPhase(Closing)
    BY <1>0, <1>9
    DEF FreeTable, Phases, InPhase, Entering, Running, Working, Closing
  <2>2. InPhase(Closing)' /\ host' = host /\ status' = status
    BY <1>0, <1>9, <2>1 DEF FreeTable, Goto, InPhase, Closing, TypeOK
  <2>3. (\A q \in Ranks : OfRank(q)') /\ ~InPhase(Running)'
    BY <2>2, NoneRunning DEF Closing, Running, Working
  <2>4. Aborts' /\ Told' /\ Over'
    BY <1>0, <1>3, <2>1, <2>2, <2>3
    DEF InPhase, RInv, Aborts, Told, Failed, Over, Closing, Entering
  <2>5. Reported'
    <3>1. \A q \in Ranks : pc[q] # "fail"
      BY <2>1 DEF InPhase, Closing
    <3> QED
      BY <2>1, <2>2, <3>1 DEF RInv, Reported
  <2> QED
    BY <1>1, <2>2, <2>3, <2>4, <2>5 DEF RInv
<1> QED
  BY <1>4, <1>5, <1>6, <1>7, <1>8, <1>9
-----------------------------------------------------------------------------
\* RInv is an invariant of the static schedule, relative to IInv.
THEOREM Invariance == Spec => [](IInv /\ RInv)
<1>1. Init => RInv
  <2> SUFFICES ASSUME Init PROVE RInv
    OBVIOUS
  <2>0. 0 \in Ranks
    BY SizeAssumption DEF Ranks
  <2>1. \A r \in Ranks : OfRank(r)
    BY DEF Init, OfRank, Fresh, Left, Covered, Running, Working
  <2>2. Diagonal
    BY DEF Init, Diagonal, Garbage
  <2>3. Sound
    <3>1. \A t \in Tiles : \A n \in 0 .. t[2] : ~(n < 0)
      BY NTAssumption DEF Tiles, Index
    <3> QED
      BY <3>1 DEF Init, Sound, Garbage
  <2>4. Aborts /\ Over
    BY <2>0 DEF Init, Aborts, Over, InPhase, Closing
  <2>5. Told /\ Reported
    BY <2>0, NTAssumption
    DEF Init, Told, Reported, InPhase, Running, Working, Closing, Index,
        Success, Failed
  <2> QED
    BY <2>1, <2>2, <2>3, <2>4, <2>5 DEF RInv
<1>2. IInv /\ RInv /\ [Next]_vars => RInv'
  <2> SUFFICES ASSUME IInv, RInv, [Next]_vars PROVE RInv'
    OBVIOUS
  <2>1. CASE UNCHANGED vars
    BY <2>1
    DEF vars, work, bufs, shared, RInv, OfRank, Fresh, Left, Covered, Diagonal,
        Sound, Aborts, Told, Reported, Over, Final, Beyond, BrokeDown, InPhase,
        Mine, Operand1, Operand2, IsPotrf, IsGemm, Done, Abstract!Settled,
        Abstract!Finished
  <2>2. ASSUME NEW r \in Ranks, Rank(r) PROVE RInv'
    <3>1. CASE pc[r] \in Running
      BY <2>2, <3>1, RunningKeeps
    <3>2. CASE pc[r] \notin Running
      <4>1. Enter(r) \/ SsInit(r) \/ FreeTable(r)
        BY <2>2, <3>2
        DEF Rank, StartTile, Top, LoadTile, WaitFirst, LoadFirst, WaitSecond,
            LoadSecond, Kernel, StoreTile, RequestFail, SsAbort, Publish,
            NextStep, Roll, Running, Working
      <4> QED
        BY <4>1, OutsideKeeps
    <3> QED
      BY <3>1, <3>2
  <2>3. CASE StartCall \/ RefuseCall \/ Barriers
    BY <2>3, OutsideKeeps, InitBarrierKeeps DEF Barriers
  <2> QED
    BY <2>1, <2>2, <2>3 DEF Next
<1> QED
  BY <1>1, <1>2, Inductive, PTL DEF Spec

\* The static schedule implements the tile algorithm: a rank's store is one of
\* its tasks, or the breakdown of a panel, on operands that are finished, and a
\* new matrix only ever comes after the last one is settled.
THEOREM RefinesHolds == Spec => Refines
<1>1. Init => Abstract!Init
  BY DEF Init, Abstract!Init, Abstract!Tiles, Abstract!Index, Tiles, Index
<1>2. IInv /\ RInv /\ [Next]_vars => [Abstract!Next]_host
  <2> SUFFICES ASSUME IInv, RInv, [Next]_vars, host' # host
               PROVE  Abstract!Next
    OBVIOUS
  <2>1. ASSUME NEW r \in Ranks, Rank(r) PROVE Abstract!Next
    <3>1. StoreTile(r)
      BY <2>1
      DEF Rank, Enter, SsInit, StartTile, Top, LoadTile, WaitFirst, LoadFirst,
          WaitSecond, LoadSecond, Kernel, RequestFail, SsAbort, Publish,
          NextStep, Roll, FreeTable, shared
    <3> QED
      BY <3>1, StoreStep
  <2>2. CASE StartCall
    <3>1. InPhase({"idle"}) /\ host' = [t \in Tiles |-> 0]
      BY <2>2 DEF StartCall, InPhase
    <3>2. Abstract!Settled
      BY <3>1 DEF RInv, Over
    <3> QED
      BY <3>1, <3>2
      DEF Abstract!Next, Abstract!NewMatrix, Abstract!Tiles, Abstract!Index,
          Tiles, Index
  <2> QED
    BY <2>1, <2>2
    DEF Next, RefuseCall, Barriers, InitBarrier, FiniBarrier, ExitBarrier, vars,
        shared
<1> QED
  BY <1>1, <1>2, Invariance, PTL DEF Spec, Refines, Abstract!Spec

\* In a panel that failed all the tiles before the diagonal are finished, and
\* so are the panels that they needed.
LEMMA BrokenRow ==
  ASSUME IInv, RInv, NEW k \in Index, host[<<k, k>>] = Garbage,
         NEW j \in 0 .. k - 1
  PROVE  Done(host[<<k, j>>], <<k, j>>) /\ Done(host[<<j, j>>], <<j, j>>)
<1>1. /\ k \in Nat /\ j \in Nat /\ j < k /\ j \in 0 .. k /\ j \in 0 .. j
      /\ <<k, k>> \in Tiles /\ <<k, j>> \in Tiles
  BY NTAssumption DEF Tiles, Index
<1>2. <<k, j>> \in Abstract!Operands(<<k, k>>, j)
  BY <1>1 DEF Abstract!Operands
<1>3. Done(host[<<k, j>>], <<k, j>>)
  BY <1>1, <1>2 DEF RInv, Sound
<1>4. <<j, j>> \in Abstract!Operands(<<k, j>>, j) /\ j < host[<<k, j>>]
  BY <1>1, <1>3 DEF Abstract!Operands, Done
<1>5. Done(host[<<j, j>>], <<j, j>>)
  BY <1>1, <1>4 DEF RInv, Sound
<1> QED
  BY <1>3, <1>5

\* The status names the first panel that is not positive definite, its diagonal
\* tile is the only garbage in memory, and Success means the whole factor.
THEOREM StatusTellsHolds == Spec => []StatusTells
<1>1. IInv /\ RInv => StatusTells
  <2> SUFFICES ASSUME IInv, RInv PROVE StatusTells
    OBVIOUS
  <2>1. ASSUME NEW k \in Index, status = Failed(k)
        PROVE  /\ host[<<k, k>>] = Garbage
               /\ \A t \in Tiles : host[t] = Garbage => t = <<k, k>>
               /\ \A j \in 0 .. k - 1 : Done(host[<<j, j>>], <<j, j>>)
                                        /\ Done(host[<<k, j>>], <<k, j>>)
    <3>1. host[<<k, k>>] = Garbage
      BY <2>1 DEF RInv, Told
    <3>2. ASSUME NEW t \in Tiles, host[t] = Garbage
          PROVE  t = <<k, k>>
      <4>1. t = <<t[1], t[1]>> /\ t[1] \in Index
        BY <3>2 DEF RInv, Diagonal, Tiles
      <4> DEFINE j == t[1]
      <4>2. j \in Nat /\ k \in Nat
        BY <4>1, NTAssumption DEF Index
      <4>3. ~(j < k)
        <5> SUFFICES ASSUME j < k PROVE FALSE
          OBVIOUS
        <5>0. j \in 0 .. k - 1
          BY <4>2
        <5>1. Done(host[<<j, j>>], <<j, j>>)
          BY <3>1, <5>0, BrokenRow
        <5> QED
          BY <3>2, <4>1, <4>2, <5>1 DEF Done, Garbage
      <4>4. ~(k < j)
        <5> SUFFICES ASSUME k < j PROVE FALSE
          OBVIOUS
        <5>0. k \in 0 .. j - 1 /\ host[<<j, j>>] = Garbage
          BY <3>2, <4>1, <4>2
        <5>1. Done(host[<<k, k>>], <<k, k>>)
          BY <4>1, <5>0, BrokenRow
        <5> QED
          BY <3>1, <4>2, <5>1 DEF Done, Garbage
      <4> QED
        BY <4>1, <4>2, <4>3, <4>4
    <3> QED
      BY <3>1, <3>2, BrokenRow
  <2>2. ASSUME \A r \in Ranks : pc[r] = "exit_bar", status = Success
        PROVE  \A t \in Tiles : Done(host[t], t)
    <3>1. InPhase(Closing)
      BY <2>2 DEF InPhase, Closing
    <3>2. \A k \in Index : host[<<k, k>>] # Garbage
      BY <2>2, <3>1 DEF RInv, Reported
    <3>3. Abstract!Settled
      BY <3>1 DEF RInv, Over
    <3> QED
      BY <3>2, <3>3
      DEF Abstract!Settled, Abstract!Tiles, Abstract!Index, Abstract!Garbage,
          Abstract!Finished, Tiles, Index, Done, Garbage
  <2> QED
    BY <2>1, <2>2 DEF StatusTells
<1> QED
  BY <1>1, Invariance, PTL
-----------------------------------------------------------------------------
(* The dynamic routine: the order that QUARK keeps between the tasks of    *)
(* plasma_pdpotrf_quark is enough.  For every number of tiles the dynamic  *)
(* factorization does only what a tile Cholesky factorization may do.      *)

VARIABLES order, member, fails, state, sequence, tile

Dyn == INSTANCE PotrfOrder

\* The tasks that a task on tile <<m, n>> depends on: the earlier ones on the tile ..
LEMMA EarlierOnTile ==
  ASSUME NEW t \in Dyn!TileTasks, NEW j \in 0 .. t[3] - 1
  PROVE  /\ <<t[1], t[2], j>> \in Dyn!TileTasks
         /\ <<<<t[1], t[2], j>>, t>> \in Dyn!DataOrder
<1>1. <<t[1], t[2], j>> \in Dyn!TileTasks
  BY NTAssumption DEF Dyn!TileTasks, Dyn!Index
<1>2. Dyn!Before(<<t[1], t[2], j>>, t)
  BY NTAssumption DEF Dyn!Before, Dyn!TileTasks, Dyn!Index
<1>3. Dyn!Tile(<<t[1], t[2], j>>) = Dyn!Tile(t)
  BY DEF Dyn!Tile
<1> QED BY <1>1, <1>2, <1>3 DEF Dyn!DataOrder

\* .. and the last task of every tile it reads.
LEMMA OwnOfInput ==
  ASSUME NEW t \in Dyn!TileTasks, NEW x \in Dyn!Inputs(t)
  PROVE  /\ x \in Dyn!Tiles
         /\ Dyn!Own(x) \in Dyn!TileTasks
         /\ <<Dyn!Own(x), t>> \in Dyn!DataOrder
<1> t \in Dyn!Index \X Dyn!Index \X Dyn!Index /\ t[3] =< t[2] /\ t[2] =< t[1]
  BY DEF Dyn!TileTasks
<1>1. x \in Dyn!Tiles /\ x[2] = t[3] /\ (x = <<t[1], t[3]>> \/ x = <<t[2], t[3]>>)
  BY NTAssumption DEF Dyn!Inputs, Dyn!IsUpdate, Dyn!Tiles, Dyn!Index
<1>2. Dyn!Own(x) \in Dyn!TileTasks
  BY <1>1, NTAssumption DEF Dyn!Own, Dyn!TileTasks, Dyn!Tiles, Dyn!Index
<1>3. Dyn!Tile(Dyn!Own(x)) = x
  BY <1>1 DEF Dyn!Tile, Dyn!Own
<1>4. Dyn!Before(Dyn!Own(x), t)
  <2>1. CASE Dyn!IsUpdate(t)
    <3>1. t[3] < t[2] /\ t[3] < t[1]
      BY <2>1, NTAssumption DEF Dyn!IsUpdate, Dyn!Index
    <3>2. Dyn!IsTrsm(Dyn!Own(x))
      BY <1>1, <3>1, NTAssumption DEF Dyn!IsTrsm, Dyn!Own, Dyn!Index
    <3> QED BY <1>1, <2>1, <3>2, NTAssumption DEF Dyn!Before, Dyn!InPanel, Dyn!Own, Dyn!Index
  <2>2. CASE ~Dyn!IsUpdate(t)
    <3>1. t[3] = t[2] /\ x = <<t[2], t[2]>> /\ x # Dyn!Tile(t)
      BY <2>2, NTAssumption DEF Dyn!IsUpdate, Dyn!Inputs, Dyn!Index
    <3>2. Dyn!IsPotrf(Dyn!Own(x)) /\ ~Dyn!IsPotrf(t)
      BY <3>1, NTAssumption DEF Dyn!IsPotrf, Dyn!Own, Dyn!Tile, Dyn!Index
    <3> QED BY <1>1, <3>1, <3>2 DEF Dyn!Before, Dyn!InPanel, Dyn!Own
  <2> QED BY <2>1, <2>2
<1> QED BY <1>1, <1>2, <1>3, <1>4 DEF Dyn!DataOrder

LEMMA InitInv == Dyn!Init => Dyn!Inv
<1> SUFFICES ASSUME Dyn!Init PROVE Dyn!Inv
  OBVIOUS
<1> USE NTAssumption DEF Dyn!Init, Dyn!Q!Init
<1>1. Dyn!TypeOK
  BY DEF Dyn!TypeOK, Dyn!Q!States
<1>2. Dyn!Sound /\ Dyn!Stopped
  BY DEF Dyn!Sound, Dyn!Stopped
<1>3. Dyn!Counts
  <2> SUFFICES ASSUME NEW x \in Dyn!Tiles
               PROVE  /\ ~Dyn!Failed(x)
                      /\ tile[x] \in 0 .. x[2] + 1
                      /\ \A k \in 0 .. x[2] : state[<<x[1], x[2], k>>] = "done" <=> k < tile[x]
    BY DEF Dyn!Counts
  <2>1. \A k \in 0 .. x[2] : <<x[1], x[2], k>> \in Dyn!TileTasks
    BY DEF Dyn!Tiles, Dyn!TileTasks, Dyn!Index
  <2> QED BY <2>1 DEF Dyn!Failed, Dyn!Own, Dyn!Tiles, Dyn!Index
<1> QED BY <1>1, <1>2, <1>3 DEF Dyn!Inv

\* A running task finds its tile and its operands as the abstract task needs them.
LEMMA RunningReady ==
  ASSUME Dyn!Inv, NEW t \in Dyn!TileTasks, state[t] = "running"
  PROVE  /\ Dyn!Tile(t) \in Dyn!Tiles
         /\ ~Dyn!Failed(Dyn!Tile(t))
         /\ tile[Dyn!Tile(t)] = t[3]
         /\ \A x \in Dyn!Inputs(t) : tile[x] = x[2] + 1
<1> USE NTAssumption
<1> DEFINE x == Dyn!Tile(t)
<1>1. /\ x \in Dyn!Tiles /\ x[1] = t[1] /\ x[2] = t[2]
      /\ t = <<t[1], t[2], t[3]>>
      /\ t[1] \in Nat /\ t[2] \in Nat /\ t[3] \in Nat /\ t[3] =< t[2]
  BY DEF Dyn!Tile, Dyn!Tiles, Dyn!TileTasks, Dyn!Index
<1>2. ~Dyn!Failed(x)
  <2> SUFFICES ASSUME Dyn!Own(x) \in fails, state[Dyn!Own(x)] = "done" PROVE FALSE
    BY DEF Dyn!Failed
  <2>1. sequence = "off"
    BY DEF Dyn!Inv, Dyn!Stopped
  <2>2. Dyn!Own(x) \in Dyn!TileTasks /\ Dyn!IsPotrf(Dyn!Own(x))
    BY DEF Dyn!Inv, Dyn!TypeOK
  <2>3. t[3] # x[2]
    BY <1>1 DEF Dyn!Own
  <2>4. t[3] \in 0 .. Dyn!Own(x)[3] - 1
    BY <1>1, <2>3 DEF Dyn!Own
  <2>5. t = <<Dyn!Own(x)[1], Dyn!Own(x)[2], t[3]>>
    BY <1>1 DEF Dyn!Own
  <2>6. <<t, Dyn!Own(x)>> \in Dyn!DataOrder
    BY <2>2, <2>4, <2>5, EarlierOnTile
  <2>7. state[t] = "done"
    BY <2>2, <2>6 DEF Dyn!Inv, Dyn!Sound, Dyn!TypeOK
  <2> QED BY <2>7
<1>3. /\ tile[x] \in 0 .. x[2] + 1
      /\ \A k \in 0 .. x[2] : state[<<x[1], x[2], k>>] = "done" <=> k < tile[x]
  BY <1>1, <1>2 DEF Dyn!Inv, Dyn!Counts
<1>4. ~(t[3] < tile[x])
  BY <1>1, <1>3
<1>5. ASSUME t[3] > 0 PROVE t[3] - 1 < tile[x]
  <2>1. t[3] - 1 \in 0 .. t[3] - 1 /\ t[3] - 1 \in 0 .. x[2]
    BY <1>1, <1>5
  <2>2. /\ <<t[1], t[2], t[3] - 1>> \in Dyn!TileTasks
        /\ <<<<t[1], t[2], t[3] - 1>>, t>> \in order
    BY <2>1, EarlierOnTile DEF Dyn!Inv, Dyn!TypeOK
  <2>3. state[<<t[1], t[2], t[3] - 1>>] = "done"
    BY <2>2 DEF Dyn!Inv, Dyn!Sound
  <2> QED BY <1>1, <1>3, <2>1, <2>3
<1>6. tile[x] = t[3]
  BY <1>1, <1>3, <1>4, <1>5
<1>7. ASSUME NEW y \in Dyn!Inputs(t) PROVE tile[y] = y[2] + 1
  <2>1. y \in Dyn!Tiles /\ Dyn!Own(y) \in Dyn!TileTasks /\ <<Dyn!Own(y), t>> \in order
    BY OwnOfInput DEF Dyn!Inv, Dyn!TypeOK
  <2>2. state[Dyn!Own(y)] = "done" /\ Dyn!Own(y) \notin fails
    BY <2>1 DEF Dyn!Inv, Dyn!Sound
  <2>3. /\ tile[y] \in 0 .. y[2] + 1
        /\ \A k \in 0 .. y[2] : state[<<y[1], y[2], k>>] = "done" <=> k < tile[y]
    BY <2>1, <2>2 DEF Dyn!Inv, Dyn!Counts, Dyn!Failed
  <2>4. y[2] \in Nat /\ y[2] \in 0 .. y[2]
    BY <2>1 DEF Dyn!Tiles, Dyn!Index
  <2>5. y[2] < tile[y]
    BY <2>2, <2>3, <2>4 DEF Dyn!Own
  <2> QED BY <2>3, <2>4, <2>5
<1> QED BY <1>1, <1>2, <1>6, <1>7

\* A task that becomes anything but done leaves the tiles' counts alone.
LEMMA BecomeInv ==
  ASSUME Dyn!Inv, NEW t \in Dyn!TileTasks, state[t] = "waiting",
         NEW new \in Dyn!Q!States \ {"done"},
         state' = [state EXCEPT ![t] = new],
         UNCHANGED <<order, member, fails, sequence, tile>>,
         new = "running" =>
           \A s \in Dyn!TileTasks : <<s, t>> \in order => state[s] = "done" /\ s \notin fails
  PROVE  Dyn!Inv'
<1>1. Dyn!TypeOK'
  BY DEF Dyn!Inv, Dyn!TypeOK
<1>2. state \in [Dyn!TileTasks -> Dyn!Q!States]
  BY DEF Dyn!Inv, Dyn!TypeOK
<1>3. \A s \in Dyn!TileTasks : state'[s] = "done" <=> state[s] = "done"
  BY <1>2
<1>4. Dyn!Sound'
  <2> SUFFICES ASSUME NEW u \in Dyn!TileTasks, state'[u] \in {"running", "done"},
                      NEW s \in Dyn!TileTasks, <<s, u>> \in order
               PROVE  state'[s] = "done" /\ s \notin fails
    BY DEF Dyn!Sound
  <2>1. CASE u = t
    BY <1>2, <1>3, <2>1
  <2>2. CASE u # t
    BY <1>2, <1>3, <2>2 DEF Dyn!Inv, Dyn!Sound
  <2> QED BY <2>1, <2>2
<1>5. Dyn!Stopped'
  BY <1>3 DEF Dyn!Inv, Dyn!Stopped, Dyn!TypeOK
<1>6. Dyn!Counts'
  <2>1. \A x \in Dyn!Tiles : \A k \in 0 .. x[2] : <<x[1], x[2], k>> \in Dyn!TileTasks
    BY NTAssumption DEF Dyn!Tiles, Dyn!TileTasks, Dyn!Index
  <2>2. \A x \in Dyn!Tiles : Dyn!Failed(x)' <=> Dyn!Failed(x)
    BY <1>3 DEF Dyn!Failed, Dyn!Inv, Dyn!TypeOK
  <2> QED BY <1>3, <2>1, <2>2 DEF Dyn!Inv, Dyn!Counts
<1> QED BY <1>1, <1>4, <1>5, <1>6 DEF Dyn!Inv

LEMMA FinishInv ==
  ASSUME Dyn!Inv, NEW t \in Dyn!TileTasks, Dyn!Finish(t)
  PROVE  Dyn!Inv'
<1> USE NTAssumption
<1>1. /\ state[t] = "running" /\ state' = [state EXCEPT ![t] = "done"]
      /\ t \in fails => sequence = "off"
      /\ UNCHANGED <<order, member, fails, sequence>>
      /\ tile' = [tile EXCEPT ![Dyn!Tile(t)] = IF t \in fails THEN Dyn!T!Garbage ELSE @ + 1]
  BY DEF Dyn!Finish, Dyn!Q!Finish, Dyn!Q!Become, Dyn!Q!given
<1>2. /\ state \in [Dyn!TileTasks -> Dyn!Q!States] /\ tile \in [Dyn!Tiles -> Int]
      /\ order = Dyn!DataOrder /\ fails \in SUBSET {s \in Dyn!TileTasks : Dyn!IsPotrf(s)}
  BY DEF Dyn!Inv, Dyn!TypeOK
<1>3. /\ Dyn!Tile(t) \in Dyn!Tiles /\ ~Dyn!Failed(Dyn!Tile(t)) /\ tile[Dyn!Tile(t)] = t[3]
  BY <1>1, RunningReady
<1>4. t \in Dyn!Index \X Dyn!Index \X Dyn!Index /\ t[3] =< t[2] /\ t = <<t[1], t[2], t[3]>>
  BY DEF Dyn!TileTasks, Dyn!Index
<1>5. Dyn!TypeOK'
  <2>1. state' \in [Dyn!TileTasks -> Dyn!Q!States]
    BY <1>1, <1>2 DEF Dyn!Q!States
  <2>2. tile' \in [Dyn!Tiles -> Int]
    BY <1>1, <1>2, <1>3, <1>4 DEF Dyn!Index, Dyn!T!Garbage
  <2> QED BY <1>1, <2>1, <2>2 DEF Dyn!Inv, Dyn!TypeOK
<1>6. Dyn!Sound'
  <2> SUFFICES ASSUME NEW u \in Dyn!TileTasks, state'[u] \in {"running", "done"},
                      NEW s \in Dyn!TileTasks, <<s, u>> \in order
               PROVE  state'[s] = "done" /\ s \notin fails
    BY <1>1 DEF Dyn!Sound
  <2>1. state[u] \in {"running", "done"}
    BY <1>1, <1>2
  <2>2. state[s] = "done" /\ s \notin fails
    BY <2>1 DEF Dyn!Inv, Dyn!Sound
  <2> QED BY <1>1, <1>2, <2>2
<1>7. Dyn!Stopped'
  BY <1>1, <1>2 DEF Dyn!Inv, Dyn!Stopped
<1>8. Dyn!Counts'
  <2> SUFFICES ASSUME NEW x \in Dyn!Tiles
               PROVE  IF Dyn!Failed(x)' THEN tile'[x] = Dyn!T!Garbage
                      ELSE /\ tile'[x] \in 0 .. x[2] + 1
                           /\ \A k \in 0 .. x[2] :
                                state'[<<x[1], x[2], k>>] = "done" <=> k < tile'[x]
    BY DEF Dyn!Counts
  <2>1. x = <<x[1], x[2]>> /\ x[2] \in Nat /\ x[2] \in 0 .. x[2]
    BY DEF Dyn!Tiles, Dyn!Index
  <2>2. \A k \in 0 .. x[2] : <<x[1], x[2], k>> \in Dyn!TileTasks
    BY DEF Dyn!Tiles, Dyn!TileTasks, Dyn!Index
  <2>3. CASE x # Dyn!Tile(t)
    <3>1. tile'[x] = tile[x]
      BY <1>1, <1>2, <2>3
    <3>2. \A k \in 0 .. x[2] : <<x[1], x[2], k>> # t
      BY <1>4, <2>1, <2>3 DEF Dyn!Tile
    <3>3. \A k \in 0 .. x[2] : state'[<<x[1], x[2], k>>] = state[<<x[1], x[2], k>>]
      BY <1>1, <1>2, <2>2, <3>2
    <3>4. Dyn!Failed(x)' <=> Dyn!Failed(x)
      BY <1>1, <2>1, <3>3 DEF Dyn!Failed, Dyn!Own
    <3> QED BY <3>1, <3>3, <3>4 DEF Dyn!Inv, Dyn!Counts
  <2>4. CASE x = Dyn!Tile(t)
    <3>1. x[1] = t[1] /\ x[2] = t[2]
      BY <2>4 DEF Dyn!Tile
    <3>2. /\ tile[x] = t[3] /\ ~Dyn!Failed(x)
          /\ \A k \in 0 .. x[2] : state[<<x[1], x[2], k>>] = "done" <=> k < t[3]
      BY <1>3, <2>4 DEF Dyn!Inv, Dyn!Counts
    <3>3. \A k \in 0 .. x[2] : state'[<<x[1], x[2], k>>] = "done" <=> k < t[3] + 1
      <4> TAKE k \in 0 .. x[2]
      <4>1. CASE k = t[3]
        BY <1>1, <1>2, <1>4, <3>1, <4>1 DEF Dyn!Index
      <4>2. CASE k # t[3]
        <5>1. <<x[1], x[2], k>> # t
          BY <1>4, <4>2
        <5>2. state'[<<x[1], x[2], k>>] = state[<<x[1], x[2], k>>]
          BY <1>1, <1>2, <2>2, <5>1
        <5> QED BY <1>4, <3>2, <4>2, <5>2 DEF Dyn!Index
      <4> QED BY <4>1, <4>2
    <3>4. CASE t \in fails
      <4>1. t[1] = t[2] /\ t[2] = t[3]
        BY <1>2, <3>4 DEF Dyn!IsPotrf
      <4>2. Dyn!Own(x) = t
        BY <1>4, <3>1, <4>1 DEF Dyn!Own
      <4>3. Dyn!Failed(x)'
        BY <1>1, <1>2, <3>4, <4>2 DEF Dyn!Failed, Dyn!Own
      <4>4. tile'[x] = Dyn!T!Garbage
        BY <1>1, <1>2, <2>4, <3>4
      <4> QED BY <4>3, <4>4
    <3>5. CASE t \notin fails
      <4>1. tile'[x] = t[3] + 1
        BY <1>1, <1>2, <2>4, <3>2, <3>5
      <4>2. ~Dyn!Failed(x)'
        <5>1. CASE Dyn!Own(x) = t
          BY <1>1, <3>5, <5>1 DEF Dyn!Failed, Dyn!Own
        <5>2. CASE Dyn!Own(x) # t
          <6>1. Dyn!Own(x) \in Dyn!TileTasks
            BY <2>1, <2>2 DEF Dyn!Own
          <6>2. state'[Dyn!Own(x)] = state[Dyn!Own(x)]
            BY <1>1, <1>2, <5>2, <6>1
          <6> QED BY <1>1, <3>2, <6>2 DEF Dyn!Failed, Dyn!Own
        <5> QED BY <5>1, <5>2
      <4>3. t[3] + 1 \in 0 .. x[2] + 1
        BY <1>4, <3>1 DEF Dyn!Index
      <4> QED BY <3>3, <4>1, <4>2, <4>3
    <3> QED BY <3>4, <3>5
  <2> QED BY <2>3, <2>4
<1> QED BY <1>5, <1>6, <1>7, <1>8 DEF Dyn!Inv

LEMMA SequenceInv ==
  ASSUME Dyn!Inv, Dyn!Q!BeginCancel \/ Dyn!Q!EndCancel, UNCHANGED tile
  PROVE  Dyn!Inv'
<1>1. /\ UNCHANGED <<order, member, fails, state, tile>>
      /\ sequence' \in {"ending", "off"}
      /\ sequence # "off"
  BY DEF Dyn!Q!BeginCancel, Dyn!Q!EndCancel, Dyn!Q!given
<1>2. Dyn!TypeOK'
  BY <1>1 DEF Dyn!Inv, Dyn!TypeOK
<1>3. Dyn!Sound' /\ Dyn!Stopped'
  BY <1>1 DEF Dyn!Inv, Dyn!Sound, Dyn!Stopped
<1>4. Dyn!Counts'
  BY <1>1 DEF Dyn!Inv, Dyn!Counts, Dyn!Failed
<1> QED BY <1>2, <1>3, <1>4 DEF Dyn!Inv

LEMMA NextInv == Dyn!Inv /\ [Dyn!Next]_Dyn!vars => Dyn!Inv'
<1> SUFFICES ASSUME Dyn!Inv, [Dyn!Next]_Dyn!vars PROVE Dyn!Inv'
  OBVIOUS
<1>1. ASSUME NEW t \in Dyn!TileTasks, Dyn!Finish(t) PROVE Dyn!Inv'
  BY <1>1, FinishInv
<1>2. ASSUME NEW t \in Dyn!TileTasks, Dyn!Q!Start(t), UNCHANGED tile PROVE Dyn!Inv'
  <2>1. \A s \in Dyn!TileTasks : <<s, t>> \in order => state[s] = "done" /\ s \notin fails
    <3> SUFFICES ASSUME NEW s \in Dyn!TileTasks, <<s, t>> \in order
                 PROVE  state[s] = "done" /\ s \notin fails
      OBVIOUS
    <3>1. sequence # "off" /\ state[s] = "done"
      BY <1>2 DEF Dyn!Inv, Dyn!TypeOK, Dyn!Q!Start
    <3> QED BY <3>1 DEF Dyn!Inv, Dyn!Stopped
  <2> QED BY <1>2, <2>1, BecomeInv DEF Dyn!Q!Start, Dyn!Q!Become, Dyn!Q!given, Dyn!Q!States
<1>3. ASSUME NEW t \in Dyn!TileTasks, Dyn!Q!Skip(t), UNCHANGED tile PROVE Dyn!Inv'
  BY <1>3, BecomeInv DEF Dyn!Q!Skip, Dyn!Q!Become, Dyn!Q!given, Dyn!Q!States
<1>4. ASSUME NEW t \in Dyn!TileTasks, Dyn!Q!Reject(t), UNCHANGED tile PROVE Dyn!Inv'
  BY <1>4, BecomeInv DEF Dyn!Q!Reject, Dyn!Q!Become, Dyn!Q!given, Dyn!Q!States
<1>5. ASSUME Dyn!Q!BeginCancel \/ Dyn!Q!EndCancel, UNCHANGED tile PROVE Dyn!Inv'
  BY <1>5, SequenceInv
<1>6. CASE UNCHANGED Dyn!vars
  BY <1>6 DEF Dyn!vars, Dyn!Inv, Dyn!TypeOK, Dyn!Sound, Dyn!Stopped, Dyn!Counts, Dyn!Failed
<1> QED BY <1>1, <1>2, <1>3, <1>4, <1>5, <1>6 DEF Dyn!Next, Dyn!Schedule

\* In every state of the dynamic factorization the tasks done on a tile are the first
\* ones of that tile, and what runs depends on no failed task (TypeOK, Sound, Stopped,
\* Counts).
THEOREM DynamicInvariance == Dyn!Spec => []Dyn!Inv
<1> QED BY InitInv, NextInv, PTL DEF Dyn!Spec

LEMMA FinishIsTask ==
  ASSUME Dyn!Inv, NEW t \in Dyn!TileTasks, Dyn!Finish(t)
  PROVE  Dyn!T!Next
<1> USE NTAssumption
<1> DEFINE x == Dyn!Tile(t)
<1>1. /\ state[t] = "running"
      /\ tile' = [tile EXCEPT ![x] = IF t \in fails THEN Dyn!T!Garbage ELSE @ + 1]
  BY DEF Dyn!Finish, Dyn!Q!Finish
<1>2. /\ x \in Dyn!Tiles /\ tile[x] = t[3]
      /\ \A y \in Dyn!Inputs(t) : tile[y] = y[2] + 1
  BY <1>1, RunningReady
<1>3. /\ t \in Dyn!Index \X Dyn!Index \X Dyn!Index /\ t[3] =< t[2] /\ t[2] =< t[1]
      /\ x[1] = t[1] /\ x[2] = t[2] /\ x = <<t[1], t[2]>>
  BY DEF Dyn!TileTasks, Dyn!Tile, Dyn!Index
<1>4. Dyn!T!Tiles = Dyn!Tiles /\ Dyn!T!Index = Dyn!Index
  BY DEF Dyn!T!Tiles, Dyn!T!Index, Dyn!Tiles, Dyn!Index
<1>5. Dyn!T!Operands(x, t[3]) = Dyn!Inputs(t)
  <2>1. t[3] = t[2] \/ t[3] < t[2]
    BY <1>3 DEF Dyn!Index
  <2>2. CASE t[3] = t[2]
    BY <1>3, <2>2 DEF Dyn!T!Operands, Dyn!Inputs, Dyn!IsUpdate, Dyn!Tile, Dyn!Index
  <2>3. CASE t[3] < t[2]
    <3>1. t[3] # t[2]
      BY <1>3, <2>3 DEF Dyn!Index
    <3> QED
      BY <1>3, <2>3, <3>1 DEF Dyn!T!Operands, Dyn!Inputs, Dyn!IsUpdate, Dyn!Tile
  <2> QED
    BY <2>1, <2>2, <2>3
<1>6. Dyn!T!Ready(x)
  <2>1. tile[x] \in 0 .. x[2]
    BY <1>2, <1>3 DEF Dyn!Index
  <2>2. \A y \in Dyn!T!Operands(x, tile[x]) : Dyn!T!Finished(tile[y], y)
    BY <1>2, <1>5 DEF Dyn!T!Finished
  <2> QED BY <2>1, <2>2 DEF Dyn!T!Ready
<1>7. CASE t \notin fails
  BY <1>1, <1>2, <1>4, <1>6, <1>7 DEF Dyn!T!Next, Dyn!T!Task
<1>8. CASE t \in fails
  <2>1. t[1] = t[2] /\ t[2] = t[3]
    BY <1>8 DEF Dyn!Inv, Dyn!TypeOK, Dyn!IsPotrf
  <2>2. x = <<t[3], t[3]>> /\ t[3] \in Dyn!T!Index
    BY <1>3, <1>4, <2>1
  <2>3. Dyn!T!Breakdown(t[3])
    BY <1>1, <1>2, <1>6, <1>8, <2>2 DEF Dyn!T!Breakdown
  <2> QED BY <2>2, <2>3 DEF Dyn!T!Next
<1> QED BY <1>7, <1>8

\* The dynamic tile Cholesky factorization implements TileCholesky, whatever the number
\* of tiles: the INPUT and INOUT arguments that plasma_pdpotrf_quark declares order its
\* tasks enough, also when a dpotrf fails and the sequence is cancelled.
THEOREM DynamicFollowsTiles == Dyn!Spec => Dyn!T!Spec
<1>1. Dyn!Init => Dyn!T!Init
  BY DEF Dyn!Init, Dyn!T!Init, Dyn!T!Tiles, Dyn!T!Index, Dyn!Tiles, Dyn!Index
<1>2. Dyn!Inv /\ [Dyn!Next]_Dyn!vars => [Dyn!T!Next]_tile
  <2> SUFFICES ASSUME Dyn!Inv, [Dyn!Next]_Dyn!vars PROVE Dyn!T!Next \/ UNCHANGED tile
    OBVIOUS
  <2>1. ASSUME NEW t \in Dyn!TileTasks, Dyn!Finish(t) PROVE Dyn!T!Next
    BY <2>1, FinishIsTask
  <2>2. CASE Dyn!Schedule
    BY <2>2 DEF Dyn!Schedule
  <2>3. CASE UNCHANGED Dyn!vars
    BY <2>3 DEF Dyn!vars
  <2> QED BY <2>1, <2>2, <2>3 DEF Dyn!Next
<1> QED BY <1>1, <1>2, DynamicInvariance, PTL DEF Dyn!Spec, Dyn!T!Spec
=============================================================================
