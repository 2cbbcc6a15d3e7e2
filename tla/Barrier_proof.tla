---------------------------- MODULE Barrier_proof ----------------------------
(***************************************************************************)
(* Proofs about Barrier for every number of ranks and every range of       *)
(* barrier_id with at least two values: the count counts the ranks held,   *)
(* no wake-up is lost, and the barrier implements Rendezvous; and about    *)
(* BarrierBw for every number of ranks: the flags are fresh in every       *)
(* barrier, and the barrier implements Rendezvous.                         *)
(***************************************************************************)
EXTENDS Barrier, BarrierBw, FiniteSetTheorems, TLAPS

\* The three parts together are inductive.
IInv == TypeOK /\ CountsHeld /\ NoLostWakeup

\* Two numbers are told apart, also when the count wraps around.
LEMMA BumpMoves ==
  ASSUME NEW n \in 0 .. IdRange - 1
  PROVE  Bump(n) \in 0 .. IdRange - 1 /\ Bump(n) # n
BY RangeAssumption DEF Bump

\* There are SIZE ranks.
LEMMA RanksFinite == IsFiniteSet(Ranks) /\ Cardinality(Ranks) = SIZE
BY FS_Interval, SizeAssumption DEF Ranks

\* The ranks held are some of them, so they can be counted.
LEMMA HeldFinite ==
  ASSUME TypeOK
  PROVE  Held \subseteq Ranks /\ IsFiniteSet(Held) /\ Cardinality(Held) \in Nat
<1>1. Held \subseteq Ranks
  BY DEF TypeOK, Held
<1>2. IsFiniteSet(Held)
  BY <1>1, RanksFinite, FS_Subset
<1> QED
  BY <1>1, <1>2, FS_CardinalityType

\* A rank comes that is not the last one: it is held, and is still not alone
\* in being missing.
LEMMA BlockHeld ==
  ASSUME IInv, NEW r \in Ranks, Block(r)
  PROVE  /\ Held' = Held \cup {r}
         /\ r \notin Held
         /\ Cardinality(Held') = Cardinality(Held) + 1
         /\ Held' # Ranks
<1>1. Held' = Held \cup {r} /\ r \notin Held
  BY DEF IInv, TypeOK, Block, Held
<1>2. Cardinality(Held') = Cardinality(Held) + 1
  BY <1>1, HeldFinite, FS_AddElement DEF IInv
<1>3. Cardinality(Held') # SIZE
  BY <1>2 DEF IInv, CountsHeld, Block
<1> QED
  BY <1>1, <1>2, <1>3, RanksFinite

\* The last rank comes: all others are held by this barrier, none is left from
\* the one before, and the new number holds nobody.
LEMMA OpenHeld ==
  ASSUME IInv, NEW r \in Ranks, Open(r)
  PROVE  /\ r \notin Held
         /\ Held \cup {r} = Ranks
         /\ waiting = Held
         /\ Held' = {}
<1>1. r \notin Held
  BY DEF Open, Held
<1>2. Cardinality(Held \cup {r}) = SIZE
  BY <1>1, HeldFinite, FS_AddElement DEF IInv, CountsHeld, Open
<1>3. Held \cup {r} = Ranks
  BY <1>2, RanksFinite, HeldFinite, FS_Subset DEF IInv
<1>4. waiting = Held
  BY <1>3 DEF IInv, TypeOK, Open, Held
<1>5. Bump(barrier_id) # barrier_id
  BY BumpMoves DEF IInv, TypeOK
<1>6. ASSUME NEW s \in waiting
      PROVE  id'[s] = barrier_id /\ s \in waiting
  BY <1>4, <1>6 DEF IInv, TypeOK, Open, Held
<1>7. Held' = {}
  BY <1>5, <1>6 DEF Open, Held
<1> QED
  BY <1>1, <1>3, <1>4, <1>7

\* A step that leaves the numbers and the count alone and moves only ranks that
\* are not held does not change who is held.
LEMMA WakeHeld ==
  ASSUME IInv, NEW r \in Ranks, Spurious(r) \/ Again(r) \/ Return(r)
  PROVE  Held' = Held
<1>1. CASE Spurious(r)
  BY <1>1 DEF Spurious, Held
<1>2. CASE Again(r)
  BY <1>2 DEF Again, Held
<1>3. CASE Return(r)
  BY <1>3 DEF Return, Held
<1> QED
  BY <1>1, <1>2, <1>3

\* Before the first barrier nobody is held and nobody sleeps.
LEMMA Initial == Init => IInv
<1> SUFFICES ASSUME Init PROVE IInv
  OBVIOUS
<1>1. TypeOK
  BY SizeAssumption, RangeAssumption DEF Init, TypeOK
<1>2. Held = {}
  BY DEF Init, Held
<1>3. CountsHeld
  BY <1>2, FS_EmptySet DEF Init, CountsHeld
<1>4. NoLostWakeup
  BY <1>2 DEF Init, NoLostWakeup
<1> QED
  BY <1>1, <1>3, <1>4 DEF IInv

\* Every step of plasma_barrier keeps the three parts.
LEMMA Step == IInv /\ [Next]_vars => IInv'
<1> SUFFICES ASSUME IInv, [Next]_vars PROVE IInv'
  OBVIOUS
<1> USE DEF IInv
<1>1. ASSUME NEW r \in Ranks, Block(r) PROVE IInv'
  <2>1. TypeOK'
    <3>1. barrier_nblocked_thrds' \in 0 .. SIZE - 1
      BY <1>1, SizeAssumption DEF TypeOK, Block
    <3>2. id' \in [Ranks -> 0 .. IdRange - 1]
      BY <1>1 DEF TypeOK, Block
    <3> QED
      BY <1>1, <3>1, <3>2 DEF TypeOK, Block
  <2>2. CountsHeld'
    <3>1. barrier_nblocked_thrds' = Cardinality(Held')
      BY <1>1, BlockHeld DEF CountsHeld, Block
    <3>2. ASSUME NEW s \in waiting' \ Held' PROVE Bump(id'[s]) = barrier_id'
      <4>1. s \in waiting \ Held /\ s # r
        BY <1>1, <3>2, BlockHeld DEF Block
      <4> QED
        BY <1>1, <4>1 DEF TypeOK, CountsHeld, Block
    <3> QED
      BY <3>1, <3>2 DEF CountsHeld, Bump
  <2>3. NoLostWakeup'
    BY <1>1, BlockHeld DEF NoLostWakeup, Block
  <2> QED
    BY <2>1, <2>2, <2>3
<1>2. ASSUME NEW r \in Ranks, Open(r) PROVE IInv'
  <2>1. TypeOK'
    <3>1. barrier_id' \in 0 .. IdRange - 1
      BY <1>2, BumpMoves DEF TypeOK, Open
    <3> QED
      BY <1>2, <3>1, SizeAssumption DEF TypeOK, Open
  <2>2. CountsHeld'
    <3>1. barrier_nblocked_thrds' = Cardinality(Held')
      BY <1>2, OpenHeld, FS_EmptySet DEF Open
    <3>2. ASSUME NEW s \in waiting' \ Held' PROVE Bump(id'[s]) = barrier_id'
      <4>1. s \in Held /\ s # r
        BY <1>2, <3>2, OpenHeld DEF Open
      <4>2. id'[s] = barrier_id
        BY <1>2, <4>1 DEF TypeOK, Open, Held
      <4> QED
        BY <1>2, <4>2 DEF Open
    <3> QED
      BY <3>1, <3>2 DEF CountsHeld, Bump
  <2>3. NoLostWakeup'
    BY <1>2 DEF NoLostWakeup, Open
  <2> QED
    BY <2>1, <2>2, <2>3
<1>3. ASSUME NEW r \in Ranks, Spurious(r) \/ Again(r) \/ Return(r) PROVE IInv'
  <2>1. Held' = Held
    BY <1>3, WakeHeld
  <2>2. /\ id' = id
        /\ barrier_id' = barrier_id
        /\ barrier_nblocked_thrds' = barrier_nblocked_thrds
        /\ waiting' \subseteq waiting
    BY <1>3 DEF Spurious, Again, Return
  <2>3. TypeOK'
    BY <1>3, <2>2 DEF TypeOK, Spurious, Again, Return
  <2>4. CountsHeld'
    <3>1. barrier_nblocked_thrds' = Cardinality(Held')
      BY <2>1, <2>2 DEF CountsHeld
    <3>2. ASSUME NEW s \in waiting' \ Held' PROVE Bump(id'[s]) = barrier_id'
      BY <2>1, <2>2, <3>2 DEF CountsHeld
    <3> QED
      BY <3>1, <3>2 DEF CountsHeld, Bump
  <2>5. NoLostWakeup'
    BY <1>3, <2>1 DEF NoLostWakeup, Spurious, Again, Return, Held
  <2> QED
    BY <2>3, <2>4, <2>5
<1>4. CASE UNCHANGED vars
  BY <1>4 DEF vars, TypeOK, CountsHeld, NoLostWakeup, Held, Bump
<1> QED
  BY <1>1, <1>2, <1>3, <1>4 DEF Next

\* The inductive invariant of plasma_barrier.
THEOREM Inductive == Spec => []IInv
BY Initial, Step, PTL DEF Spec

\* plasma_barrier: the count of blocked threads stays below the number of
\* ranks, and only ranks inside the barrier sleep on its condition variable.
THEOREM TypeCorrect == Spec => []TypeOK
BY Inductive, PTL DEF IInv

\* plasma_barrier: the count of blocked threads is the number of ranks this
\* barrier holds, and whoever is still on the way out of the last barrier is
\* one number behind.
THEOREM CountsHeldHolds == Spec => []CountsHeld
BY Inductive, PTL DEF IInv

\* plasma_barrier: a rank that has been let go is never asleep, so the single
\* broadcast of the last arrival is enough.
THEOREM NoLostWakeupHolds == Spec => []NoLostWakeup
BY Inductive, PTL DEF IInv

\* plasma_barrier is a rendezvous: nobody passes before everybody has come,
\* however often it is used and whoever is slow to leave.
THEOREM BarrierRefines == Spec => Refines
<1>1. Init => Abstract!Init
  BY DEF Init, Abstract!Init, Held
<1>2. ASSUME IInv, [Next]_vars PROVE [Abstract!Next]_Held
  <2>1. Abstract!Ranks = Ranks
    BY DEF Ranks, Abstract!Ranks
  <2>2. ASSUME NEW r \in Ranks, Block(r) PROVE Abstract!Next
    <3>1. Abstract!Arrive(r)
      BY <1>2, <2>1, <2>2, BlockHeld DEF Abstract!Arrive
    <3> QED
      BY <2>1, <3>1 DEF Abstract!Next
  <2>3. ASSUME NEW r \in Ranks, Open(r) PROVE Abstract!Next
    <3>1. Abstract!Arrive(r)
      BY <1>2, <2>1, <2>3, OpenHeld DEF Abstract!Arrive
    <3> QED
      BY <2>1, <3>1 DEF Abstract!Next
  <2>4. ASSUME NEW r \in Ranks, Spurious(r) \/ Again(r) \/ Return(r)
        PROVE  Held' = Held
    BY <1>2, <2>4, WakeHeld
  <2>5. CASE UNCHANGED vars
    BY <2>5 DEF vars, Held
  <2> QED
    BY <1>2, <2>2, <2>3, <2>4, <2>5 DEF Next
<1> QED
  BY <1>1, <1>2, Inductive, PTL DEF Spec, Refines, Abstract!Spec
-----------------------------------------------------------------------------
\* The busy-waiting barrier.  A worker is away, asks, or has been answered.
Away(r)     == pc[r] = "out" /\ barrier_in[r] = 0 /\ barrier_out[r] = 0
Asks(r)     == pc[r] = "spin" /\ barrier_in[r] = 1 /\ barrier_out[r] = 0
Answered(r) == pc[r] = "spin" /\ barrier_in[r] = 0 /\ barrier_out[r] = 1
Cleared(r)  == pc[r] = "spin" /\ barrier_in[r] = 0 /\ barrier_out[r] = 0

\* Where rank 0 is says what it has already found, cleared and answered.
BwPhase(r) ==
  /\ pc[0] = "out" => Away(r) \/ Asks(r) \/ Answered(r)
  /\ pc[0] = "collect" => IF r < core THEN Asks(r)
                          ELSE Away(r) \/ Asks(r) \/ Answered(r)
  /\ pc[0] = "clear" => IF r < core THEN Cleared(r) ELSE Asks(r)
  /\ pc[0] = "release" => IF r < core THEN Away(r) \/ Asks(r) \/ Answered(r)
                          ELSE Cleared(r)

BwTyping == /\ pc \in [Ranks -> {"out", "spin", "collect", "clear", "release"}]
            /\ BwTypeOK

BwInv == BwTyping /\ \A r \in Workers : BwPhase(r)

\* The workers are the ranks from 1 on.
LEMMA WorkerRange ==
  /\ 0 \in Ranks
  /\ Workers = 1 .. SIZE - 1
  /\ \A r \in Workers : r \in Ranks /\ r # 0 /\ r \in Int /\ r < SIZE
BY SizeAssumption DEF Ranks, Workers

\* Before the first barrier everybody is away.
LEMMA BwInitial == BwInit => BwInv
BY WorkerRange, SizeAssumption DEF BwInit, BwInv, BwTyping, BwTypeOK, BwPhase, Away

\* The flags stay bits and the loop counter of rank 0 stays within the workers.
LEMMA BwTypingStep == ASSUME BwTyping, [BwNext]_bwVars PROVE BwTyping'
<1> USE WorkerRange, SizeAssumption DEF BwTyping, BwTypeOK, Goto
<1>1. CASE Begin
  BY <1>1 DEF Begin
<1>2. CASE EndCollect
  BY <1>2 DEF EndCollect, EndLoop
<1>3. CASE EndClear
  BY <1>3 DEF EndClear, EndLoop
<1>4. CASE EndRelease
  BY <1>4 DEF EndRelease, EndLoop
<1>5. CASE Collect
  BY <1>5 DEF Collect
<1>6. CASE Clear
  BY <1>6 DEF Clear
<1>7. CASE Release
  BY <1>7 DEF Release
<1>8. ASSUME NEW r \in Workers, Arrive(r) PROVE BwTyping'
  BY <1>8 DEF Arrive
<1>9. ASSUME NEW r \in Workers, Leave(r) PROVE BwTyping'
  BY <1>9 DEF Leave
<1>10. CASE UNCHANGED bwVars
  BY <1>10 DEF bwVars
<1> QED
  BY <1>1, <1>2, <1>3, <1>4, <1>5, <1>6, <1>7, <1>8, <1>9, <1>10
  DEF BwNext, Master

\* What rank 0 has found, cleared and answered is so for every worker after
\* each step, whether it is the worker that rank 0 looks at or another one.
LEMMA BwPhaseStep ==
  ASSUME BwInv, [BwNext]_bwVars, NEW s \in Workers
  PROVE  BwPhase(s)'
<1> USE WorkerRange, SizeAssumption
    DEF BwInv, BwTyping, BwTypeOK, Goto, BwPhase, Away, Asks, Answered, Cleared
<1>1. CASE Begin
  BY <1>1 DEF Begin
<1>2. CASE EndCollect
  BY <1>2 DEF EndCollect, EndLoop
<1>3. CASE EndClear
  BY <1>3 DEF EndClear, EndLoop
<1>4. CASE EndRelease
  BY <1>4 DEF EndRelease, EndLoop
<1>5. CASE Collect
  <2>1. CASE s = core
    BY <1>5, <2>1 DEF Collect
  <2>2. CASE s # core
    BY <1>5, <2>2 DEF Collect
  <2> QED
    BY <2>1, <2>2
<1>6. CASE Clear
  <2>1. CASE s = core
    BY <1>6, <2>1 DEF Clear
  <2>2. CASE s # core
    BY <1>6, <2>2 DEF Clear
  <2> QED
    BY <2>1, <2>2
<1>7. CASE Release
  <2>1. CASE s = core
    BY <1>7, <2>1 DEF Release
  <2>2. CASE s # core
    BY <1>7, <2>2 DEF Release
  <2> QED
    BY <2>1, <2>2
<1>8. ASSUME NEW r \in Workers, Arrive(r) PROVE BwPhase(s)'
  <2>1. CASE s = r
    BY <1>8, <2>1 DEF Arrive
  <2>2. CASE s # r
    BY <1>8, <2>2 DEF Arrive
  <2> QED
    BY <2>1, <2>2
<1>9. ASSUME NEW r \in Workers, Leave(r) PROVE BwPhase(s)'
  <2>1. CASE s = r
    BY <1>9, <2>1 DEF Leave
  <2>2. CASE s # r
    BY <1>9, <2>2 DEF Leave
  <2> QED
    BY <2>1, <2>2
<1>10. CASE UNCHANGED bwVars
  BY <1>10 DEF bwVars
<1> QED
  BY <1>1, <1>2, <1>3, <1>4, <1>5, <1>6, <1>7, <1>8, <1>9, <1>10
  DEF BwNext, Master

\* The inductive invariant of plasma_barrier_bw.
THEOREM BwInductive == BwSpec => []BwInv
<1>1. BwInv /\ [BwNext]_bwVars => BwInv'
  BY BwTypingStep, BwPhaseStep DEF BwInv
<1> QED
  BY <1>1, BwInitial, PTL DEF BwSpec

\* plasma_barrier_bw: the flags are bits, and the loops of rank 0 stay within
\* the flags of the other ranks.
THEOREM BwTypeCorrect == BwSpec => []BwTypeOK
BY BwInductive, PTL DEF BwInv, BwTyping

\* plasma_barrier_bw: an answer is up only for a rank that waits for it, and
\* its question has been cleared; no flag of one barrier reaches the next.
THEOREM FlagsFreshHolds == BwSpec => []FlagsFresh
<1>1. BwInv => FlagsFresh
  <2> SUFFICES ASSUME BwInv, NEW r \in Workers, barrier_out[r] = 1
               PROVE  pc[r] = "spin" /\ barrier_in[r] = 0
    BY DEF FlagsFresh
  <2> QED
    BY WorkerRange
    DEF BwInv, BwTyping, BwTypeOK, BwPhase, Away, Asks, Answered, Cleared
<1> QED
  BY <1>1, BwInductive, PTL

-----------------------------------------------------------------------------
\* Rank 0 comes: it is held, or if all the others have come everybody goes.
LEMMA BeginHeld ==
  ASSUME BwInv, Begin
  PROVE  /\ 0 \notin BwHeld
         /\ BwHeld' = IF BwHeld \cup {0} = Ranks THEN {} ELSE BwHeld \cup {0}
<1>1. BwHeld = {r \in Workers : barrier_in[r] = 1}
  BY WorkerRange DEF Begin, BwHeld, AllHere
<1>2. Ranks = Workers \cup {0} /\ 0 \notin Workers
  BY WorkerRange DEF Workers
<1>3. AllHere' <=> \A r \in Workers : barrier_in[r] = 1
  BY WorkerRange DEF Begin, Goto, AllHere, BwInv, BwTyping
<1>4. pc'[0] = "collect" /\ barrier_in' = barrier_in
  BY WorkerRange DEF Begin, Goto, BwInv, BwTyping
<1>5. AllHere' <=> BwHeld \cup {0} = Ranks
  BY <1>1, <1>2, <1>3
<1>6. BwHeld' = IF AllHere' THEN {} ELSE {r \in Workers : barrier_in[r] = 1} \cup {0}
  BY <1>4 DEF BwHeld
<1> QED
  BY <1>1, <1>2, <1>5, <1>6

\* A worker comes: it is held, or if it is the last one everybody goes.
LEMMA ArriveHeld ==
  ASSUME BwInv, NEW r \in Workers, Arrive(r)
  PROVE  /\ r \notin BwHeld
         /\ BwHeld' = IF BwHeld \cup {r} = Ranks THEN {} ELSE BwHeld \cup {r}
<1> USE WorkerRange
<1>1. Away(r) /\ pc[0] \in {"out", "collect", "release"} /\ ~AllHere
  BY DEF BwInv, BwTyping, BwTypeOK, BwPhase, Away, Asks, Answered, Cleared, Arrive,
         AllHere
<1>2. /\ pc'[0] = pc[0]
      /\ barrier_in'[r] = 1
      /\ \A s \in Workers \ {r} : barrier_in'[s] = barrier_in[s]
  BY DEF Arrive, Goto, BwInv, BwTyping, BwTypeOK
<1>3. BwHeld = {s \in Workers : barrier_in[s] = 1} \cup {s \in {0} : pc[0] = "collect"}
  BY <1>1 DEF BwHeld
<1>4. r \notin BwHeld
  BY <1>1, <1>3 DEF Away
<1>5. Ranks = Workers \cup {0} /\ 0 \notin Workers
  BY DEF Workers
<1>6. AllHere' <=> BwHeld \cup {r} = Ranks
  <2>1. ASSUME AllHere' PROVE BwHeld \cup {r} = Ranks
    BY <1>2, <1>3, <1>5, <2>1 DEF AllHere
  <2>2. ASSUME BwHeld \cup {r} = Ranks PROVE AllHere'
    BY <1>2, <1>3, <1>5, <2>2 DEF AllHere
  <2> QED
    BY <2>1, <2>2
<1>7. ~AllHere' => BwHeld' = BwHeld \cup {r}
  BY <1>1, <1>2, <1>3 DEF BwHeld
<1>8. AllHere' => BwHeld' = {}
  BY DEF BwHeld
<1> QED
  BY <1>4, <1>6, <1>7, <1>8

\* No other step holds a rank or lets one go; a flag that is cleared is one of
\* a rank that has been let go.
LEMMA OtherHeld ==
  ASSUME BwInv,
         \/ Collect \/ EndCollect \/ Clear \/ EndClear \/ Release \/ EndRelease
         \/ \E r \in Workers : Leave(r)
         \/ UNCHANGED bwVars
  PROVE  BwHeld' = BwHeld
<1> USE WorkerRange
<1>1. CASE Collect
  BY <1>1 DEF Collect, BwHeld, AllHere
<1>2. CASE EndCollect
  <2>1. AllHere
    BY <1>2 DEF EndCollect, EndLoop, AllHere, BwInv, BwTyping, BwTypeOK, BwPhase, Asks
  <2>2. pc'[0] = "clear"
    BY <1>2 DEF EndCollect, EndLoop, Goto, BwInv, BwTyping
  <2> QED
    BY <2>1, <2>2 DEF BwHeld, AllHere
<1>3. CASE Clear
  BY <1>3 DEF Clear, BwHeld, AllHere
<1>4. CASE EndClear
  <2>1. pc[0] = "clear" /\ pc'[0] = "release" /\ barrier_in' = barrier_in
    BY <1>4 DEF EndClear, EndLoop, Goto, BwInv, BwTyping
  <2>2. \A s \in Workers : barrier_in[s] = 0
    BY <1>4 DEF EndClear, EndLoop, BwInv, BwTyping, BwTypeOK, BwPhase, Cleared
  <2> QED
    BY <2>1, <2>2 DEF BwHeld, AllHere
<1>5. CASE Release
  BY <1>5 DEF Release, BwHeld, AllHere
<1>6. CASE EndRelease
  <2>1. pc[0] = "release" /\ pc'[0] = "out" /\ barrier_in' = barrier_in
    BY <1>6 DEF EndRelease, EndLoop, Goto, BwInv, BwTyping
  <2> QED
    BY <2>1 DEF BwHeld, AllHere
<1>7. ASSUME NEW r \in Workers, Leave(r) PROVE BwHeld' = BwHeld
  <2>1. pc'[0] = pc[0] /\ barrier_in' = barrier_in
    BY <1>7 DEF Leave, Goto, BwInv, BwTyping
  <2> QED
    BY <2>1 DEF BwHeld, AllHere
<1>8. CASE UNCHANGED bwVars
  BY <1>8 DEF bwVars, BwHeld, AllHere
<1> QED
  BY <1>1, <1>2, <1>3, <1>4, <1>5, <1>6, <1>7, <1>8

\* plasma_barrier_bw is a rendezvous: nobody passes before everybody has come,
\* also when some come back before rank 0 has let all the others go.
THEOREM BarrierBwRefines == BwSpec => BwRefines
<1>1. BwInit => BwAbstract!Init
  BY WorkerRange DEF BwInit, BwAbstract!Init, BwHeld, AllHere
<1>2. ASSUME BwInv, [BwNext]_bwVars PROVE [BwAbstract!Next]_BwHeld
  <2>1. BwAbstract!Ranks = Ranks
    BY DEF Ranks, BwAbstract!Ranks
  <2>2. CASE Begin
    <3>1. BwAbstract!Arrive(0)
      BY <1>2, <2>1, <2>2, BeginHeld DEF BwAbstract!Arrive
    <3> QED
      BY <2>1, <3>1, WorkerRange DEF BwAbstract!Next
  <2>3. ASSUME NEW r \in Workers, Arrive(r) PROVE BwAbstract!Next
    <3>1. BwAbstract!Arrive(r)
      BY <1>2, <2>1, <2>3, ArriveHeld DEF BwAbstract!Arrive
    <3> QED
      BY <2>1, <3>1, WorkerRange DEF BwAbstract!Next
  <2>4. CASE \/ Collect \/ EndCollect \/ Clear \/ EndClear \/ Release
             \/ EndRelease \/ (\E r \in Workers : Leave(r)) \/ UNCHANGED bwVars
    BY <1>2, <2>4, OtherHeld
  <2> QED
    BY <1>2, <2>2, <2>3, <2>4 DEF BwNext, Master
<1> QED
  BY <1>1, <1>2, BwInductive, PTL DEF BwSpec, BwRefines, BwAbstract!Spec
=============================================================================
