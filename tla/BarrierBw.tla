------------------------------ MODULE BarrierBw ------------------------------
(***************************************************************************)
(* plasma_barrier_bw of control/control.cpp: the busy-waiting barrier, in  *)
(* which rank 0 collects the flag barrier_in of every other rank, clears   *)
(* them, and then raises the flag barrier_out of each.                     *)
(***************************************************************************)
EXTENDS PlasmaRanks

VARIABLES
  pc,                    \* "out" between two barriers, or where in the code
  core,                  \* loop counter of rank 0
  barrier_in, barrier_out

bwVars == <<pc, core, barrier_in, barrier_out>>

Goto(r, l) == pc' = [pc EXCEPT ![r] = l]

BwInit == /\ pc = [r \in Ranks |-> "out"]
          /\ core = 1
          /\ barrier_in = [r \in Workers |-> 0]
          /\ barrier_out = [r \in Workers |-> 0]

\* Rank 0 begins.
Begin ==
  /\ pc[0] = "out"
  /\ core' = 1
  /\ Goto(0, "collect")
  /\ UNCHANGED <<barrier_in, barrier_out>>

\* Mutant of EndLoop: the next loop leaves out the first rank.
EndLoopSecond(at, next) ==
  /\ pc[0] = at
  /\ core = SIZE
  /\ core' = 2
  /\ Goto(0, next)
  /\ UNCHANGED <<barrier_in, barrier_out>>

\* The end of one of rank 0's loops over the other ranks.
EndLoop(at, next) ==
  /\ pc[0] = at
  /\ core = SIZE
  /\ core' = 1
  /\ Goto(0, next)
  /\ UNCHANGED <<barrier_in, barrier_out>>

EndCollect == EndLoop("collect", "clear")
EndClear   == EndLoop("clear", "release")
EndRelease == EndLoop("release", "out")

\* Mutant of Collect: the flag is not waited for.
CollectNot ==
  /\ pc[0] = "collect"
  /\ core < SIZE
  /\ core' = core + 1
  /\ UNCHANGED <<pc, barrier_in, barrier_out>>

\* while (barrier_in[core] == 0);
Collect ==
  /\ pc[0] = "collect"
  /\ core < SIZE
  /\ barrier_in[core] = 1
  /\ core' = core + 1
  /\ UNCHANGED <<pc, barrier_in, barrier_out>>

Clear ==
  /\ pc[0] = "clear"
  /\ core < SIZE
  /\ barrier_in' = [barrier_in EXCEPT ![core] = 0]
  /\ core' = core + 1
  /\ UNCHANGED <<pc, barrier_out>>

Release ==
  /\ pc[0] = "release"
  /\ core < SIZE
  /\ barrier_out' = [barrier_out EXCEPT ![core] = 1]
  /\ core' = core + 1
  /\ UNCHANGED <<pc, barrier_in>>

\* Another rank says that it is here ..
Arrive(r) ==
  /\ pc[r] = "out"
  /\ barrier_in' = [barrier_in EXCEPT ![r] = 1]
  /\ Goto(r, "spin")
  /\ UNCHANGED <<core, barrier_out>>

\* Mutant of Leave: the answer is not taken back.
LeaveRaised(r) ==
  /\ pc[r] = "spin"
  /\ barrier_out[r] = 1
  /\ Goto(r, "out")
  /\ UNCHANGED <<core, barrier_in, barrier_out>>

\* .. spins until it is answered, and takes the answer back.
Leave(r) ==
  /\ pc[r] = "spin"
  /\ barrier_out[r] = 1
  /\ barrier_out' = [barrier_out EXCEPT ![r] = 0]
  /\ Goto(r, "out")
  /\ UNCHANGED <<core, barrier_in>>

Master == \/ Begin \/ Collect \/ EndCollect \/ Clear \/ EndClear \/ Release
          \/ EndRelease

BwNext == Master \/ \E r \in Workers : Arrive(r) \/ Leave(r)

BwSpec == BwInit /\ [][BwNext]_bwVars

\* A rank inside goes on; a rank need not come to the barrier.
BwFair == /\ WF_bwVars(Master /\ pc[0] # "out")
          /\ \A r \in Workers : WF_bwVars(Leave(r))
-----------------------------------------------------------------------------
BwTypeOK ==
  /\ \A r \in Workers : pc[r] \in {"out", "spin"}
  /\ pc[0] \in {"out", "collect", "clear", "release"}
  /\ core \in 1 .. SIZE
  /\ barrier_in \in [Workers -> {0, 1}]
  /\ barrier_out \in [Workers -> {0, 1}]

\* Everybody is here; the flags that rank 0 still clears are old ones.
AllHere == pc[0] = "collect" /\ \A r \in Workers : barrier_in[r] = 1

BwHeld == IF AllHere THEN {}
        ELSE {r \in Workers : barrier_in[r] = 1 /\ pc[0] # "clear"}
             \cup {r \in {0} : pc[0] = "collect"}

\* A flag belongs to one barrier: an answer is up only for a rank that spins,
\* and never together with a question of the same rank.
FlagsFresh == \A r \in Workers :
  barrier_out[r] = 1 => pc[r] = "spin" /\ barrier_in[r] = 0

\* Once everybody is in the barrier, everybody gets out: no arrival and no
\* answer is lost, also when a rank is back before the others have left.
Released ==
  \A r \in Ranks :
    /\ pc[0] = "collect"
    /\ \A s \in Workers : pc[s] = "spin" /\ barrier_out[s] = 0
    ~> pc[r] = "out"

\* The busy-waiting barrier is a rendezvous.
BwAbstract == INSTANCE Rendezvous WITH inside <- BwHeld
BwRefines == BwAbstract!Spec
=============================================================================
