------------------------------- MODULE Barrier -------------------------------
(***************************************************************************)
(* plasma_barrier of control/control.cpp: a barrier on a mutex, a          *)
(* condition variable, the number of blocked threads and the number of the *)
(* barrier (barrier_id), used over and over by the same ranks.             *)
(*                                                                         *)
(* The code between lock (or the return of pthread_cond_wait) and unlock   *)
(* (or the next pthread_cond_wait) is one step.  asleep is the queue of    *)
(* the condition variable; a thread may also wake for no reason.           *)
(***************************************************************************)
EXTENDS PlasmaRanks, FiniteSets

CONSTANT IdRange       \* values of barrier_id before it wraps around

ASSUME RangeAssumption == IdRange \in Nat /\ IdRange >= 2

VARIABLES
  waiting,     \* ranks in the while loop of plasma_barrier
  asleep,      \* those of them blocked in pthread_cond_wait
  id,          \* id[r]: the local id of rank r
  barrier_id,
  barrier_nblocked_thrds

vars == <<waiting, asleep, id, barrier_id, barrier_nblocked_thrds>>

\* barrier_id++, wrapping around.
Bump(n) == IF n + 1 = IdRange THEN 0 ELSE n + 1

Init == /\ waiting = {}
        /\ asleep = {}
        /\ id = [r \in Ranks |-> 0]
        /\ barrier_id = 0
        /\ barrier_nblocked_thrds = 0

\* Not the last one: into the while loop and to sleep.
Block(r) ==
  /\ r \notin waiting
  /\ barrier_nblocked_thrds + 1 # SIZE
  /\ id' = [id EXCEPT ![r] = barrier_id]
  /\ barrier_nblocked_thrds' = barrier_nblocked_thrds + 1
  /\ waiting' = waiting \cup {r}
  /\ asleep' = asleep \cup {r}
  /\ UNCHANGED barrier_id

\* Mutant of Open: no broadcast.
OpenQuietly(r) ==
  /\ r \notin waiting
  /\ barrier_nblocked_thrds + 1 = SIZE
  /\ id' = [id EXCEPT ![r] = barrier_id]
  /\ barrier_nblocked_thrds' = 0
  /\ barrier_id' = Bump(barrier_id)
  /\ UNCHANGED <<waiting, asleep>>

\* Mutant of Open: the count is not reset.
OpenCounted(r) ==
  /\ r \notin waiting
  /\ barrier_nblocked_thrds + 1 = SIZE
  /\ id' = [id EXCEPT ![r] = barrier_id]
  /\ barrier_nblocked_thrds' = 1
  /\ barrier_id' = Bump(barrier_id)
  /\ asleep' = {}
  /\ UNCHANGED waiting

\* The last one resets the count, takes the next number and wakes the others;
\* it finds id # barrier_id and returns at once.
Open(r) ==
  /\ r \notin waiting
  /\ barrier_nblocked_thrds + 1 = SIZE
  /\ id' = [id EXCEPT ![r] = barrier_id]
  /\ barrier_nblocked_thrds' = 0
  /\ barrier_id' = Bump(barrier_id)
  /\ asleep' = {}
  /\ UNCHANGED waiting

\* A wake-up nobody asked for.
Spurious(r) ==
  /\ r \in asleep
  /\ asleep' = asleep \ {r}
  /\ UNCHANGED <<waiting, id, barrier_id, barrier_nblocked_thrds>>

\* while (id == barrier_id): back to sleep ..
Again(r) ==
  /\ r \in waiting \ asleep
  /\ id[r] = barrier_id
  /\ asleep' = asleep \cup {r}
  /\ UNCHANGED <<waiting, id, barrier_id, barrier_nblocked_thrds>>

\* Mutant of Return: if instead of while.
ReturnAnyway(r) ==
  /\ r \in waiting \ asleep
  /\ waiting' = waiting \ {r}
  /\ UNCHANGED <<asleep, id, barrier_id, barrier_nblocked_thrds>>

\* .. or out of the barrier.
Return(r) ==
  /\ r \in waiting \ asleep
  /\ id[r] # barrier_id
  /\ waiting' = waiting \ {r}
  /\ UNCHANGED <<asleep, id, barrier_id, barrier_nblocked_thrds>>

Next == \E r \in Ranks :
          Block(r) \/ Open(r) \/ Spurious(r) \/ Again(r) \/ Return(r)

Spec == Init /\ [][Next]_vars
-----------------------------------------------------------------------------
\* The ranks that the barrier holds: those waiting for the present number.
Held == {r \in waiting : id[r] = barrier_id}

TypeOK ==
  /\ waiting \subseteq Ranks
  /\ asleep \subseteq waiting
  /\ id \in [Ranks -> 0 .. IdRange - 1]
  /\ barrier_id \in 0 .. IdRange - 1
  /\ barrier_nblocked_thrds \in 0 .. SIZE - 1

\* The counter counts the ranks held and nobody else: a rank that is slow to
\* leave the last barrier is not taken for one that waits in this one, and is
\* exactly one number behind, so that two numbers would do for barrier_id.
CountsHeld ==
  /\ barrier_nblocked_thrds = Cardinality(Held)
  /\ \A r \in waiting \ Held : Bump(id[r]) = barrier_id

\* No wake-up is lost: whoever is not held is not asleep.
NoLostWakeup == asleep \subseteq Held

\* The condition variable barrier is a rendezvous.
Abstract == INSTANCE Rendezvous WITH inside <- Held
Refines == Abstract!Spec
=============================================================================
