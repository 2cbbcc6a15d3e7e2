------------------------------- MODULE Control -------------------------------
(***************************************************************************)
(* The thread control of PLASMA: the master's calls (plasma_static_call,   *)
(* plasma_dynamic_spawn and plasma_dynamic_sync of control/global.h,       *)
(* PLASMA_Finalize) and the workers' loop plasma_parallel_section of       *)
(* control/control.cpp, with the end of a dynamic section as quark.c does  *)
(* it (QUARK_Waitall, the sleep and exit of the worker loop).              *)
(*                                                                         *)
(* plasma_barrier is one step that all ranks take together, whatever line  *)
(* of the code each of them calls it from (modules Barrier, Rendezvous).   *)
(* A parallel function is the barrier it has inside; QUARK tasks are left  *)
(* out.  Code under a mutex is one step.                                   *)
(***************************************************************************)
EXTENDS Integers

CONSTANTS SIZE,        \* world_size: the master is rank 0
          MaxCalls     \* bound: calls of the master before PLASMA_Finalize

ASSUME SizeAssumption  == SIZE \in Nat \ {0}
ASSUME CallsAssumption == MaxCalls \in Nat

VARIABLES
  pc,          \* pc[r]: where rank r is
  action,      \* plasma->action
  asleep,      \* workers in pthread_cond_wait(action_condt)
  got,         \* got[r]: the local action of worker r
  dynamic,     \* plasma->dynamic_section
  want,        \* what the master posts next, after a sync if one is needed
  finalize,    \* quark's worker->finalize
  napping,     \* workers in pthread_cond_wait(worker_must_awake_cond)
  freed,       \* QUARK_Free has freed the workers' structures
  ran,         \* ran[r]: parallel functions rank r has entered
  calls        \* calls of the master

master == <<dynamic, want, calls>>
quark  == <<finalize, napping, freed>>
vars == <<pc, action, asleep, got, master, quark, ran>>

Ranks   == 0 .. SIZE - 1
Workers == Ranks \ {0}

\* The lines that call plasma_barrier.
Sites == {"init_bar", "act_bar", "fun_bar", "end_bar", "sync_bar"}

Goto(r, l) == pc' = [pc EXCEPT ![r] = l]

\* PLASMA_Init has created the workers; everybody comes to the first barrier.
Init == /\ pc = [r \in Ranks |-> "init_bar"]
        /\ action = "STAND_BY"
        /\ asleep = {}
        /\ got = [r \in Workers |-> "STAND_BY"]
        /\ dynamic = FALSE
        /\ want = "NONE"
        /\ finalize = [r \in Workers |-> FALSE]
        /\ napping = {}
        /\ freed = FALSE
        /\ ran = [r \in Ranks |-> 0]
        /\ calls = 0

\* Where a rank goes from the barrier it is in.
Onward(r) ==
  CASE pc[r] = "init_bar" -> IF r = 0 THEN "ready" ELSE "look"
    [] pc[r] = "act_bar"  -> IF r = 0 THEN "reset" ELSE "switch"
    [] pc[r] = "fun_bar"  -> "end_bar"
    [] pc[r] = "end_bar"  -> IF r = 0 THEN "ready" ELSE "look"
    [] pc[r] = "sync_bar" -> "synced"

\* Mutant of Barrier: the master does not wait.
BarrierOpen ==
  \/ /\ pc[0] \in Sites
     /\ Goto(0, Onward(0))
     /\ UNCHANGED <<action, asleep, got, master, quark, ran>>
  \/ /\ \A r \in Workers : pc[r] \in Sites
     /\ pc' = [r \in Ranks |-> IF r = 0 THEN pc[0] ELSE Onward(r)]
     /\ UNCHANGED <<action, asleep, got, master, quark, ran>>

Barrier ==
  /\ \A r \in Ranks : pc[r] \in Sites
  /\ pc' = [r \in Ranks |-> Onward(r)]
  /\ UNCHANGED <<action, asleep, got, master, quark, ran>>
-----------------------------------------------------------------------------
(* The master *)

\* Where a call goes on once no dynamic section is open.  PLASMA_Finalize calls
\* QUARK_Free, which begins with a QUARK_Waitall of its own.
Resume(op) == CASE op = "NONE"     -> "ready"
                [] op = "FINALIZE" -> "waitall"
                [] OTHER           -> "post"

\* A call begins: one that needs the workers first ends a dynamic section.
Begin(op) ==
  /\ pc[0] = "ready"
  /\ calls < MaxCalls \/ op = "FINALIZE"
  /\ calls' = IF op = "FINALIZE" THEN calls ELSE calls + 1
  /\ want' = op
  /\ Goto(0, IF dynamic THEN "waitall" ELSE Resume(op))
  /\ UNCHANGED <<action, asleep, got, dynamic, quark, ran>>

StaticCall  == Begin("PARALLEL")
DynamicSync == Begin("NONE")
Finalize    == Begin("FINALIZE")

\* In a dynamic section plasma_dynamic_spawn does nothing.
DynamicSpawn ==
  /\ pc[0] = "ready"
  /\ calls < MaxCalls
  /\ calls' = calls + 1
  /\ dynamic' = TRUE
  /\ IF dynamic THEN UNCHANGED <<pc, want>>
                ELSE want' = "DYNAMIC" /\ Goto(0, "post")
  /\ UNCHANGED <<action, asleep, got, quark, ran>>

\* QUARK_Waitall: no task is left; every worker is told to leave its loop, also
\* where no worker is in it ..
Waitall ==
  /\ pc[0] = "waitall"
  /\ finalize' = [r \in Workers |-> TRUE]
  /\ Goto(0, "signal")
  /\ UNCHANGED <<action, asleep, got, master, napping, freed, ran>>

\* .. and the sleeping ones are woken.  plasma_dynamic_sync goes to its barrier,
\* QUARK_Free on to what it frees.
Signal ==
  /\ pc[0] = "signal"
  /\ napping' = {}
  /\ Goto(0, IF dynamic THEN "sync_bar" ELSE "free")
  /\ UNCHANGED <<action, asleep, got, master, finalize, freed, ran>>

\* QUARK_Free: quark_worker_delete of every worker.
Free ==
  /\ pc[0] = "free"
  /\ freed' = TRUE
  /\ Goto(0, "post")
  /\ UNCHANGED <<action, asleep, got, master, finalize, napping, ran>>

\* plasma_dynamic_sync: the barrier is behind; the section is over.
Synced ==
  /\ pc[0] = "synced"
  /\ dynamic' = FALSE
  /\ Goto(0, Resume(want))
  /\ UNCHANGED <<action, asleep, got, want, calls, quark, ran>>

\* plasma->action = .. under the mutex ..
Post ==
  /\ pc[0] = "post"
  /\ action' = want
  /\ Goto(0, "wake")
  /\ UNCHANGED <<asleep, got, master, quark, ran>>

\* Mutant of Wake: one worker is woken.
WakeOne ==
  /\ pc[0] = "wake"
  /\ asleep' = asleep \ {1}
  /\ Goto(0, "act_bar")
  /\ UNCHANGED <<action, got, master, quark, ran>>

\* .. pthread_cond_broadcast after it.
Wake ==
  /\ pc[0] = "wake"
  /\ asleep' = {}
  /\ Goto(0, "act_bar")
  /\ UNCHANGED <<action, got, master, quark, ran>>

\* Where the master goes on after the action is taken back.
Proceed == CASE want = "PARALLEL" -> "run"
             [] want = "DYNAMIC"  -> "ready"
             [] want = "FINALIZE" -> "join"

\* Mutant of Reset: the action stays.
ResetNot ==
  /\ pc[0] = "reset"
  /\ Goto(0, Proceed)
  /\ UNCHANGED <<action, asleep, got, master, quark, ran>>

\* After the barrier, without the mutex: plasma->action = STAND_BY.
Reset ==
  /\ pc[0] = "reset"
  /\ action' = "STAND_BY"
  /\ Goto(0, Proceed)
  /\ UNCHANGED <<asleep, got, master, quark, ran>>

\* pthread_join of every worker.
Join ==
  /\ pc[0] = "join"
  /\ \A r \in Workers : pc[r] = "exit"
  /\ Goto(0, "gone")
  /\ UNCHANGED <<action, asleep, got, master, quark, ran>>
-----------------------------------------------------------------------------
(* Any rank, and the workers *)

\* parallel_func_ptr(plasma): on to the barrier inside it.
Run(r) ==
  /\ pc[r] = "run"
  /\ ran' = [ran EXCEPT ![r] = @ + 1]
  /\ Goto(r, "fun_bar")
  /\ UNCHANGED <<action, asleep, got, master, quark>>

\* Under the mutex: sleep while there is nothing to do, else take the action.
Look(r) ==
  /\ pc[r] = "look"
  /\ r \notin asleep
  /\ IF action = "STAND_BY"
     THEN /\ asleep' = asleep \cup {r}
          /\ UNCHANGED <<pc, got>>
     ELSE /\ got' = [got EXCEPT ![r] = action]
          /\ Goto(r, "act_bar")
          /\ UNCHANGED asleep
  /\ UNCHANGED <<action, master, quark, ran>>

\* A wake-up nobody asked for.
Spurious(r) ==
  /\ \/ r \in asleep /\ asleep' = asleep \ {r} /\ UNCHANGED napping
     \/ r \in napping /\ napping' = napping \ {r} /\ UNCHANGED asleep
  /\ UNCHANGED <<pc, action, got, master, finalize, freed, ran>>

Switch(r) ==
  /\ pc[r] = "switch"
  /\ Goto(r, CASE got[r] = "PARALLEL" -> "run"
               [] got[r] = "DYNAMIC"  -> "quark"
               [] got[r] = "FINALIZE" -> "exit")
  /\ UNCHANGED <<action, asleep, got, master, quark, ran>>

\* Mutant of LeaveQuark: the flag stays up.
LeaveQuarkRaised(r) ==
  /\ pc[r] = "quark"
  /\ r \notin napping
  /\ finalize[r]
  /\ Goto(r, "end_bar")
  /\ UNCHANGED <<action, asleep, got, master, quark, ran>>

\* QUARK_Worker_Loop: told to leave, the worker takes the flag down ..
LeaveQuark(r) ==
  /\ pc[r] = "quark"
  /\ r \notin napping
  /\ finalize[r]
  /\ finalize' = [finalize EXCEPT ![r] = FALSE]
  /\ Goto(r, "end_bar")
  /\ UNCHANGED <<action, asleep, got, master, napping, freed, ran>>

\* .. and it sleeps while there is no task, having looked at the flag under the
\* mutex that the signal takes.
Nap(r) ==
  /\ pc[r] = "quark"
  /\ r \notin napping
  /\ ~finalize[r]
  /\ napping' = napping \cup {r}
  /\ UNCHANGED <<pc, action, asleep, got, master, finalize, freed, ran>>
-----------------------------------------------------------------------------
Calls  == StaticCall \/ DynamicSpawn \/ DynamicSync \/ Finalize
Master == Waitall \/ Signal \/ Free \/ Synced \/ Post \/ Wake \/ Reset \/ Join \/ Run(0)
Worker(r) == Look(r) \/ Switch(r) \/ Run(r) \/ LeaveQuark(r) \/ Nap(r)

Next == \/ Barrier \/ Calls \/ Master
        \/ \E r \in Workers : Worker(r) \/ Spurious(r)

Spec == Init /\ [][Next]_vars

\* Threads are scheduled; the master need not call.
FairSpec == /\ Spec
            /\ WF_vars(Barrier)
            /\ WF_vars(Master)
            /\ \A r \in Workers : WF_vars(Worker(r))
-----------------------------------------------------------------------------
Acts == {"STAND_BY", "PARALLEL", "DYNAMIC", "FINALIZE"}

Labels == Sites \cup {"ready", "waitall", "signal", "free", "synced", "post",
                      "wake", "reset", "join", "gone", "run", "look", "switch",
                      "quark", "exit"}

TypeOK ==
  /\ pc \in [Ranks -> Labels]
  /\ action \in Acts
  /\ asleep \subseteq Workers
  /\ got \in [Workers -> Acts]
  /\ dynamic \in BOOLEAN
  /\ want \in {"NONE", "PARALLEL", "DYNAMIC", "FINALIZE"}
  /\ finalize \in [Workers -> BOOLEAN]
  /\ napping \subseteq Workers
  /\ freed \in BOOLEAN
  /\ ran \in [Ranks -> Nat]
  /\ calls \in 0 .. MaxCalls

\* plasma_barrier does not know who calls it from where: when everybody is in
\* it, everybody is at the same line of the protocol (the end of a dynamic
\* section is the master's sync and the workers' end).
SitesMatch ==
  (\A r \in Ranks : pc[r] \in Sites) =>
    \A r \in Workers : \/ pc[r] = pc[0]
                       \/ pc[0] = "sync_bar" /\ pc[r] = "end_bar"

\* Between two calls every rank has run every parallel function exactly once:
\* an action is neither missed by a slow worker nor taken twice by a quick one.
RunOnce == pc[0] \in {"ready", "gone"} => \A r \in Ranks : ran[r] = ran[0]

\* QUARK_Free takes no structure from a worker that uses it: when it has run, no
\* worker is in the task loop, on its way to it or asleep in it, and none gets
\* there.
FreedUnused ==
  freed => \A r \in Workers :
    /\ pc[r] # "quark" /\ r \notin napping
    /\ pc[r] = "switch" => got[r] # "DYNAMIC"

\* No worker is left in the task loop of a section that has ended, and no
\* request to leave is left over for the next section.  QUARK_Free raises the
\* requests again, for nobody: there is no next section, and what it frees no
\* worker uses any more.
SectionOver ==
  /\ pc[0] \in {"ready", "post"} /\ ~dynamic =>
       \A r \in Workers : pc[r] = "look" /\ (finalize[r] <=> freed)
  /\ FreedUnused

\* Every call of the master returns.
CallsReturn == pc[0] # "ready" ~> pc[0] \in {"ready", "gone"}
=============================================================================
