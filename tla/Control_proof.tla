---------------------------- MODULE Control_proof ----------------------------
(***************************************************************************)
(* Proofs about Control for every number of ranks and of calls: ranks meet *)
(* in plasma_barrier only at matching lines, every parallel function is    *)
(* run once by every rank, and a dynamic section leaves nothing behind.    *)
(***************************************************************************)
EXTENDS Control, TLAPS

\* A request to leave is up in a section that ends, and for good when QUARK_Free
\* has raised it.
Flag(r) == finalize[r] => want = "FINALIZE"

\* Where a worker can be, by what the master is doing.
Looks(r)     == pc[r] = "look" /\ Flag(r)
InSection(r) == pc[r] = "quark" \/ (pc[r] = "switch" /\ got[r] = "DYNAMIC")
Chosen(r, l) == pc[r] = l /\ got[r] = want /\ Flag(r)
Serves(r)    == /\ Flag(r)
                /\ \/ want = "PARALLEL" /\ pc[r] \in {"run", "fun_bar"}
                   \/ want = "DYNAMIC" /\ pc[r] = "quark"
                   \/ want = "FINALIZE" /\ pc[r] = "exit"

Phase(r) ==
  /\ r \in napping => pc[r] = "quark"
  /\ pc[0] = "init_bar" => pc[r] = "init_bar" /\ ~finalize[r]
  /\ pc[0] \in {"ready", "waitall"} =>
       /\ ~finalize[r]
       /\ IF dynamic THEN InSection(r) ELSE pc[r] = "look"
  /\ pc[0] \in {"signal", "sync_bar"} /\ dynamic =>
       IF finalize[r] THEN InSection(r) ELSE pc[r] = "end_bar"
  /\ pc[0] = "signal" /\ ~dynamic => pc[r] = "look" /\ finalize[r]
  /\ pc[0] = "free" => pc[r] = "look" /\ finalize[r]
  /\ pc[0] = "synced" => pc[r] = "look" /\ ~finalize[r]
  /\ pc[0] = "post" => pc[r] = "look" /\ (finalize[r] <=> freed)
  /\ pc[0] \in {"wake", "act_bar"} => Looks(r) \/ Chosen(r, "act_bar")
  /\ pc[0] \in {"reset", "run", "fun_bar", "join"} =>
       Chosen(r, "switch") \/ Serves(r)
  /\ pc[0] = "end_bar" => pc[r] = "end_bar" /\ ~finalize[r]
  /\ pc[0] = "gone" => pc[r] = "exit"

\* What the master has decided, and whether the workers may know of it.
Decided ==
  /\ pc[0] \in {"init_bar", "ready", "waitall", "signal", "sync_bar", "free",
                "synced", "post", "wake", "act_bar", "reset", "run", "fun_bar",
                "end_bar", "join", "gone"}
  /\ action =
       IF pc[0] \in {"wake", "act_bar", "reset"} THEN want ELSE "STAND_BY"
  /\ pc[0] \in {"post", "wake", "act_bar", "reset"} =>
       want # "NONE" /\ (dynamic <=> want = "DYNAMIC")
  /\ pc[0] \in {"run", "fun_bar"} => want = "PARALLEL" /\ ~dynamic
  /\ pc[0] \in {"waitall", "signal", "sync_bar", "synced"} => want # "DYNAMIC"
  /\ pc[0] \in {"waitall", "signal"} => dynamic \/ want = "FINALIZE"
  /\ pc[0] \in {"sync_bar", "synced"} => dynamic
  /\ pc[0] = "free" => want = "FINALIZE" /\ ~dynamic
  /\ pc[0] \in {"init_bar", "end_bar"} => ~dynamic /\ want # "FINALIZE"
  /\ pc[0] \in {"join", "gone"} => want = "FINALIZE"
  /\ freed <=> /\ want = "FINALIZE"
               /\ pc[0] \in {"post", "wake", "act_bar", "reset", "join", "gone"}

\* The functions a rank has run, without the one it is in.
Runs(r) == IF pc[r] = "fun_bar" THEN ran[r] - 1 ELSE ran[r]
InStep(r) == Runs(r) = Runs(0)

IInv == /\ TypeOK
        /\ Decided
        /\ \A r \in Workers : Phase(r) /\ InStep(r)

LEMMA WorkerRanks ==
  /\ 0 \in Ranks
  /\ \A r \in Workers : r \in Ranks /\ r # 0
  /\ \A r \in Ranks : r = 0 \/ r \in Workers
BY SizeAssumption DEF Ranks, Workers

LEMMA Initial == Init => IInv
<1> SUFFICES ASSUME Init PROVE IInv
  OBVIOUS
<1>1. TypeOK
  <2>1. pc \in [Ranks -> {"init_bar"}]
    BY DEF Init
  <2>2. finalize \in [Workers -> BOOLEAN]
    BY DEF Init
  <2>3. got \in [Workers -> Acts] /\ action \in Acts
    BY DEF Init, Acts
  <2>4. ran \in [Ranks -> Nat] /\ calls \in 0 .. MaxCalls
    BY CallsAssumption DEF Init
  <2> QED
    BY <2>1, <2>2, <2>3, <2>4 DEF Init, TypeOK, Labels, Sites
<1>2. /\ pc[0] = "init_bar" /\ action = "STAND_BY" /\ ~dynamic
      /\ want = "NONE" /\ freed = FALSE /\ napping = {}
  BY WorkerRanks DEF Init
<1>3. Decided
  BY <1>2 DEF Decided
<1>4. ASSUME NEW r \in Workers PROVE Phase(r) /\ InStep(r)
  <2>1. pc[r] = "init_bar" /\ finalize[r] = FALSE /\ ran[r] = ran[0]
    BY WorkerRanks DEF Init
  <2> QED
    BY <2>1, <1>2 DEF Phase, InStep, Runs
<1> QED
  BY <1>1, <1>3, <1>4 DEF IInv

\* A step moves one rank, and leaves every variable in its type.
LEMMA TypeStep == ASSUME IInv, [Next]_vars PROVE TypeOK'
<1> USE WorkerRanks, CallsAssumption DEF IInv
<1> DEFINE PcOK == pc' \in [Ranks -> Labels]
           RestOK == /\ action' \in Acts
                     /\ asleep' \subseteq Workers
                     /\ got' \in [Workers -> Acts]
                     /\ dynamic' \in BOOLEAN
                     /\ want' \in {"NONE", "PARALLEL", "DYNAMIC", "FINALIZE"}
                     /\ finalize' \in [Workers -> BOOLEAN]
                     /\ napping' \subseteq Workers
                     /\ freed' \in BOOLEAN
                     /\ ran' \in [Ranks -> Nat]
                     /\ calls' \in 0 .. MaxCalls
<1>0. ASSUME NEW r \in Ranks, NEW l \in Labels, Goto(r, l) PROVE PcOK
  BY <1>0 DEF TypeOK, Goto
<1>1. CASE Barrier
  <2>1. ASSUME NEW r \in Ranks PROVE Onward(r) \in Labels
    BY <1>1, <2>1 DEF Barrier, Onward, Sites, Labels
  <2>2. PcOK
    BY <1>1, <2>1 DEF Barrier
  <2> QED
    BY <1>1, <2>2 DEF Barrier, TypeOK, master, quark
<1>2. CASE \E op \in {"PARALLEL", "NONE", "FINALIZE"} : Begin(op)
  <2>1. PcOK
    BY <1>0, <1>2 DEF Begin, Resume, TypeOK, Labels, Sites
  <2>2. RestOK
    BY <1>2 DEF Begin, Resume, TypeOK, quark, master, Acts
  <2> QED
    BY <2>1, <2>2 DEF TypeOK
<1>3. CASE DynamicSpawn
  <2>1. PcOK
    BY <1>0, <1>3 DEF DynamicSpawn, TypeOK, Labels, Sites
  <2>2. RestOK
    BY <1>3 DEF DynamicSpawn, TypeOK, quark, master, Acts
  <2> QED
    BY <2>1, <2>2 DEF TypeOK
<1>4. CASE Waitall
  <2>1. PcOK
    BY <1>0, <1>4 DEF Waitall, TypeOK, Labels, Sites
  <2>2. RestOK
    BY <1>4 DEF Waitall, TypeOK, quark, master, Acts
  <2> QED
    BY <2>1, <2>2 DEF TypeOK
<1>5. CASE Signal
  <2>1. PcOK
    BY <1>0, <1>5 DEF Signal, TypeOK, Labels, Sites
  <2>2. RestOK
    BY <1>5 DEF Signal, TypeOK, quark, master, Acts
  <2> QED
    BY <2>1, <2>2 DEF TypeOK
<1>6. CASE Synced
  <2>1. PcOK
    BY <1>0, <1>6 DEF Synced, Resume, TypeOK, Labels, Sites
  <2>2. RestOK
    BY <1>6 DEF Synced, Resume, TypeOK, quark, master, Acts
  <2> QED
    BY <2>1, <2>2 DEF TypeOK
<1>7. CASE Post
  <2>1. PcOK
    BY <1>0, <1>7 DEF Post, TypeOK, Labels, Sites
  <2>2. RestOK
    BY <1>7 DEF Post, TypeOK, quark, master, Acts, Decided
  <2> QED
    BY <2>1, <2>2 DEF TypeOK
<1>8. CASE Wake
  <2>1. PcOK
    BY <1>0, <1>8 DEF Wake, TypeOK, Labels, Sites
  <2>2. RestOK
    BY <1>8 DEF Wake, TypeOK, quark, master, Acts
  <2> QED
    BY <2>1, <2>2 DEF TypeOK
<1>9. CASE Reset
  <2>0. Proceed \in Labels
    BY <1>9 DEF Reset, Proceed, Decided, TypeOK, Labels
  <2>1. PcOK
    BY <1>0, <1>9, <2>0 DEF Reset
  <2>2. RestOK
    BY <1>9 DEF Reset, TypeOK, quark, master, Acts
  <2> QED
    BY <2>1, <2>2 DEF TypeOK
<1>10. CASE Join
  <2>1. PcOK
    BY <1>0, <1>10 DEF Join, TypeOK, Labels, Sites
  <2>2. RestOK
    BY <1>10 DEF Join, TypeOK, quark, master, Acts
  <2> QED
    BY <2>1, <2>2 DEF TypeOK
<1>11. ASSUME NEW r \in Ranks, Run(r) PROVE TypeOK'
  <2>1. PcOK
    BY <1>0, <1>11 DEF Run, Labels, Sites
  <2>2. RestOK
    BY <1>11 DEF Run, TypeOK, quark, master
  <2> QED
    BY <2>1, <2>2 DEF TypeOK
<1>12. ASSUME NEW r \in Workers, Look(r) PROVE TypeOK'
  <2>1. PcOK
    BY <1>0, <1>12 DEF Look, TypeOK, Labels, Sites
  <2>2. RestOK
    BY <1>12 DEF Look, TypeOK, quark, master
  <2> QED
    BY <2>1, <2>2 DEF TypeOK
<1>13. ASSUME NEW r \in Workers, Spurious(r) PROVE TypeOK'
  <2>1. PcOK
    BY <1>0, <1>13 DEF Spurious, TypeOK, Labels, Sites
  <2>2. RestOK
    BY <1>13 DEF Spurious, TypeOK, quark, master
  <2> QED
    BY <2>1, <2>2 DEF TypeOK
<1>14. ASSUME NEW r \in Workers, Switch(r) PROVE TypeOK'
  <2>1. got[r] \in {"PARALLEL", "DYNAMIC", "FINALIZE"}
    BY <1>14
      DEF Switch, Phase, Flag, Looks, InSection, Chosen, Serves, Decided,
          TypeOK, Sites
  <2>2. PcOK
    BY <1>0, <1>14, <2>1 DEF Switch, Labels
  <2>3. RestOK
    BY <1>14 DEF Switch, TypeOK, quark, master
  <2> QED
    BY <2>2, <2>3 DEF TypeOK
<1>15. ASSUME NEW r \in Workers, LeaveQuark(r) PROVE TypeOK'
  <2>1. PcOK
    BY <1>0, <1>15 DEF LeaveQuark, TypeOK, Labels, Sites
  <2>2. RestOK
    BY <1>15 DEF LeaveQuark, TypeOK, quark, master
  <2> QED
    BY <2>1, <2>2 DEF TypeOK
<1>16. ASSUME NEW r \in Workers, Nap(r) PROVE TypeOK'
  <2>1. PcOK
    BY <1>0, <1>16 DEF Nap, TypeOK, Labels, Sites
  <2>2. RestOK
    BY <1>16 DEF Nap, TypeOK, quark, master
  <2> QED
    BY <2>1, <2>2 DEF TypeOK
<1>18. CASE Free
  <2>1. PcOK
    BY <1>0, <1>18 DEF Free, TypeOK, Labels, Sites
  <2>2. RestOK
    BY <1>18 DEF Free, TypeOK, quark, master, Acts
  <2> QED
    BY <2>1, <2>2 DEF TypeOK
<1>17. CASE UNCHANGED vars
  BY <1>17 DEF vars, TypeOK, master, quark
<1> QED
  BY <1>1, <1>2, <1>3, <1>4, <1>5, <1>6, <1>7, <1>8, <1>9, <1>10,
     <1>11, <1>12, <1>13, <1>14, <1>15, <1>16, <1>17, <1>18
  DEF Next, Calls, StaticCall, DynamicSync, Finalize, Master, Worker

\* The master's decisions and the workers' places go together.
LEMMA PhaseStep ==
  ASSUME IInv, [Next]_vars
  PROVE  Decided' /\ \A r \in Workers : Phase(r)' /\ InStep(r)'
<1> USE WorkerRanks DEF IInv
<1>0. /\ pc \in [Ranks -> Labels]
      /\ ran \in [Ranks -> Nat]
      /\ finalize \in [Workers -> BOOLEAN]
      /\ got \in [Workers -> Acts]
      /\ want \in {"NONE", "PARALLEL", "DYNAMIC", "FINALIZE"}
  BY DEF TypeOK
<1>1. CASE Barrier
  <2>1. Decided'
    BY <1>0, <1>1 DEF Barrier, Onward, Sites, quark, master, Decided
  <2>2. ASSUME NEW r \in Workers PROVE Phase(r)' /\ InStep(r)'
    <3>1. Phase(r)'
      BY <1>0, <1>1
        DEF Barrier, Onward, Sites, quark, master, Decided, Phase, Flag, Looks,
            InSection, Chosen, Serves
    <3>2. InStep(r)'
      BY <1>0, <1>1
        DEF Barrier, Onward, Sites, quark, master, InStep, Runs, Decided,
            Phase, Flag, Looks, InSection, Chosen, Serves
    <3> QED
      BY <3>1, <3>2
  <2> QED
    BY <2>1, <2>2
<1>2. CASE \E op \in {"PARALLEL", "NONE", "FINALIZE"} : Begin(op)
  <2>1. Decided'
    BY <1>0, <1>2 DEF Begin, Resume, Goto, quark, master, Decided
  <2>2. ASSUME NEW r \in Workers PROVE Phase(r)' /\ InStep(r)'
    <3>1. Phase(r)'
      BY <1>0, <1>2
        DEF Begin, Resume, Goto, quark, master, Decided, Phase, Flag, Looks,
            InSection, Chosen, Serves
    <3>2. InStep(r)'
      BY <1>0, <1>2
        DEF Begin, Resume, Goto, quark, master, InStep, Runs, Decided, Phase,
            Flag, Looks, InSection, Chosen, Serves
    <3> QED
      BY <3>1, <3>2
  <2> QED
    BY <2>1, <2>2
<1>3. CASE DynamicSpawn
  <2>1. Decided'
    BY <1>0, <1>3 DEF DynamicSpawn, Goto, quark, master, Decided
  <2>2. ASSUME NEW r \in Workers PROVE Phase(r)' /\ InStep(r)'
    <3>1. Phase(r)'
      BY <1>0, <1>3
        DEF DynamicSpawn, Goto, quark, master, Decided, Phase, Flag, Looks,
            InSection, Chosen, Serves
    <3>2. InStep(r)'
      BY <1>0, <1>3
        DEF DynamicSpawn, Goto, quark, master, InStep, Runs, Decided, Phase,
            Flag, Looks, InSection, Chosen, Serves
    <3> QED
      BY <3>1, <3>2
  <2> QED
    BY <2>1, <2>2
<1>4. CASE Waitall
  <2>1. Decided'
    BY <1>0, <1>4 DEF Waitall, Goto, quark, master, Decided
  <2>2. ASSUME NEW r \in Workers PROVE Phase(r)' /\ InStep(r)'
    <3>1. Phase(r)'
      BY <1>0, <1>4
        DEF Waitall, Goto, quark, master, Decided, Phase, Flag, Looks,
            InSection, Chosen, Serves
    <3>2. InStep(r)'
      BY <1>0, <1>4
        DEF Waitall, Goto, quark, master, InStep, Runs, Decided, Phase, Flag,
            Looks, InSection, Chosen, Serves
    <3> QED
      BY <3>1, <3>2
  <2> QED
    BY <2>1, <2>2
<1>5. CASE Signal
  <2>1. Decided'
    BY <1>0, <1>5 DEF Signal, Goto, quark, master, Decided
  <2>2. ASSUME NEW r \in Workers PROVE Phase(r)' /\ InStep(r)'
    <3>1. Phase(r)'
      BY <1>0, <1>5
        DEF Signal, Goto, quark, master, Decided, Phase, Flag, Looks, InSection,
            Chosen, Serves
    <3>2. InStep(r)'
      BY <1>0, <1>5
        DEF Signal, Goto, quark, master, InStep, Runs, Decided, Phase, Flag,
            Looks, InSection, Chosen, Serves
    <3> QED
      BY <3>1, <3>2
  <2> QED
    BY <2>1, <2>2
<1>6. CASE Synced
  <2>1. Decided'
    BY <1>0, <1>6 DEF Synced, Resume, Goto, quark, master, Decided
  <2>2. ASSUME NEW r \in Workers PROVE Phase(r)' /\ InStep(r)'
    <3>1. Phase(r)'
      BY <1>0, <1>6
        DEF Synced, Resume, Goto, quark, master, Decided, Phase, Flag, Looks,
            InSection, Chosen, Serves
    <3>2. InStep(r)'
      BY <1>0, <1>6
        DEF Synced, Resume, Goto, quark, master, InStep, Runs, Decided, Phase,
            Flag, Looks, InSection, Chosen, Serves
    <3> QED
      BY <3>1, <3>2
  <2> QED
    BY <2>1, <2>2
<1>7. CASE Post
  <2>1. Decided'
    BY <1>0, <1>7 DEF Post, Goto, quark, master, Decided
  <2>2. ASSUME NEW r \in Workers PROVE Phase(r)' /\ InStep(r)'
    <3>1. Phase(r)'
      BY <1>0, <1>7
        DEF Post, Goto, quark, master, Decided, Phase, Flag, Looks, InSection,
            Chosen, Serves
    <3>2. InStep(r)'
      BY <1>0, <1>7
        DEF Post, Goto, quark, master, InStep, Runs, Decided, Phase, Flag,
            Looks, InSection, Chosen, Serves
    <3> QED
      BY <3>1, <3>2
  <2> QED
    BY <2>1, <2>2
<1>8. CASE Wake
  <2>1. Decided'
    BY <1>0, <1>8 DEF Wake, Goto, quark, master, Decided
  <2>2. ASSUME NEW r \in Workers PROVE Phase(r)' /\ InStep(r)'
    <3>1. Phase(r)'
      BY <1>0, <1>8
        DEF Wake, Goto, quark, master, Decided, Phase, Flag, Looks, InSection,
            Chosen, Serves
    <3>2. InStep(r)'
      BY <1>0, <1>8
        DEF Wake, Goto, quark, master, InStep, Runs, Decided, Phase, Flag,
            Looks, InSection, Chosen, Serves
    <3> QED
      BY <3>1, <3>2
  <2> QED
    BY <2>1, <2>2
<1>9. CASE Reset
  <2>1. Decided'
    BY <1>0, <1>9 DEF Reset, Goto, quark, master, Proceed, Decided
  <2>2. ASSUME NEW r \in Workers PROVE Phase(r)' /\ InStep(r)'
    <3>1. Phase(r)'
      BY <1>0, <1>9
        DEF Reset, Goto, quark, master, Proceed, Decided, Phase, Flag, Looks,
            InSection, Chosen, Serves
    <3>2. InStep(r)'
      BY <1>0, <1>9
        DEF Reset, Goto, quark, master, Proceed, InStep, Runs, Decided, Phase,
            Flag, Looks, InSection, Chosen, Serves
    <3> QED
      BY <3>1, <3>2
  <2> QED
    BY <2>1, <2>2
<1>10. CASE Join
  <2>1. Decided'
    BY <1>0, <1>10 DEF Join, Goto, quark, master, Decided
  <2>2. ASSUME NEW r \in Workers PROVE Phase(r)' /\ InStep(r)'
    <3>1. Phase(r)'
      BY <1>0, <1>10
        DEF Join, Goto, quark, master, Decided, Phase, Flag, Looks, InSection,
            Chosen, Serves
    <3>2. InStep(r)'
      BY <1>0, <1>10
        DEF Join, Goto, quark, master, InStep, Runs, Decided, Phase, Flag,
            Looks, InSection, Chosen, Serves
    <3> QED
      BY <3>1, <3>2
  <2> QED
    BY <2>1, <2>2
<1>11. CASE Run(0)
  <2>1. Decided'
    BY <1>0, <1>11 DEF Run, Goto, quark, master, Decided
  <2>2. ASSUME NEW r \in Workers PROVE Phase(r)' /\ InStep(r)'
    <3>1. Phase(r)'
      BY <1>0, <1>11
        DEF Run, Goto, quark, master, Decided, Phase, Flag, Looks, InSection,
            Chosen, Serves
    <3>2. InStep(r)'
      BY <1>0, <1>11
        DEF Run, Goto, quark, master, InStep, Runs, Decided, Phase, Flag, Looks,
            InSection, Chosen, Serves
    <3> QED
      BY <3>1, <3>2
  <2> QED
    BY <2>1, <2>2
<1>12. ASSUME NEW q \in Workers, Look(q)
      PROVE  Decided' /\ \A r \in Workers : Phase(r)' /\ InStep(r)'
  <2>1. Decided'
    BY <1>0, <1>12 DEF Look, Goto, quark, master, Decided
  <2>2. ASSUME NEW r \in Workers, r # q PROVE Phase(r)' /\ InStep(r)'
    BY <1>0, <1>12, <2>2
      DEF Look, Goto, quark, master, InStep, Runs, Phase, Flag, Looks,
          InSection, Chosen, Serves
  <2>3. Phase(q)'
    BY <1>0, <1>12
      DEF Look, Goto, quark, master, Decided, Phase, Flag, Looks, InSection,
          Chosen, Serves
  <2>4. InStep(q)'
    BY <1>0, <1>12 DEF Look, Goto, quark, master, InStep, Runs
  <2> QED
    BY <2>1, <2>2, <2>3, <2>4
<1>13. ASSUME NEW q \in Workers, Spurious(q)
      PROVE  Decided' /\ \A r \in Workers : Phase(r)' /\ InStep(r)'
  <2>1. Decided'
    BY <1>0, <1>13 DEF Spurious, Goto, quark, master, Decided
  <2>2. ASSUME NEW r \in Workers, r # q PROVE Phase(r)' /\ InStep(r)'
    BY <1>0, <1>13, <2>2
      DEF Spurious, Goto, quark, master, InStep, Runs, Phase, Flag, Looks,
          InSection, Chosen, Serves
  <2>3. Phase(q)'
    BY <1>0, <1>13
      DEF Spurious, Goto, quark, master, Decided, Phase, Flag, Looks, InSection,
          Chosen, Serves
  <2>4. InStep(q)'
    BY <1>0, <1>13 DEF Spurious, Goto, quark, master, InStep, Runs
  <2> QED
    BY <2>1, <2>2, <2>3, <2>4
<1>14. ASSUME NEW q \in Workers, Switch(q)
      PROVE  Decided' /\ \A r \in Workers : Phase(r)' /\ InStep(r)'
  <2>1. Decided'
    BY <1>0, <1>14 DEF Switch, Goto, quark, master, Decided
  <2>2. ASSUME NEW r \in Workers, r # q PROVE Phase(r)' /\ InStep(r)'
    BY <1>0, <1>14, <2>2
      DEF Switch, Goto, quark, master, InStep, Runs, Phase, Flag, Looks,
          InSection, Chosen, Serves
  <2>3. Phase(q)'
    <3>1. UNCHANGED <<got, dynamic, want, finalize>> /\ pc'[0] = pc[0]
      BY <1>0, <1>14 DEF Switch, Goto, quark, master
    <3>2. pc'[q] = CASE got[q] = "PARALLEL" -> "run"
                     [] got[q] = "DYNAMIC"  -> "quark"
                     [] got[q] = "FINALIZE" -> "exit"
      BY <1>0, <1>14 DEF Switch, Goto
    <3>3. pc[q] = "switch" /\ UNCHANGED <<napping, freed>>
      BY <1>14 DEF Switch, quark
    <3>4. CASE pc[0] \in {"ready", "waitall", "signal", "sync_bar"}
      BY <1>0, <3>1, <3>2, <3>3, <3>4 DEF Phase, Flag, Looks, InSection
    <3>5. CASE pc[0] \in {"reset", "run", "fun_bar", "join"}
      <4>1. Chosen(q, "switch") /\ want \in {"PARALLEL", "DYNAMIC", "FINALIZE"}
        BY <1>0, <3>3, <3>5 DEF Phase, Chosen, Serves, Decided
      <4>2. Serves(q)'
        BY <4>1, <3>1, <3>2 DEF Chosen, Serves, Flag
      <4> QED
        BY <1>0, <4>2, <3>1, <3>3, <3>5 DEF Phase
    <3> QED
      BY <3>3, <3>4, <3>5 DEF Phase, Looks, Chosen, Decided
  <2>4. InStep(q)'
    <3>1. got[q] \in {"PARALLEL", "DYNAMIC", "FINALIZE"}
      BY <1>0, <1>14 DEF Switch, Phase, Flag, Looks, InSection, Chosen, Serves,
                         Decided, Labels, Sites
    <3>2. pc'[q] # "fun_bar" /\ pc[q] # "fun_bar" /\ UNCHANGED ran
      BY <1>0, <1>14, <3>1 DEF Switch, Goto
    <3>3. pc'[0] = pc[0]
      BY <1>0, <1>14 DEF Switch, Goto
    <3> QED
      BY <3>2, <3>3 DEF InStep, Runs
  <2> QED
    BY <2>1, <2>2, <2>3, <2>4
<1>15. ASSUME NEW q \in Workers, Run(q)
      PROVE  Decided' /\ \A r \in Workers : Phase(r)' /\ InStep(r)'
  <2>1. Decided'
    BY <1>0, <1>15 DEF Run, Goto, quark, master, Decided
  <2>2. ASSUME NEW r \in Workers, r # q PROVE Phase(r)' /\ InStep(r)'
    BY <1>0, <1>15, <2>2
      DEF Run, Goto, quark, master, InStep, Runs, Phase, Flag, Looks, InSection,
          Chosen, Serves
  <2>3. Phase(q)'
    BY <1>0, <1>15
      DEF Run, Goto, quark, master, Decided, Phase, Flag, Looks, InSection,
          Chosen, Serves
  <2>4. InStep(q)'
    BY <1>0, <1>15 DEF Run, Goto, quark, master, InStep, Runs
  <2> QED
    BY <2>1, <2>2, <2>3, <2>4
<1>16. ASSUME NEW q \in Workers, LeaveQuark(q)
      PROVE  Decided' /\ \A r \in Workers : Phase(r)' /\ InStep(r)'
  <2>1. Decided'
    BY <1>0, <1>16 DEF LeaveQuark, Goto, quark, master, Decided
  <2>2. ASSUME NEW r \in Workers, r # q PROVE Phase(r)' /\ InStep(r)'
    BY <1>0, <1>16, <2>2
      DEF LeaveQuark, Goto, quark, master, InStep, Runs, Phase, Flag, Looks,
          InSection, Chosen, Serves
  <2>3. Phase(q)'
    BY <1>0, <1>16
      DEF LeaveQuark, Goto, quark, master, Decided, Phase, Flag, Looks,
          InSection, Chosen, Serves
  <2>4. InStep(q)'
    BY <1>0, <1>16 DEF LeaveQuark, Goto, quark, master, InStep, Runs
  <2> QED
    BY <2>1, <2>2, <2>3, <2>4
<1>17. ASSUME NEW q \in Workers, Nap(q)
      PROVE  Decided' /\ \A r \in Workers : Phase(r)' /\ InStep(r)'
  <2>1. Decided'
    BY <1>0, <1>17 DEF Nap, Goto, quark, master, Decided
  <2>2. ASSUME NEW r \in Workers, r # q PROVE Phase(r)' /\ InStep(r)'
    BY <1>0, <1>17, <2>2
      DEF Nap, Goto, quark, master, InStep, Runs, Phase, Flag, Looks, InSection,
          Chosen, Serves
  <2>3. Phase(q)'
    BY <1>0, <1>17
      DEF Nap, Goto, quark, master, Decided, Phase, Flag, Looks, InSection,
          Chosen, Serves
  <2>4. InStep(q)'
    BY <1>0, <1>17 DEF Nap, Goto, quark, master, InStep, Runs
  <2> QED
    BY <2>1, <2>2, <2>3, <2>4
<1>19. CASE Free
  <2>1. Decided'
    BY <1>0, <1>19 DEF Free, Goto, quark, master, Decided
  <2>2. ASSUME NEW r \in Workers PROVE Phase(r)' /\ InStep(r)'
    <3>1. Phase(r)'
      BY <1>0, <1>19
        DEF Free, Goto, quark, master, Decided, Phase, Flag, Looks, InSection,
            Chosen, Serves
    <3>2. InStep(r)'
      BY <1>0, <1>19
        DEF Free, Goto, quark, master, InStep, Runs, Decided, Phase, Flag,
            Looks, InSection, Chosen, Serves
    <3> QED
      BY <3>1, <3>2
  <2> QED
    BY <2>1, <2>2
<1>18. CASE UNCHANGED vars
  BY <1>18
    DEF vars, quark, master, Decided, InStep, Runs, Phase, Flag, Looks,
        InSection, Chosen, Serves
<1> QED
  BY <1>1, <1>2, <1>3, <1>4, <1>5, <1>6, <1>7, <1>8, <1>9, <1>10,
     <1>11, <1>12, <1>13, <1>14, <1>15, <1>16, <1>17, <1>18, <1>19
  DEF Next, Calls, StaticCall, DynamicSync, Finalize, Master, Worker

LEMMA Step == IInv /\ [Next]_vars => IInv'
BY TypeStep, PhaseStep DEF IInv

THEOREM Invariance == Spec => []IInv
BY Initial, Step, PTL DEF Spec

\* Types hold.
THEOREM TypeCorrect == Spec => []TypeOK
BY Invariance, PTL DEF IInv

\* plasma_barrier is the same barrier whatever line calls it: when all ranks
\* are in it, all are at matching lines.
THEOREM SitesMatchHolds == Spec => []SitesMatch
<1>1. IInv => SitesMatch
  BY WorkerRanks
    DEF IInv, SitesMatch, Sites, Decided, Phase, Flag, Looks, InSection, Chosen,
        Serves
<1> QED
  BY <1>1, Invariance, PTL

\* Between calls every rank has run every parallel function once.
THEOREM RunOnceHolds == Spec => []RunOnce
<1>1. IInv => RunOnce
  BY WorkerRanks
    DEF IInv, TypeOK, RunOnce, InStep, Runs, Decided, Phase, Flag, Looks,
        InSection, Chosen, Serves
<1> QED
  BY <1>1, Invariance, PTL

\* A section that has ended has left no worker and no request behind; requests
\* are up again only when QUARK_Free has freed what they are in, which no worker
\* uses or will use.
THEOREM SectionOverHolds == Spec => []SectionOver
<1>1. IInv => FreedUnused
  BY WorkerRanks
    DEF IInv, FreedUnused, Decided, Phase, Flag, Looks, InSection, Chosen,
        Serves
<1>2. IInv => SectionOver
  BY <1>1, WorkerRanks
    DEF IInv, SectionOver, Decided, Phase, Flag, Looks, InSection, Chosen,
        Serves
<1> QED
  BY <1>2, Invariance, PTL
=============================================================================
