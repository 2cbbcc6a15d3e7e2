----------------------------- MODULE Quark_proof -----------------------------
(***************************************************************************)
(* Proofs about the QUARK scheduler, for every number of threads and every *)
(* program: the inductive invariant Inv, what it says of the places of a   *)
(* task, of sleeping workers and of the end of a section, and that Quark   *)
(* implements TaskOrder.                                                   *)
(***************************************************************************)
EXTENDS Quark, TLAPS, FiniteSetTheorems, SequenceTheorems, FunctionTheorems

Dependencies == [addr : Nat \ {None}, write : BOOLEAN, region : (SUBSET All) \ {{}},
                 gather : BOOLEAN, ready : BOOLEAN, dropped : BOOLEAN]
Statuses == {"NEW", "NOTREADY", "QUEUED", "RUNNING", "DONE", "CANCELLED", "REJECTED"}
Before0  == {"insert", "hash", "depend", "check", "fault", "return", "finalize", "signal", "over"}
Looking  == {"process", "look", "try"}
Napping  == {"doze", "asleep", "left"}
Holding  == {"read", "start", "skip", "run", "cancel", "flushed", "enqueue"}
Clearing == {"update", "delete", "unlink", "uncount"}

\* The arguments of a task, by their number.
Arguments(t) == 1 .. Len(prog.args[t])

\* The states of q.
Nodes ==
  [status : [Tasks -> Statuses], live : [Tasks -> BOOLEAN], ndep : [Tasks -> Int],
   dep : [Tasks -> Seq(Dependencies)],
   list : [prog.addrs -> SUBSET (Nat \X Nat)],
   last : [prog.addrs -> Threads \cup {Nobody}],
   ready : [Threads -> Seq(Tasks)], robin : Threads, queued : Int,
   woken : SUBSET Threads]

\* A state of q in which each task has a dependency for each argument.
Shaped(s) == s \in Nodes /\ \A t \in Tasks : s.dep[t] \in [Arguments(t) -> Dependencies]

\* t is in a ready list; no task is there twice; t is one of the completed tasks, which
\* are pairs of a task and a thread; none is completed twice.
In(t, l)     == \E k \in DOMAIN l : l[k] = t
Once(l)      == \A k, m \in DOMAIN l : l[k] = l[m] => k = m
Names(t, c)  == \E k \in DOMAIN c : c[k][1] = t
NamedOnce(c) == \A k, m \in DOMAIN c : c[k][1] = c[m][1] => k = m

\* The type invariant.
TypeOK ==
  /\ prog \in Programs
  /\ Shaped(q)
  /\ completed \in Seq(Tasks \X (Threads \cup {Nobody}))
  /\ taskSet \in SUBSET Tasks
  /\ freed \in SUBSET Tasks
  /\ seq \in [off : BOOLEAN, owner : Threads \cup {Nobody}, tasks : SUBSET prog.member,
              rest : SUBSET prog.member]
  /\ pc \in [Threads -> Before0 \cup Looking \cup Napping \cup Holding \cup Clearing]
  /\ mine \in [Threads -> Tasks \cup {None}]
  /\ victim \in [Threads -> Threads]
  /\ job \in [Threads -> [task : Tasks \cup {None}, dep : Nat, by : Threads \cup {Nobody}]]
  /\ sleeping \in SUBSET Workers
  /\ executing \in SUBSET Threads
  /\ finalize \in SUBSET Workers
  /\ master \in [next : Nat \ {0}, dep : Nat, count : Nat, after : {"water", "look", "try"},
                 barrier : BOOLEAN]

\* Where a thread is, and what it holds there.
Ctl ==
  /\ \A r \in Threads :
       /\ mine[r] # None <=> pc[r] \in Holding
       /\ job[r].task # None <=> pc[r] \in Clearing
       /\ pc[r] = "update" => /\ job[r].dep \in Arguments(job[r].task)
                              /\ ~q.dep[job[r].task][job[r].dep].dropped
       /\ pc[r] # "update" => job[r].dep = 0
       /\ r \in sleeping <=> pc[r] = "asleep"
       /\ r \in executing <=> pc[r] \in {"run", "cancel", "flushed"}
       /\ pc[r] \in {"read", "skip", "cancel", "flushed"} => mine[r] \in prog.member
       /\ pc[r] \in {"cancel", "flushed"} => mine[r] \in prog.fails
       /\ pc[r] \in Before0 => r = 0
  /\ pc[0] \notin Napping
  /\ pc[0] \in {"hash", "depend", "check", "fault"} => master.next \in Tasks
  /\ pc[0] \in {"insert", "hash", "depend", "check", "fault"} => ~master.barrier
  /\ pc[0] = "depend" => master.dep \in Arguments(master.next)
  /\ master.barrier => master.next \notin Tasks /\ master.after # "water"
  /\ pc[0] \in {"finalize", "signal", "over"} => master.barrier /\ taskSet = {}
  /\ pc[0] \notin {"signal", "over"} => finalize = {} /\ \A w \in Workers : pc[w] # "left"
  /\ pc[0] \in {"signal", "over"} => \A w \in Workers : w \in finalize <=> pc[w] # "left"

\* The tasks that the master has inserted or is inserting, and the stages of a task.
Known(t) == t < master.next \/ (t = master.next /\ pc[0] \in {"depend", "check", "fault"})
Out  == {"NEW", "REJECTED"}
Past == {"QUEUED", "RUNNING", "DONE", "CANCELLED"}
Done == {"DONE", "CANCELLED"}

\* What the status of a task goes with.
Stages ==
  /\ \A t \in Tasks :
       /\ Known(t) <=> q.status[t] # "NEW"
       /\ t \in taskSet <=> q.status[t] \notin Out /\ t \notin freed
       /\ t \in freed => q.status[t] \in Done
       /\ q.status[t] \in Past => q.ndep[t] = 0
       /\ q.status[t] \in {"REJECTED", "CANCELLED"} => t \in prog.member /\ seq.off
       /\ ~q.live[t] => t \in prog.member /\ seq.off
  /\ pc[0] \in {"depend", "check", "fault"} => q.status[master.next] # "REJECTED"

\* The tasks that are in a ready list, with a thread, completed or being processed.
Busy == {t \in Tasks : \/ \E r \in Threads : In(t, q.ready[r])
                       \/ \E r \in Threads : mine[r] = t
                       \/ Names(t, completed)
                       \/ \E r \in Threads : job[r].task = t}

\* What is in a place, and that it is there once.
ReadyPlace ==
  /\ \A r \in Threads : Once(q.ready[r])
  /\ \A r \in Threads : \A t \in Tasks : In(t, q.ready[r]) => q.status[t] = "QUEUED"
  /\ \A r, s \in Threads : \A t \in Tasks : In(t, q.ready[r]) /\ In(t, q.ready[s]) => r = s
  /\ \A r, s \in Threads : ~In(mine[s], q.ready[r])
MinePlace ==
  /\ \A r \in Threads :
       /\ pc[r] \in {"read", "start", "skip"} => q.status[mine[r]] = "QUEUED"
       /\ pc[r] \in {"run", "cancel", "flushed"} => q.status[mine[r]] = "RUNNING"
       /\ pc[r] = "enqueue" => q.status[mine[r]] \in Done
       /\ mine[r] \notin freed
       /\ ~Names(mine[r], completed)
  /\ \A r, s \in Threads : mine[r] = mine[s] /\ mine[r] # None => r = s
  /\ \A r, s \in Threads : mine[r] = job[s].task => mine[r] = None
DonePlace ==
  /\ NamedOnce(completed)
  /\ \A t \in Tasks : Names(t, completed) => q.status[t] \in Done /\ t \notin freed
  /\ \A r \in Threads : ~Names(job[r].task, completed)
JobPlace ==
  /\ \A r \in Threads :
       /\ pc[r] \in Clearing => q.status[job[r].task] \in Done
       /\ pc[r] \in {"update", "delete"} => job[r].task \notin freed
       /\ pc[r] \in {"unlink", "uncount"} => job[r].task \in freed
  /\ \A r, s \in Threads : job[r].task = job[s].task /\ job[r].task # None => r = s
Nowhere == \A t \in Tasks : q.status[t] \in Past /\ t \notin freed => t \in Busy
Counted == q.queued = Cardinality(Busy)

\* A dependency that has been put into the list of its address; one that has been removed.
Came(t, i) == /\ q.status[t] \notin Out
              /\ t = master.next /\ pc[0] = "depend" => i < master.dep
Gone(t, i) == \/ t \in freed
              \/ \E r \in Threads : job[r].task = t /\ (job[r].dep = 0 \/ i < job[r].dep)

\* The counter of a task is the number of its unready dependencies, and of those of a task
\* on one address at most one is in its list.
Unready(t) == {i \in Arguments(t) : ~q.dep[t][i].ready}
Deps ==
  \A t \in Tasks :
    /\ q.ndep[t] = Cardinality(Unready(t))
    /\ \A i \in Arguments(t) :
         /\ q.dep[t][i].addr \in prog.addrs
         /\ q.dep[t][i].dropped => q.dep[t][i].ready
         /\ q.dep[t][i].ready => Came(t, i)
    /\ \A i, j \in Arguments(t) :
         /\ q.dep[t][i].addr = q.dep[t][j].addr
         /\ Came(t, i) /\ Came(t, j)
         /\ ~q.dep[t][i].dropped /\ ~q.dep[t][j].dropped
         => i = j

\* The dependency i stands for the argument d: it conflicts with whatever d conflicts with.
Stands(t, i, d) == /\ q.dep[t][i].addr = d.addr
                   /\ ~q.dep[t][i].dropped
                   /\ d.write => q.dep[t][i].write
                   /\ d.region \subseteq q.dep[t][i].region
                   /\ q.dep[t][i].gather <=> d.gather
                   /\ d.gather => q.dep[t][i].region = d.region
\* Every argument has a dependency that stands for it; a gatherer shares its address with
\* gatherers of the same region only.
Covers ==
  \A t \in Tasks :
    /\ \A k \in Arguments(t) : \E i \in Arguments(t) : Stands(t, i, prog.args[t][k])
    /\ \A i, j \in Arguments(t) :
         q.dep[t][i].addr = q.dep[t][j].addr /\ q.dep[t][i].gather =>
            q.dep[t][j].gather /\ q.dep[t][j].region = q.dep[t][i].region

\* The list of an address holds the dependencies that have come and are not gone.
Waits(t, i, a) == /\ q.dep[t][i].addr = a
                  /\ Came(t, i)
                  /\ ~q.dep[t][i].dropped
                  /\ ~Gone(t, i)
Lists ==
  \A a \in prog.addrs :
    /\ \A d \in q.list[a] : d[1] \in Tasks /\ d[2] \in Arguments(d[1])
    /\ \A t \in Tasks : \A i \in Arguments(t) : <<t, i>> \in q.list[a] <=> Waits(t, i, a)

\* A ready dependency conflicts with no earlier one of its list that is not over.
Clear ==
  \A a \in prog.addrs : \A d, e \in q.list[a] :
    e[1] < d[1] /\ Of(q, d).ready /\ Open(q, e) => ~Conflict(Of(q, e), Of(q, d))

\* The thread that cancels the sequence, and what is left for it to cancel.
Sequence ==
  /\ \A r \in Threads :
       /\ seq.owner = r <=> pc[r] = "cancel"
       /\ pc[r] \in {"skip", "cancel", "flushed"} => seq.off
       /\ pc[r] = "flushed" => seq.owner = Nobody
       /\ pc[r] = "start" /\ mine[r] \in prog.member /\ seq.off /\ q.live[mine[r]] =>
            seq.owner # Nobody /\ mine[r] \in seq.rest
  /\ seq.owner # Nobody => seq.off
  /\ seq.owner = Nobody => seq.rest = {}

\* The tasks of the sequence are its members that are inserted and not yet deleted.
Members ==
  \A t \in Tasks :
    t \in seq.tasks <=>
       /\ t \in prog.member
       /\ q.status[t] \notin Out \/ (t = master.next /\ pc[0] = "hash")
       /\ t \in freed => \E r \in Threads : pc[r] = "unlink" /\ job[r].task = t

\* A member about to start follows only members that are done: none was skipped.
Follows ==
  \A r \in Threads :
    pc[r] = "start" /\ mine[r] \in prog.member =>
      \A s \in prog.member : <<s, mine[r]>> \in prog.order => q.status[s] = "DONE"

\* The inductive invariant, for as long as no task has been queued a second time.
Inv == /\ twice = {}
       /\ TypeOK /\ Ctl /\ Stages
       /\ ReadyPlace /\ MinePlace /\ DonePlace /\ JobPlace /\ Nowhere /\ Counted
       /\ Deps /\ Covers /\ Lists /\ Clear
       /\ Sequence /\ Members /\ Follows /\ SleepersKnow
-----------------------------------------------------------------------------
\* A number modulo the number of threads is a thread.
LEMMA ModThreads == ASSUME NEW a \in Int PROVE a % N \in Threads
  BY ThreadsAssumption DEF Threads

\* The elements of A that R puts before t.
Ahead(A, R, t) == {u \in A : <<u, t>> \in R}

Orders(A, R) ==
  /\ \A t, u, v \in A : <<t, u>> \in R /\ <<u, v>> \in R => <<t, v>> \in R
  /\ \A t \in A : <<t, t>> \notin R
  /\ \A t, u \in A : t # u => <<t, u>> \in R \/ <<u, t>> \in R

\* In an order, the ranks of a finite set are 0 to its size less one, each taken once.
LEMMA RankOnto ==
  ASSUME NEW A, IsFiniteSet(A), NEW R, Orders(A, R)
  PROVE  /\ \A t, u \in A : Cardinality(Ahead(A, R, t)) = Cardinality(Ahead(A, R, u)) => t = u
         /\ \A t \in A : Cardinality(Ahead(A, R, t)) \in 0 .. Cardinality(A) - 1
         /\ \A i \in 0 .. Cardinality(A) - 1 : \E t \in A : Cardinality(Ahead(A, R, t)) = i
<1> DEFINE rank == [t \in A |-> Cardinality(Ahead(A, R, t))]
<1>0. Cardinality(A) \in Nat
  BY FS_CardinalityType
<1>1. ASSUME NEW t \in A PROVE Cardinality(Ahead(A, R, t)) \in 0 .. Cardinality(A) - 1
  <2>1. IsFiniteSet(A \ {t}) /\ Cardinality(A \ {t}) = Cardinality(A) - 1
    BY FS_RemoveElement
  <2>2. Ahead(A, R, t) \in SUBSET (A \ {t})
    BY DEF Ahead, Orders
  <2>3. IsFiniteSet(Ahead(A, R, t)) /\ Cardinality(Ahead(A, R, t)) =< Cardinality(A \ {t})
    BY <2>1, <2>2, FS_Subset
  <2>4. Cardinality(Ahead(A, R, t)) \in Nat
    BY <2>3, FS_CardinalityType
  <2>5. QED
    BY <2>1, <2>3, <2>4, <1>0
<1>2. ASSUME NEW t \in A, NEW u \in A, <<t, u>> \in R
      PROVE  Cardinality(Ahead(A, R, t)) # Cardinality(Ahead(A, R, u))
  <2>1. Ahead(A, R, t) \in SUBSET Ahead(A, R, u) /\ t \in Ahead(A, R, u) /\ t \notin Ahead(A, R, t)
    BY <1>2 DEF Ahead, Orders
  <2>2. Ahead(A, R, u) \in SUBSET A
    BY DEF Ahead
  <2>3. IsFiniteSet(Ahead(A, R, u))
    BY <2>2, FS_Subset
  <2>4. QED
    BY <2>1, <2>3, FS_Subset
<1>3. \A t, u \in A : Cardinality(Ahead(A, R, t)) = Cardinality(Ahead(A, R, u)) => t = u
  BY <1>2 DEF Orders
<1>4. rank \in Injection(A, 0 .. Cardinality(A) - 1)
  BY <1>1, <1>3 DEF Injection, IsInjective
<1>5. IsFiniteSet(0 .. Cardinality(A) - 1) /\ Cardinality(0 .. Cardinality(A) - 1) = Cardinality(A)
  BY <1>0, FS_Interval
<1> HIDE DEF rank
<1>6. rank \in Surjection(A, 0 .. Cardinality(A) - 1)
  BY <1>4, <1>5, FS_Injection
<1>7. ASSUME NEW i \in 0 .. Cardinality(A) - 1 PROVE \E t \in A : Cardinality(Ahead(A, R, t)) = i
  <2>1. PICK t \in A : rank[t] = i
    BY <1>6 DEF Surjection
  <2>2. QED
    BY <2>1 DEF rank
<1>8. QED
  BY <1>1, <1>3, <1>7

\* A sequence that puts at i the element of rank i - 1 lists the set, each element once.
LEMMA Ranking ==
  ASSUME NEW A, IsFiniteSet(A), NEW R, Orders(A, R),
         NEW s, s = [i \in 1 .. Cardinality(A) |-> s[i]],
         \A i \in 1 .. Cardinality(A) : \A t \in A : Cardinality(Ahead(A, R, t)) = i - 1 =>
            s[i] \in A /\ Cardinality(Ahead(A, R, s[i])) = i - 1
  PROVE  /\ s \in [1 .. Cardinality(A) -> A]
         /\ \A t \in A : \E i \in DOMAIN s : s[i] = t
         /\ \A i, j \in DOMAIN s : s[i] = s[j] => i = j
<1> DEFINE n == Cardinality(A)
           card(t) == Cardinality(Ahead(A, R, t))
<1>0. n \in Nat
  BY FS_CardinalityType
<1>1. ASSUME NEW i \in 1 .. n PROVE s[i] \in A /\ card(s[i]) = i - 1
  <2>1. i - 1 \in 0 .. n - 1
    BY <1>0
  <2>2. \E t \in A : card(t) = i - 1
    BY <2>1, RankOnto
  <2>3. QED
    BY <2>2
<1>2. DOMAIN s = 1 .. n /\ \A i \in 1 .. n : s[i] \in A
  BY <1>1
<1>3. s \in [1 .. n -> A]
  BY <1>2, Zenon
<1>4. ASSUME NEW t \in A PROVE \E i \in DOMAIN s : s[i] = t
  <2>1. card(t) \in 0 .. n - 1 
    BY RankOnto
  <2> HIDE DEF card, n
  <2>2. \E i \in 1 .. n : i - 1 = card(t)
    BY ONLY <2>1, <1>0
  <2>3. PICK i \in 1 .. n : i - 1 = card(t)
    BY <2>2
  <2>4. s[i] \in A /\ card(s[i]) = card(t)
    BY <1>1, <2>3
  <2>5. s[i] = t
    BY <2>4, RankOnto DEF card
  <2>6. QED
    BY <2>5, <1>2
<1>5. ASSUME NEW i \in 1 .. n, NEW j \in 1 .. n, s[i] = s[j] PROVE i = j
  <2>1. i - 1 = j - 1
    BY <1>1, <1>5
  <2>2. QED
    BY <2>1
<1>6. QED
  BY <1>2, <1>3, <1>4, <1>5
-----------------------------------------------------------------------------
\* The tasks of a program.
LEMMA ProgramTypes ==
  ASSUME prog \in Programs
  PROVE  /\ Len(prog.args) \in Nat /\ DOMAIN prog.args = Tasks
         /\ prog.prio \in [Tasks -> Int]
         /\ prog.local \in [Tasks -> prog.addrs \cup {None}]
         /\ prog.member \in SUBSET Tasks
         /\ prog.fails \in SUBSET prog.member
         /\ prog.robins \in SUBSET Threads
         /\ prog.addrs = Addrs(prog.args)
         /\ prog.order = Order(prog.args)
         /\ \A t \in Tasks : /\ prog.args[t] \in Seq(Argument)
                             /\ Len(prog.args[t]) \in Nat \ {0}
                             /\ DOMAIN prog.args[t] = Arguments(t)
                             /\ \A i \in Arguments(t) : prog.args[t][i] \in Argument
<1>1. prog.args \in Seq(Seq(Argument) \ {<<>>})
  BY ProgramsAssumption
<1>2. Len(prog.args) \in Nat /\ DOMAIN prog.args = Tasks
      /\ \A t \in Tasks : prog.args[t] \in Seq(Argument) \ {<<>>}
  BY <1>1, LenProperties DEF Tasks
<1>3. ASSUME NEW t \in Tasks
      PROVE  /\ prog.args[t] \in Seq(Argument)
             /\ Len(prog.args[t]) \in Nat \ {0}
             /\ DOMAIN prog.args[t] = Arguments(t)
             /\ \A i \in Arguments(t) : prog.args[t][i] \in Argument
  <2>1. prog.args[t] \in Seq(Argument) /\ prog.args[t] # <<>>
    BY <1>2
  <2>2. Len(prog.args[t]) \in Nat \ {0}
    BY <2>1, EmptySeq
  <2>3. QED
    BY <2>1, <2>2, LenProperties DEF Arguments
<1>4. /\ prog.prio \in [DOMAIN prog.args -> Int]
      /\ prog.local \in [DOMAIN prog.args -> prog.addrs \cup {None}]
      /\ prog.member \in SUBSET DOMAIN prog.args
      /\ prog.fails \in SUBSET prog.member
      /\ prog.robins \in SUBSET Threads
      /\ prog.addrs = Addrs(prog.args)
      /\ prog.order = Order(prog.args)
  BY ProgramsAssumption
<1>5. QED
  BY <1>2, <1>3, <1>4

\* The tasks of a program, and any set of them, are finite.
LEMMA TasksFinite ==
  ASSUME prog \in Programs
  PROVE  /\ IsFiniteSet(Tasks) /\ Tasks \in SUBSET Nat
         /\ \A S \in SUBSET Tasks : IsFiniteSet(S) /\ Cardinality(S) \in Nat
<1>1. IsFiniteSet(Tasks)
  BY ProgramTypes, FS_Interval DEF Tasks
<1>2. ASSUME NEW S \in SUBSET Tasks PROVE IsFiniteSet(S) /\ Cardinality(S) \in Nat
  BY <1>1, FS_Subset, FS_CardinalityType
<1>3. QED
  BY <1>1, <1>2, ProgramTypes DEF Tasks

\* What the ready list becomes by an insertion with priorities: the tasks it had and the new
\* ones, each once (quark.c:1545).
LEMMA ByPriorityIs ==
  ASSUME prog \in Programs, NEW list \in Seq(Tasks), Once(list),
         NEW S \in SUBSET Tasks, \A t \in S : ~In(t, list)
  PROVE  /\ ByPriority(list, S) \in Seq(Tasks)
         /\ Once(ByPriority(list, S))
         /\ \A t : In(t, ByPriority(list, S)) <=> In(t, list) \/ t \in S
<1> DEFINE all == ToSet(list) \cup S
           since(t) == IF t \in S THEN Len(list) + t ELSE CHOOSE i \in DOMAIN list : list[i] = t
           before(u, t) == \/ prog.prio[u] > prog.prio[t]
                           \/ prog.prio[u] = prog.prio[t] /\ since(u) < since(t)
           R == {p \in all \X all : before(p[1], p[2])}
           b == ByPriority(list, S)
<1>1. Len(list) \in Nat /\ DOMAIN list = 1 .. Len(list) /\ \A i \in DOMAIN list : list[i] \in Tasks
  BY LenProperties
<1>2. all \in SUBSET Tasks /\ \A t : t \in all <=> In(t, list) \/ t \in S
  BY <1>1 DEF ToSet, In
<1>3. IsFiniteSet(all) /\ Cardinality(all) \in Nat
  BY <1>2, TasksFinite
<1>4. ASSUME NEW t \in all
      PROVE  /\ since(t) \in Int
             /\ t \in S <=> since(t) > Len(list)
             /\ t \in S => since(t) = Len(list) + t
             /\ t \notin S => since(t) \in DOMAIN list /\ list[since(t)] = t
  <2>1. CASE t \in S
    <3>1. since(t) = Len(list) + t
      BY <2>1
    <3>2. t \in Nat
      BY <2>1, TasksFinite
    <3>3. t > 0
      BY <2>1 DEF Tasks
    <3> HIDE DEF since
    <3>4. QED
      BY <2>1, <1>1, <3>1, <3>2, <3>3
  <2>2. CASE t \notin S
    <3>1. \E i \in DOMAIN list : list[i] = t
      BY <2>2, <1>2 DEF In
    <3>2. since(t) = CHOOSE i \in DOMAIN list : list[i] = t
      BY <2>2
    <3>3. since(t) \in DOMAIN list /\ list[since(t)] = t
      BY <3>1, <3>2, Zenon
    <3> HIDE DEF since
    <3>4. QED
      BY <2>2, <3>3, <1>1
  <2>3. QED
    BY <2>1, <2>2
<1>5. b = [i \in 1 .. Cardinality(all) |->
             CHOOSE t \in all : Cardinality({u \in all : before(u, t)}) = i - 1]
  BY Zenon DEF ByPriority
<1> HIDE DEF since, all, b
<1>6. \A t, u \in all : since(t) = since(u) => t = u
  <2>1. \A t \in all : t \in Nat
    BY <1>2, TasksFinite
  <2>2. QED
    BY <1>1, <1>4, <2>1
<1>7. Orders(all, R)
  <2>1. \A t \in all : prog.prio[t] \in Int /\ since(t) \in Int
    BY <1>2, <1>4, ProgramTypes
  <2>2. \A t, u \in all : <<t, u>> \in R <=> before(t, u)
    BY Zenon
  <2> HIDE DEF R
  <2>3. QED
    BY <2>1, <2>2, <1>6 DEF Orders
<1> HIDE DEF before
<1>8. \A t \in all : Ahead(all, R, t) = {u \in all : before(u, t)}
  BY DEF Ahead
<1> HIDE DEF R
<1>9. ASSUME NEW i \in 1 .. Cardinality(all), NEW t \in all, Cardinality(Ahead(all, R, t)) = i - 1
      PROVE  b[i] \in all /\ Cardinality(Ahead(all, R, b[i])) = i - 1
  <2> DEFINE rank(v) == Cardinality({u \in all : before(u, v)})
  <2>1. rank(t) = i - 1
    BY <1>8, <1>9, Zenon
  <2>2. b[i] = CHOOSE v \in all : rank(v) = i - 1
    BY <1>5, Zenon
  <2>3. b[i] \in all /\ rank(b[i]) = i - 1
    <3> HIDE DEF rank
    <3>1. QED
      BY <2>1, <2>2, Zenon
  <2>4. QED
    BY <1>8, <2>3, Zenon
<1>9a. b = [i \in 1 .. Cardinality(all) |-> b[i]]
  <2> DEFINE pick(i) == CHOOSE t \in all : Cardinality({u \in all : before(u, t)}) = i - 1
  <2>1. b = [i \in 1 .. Cardinality(all) |-> pick(i)]
    BY <1>5
  <2> HIDE DEF pick
  <2>2. QED
    BY <2>1
<1> HIDE DEF R, b
<1>10. /\ b \in [1 .. Cardinality(all) -> all]
       /\ \A t \in all : \E i \in DOMAIN b : b[i] = t
       /\ \A i, j \in DOMAIN b : b[i] = b[j] => i = j
  <2>1. \A i \in 1 .. Cardinality(all) : \A t \in all : Cardinality(Ahead(all, R, t)) = i - 1 =>
            b[i] \in all /\ Cardinality(Ahead(all, R, b[i])) = i - 1
    BY <1>9
  <2>2. QED
    BY <1>3, <1>7, <2>1, <1>9a, Ranking
<1>11. b \in Seq(Tasks)
  <2>1. b \in [1 .. Cardinality(all) -> Tasks]
    BY <1>10, <1>2
  <2>2. QED
    BY <2>1, <1>3, SeqDef
<1>12. Once(b)
  BY <1>10 DEF Once
<1>13. \A t : In(t, b) <=> t \in all
  BY <1>10 DEF In
<1>14. QED
  BY <1>2, <1>11, <1>12, <1>13 DEF b
-----------------------------------------------------------------------------
\* What a ready list loses at its head.
LEMMA TailIs ==
  ASSUME NEW S, NEW l \in Seq(S), l # <<>>, Once(l)
  PROVE  /\ Tail(l) \in Seq(S) /\ Once(Tail(l))
         /\ Head(l) \in S /\ In(Head(l), l)
         /\ \A t : In(t, Tail(l)) <=> In(t, l) /\ t # Head(l)
<1>1. /\ Tail(l) \in Seq(S) /\ Head(l) \in S /\ Head(l) = l[1]
      /\ Len(Tail(l)) = Len(l) - 1
      /\ \A i \in 1 .. Len(Tail(l)) : Tail(l)[i] = l[i + 1]
  BY HeadTailProperties
<1>2. Len(l) \in Nat \ {0} /\ DOMAIN l = 1 .. Len(l) /\ DOMAIN Tail(l) = 1 .. Len(l) - 1
  BY <1>1, EmptySeq, LenProperties
<1>3. Once(Tail(l))
  BY <1>1, <1>2 DEF Once
<1>4. ASSUME NEW t, In(t, l), t # Head(l) PROVE In(t, Tail(l))
  <2>1. PICK i \in 1 .. Len(l) : l[i] = t
    BY <1>2, <1>4 DEF In
  <2>2. i - 1 \in 1 .. Len(l) - 1 /\ Tail(l)[i - 1] = t
    BY <1>1, <1>2, <1>4, <2>1
  <2>3. QED
    BY <1>2, <2>2 DEF In
<1>5. ASSUME NEW t, In(t, Tail(l)) PROVE In(t, l) /\ t # Head(l)
  <2>1. PICK i \in 1 .. Len(l) - 1 : Tail(l)[i] = t
    BY <1>2, <1>5 DEF In
  <2>2. i + 1 \in 1 .. Len(l) /\ l[i + 1] = t /\ i + 1 # 1 /\ 1 \in 1 .. Len(l)
    BY <1>1, <1>2, <2>1
  <2>3. QED
    BY <1>1, <1>2, <2>2 DEF In, Once
<1>6. In(Head(l), l)
  BY <1>1, <1>2 DEF In
<1>7. QED
  BY <1>1, <1>3, <1>4, <1>5, <1>6

\* What a ready list loses at its end.
LEMMA FrontIs ==
  ASSUME NEW S, NEW l \in Seq(S), l # <<>>, Once(l)
  PROVE  /\ Front(l) \in Seq(S) /\ Once(Front(l))
         /\ Last(l) \in S /\ In(Last(l), l)
         /\ \A t : In(t, Front(l)) <=> In(t, l) /\ t # Last(l)
<1>1. Len(l) \in Nat \ {0} /\ DOMAIN l = 1 .. Len(l) /\ \A i \in DOMAIN l : l[i] \in S
  BY EmptySeq, LenProperties
<1>2. /\ Front(l) \in Seq(S)
      /\ Len(Front(l)) = Len(l) - 1
      /\ \A i \in 1 .. Len(l) - 1 : Front(l)[i] = l[i]
  <2>1. /\ SubSeq(l, 1, Len(l) - 1) \in Seq(S)
        /\ Len(SubSeq(l, 1, Len(l) - 1)) = IF 1 <= Len(l) - 1 THEN Len(l) - 1 - 1 + 1 ELSE 0
        /\ \A i \in 1 .. Len(l) - 1 - 1 + 1 : SubSeq(l, 1, Len(l) - 1)[i] = l[1 + i - 1]
    BY <1>1, SubSeqProperties
  <2>2. QED
    BY <1>1, <2>1 DEF Front
<1>3. DOMAIN Front(l) = 1 .. Len(l) - 1
  BY <1>2, LenProperties
<1>4. Last(l) = l[Len(l)] /\ Len(l) \in 1 .. Len(l)
  BY <1>1 DEF Last
<1>5. Once(Front(l))
  BY <1>1, <1>2, <1>3 DEF Once
<1>6. \A t : In(t, Front(l)) <=> In(t, l) /\ t # Last(l)
  <2>1. ASSUME NEW t, In(t, Front(l)) PROVE In(t, l) /\ t # Last(l)
    BY <1>1, <1>2, <1>3, <1>4, <2>1 DEF In, Once
  <2>2. ASSUME NEW t, In(t, l), t # Last(l) PROVE In(t, Front(l))
    BY <1>1, <1>2, <1>3, <1>4, <2>2 DEF In
  <2>3. QED
    BY <2>1, <2>2
<1>7. QED
  BY <1>1, <1>2, <1>4, <1>5, <1>6 DEF In

\* The list of completed tasks holds pairs: a task and the thread that ran it.
LEMMA CompletedAppend ==
  ASSUME NEW S, NEW c \in Seq(S), NEW e \in S, NamedOnce(c), ~Names(e[1], c)
  PROVE  /\ Append(c, e) \in Seq(S) /\ NamedOnce(Append(c, e))
         /\ \A t : Names(t, Append(c, e)) <=> Names(t, c) \/ t = e[1]
<1>1. /\ Append(c, e) \in Seq(S) /\ Len(Append(c, e)) = Len(c) + 1
      /\ \A i \in 1 .. Len(c) : Append(c, e)[i] = c[i]
      /\ Append(c, e)[Len(c) + 1] = e
  BY AppendProperties
<1>2. Len(c) \in Nat /\ DOMAIN c = 1 .. Len(c) /\ DOMAIN Append(c, e) = 1 .. Len(c) + 1
  BY <1>1, LenProperties
<1>3. \A i \in 1 .. Len(c) + 1 : i \in 1 .. Len(c) \/ i = Len(c) + 1
  BY <1>2
<1>4. 1 .. Len(c) \subseteq 1 .. Len(c) + 1 /\ Len(c) + 1 \in 1 .. Len(c) + 1
  BY <1>2
<1>5. NamedOnce(Append(c, e))
  BY <1>1, <1>2, <1>3 DEF NamedOnce, Names
<1>6. \A t : Names(t, Append(c, e)) <=> Names(t, c) \/ t = e[1]
  BY <1>1, <1>2, <1>3, <1>4 DEF Names
<1>7. QED
  BY <1>1, <1>5, <1>6

\* What is left when the first of the completed tasks is taken.
LEMMA CompletedTail ==
  ASSUME NEW S, NEW c \in Seq(S), c # <<>>, NamedOnce(c)
  PROVE  /\ Tail(c) \in Seq(S) /\ NamedOnce(Tail(c))
         /\ Head(c) \in S /\ Names(Head(c)[1], c)
         /\ \A t : Names(t, Tail(c)) <=> Names(t, c) /\ t # Head(c)[1]
<1>1. /\ Tail(c) \in Seq(S) /\ Head(c) \in S /\ Head(c) = c[1]
      /\ Len(Tail(c)) = Len(c) - 1
      /\ \A i \in 1 .. Len(Tail(c)) : Tail(c)[i] = c[i + 1]
  BY HeadTailProperties
<1>2. Len(c) \in Nat \ {0} /\ DOMAIN c = 1 .. Len(c) /\ DOMAIN Tail(c) = 1 .. Len(c) - 1
  BY <1>1, EmptySeq, LenProperties
<1>3. NamedOnce(Tail(c))
  BY <1>1, <1>2 DEF NamedOnce
<1>4. ASSUME NEW t, Names(t, c), t # Head(c)[1] PROVE Names(t, Tail(c))
  <2>1. PICK i \in 1 .. Len(c) : c[i][1] = t
    BY <1>2, <1>4 DEF Names
  <2>2. i - 1 \in 1 .. Len(c) - 1 /\ Tail(c)[i - 1][1] = t
    BY <1>1, <1>2, <1>4, <2>1
  <2>3. QED
    BY <1>2, <2>2 DEF Names
<1>5. ASSUME NEW t, Names(t, Tail(c)) PROVE Names(t, c) /\ t # Head(c)[1]
  <2>1. PICK i \in 1 .. Len(c) - 1 : Tail(c)[i][1] = t
    BY <1>2, <1>5 DEF Names
  <2>2. i + 1 \in 1 .. Len(c) /\ c[i + 1][1] = t /\ i + 1 # 1 /\ 1 \in 1 .. Len(c)
    BY <1>1, <1>2, <2>1
  <2>3. QED
    BY <1>1, <1>2, <2>2 DEF Names, NamedOnce
<1>6. Names(Head(c)[1], c)
  BY <1>1, <1>2 DEF Names
<1>7. QED
  BY <1>1, <1>3, <1>4, <1>5, <1>6
-----------------------------------------------------------------------------

\* A set of numbers that is not empty has a least one.
LEMMA LeastNumber ==
  ASSUME NEW S \in SUBSET Nat, S # {}
  PROVE  \E x \in S : \A y \in S : x =< y
<1> DEFINE R == {ss \in Nat \X Nat : ss[1] < ss[2]}
<1>1. IsWellFoundedOn(R, Nat)
  BY NatLessThanWellFounded DEF OpToRel
<1>2. PICK x \in S : \A y \in S : ~(<<y, x>> \in R)
  <2> HIDE DEF R
  <2> QED
    BY <1>1, WFMin
<1>3. \A y \in S : ~(y < x)
  BY <1>2
<1> QED
  BY <1>3

\* Min is the least element.
LEMMA MinIn ==
  ASSUME NEW S \in SUBSET Nat, S # {}
  PROVE  Min(S) \in S /\ \A y \in S : Min(S) =< y
BY LeastNumber DEF Min

\* Max is the greatest element of a bounded set.
LEMMA MaxIn ==
  ASSUME NEW S \in SUBSET Nat, S # {}, NEW n \in Nat, \A y \in S : y =< n
  PROVE  Max(S) \in S /\ \A y \in S : y =< Max(S)
<1> DEFINE B == {b \in Nat : \A y \in S : y =< b}
<1>1. PICK b \in B : \A c \in B : b =< c
  <2>1. n \in B
    OBVIOUS
  <2>2. QED
    BY <2>1, LeastNumber
<1>2. b \in S
  <2> SUFFICES ASSUME b \notin S PROVE FALSE
    OBVIOUS
  <2>1. \A y \in S : y =< b /\ y # b /\ y \in Nat
    BY <1>1
  <2>2. b # 0
    <3>1. PICK y \in S : y \in Nat /\ y =< b /\ y # b
      BY <2>1
    <3>2. QED
      BY <3>1
  <2>3. b - 1 \in B
    BY <1>1, <2>1, <2>2
  <2>4. QED
    BY <1>1, <2>3
<1>3. \E x \in S : \A y \in S : x >= y
  BY <1>1, <1>2
<1>4. QED
  BY <1>3 DEF Max

\* InsertAt in terms of SubSeq and concatenation.
LEMMA Inserted ==
  ASSUME NEW list, NEW i, NEW x
  PROVE  InsertAt(list, i, x) = SubSeq(list, 1, i - 1) \o <<x>> \o SubSeq(list, i, Len(list))
BY DEF InsertAt

\* Packing an argument into the list of dependencies adds it and changes no other.
LEMMA PackIs ==
  ASSUME NEW D, NEW list \in Seq(D), NEW x \in D
  PROVE  /\ Pack(list, x) \in Seq(D) /\ Len(Pack(list, x)) = Len(list) + 1
         /\ \A y : In(y, Pack(list, x)) <=> In(y, list) \/ y = x
<1> DEFINE I == {i \in 1 .. Len(list) : list[i].addr > x.addr}
           p == IF I # {} THEN Max(I) ELSE 0
<1>1. Len(list) \in Nat /\ DOMAIN list = 1 .. Len(list) /\ \A i \in 1 .. Len(list) : list[i] \in D
  BY LenProperties
<1>2. Pack(list, x) = IF p = 0 THEN Append(list, x) ELSE InsertAt(list, p + 1, x)
  BY DEF Pack, SelectLastInSeq
<1>3. p \in 0 .. Len(list)
  <2>1. ASSUME I # {} PROVE Max(I) \in I
    <3>1. I \in SUBSET Nat /\ \A y \in I : y =< Len(list)
      BY <1>1
    <3> HIDE DEF I
    <3>2. QED
      BY <3>1, <2>1, <1>1, MaxIn
  <2>2. CASE I = {}
    <3>1. p = 0 /\ Len(list) \in Nat
      BY <2>2, <1>1
    <3> HIDE DEF p
    <3> QED
      BY <3>1
  <2>3. CASE I # {}
    <3>1. p \in I
      BY <2>1, <2>3
    <3>2. p \in 1 .. Len(list)
      BY <3>1
    <3>3. Len(list) \in Nat
      BY <1>1
    <3> HIDE DEF p
    <3> QED
      BY <3>2, <3>3
  <2> QED
    BY <2>2, <2>3
<1> HIDE DEF p
<1>4. CASE p = 0
  <2>1. /\ Append(list, x) \in Seq(D) /\ Len(Append(list, x)) = Len(list) + 1
        /\ \A i \in 1 .. Len(list) : Append(list, x)[i] = list[i]
        /\ Append(list, x)[Len(list) + 1] = x
    BY AppendProperties
  <2>2. DOMAIN Append(list, x) = 1 .. Len(list) + 1
    BY <2>1, LenProperties
  <2>3. \A i \in 1 .. Len(list) + 1 : i \in 1 .. Len(list) \/ i = Len(list) + 1
    BY <1>1
  <2>4. 1 .. Len(list) \subseteq 1 .. Len(list) + 1 /\ Len(list) + 1 \in 1 .. Len(list) + 1
    BY <1>1
  <2>5. \A y : In(y, Append(list, x)) <=> In(y, list) \/ y = x
    BY <1>1, <2>1, <2>2, <2>3, <2>4 DEF In
  <2>6. QED
    BY <1>2, <1>4, <2>1, <2>5
<1>5. CASE p # 0
  <2> DEFINE a == SubSeq(list, 1, p)
             b == SubSeq(list, p + 1, Len(list))
             n == Len(list)
  <2>0. p \in 1 .. n /\ n \in Nat
    BY <1>1, <1>3, <1>5
  <2>1. a \in Seq(D) /\ Len(a) = p /\ \A i \in 1 .. p : a[i] = list[i]
    <3>1. \A i \in 1 .. p : list[i] \in D
      BY <1>1, <2>0
    <3>2. /\ a \in Seq(D) /\ Len(a) = IF 1 <= p THEN p - 1 + 1 ELSE 0
          /\ \A i \in 1 .. p - 1 + 1 : a[i] = list[1 + i - 1]
      BY <3>1, <2>0, SubSeqProperties
    <3>3. QED
      BY <3>2, <2>0
  <2>2. b \in Seq(D) /\ Len(b) = n - p /\ \A i \in 1 .. n - p : b[i] = list[p + i]
    <3>1. \A i \in p + 1 .. n : list[i] \in D
      BY <1>1, <2>0
    <3>2. /\ b \in Seq(D) /\ Len(b) = IF p + 1 <= n THEN n - (p + 1) + 1 ELSE 0
          /\ \A i \in 1 .. n - (p + 1) + 1 : b[i] = list[(p + 1) + i - 1]
      BY <3>1, <2>0, SubSeqProperties
    <3>3. QED
      BY <3>2, <2>0
  <2> DEFINE s == a \o <<x>>
             r == s \o b
  <2> HIDE DEF a, b
  <2>3. s \in Seq(D) /\ Len(s) = p + 1 /\ \A i \in 1 .. p + 1 : s[i] = IF i <= p THEN list[i] ELSE x
    <3>1. <<x>> \in Seq(D) /\ Len(<<x>>) = 1 /\ <<x>>[1] = x
      OBVIOUS
    <3>2. /\ s \in Seq(D) /\ Len(s) = Len(a) + Len(<<x>>)
          /\ \A i \in 1 .. Len(a) + Len(<<x>>) : s[i] = IF i <= Len(a) THEN a[i] ELSE <<x>>[i - Len(a)]
      BY <3>1, <2>1, ConcatProperties
    <3>3. QED
      BY <3>1, <3>2, <2>0, <2>1
  <2> HIDE DEF s
  <2>4. r \in Seq(D) /\ Len(r) = n + 1
        /\ \A i \in 1 .. n + 1 : r[i] = IF i <= p THEN list[i] ELSE IF i = p + 1 THEN x ELSE list[i - 1]
    <3>2. /\ r \in Seq(D) /\ Len(r) = Len(s) + Len(b)
          /\ \A i \in 1 .. Len(s) + Len(b) : r[i] = IF i <= Len(s) THEN s[i] ELSE b[i - Len(s)]
      BY <2>3, <2>2, ConcatProperties
    <3>3. r \in Seq(D) /\ Len(r) = n + 1
      BY <3>2, <2>0, <2>2, <2>3
    <3>4. ASSUME NEW i \in 1 .. n + 1
          PROVE  r[i] = IF i <= p THEN list[i] ELSE IF i = p + 1 THEN x ELSE list[i - 1]
      <4>1. r[i] = IF i <= p + 1 THEN s[i] ELSE b[i - (p + 1)]
        BY <3>2, <2>0, <2>2, <2>3
      <4>2. CASE i <= p + 1
        <5>1. i \in 1 .. p + 1 /\ i \in Int
          BY <4>2, <2>0
        <5>2. r[i] = IF i <= p THEN list[i] ELSE x
          BY <4>1, <4>2, <5>1, <2>3
        <5>3. i <= p \/ i = p + 1
          BY <4>2, <5>1, <2>0
        <5>4. QED
          BY <5>2, <5>3
      <4>3. CASE i > p + 1
        <5>1. i - (p + 1) \in 1 .. n - p /\ p + (i - (p + 1)) = i - 1
          BY <4>3, <2>0
        <5>2. b[i - (p + 1)] = list[i - 1]
          BY <5>1, <2>2
        <5>3. ~(i <= p + 1) /\ ~(i <= p) /\ i # p + 1
          BY <4>3, <2>0
        <5>4. QED
          BY <4>1, <5>2, <5>3
      <4>4. i <= p + 1 \/ i > p + 1
        BY <2>0
      <4>5. QED
        BY <4>2, <4>3, <4>4, Zenon
    <3>5. QED
      BY <3>3, <3>4
  <2>5. Pack(list, x) = r
    <3> DEFINE sub(i, j) == SubSeq(list, i, j)
    <3>1. p + 1 - 1 = p
      BY <2>0
    <3>2. Pack(list, x) = InsertAt(list, p + 1, x)
      BY <1>2, <1>5
    <3>3. ASSUME NEW k PROVE InsertAt(list, k, x) = sub(1, k - 1) \o <<x>> \o sub(k, Len(list))
      BY ONLY Inserted
    <3>4. a = sub(1, p) /\ b = sub(p + 1, Len(list))
      BY Zenon DEF a, b
    <3> HIDE DEF sub
    <3>5. InsertAt(list, p + 1, x) = sub(1, p) \o <<x>> \o sub(p + 1, Len(list))
      <4> HIDE DEF I, n, r
      <4>1. PICK k : k = p + 1
        OBVIOUS
      <4>2. k - 1 = p
        BY <2>0, <4>1
      <4>3. InsertAt(list, k, x) = sub(1, k - 1) \o <<x>> \o sub(k, Len(list))
        BY <3>3
      <4>4. QED
        BY ONLY <4>1, <4>2, <4>3, Zenon
    <3>6. QED
      BY <3>2, <3>4, <3>5, Zenon DEF s
  <2> HIDE DEF r
  <2>6. DOMAIN r = 1 .. n + 1
    BY <2>4, LenProperties
  <2>7. ASSUME NEW y, In(y, r) PROVE In(y, list) \/ y = x
    <3>1. PICK i \in 1 .. n + 1 : r[i] = y
      BY <2>6, <2>7 DEF In
    <3>2. CASE i =< p
      BY <3>1, <3>2, <2>4, <2>0, <1>1 DEF In
    <3>3. CASE i = p + 1
      BY <3>1, <3>3, <2>4, <2>0
    <3>4. CASE i > p + 1
      <4>1. i - 1 \in DOMAIN list /\ list[i - 1] = y
        BY <3>1, <3>4, <2>4, <2>0, <1>1
      <4>2. QED
        BY <4>1 DEF In
    <3>5. QED
      BY <3>2, <3>3, <3>4, <2>0
  <2>8. ASSUME NEW y, In(y, list) \/ y = x PROVE In(y, r)
    <3>1. CASE y = x
      <4>1. p + 1 \in 1 .. n + 1 /\ ~(p + 1 <= p)
        BY <2>0
      <4>2. r[p + 1] = x
        BY <4>1, <2>4
      <4>3. QED
        BY <3>1, <4>1, <4>2, <2>6 DEF In
    <3>2. ASSUME NEW i \in 1 .. n, list[i] = y PROVE In(y, r)
      <4>1. CASE i =< p
        BY <4>1, <3>2, <2>0, <2>4, <2>6 DEF In
      <4>2. CASE i > p
        <5>1. i + 1 \in 1 .. n + 1 /\ r[i + 1] = y
          BY <4>2, <3>2, <2>0, <2>4
        <5>2. QED
          BY <5>1, <2>6 DEF In
      <4>3. QED
        BY <4>1, <4>2, <2>0
    <3>3. QED
      BY <2>8, <3>1, <3>2, <1>1 DEF In
  <2>9. QED
    BY <2>4, <2>5, <2>7, <2>8
<1>6. QED
  BY <1>4, <1>5
-----------------------------------------------------------------------------
\* What an argument is turned into is a dependency.
LEMMA DependencyIn ==
  ASSUME NEW arg \in Argument
  PROVE  Dependency(arg) \in Dependencies
BY DEF Argument, Dependency, Dependencies

\* A numbered statement that passes from each number to the next one holds for all.
LEMMA PackingOf ==
  ASSUME NEW args, NEW b \in Nat
  PROVE  \E f : f = [n \in 0 .. b |-> IF n = 0 THEN <<>> ELSE Pack(f[n - 1], Dependency(args[n]))]
<1> DEFINE step(l, n) == Pack(l, Dependency(args[n]))
           Is(f, i) == f = [n \in 0 .. i |-> IF n = 0 THEN <<>> ELSE step(f[n - 1], n)]
           Not == {i \in Nat : ~ \E f : Is(f, i)}
<1> HIDE DEF step
<1>1. \E f : Is(f, 0)
  <2>1. Is([n \in 0 .. 0 |-> <<>>], 0)
    OBVIOUS
  <2> QED
    BY <2>1
<1>2. ASSUME NEW i \in Nat, \E f : Is(f, i) PROVE \E f : Is(f, i + 1)
  <2>1. PICK f : Is(f, i)
    BY <1>2
  <2> DEFINE g == [n \in 0 .. i + 1 |-> IF n = 0 THEN <<>> ELSE step(f[n - 1], n)]
  <2>2. ASSUME NEW n \in 0 .. i PROVE g[n] = f[n]
    BY <2>1
  <2>3. \A n \in 0 .. i + 1 : g[n] = IF n = 0 THEN <<>> ELSE step(f[n - 1], n)
    OBVIOUS
  <2>4. g = [n \in 0 .. i + 1 |-> g[n]]
    OBVIOUS
  <2> HIDE DEF g
  <2>5. \A n \in 0 .. i + 1 : g[n] = IF n = 0 THEN <<>> ELSE step(g[n - 1], n)
    BY <2>2, <2>3
  <2>6. Is(g, i + 1)
    BY <2>4, <2>5
  <2> QED
    BY <2>6
<1>3. Not = {}
  <2> SUFFICES ASSUME Not # {} PROVE FALSE
    OBVIOUS
  <2>1. Not \in SUBSET Nat
    OBVIOUS
  <2> HIDE DEF Is
  <2>2. PICK i \in Not : \A o \in Not : i =< o
    <3> HIDE DEF Not
    <3> QED
      BY <2>1, LeastNumber
  <2>3. i # 0
    BY <1>1
  <2>4. i - 1 \in Nat /\ i - 1 \notin Not
    BY <2>2, <2>3
  <2>5. \E f : Is(f, i - 1 + 1)
    BY <1>2, <2>4
  <2> QED
    BY <2>2, <2>5
<1>4. \E f : Is(f, b)
  BY <1>3
<1> QED
  BY <1>4 DEF step

\* Packing puts one dependency for each argument into the list of a task.
LEMMA PackedIs ==
  ASSUME NEW args \in Seq(Argument)
  PROVE  /\ Packed(args) \in Seq(Dependencies) /\ Len(Packed(args)) = Len(args)
         /\ \A y : In(y, Packed(args)) <=> \E k \in 1 .. Len(args) : y = Dependency(args[k])
<1> DEFINE Is(f) == f = [n \in 0 .. Len(args) |->
                           IF n = 0 THEN <<>> ELSE Pack(f[n - 1], Dependency(args[n]))]
           packed == CHOOSE f : Is(f)
<1>1. Len(args) \in Nat /\ \A k \in 1 .. Len(args) : args[k] \in Argument
  BY LenProperties
<1>2. \E f : Is(f)
  BY <1>1, PackingOf
<1>3. Is(packed)
  <2> HIDE DEF Is
  <2> QED
    BY <1>2
<1>4. Packed(args) = packed[Len(args)]
  BY Zenon DEF Packed
<1> HIDE DEF packed
<1>5. packed[0] = <<>> /\ \A n \in 1 .. Len(args) : packed[n] = Pack(packed[n - 1], Dependency(args[n]))
  BY <1>3, <1>1
<1> DEFINE Good(n) == /\ packed[n] \in Seq(Dependencies) /\ Len(packed[n]) = n
                      /\ \A y : In(y, packed[n]) <=> \E k \in 1 .. n : y = Dependency(args[k])
           Bad == {n \in 0 .. Len(args) : ~Good(n)}
<1>6. Good(0)
  <2>1. packed[0] \in Seq(Dependencies) /\ Len(packed[0]) = 0 /\ DOMAIN packed[0] = {}
    BY <1>5
  <2>2. \A y : ~In(y, packed[0])
    BY <2>1 DEF In
  <2>3. \A k : k \notin 1 .. 0
    OBVIOUS
  <2> QED
    BY <2>1, <2>2, <2>3
<1>7. ASSUME NEW n \in 1 .. Len(args), Good(n - 1) PROVE Good(n)
  <2>0. Dependency(args[n]) \in Dependencies
    BY <1>1, DependencyIn
  <2>1. /\ packed[n] \in Seq(Dependencies) /\ Len(packed[n]) = Len(packed[n - 1]) + 1
        /\ \A y : In(y, packed[n]) <=> In(y, packed[n - 1]) \/ y = Dependency(args[n])
    <3>1. packed[n - 1] \in Seq(Dependencies) /\ packed[n] = Pack(packed[n - 1], Dependency(args[n]))
      BY <1>5, <1>7
    <3> HIDE DEF Is, Good, Bad
    <3> QED
      <4>1. PICK l \in Seq(Dependencies) : l = packed[n - 1]
        BY <3>1
      <4>2. PICK x \in Dependencies : x = Dependency(args[n])
        BY <2>0
      <4>3. /\ Pack(l, x) \in Seq(Dependencies) /\ Len(Pack(l, x)) = Len(l) + 1
            /\ \A y : In(y, Pack(l, x)) <=> In(y, l) \/ y = x
        BY PackIs
      <4>4. packed[n] = Pack(l, x)
        BY <3>1, <4>1, <4>2
      <4> QED
        BY <4>1, <4>2, <4>3, <4>4
  <2>2. n \in 1 .. n /\ \A k : k \in 1 .. n <=> k \in 1 .. n - 1 \/ k = n
    BY <1>1
  <2>3. \A y : In(y, packed[n]) <=> \E k \in 1 .. n : y = Dependency(args[k])
    BY <1>7, <2>1, <2>2, Zenon
  <2>4. Len(packed[n]) = n
    BY <1>1, <1>7, <2>1
  <2> QED
    BY <2>1, <2>3, <2>4
<1>8. Bad = {}
  <2> SUFFICES ASSUME Bad # {} PROVE FALSE
    OBVIOUS
  <2>1. Bad \in SUBSET Nat
    BY <1>1
  <2> HIDE DEF Good
  <2>2. PICK n \in Bad : \A o \in Bad : n =< o
    <3> HIDE DEF Bad
    <3> QED
      BY <2>1, LeastNumber
  <2>3. n # 0
    BY <1>6
  <2>4. n \in 1 .. Len(args) /\ n - 1 \in 0 .. Len(args) /\ n - 1 \notin Bad
    BY <1>1, <2>2, <2>3
  <2> QED
    BY <1>7, <2>2, <2>4
<1>9. Good(Len(args))
  <2> HIDE DEF Good
  <2> QED
    BY <1>8, <1>1
<1> QED
  BY <1>4, <1>9
-----------------------------------------------------------------------------
\* The thread a task is queued for.
LEMMA PlaceIn ==
  ASSUME prog \in Programs, NEW s \in Nodes, NEW S \in SUBSET Tasks, NEW t \in Tasks
  PROVE  Place(s, S, t) \in Threads
<1>1. Home(s, t) \in Threads \cup {Nobody}
  BY ProgramTypes DEF Home, Nodes
<1>2. {u \in S : u < t /\ Home(s, u) = Nobody} \in SUBSET Tasks
  OBVIOUS
<1>3. Cardinality({u \in S : u < t /\ Home(s, u) = Nobody}) \in Nat
  BY <1>2, TasksFinite
<1>4. s.robin \in Int
  BY DEF Nodes, Threads
<1>5. s.robin + Cardinality({u \in S : u < t /\ Home(s, u) = Nobody}) \in Int
  BY <1>3, <1>4
<1>6. (s.robin + Cardinality({u \in S : u < t /\ Home(s, u) = Nobody})) % N \in Threads
  BY <1>5, ModThreads
<1> QED
  BY <1>1, <1>6 DEF Place

\* A sleeper that is given a task is signalled.
LEMMA SignalledIs ==
  ASSUME NEW w \in Threads
  PROVE  /\ Signalled(w) \in SUBSET Threads
         /\ w \in sleeping => w \in Signalled(w)
<1> DEFINE near == {i \in 0 .. N - 1 : (w + i) % N \in sleeping}
<1>1. near \in SUBSET Nat
  BY ThreadsAssumption
<1>2. Signalled(w) = IF near = {} THEN {} ELSE {(w + Min(near)) % N}
  BY DEF Signalled
<1>3. w \in Int /\ w \in 0 .. N - 1 /\ (w + 0) % N = w
  BY ThreadsAssumption DEF Threads
<1>4. ASSUME near # {} PROVE Min(near) \in Nat /\ \A y \in near : Min(near) =< y
  <2> HIDE DEF near
  <2> QED
    BY <1>1, <1>4, MinIn
<1>5. Signalled(w) \in SUBSET Threads
  <2>1. ASSUME near # {} PROVE (w + Min(near)) % N \in Threads
    <3>1. Min(near) \in Int
      BY <1>4, <2>1
    <3> QED
      BY <1>3, <3>1, ModThreads
  <2> QED
    BY <1>2, <2>1
<1>6. ASSUME w \in sleeping PROVE w \in Signalled(w)
  <2>1. 0 \in near
    BY <1>3, <1>6, ThreadsAssumption
  <2>2. Min(near) = 0
    BY <2>1, <1>4
  <2> QED
    BY <1>2, <1>3, <2>1, <2>2
<1> QED
  BY <1>5, <1>6

\* What quark_check_and_queue_ready_task does to a state of q when the tasks of S, none
\* of which is in a ready list, are queued.
LEMMA QueueIs ==
  ASSUME prog \in Programs, NEW s \in Nodes, NEW S \in SUBSET Tasks,
         \A r \in Threads : Once(s.ready[r]) /\ \A t \in S : ~In(t, s.ready[r])
  PROVE  /\ Queue(s, S) \in Nodes
         /\ \A t \in Tasks : Queue(s, S).status[t] = IF t \in S THEN "QUEUED" ELSE s.status[t]
         /\ Queue(s, S).live = s.live /\ Queue(s, S).ndep = s.ndep /\ Queue(s, S).dep = s.dep
         /\ Queue(s, S).list = s.list /\ Queue(s, S).last = s.last
         /\ Queue(s, S).queued = s.queued + Cardinality(S)
         /\ \A r \in Threads :
              /\ Once(Queue(s, S).ready[r])
              /\ \A t : In(t, Queue(s, S).ready[r]) <=>
                          In(t, s.ready[r]) \/ (t \in S /\ Place(s, S, t) = r)
         /\ s.woken \subseteq Queue(s, S).woken
         /\ \A t \in S : Place(s, S, t) \in sleeping => Place(s, S, t) \in Queue(s, S).woken
<1> DEFINE status == [t \in Tasks |-> IF t \in S THEN "QUEUED" ELSE s.status[t]]
           robin  == (s.robin + Cardinality({t \in S : Home(s, t) = Nobody})) % N
           arrive(w) == {t \in S : Place(s, S, t) = w}
           ready  == [w \in Threads |-> ByPriority(s.ready[w], arrive(w))]
           queued == s.queued + Cardinality(S)
           woken  == s.woken \cup UNION {Signalled(Place(s, S, t)) : t \in S}
<1>1. Queue(s, S) = [s EXCEPT !.status = status, !.robin = robin, !.ready = ready,
                              !.queued = queued, !.woken = woken]
  BY DEF Queue
<1>2. status \in [Tasks -> Statuses]
  BY DEF Nodes, Statuses
<1>3. robin \in Threads
  <2>1. {t \in S : Home(s, t) = Nobody} \in SUBSET Tasks
    OBVIOUS
  <2>2. Cardinality({t \in S : Home(s, t) = Nobody}) \in Nat
    BY <2>1, TasksFinite
  <2>3. s.robin \in Int
    BY DEF Nodes, Threads
  <2>4. s.robin + Cardinality({t \in S : Home(s, t) = Nobody}) \in Int
    BY <2>2, <2>3
  <2> QED
    BY <2>4, ModThreads
<1>4. ASSUME NEW r \in Threads
      PROVE  /\ ready[r] \in Seq(Tasks) /\ Once(ready[r])
             /\ \A t : In(t, ready[r]) <=> In(t, s.ready[r]) \/ (t \in S /\ Place(s, S, t) = r)
  <2>1. s.ready[r] \in Seq(Tasks) /\ Once(s.ready[r])
    BY DEF Nodes
  <2>2. arrive(r) \in SUBSET Tasks /\ \A t \in arrive(r) : ~In(t, s.ready[r])
    OBVIOUS
  <2>3. \A t : t \in arrive(r) <=> t \in S /\ Place(s, S, t) = r
    OBVIOUS
  <2>4. ready[r] = ByPriority(s.ready[r], arrive(r))
    OBVIOUS
  <2> HIDE DEF arrive, ready
  <2> QED
    BY <2>1, <2>2, <2>3, <2>4, ByPriorityIs
<1>5. ready \in [Threads -> Seq(Tasks)]
  BY <1>4
<1>6. queued \in Int
  BY TasksFinite DEF Nodes
<1>7. woken \in SUBSET Threads /\ s.woken \subseteq woken
      /\ \A t \in S : Place(s, S, t) \in sleeping => Place(s, S, t) \in woken
  <2>1. \A t \in S : Place(s, S, t) \in Threads
    BY PlaceIn
  <2>2. \A t \in S : /\ Signalled(Place(s, S, t)) \in SUBSET Threads
                     /\ Place(s, S, t) \in sleeping => Place(s, S, t) \in Signalled(Place(s, S, t))
    BY <2>1, SignalledIs
  <2>3. s.woken \in SUBSET Threads
    BY DEF Nodes
  <2> QED
    BY <2>2, <2>3
<1>8. \A t \in Tasks : status[t] = IF t \in S THEN "QUEUED" ELSE s.status[t]
  OBVIOUS
<1> HIDE DEF status, robin, ready, queued, woken
<1>9. /\ Queue(s, S) \in Nodes
      /\ Queue(s, S).status = status /\ Queue(s, S).ready = ready
      /\ Queue(s, S).queued = queued /\ Queue(s, S).woken = woken
      /\ Queue(s, S).live = s.live /\ Queue(s, S).ndep = s.ndep /\ Queue(s, S).dep = s.dep
      /\ Queue(s, S).list = s.list /\ Queue(s, S).last = s.last
  BY <1>1, <1>2, <1>3, <1>5, <1>6, <1>7 DEF Nodes
<1> QED
  BY <1>4, <1>7, <1>8, <1>9 DEF queued
-----------------------------------------------------------------------------
\* Which fields of q two states share.
SameRest(s, u) == /\ u.status = s.status /\ u.live = s.live
                  /\ u.ready = s.ready /\ u.robin = s.robin
                  /\ u.queued = s.queued /\ u.woken = s.woken

\* Two states of a dependency that differ in ready at most.
SameBut(d, e) == /\ e.addr = d.addr /\ e.write = d.write /\ e.region = d.region
                 /\ e.gather = d.gather /\ e.dropped = d.dropped

\* The dependencies of a task.
LEMMA DepAt ==
  ASSUME NEW s, Shaped(s), NEW t \in Tasks
  PROVE  /\ s.dep[t] \in Seq(Dependencies) /\ DOMAIN s.dep[t] = Arguments(t)
         /\ \A i \in Arguments(t) : s.dep[t][i] \in Dependencies
BY DEF Shaped, Nodes

\* Ready(s, D) marks the dependencies of D and counts one less for each of their tasks.
LEMMA ReadyIs ==
  ASSUME prog \in Programs, NEW s, Shaped(s), NEW D
  PROVE  /\ Shaped(Ready(s, D)) /\ SameRest(s, Ready(s, D))
         /\ Ready(s, D).list = s.list /\ Ready(s, D).last = s.last
         /\ \A t \in Tasks : Ready(s, D).ndep[t] =
              IF \E d \in D : d[1] = t THEN s.ndep[t] - 1 ELSE s.ndep[t]
         /\ \A t \in Tasks : \A i \in Arguments(t) :
              /\ SameBut(s.dep[t][i], Ready(s, D).dep[t][i])
              /\ Ready(s, D).dep[t][i].ready <=> s.dep[t][i].ready \/ <<t, i>> \in D
<1> DEFINE dep == [t \in Tasks |-> [i \in DOMAIN s.dep[t] |->
                     IF <<t, i>> \in D THEN [s.dep[t][i] EXCEPT !.ready = TRUE] ELSE s.dep[t][i]]]
           ndep == [t \in Tasks |-> IF \E d \in D : d[1] = t THEN s.ndep[t] - 1 ELSE s.ndep[t]]
<1>1. Ready(s, D) = [s EXCEPT !.dep = dep, !.ndep = ndep]
  BY DEF Ready
<1>2. ndep \in [Tasks -> Int]
  BY DEF Shaped, Nodes
<1>3. ASSUME NEW t \in Tasks, NEW i \in Arguments(t)
      PROVE  /\ dep[t][i] \in Dependencies
             /\ SameBut(s.dep[t][i], dep[t][i])
             /\ dep[t][i].ready <=> s.dep[t][i].ready \/ <<t, i>> \in D
  <2>1. s.dep[t][i] \in Dependencies /\ i \in DOMAIN s.dep[t]
    BY DepAt
  <2>2. dep[t][i] = IF <<t, i>> \in D THEN [s.dep[t][i] EXCEPT !.ready = TRUE] ELSE s.dep[t][i]
    BY <2>1
  <2>3. PICK d \in Dependencies : d = s.dep[t][i]
    BY <2>1
  <2>4. dep[t][i] = IF <<t, i>> \in D THEN [d EXCEPT !.ready = TRUE] ELSE d
    BY <2>2, <2>3
  <2> HIDE DEF dep
  <2> QED
    BY <2>3, <2>4 DEF SameBut, Dependencies
<1>4. ASSUME NEW t \in Tasks PROVE dep[t] \in [Arguments(t) -> Dependencies] /\ dep[t] \in Seq(Dependencies)
  <2>1. dep[t] = [i \in Arguments(t) |-> dep[t][i]]
    BY DepAt
  <2>2. dep[t] \in [Arguments(t) -> Dependencies]
    <3> HIDE DEF dep
    <3> QED
      BY <2>1, <1>3
  <2>3. Arguments(t) = 1 .. Len(prog.args[t]) /\ Len(prog.args[t]) \in Nat
    BY ProgramTypes DEF Arguments
  <2> HIDE DEF dep
  <2> QED
    BY <2>2, <2>3, SeqDef
<1>5. dep \in [Tasks -> Seq(Dependencies)]
  BY <1>4
<1>6. \A t \in Tasks : ndep[t] = IF \E d \in D : d[1] = t THEN s.ndep[t] - 1 ELSE s.ndep[t]
  OBVIOUS
<1> HIDE DEF dep, ndep
<1>7. /\ Ready(s, D) \in Nodes /\ Ready(s, D).dep = dep /\ Ready(s, D).ndep = ndep
      /\ Ready(s, D).list = s.list /\ Ready(s, D).last = s.last
      /\ SameRest(s, Ready(s, D))
  BY <1>1, <1>2, <1>5 DEF Shaped, Nodes, SameRest
<1> QED
  BY <1>3, <1>4, <1>6, <1>7 DEF Shaped

\* What Departed does.
LEMMA DepartedIs ==
  ASSUME prog \in Programs, NEW s, Shaped(s), NEW t \in Tasks, NEW i \in Arguments(t),
         s.dep[t][i].addr \in prog.addrs, NEW by \in Threads \cup {Nobody},
         NEW u, u = Departed(s, t, i, by)
  PROVE  /\ Shaped(u) /\ SameRest(s, u) /\ u.dep = s.dep /\ u.ndep = s.ndep
         /\ \A a \in prog.addrs : \A e : e \in u.list[a] <=>
              e \in s.list[a] /\ ~(a = s.dep[t][i].addr /\ e = <<t, i>>)
<1>1. PICK d \in Dependencies : d = s.dep[t][i]
  BY DepAt
<1> DEFINE last == [s.last EXCEPT ![d.addr] = IF d.write THEN by ELSE @]
           list == [s.list EXCEPT ![d.addr] = @ \ {<<t, i>>}]
<1>2. u = [s EXCEPT !.last = last, !.list = list]
  BY <1>1 DEF Departed, Shaped, Nodes
<1>3. last \in [prog.addrs -> Threads \cup {Nobody}] /\ list \in [prog.addrs -> SUBSET (Nat \X Nat)]
  BY DEF Shaped, Nodes
<1>4. \A a \in prog.addrs : \A e : e \in list[a] <=> e \in s.list[a] /\ ~(a = d.addr /\ e = <<t, i>>)
  BY DEF Shaped, Nodes
<1> HIDE DEF last, list
<1>5. u \in Nodes /\ SameRest(s, u) /\ u.dep = s.dep /\ u.ndep = s.ndep /\ u.list = list
  BY <1>2, <1>3 DEF Shaped, Nodes, SameRest
<1> QED
  BY <1>1, <1>4, <1>5 DEF Shaped
-----------------------------------------------------------------------------
\* What Merge does: the argument at i takes the place of the one at j.
LEMMA MergeIs ==
  ASSUME prog \in Programs, NEW s, Shaped(s), NEW t \in Tasks,
         NEW i \in Arguments(t), NEW j \in Arguments(t), j # i,
         s.dep[t][i].addr \in prog.addrs
  PROVE  LET u == Merge(s, t, i, j)
             d == s.dep[t][i]
             e == s.dep[t][j]
         IN  /\ Shaped(u) /\ SameRest(s, u) /\ u.last = s.last
             /\ \A r \in Tasks : u.ndep[r] = IF r = t /\ ~e.ready THEN s.ndep[r] - 1 ELSE s.ndep[r]
             /\ \A a \in prog.addrs : \A x : x \in u.list[a] <=>
                  x \in s.list[a] /\ ~(a = d.addr /\ x = <<t, j>>)
             /\ LET x == u.dep[t][i]
                IN  /\ x.addr = d.addr /\ (x.write <=> d.write \/ e.write)
                    /\ x.region = d.region \cup e.region /\ (x.gather <=> d.gather)
                    /\ (x.ready <=> d.ready) /\ (x.dropped <=> d.dropped)
             /\ LET y == u.dep[t][j]
                IN  /\ y.addr = e.addr /\ (y.write <=> e.write) /\ y.region = e.region
                    /\ (y.gather <=> e.gather) /\ y.ready /\ y.dropped
             /\ \A r \in Tasks : \A k \in Arguments(r) :
                  r # t \/ k \notin {i, j} => u.dep[r][k] = s.dep[r][k]
<1>1. PICK d \in Dependencies : d = s.dep[t][i]
  BY DepAt
<1>2. PICK e \in Dependencies : e = s.dep[t][j]
  BY DepAt
<1> DEFINE x == [d EXCEPT !.write = d.write \/ e.write, !.region = d.region \cup e.region]
           y == [e EXCEPT !.ready = TRUE, !.dropped = TRUE]
           dep == [s.dep EXCEPT ![t] = [s.dep[t] EXCEPT ![i] = x, ![j] = y]]
           ndep == [s.ndep EXCEPT ![t] = IF e.ready THEN @ ELSE @ - 1]
           list == [s.list EXCEPT ![d.addr] = @ \ {<<t, j>>}]
<1>3. x \in Dependencies /\ y \in Dependencies
  BY DEF Dependencies
<1>4. Merge(s, t, i, j) = [s EXCEPT !.dep = dep, !.ndep = ndep, !.list = list]
  BY <1>1, <1>2, DepAt DEF Merge, Shaped, Nodes, Dependencies
<1> HIDE DEF x, y
<1>5. /\ ndep \in [Tasks -> Int] /\ list \in [prog.addrs -> SUBSET (Nat \X Nat)]
      /\ \A r \in Tasks : ndep[r] = IF r = t /\ ~e.ready THEN s.ndep[r] - 1 ELSE s.ndep[r]
      /\ \A a \in prog.addrs : \A z : z \in list[a] <=> z \in s.list[a] /\ ~(a = d.addr /\ z = <<t, j>>)
  <2>1. /\ s.ndep \in [Tasks -> Int] /\ s.list \in [prog.addrs -> SUBSET (Nat \X Nat)]
        /\ d.addr \in prog.addrs
    BY <1>1 DEF Shaped, Nodes
  <2>2. ndep \in [Tasks -> Int]
        /\ \A r \in Tasks : ndep[r] = IF r = t /\ ~e.ready THEN s.ndep[r] - 1 ELSE s.ndep[r]
    BY <2>1
  <2>3. s.list[d.addr] \ {<<t, j>>} \in SUBSET (Nat \X Nat)
    BY <2>1
  <2>4. list \in [prog.addrs -> SUBSET (Nat \X Nat)]
    BY <2>1, <2>3
  <2>5. \A a \in prog.addrs : \A z : z \in list[a] <=> z \in s.list[a] /\ ~(a = d.addr /\ z = <<t, j>>)
    BY <2>1
  <2> QED
    BY <2>2, <2>4, <2>5
<1> HIDE DEF ndep, list
<1>6. /\ DOMAIN dep = Tasks
      /\ \A r \in Tasks : /\ DOMAIN dep[r] = Arguments(r)
                          /\ dep[r] \in [Arguments(r) -> Dependencies]
                          /\ dep[r] \in Seq(Dependencies)
      /\ dep[t][i] = x /\ dep[t][j] = y
      /\ \A r \in Tasks : \A k \in Arguments(r) : r # t \/ k \notin {i, j} => dep[r][k] = s.dep[r][k]
  <2>1. s.dep \in [Tasks -> Seq(Dependencies)] /\ s.dep[t] \in [Arguments(t) -> Dependencies]
        /\ \A r \in Tasks : s.dep[r] \in [Arguments(r) -> Dependencies]
    BY DEF Shaped, Nodes
  <2> DEFINE l == [s.dep[t] EXCEPT ![i] = x, ![j] = y]
  <2>2. l \in [Arguments(t) -> Dependencies] /\ l[i] = x /\ l[j] = y
        /\ \A k \in Arguments(t) : k \notin {i, j} => l[k] = s.dep[t][k]
    BY <2>1, <1>3
  <2>3. \A r \in Tasks : Arguments(r) = 1 .. Len(prog.args[r]) /\ Len(prog.args[r]) \in Nat
    BY ProgramTypes DEF Arguments
  <2>4. dep = [s.dep EXCEPT ![t] = l]
    OBVIOUS
  <2> HIDE DEF l, dep
  <2>5. DOMAIN dep = Tasks /\ dep[t] = l /\ \A r \in Tasks : r # t => dep[r] = s.dep[r]
    BY <2>1, <2>4
  <2>6. \A r \in Tasks : dep[r] \in [Arguments(r) -> Dependencies]
    BY <2>1, <2>2, <2>5
  <2>7. ASSUME NEW r \in Tasks PROVE dep[r] \in Seq(Dependencies)
    BY <2>3, <2>6, SeqDef
  <2> QED
    BY <2>2, <2>5, <2>6, <2>7
<1>7. dep \in [Tasks -> Seq(Dependencies)]
  <2>1. dep = [r \in Tasks |-> dep[r]]
    BY DEF Shaped, Nodes
  <2> HIDE DEF dep
  <2> QED
    BY <1>6, <2>1
<1> HIDE DEF dep
<1>8. LET u == Merge(s, t, i, j)
      IN  /\ u \in Nodes /\ SameRest(s, u) /\ u.last = s.last
          /\ u.dep = dep /\ u.ndep = ndep /\ u.list = list
  BY <1>4, <1>5, <1>7 DEF Shaped, Nodes, SameRest
<1>9. /\ x.addr = d.addr /\ (x.write <=> d.write \/ e.write)
      /\ x.region = d.region \cup e.region /\ (x.gather <=> d.gather)
      /\ (x.ready <=> d.ready) /\ (x.dropped <=> d.dropped)
      /\ y.addr = e.addr /\ (y.write <=> e.write) /\ y.region = e.region
      /\ (y.gather <=> e.gather) /\ y.ready /\ y.dropped
  BY DEF x, y, Dependencies
<1>10. PICK u : u = Merge(s, t, i, j)
  OBVIOUS
<1>11. /\ u \in Nodes /\ SameRest(s, u) /\ u.last = s.last
       /\ u.dep = dep /\ u.ndep = ndep /\ u.list = list
  BY <1>8, <1>10
<1>12. Shaped(u)
  BY <1>6, <1>11 DEF Shaped
<1>13. /\ \A r \in Tasks : u.ndep[r] = IF r = t /\ ~s.dep[t][j].ready THEN s.ndep[r] - 1 ELSE s.ndep[r]
       /\ \A a \in prog.addrs : \A z : z \in u.list[a] <=>
            z \in s.list[a] /\ ~(a = s.dep[t][i].addr /\ z = <<t, j>>)
  BY <1>1, <1>2, <1>5, <1>11
<1>14. u.dep[t][i] = x /\ u.dep[t][j] = y
  BY <1>6, <1>11
<1>15. \A r \in Tasks : \A k \in Arguments(r) : r # t \/ k \notin {i, j} => u.dep[r][k] = s.dep[r][k]
  BY <1>6, <1>11
<1> QED
  BY ONLY <1>1, <1>2, <1>9, <1>10, <1>11, <1>12, <1>13, <1>14, <1>15

\* What Join does.
LEMMA JoinIs ==
  ASSUME prog \in Programs, NEW s, Shaped(s), NEW t \in Tasks,
         NEW i \in Arguments(t), s.dep[t][i].addr \in prog.addrs
  PROVE  LET u == Join(s, t, i)
             d == s.dep[t][i]
             alone == s.list[d.addr] = {}
         IN  /\ Shaped(u) /\ SameRest(s, u) /\ u.last = s.last
             /\ \A r \in Tasks : u.ndep[r] = IF r = t /\ alone THEN s.ndep[r] - 1 ELSE s.ndep[r]
             /\ \A a \in prog.addrs : \A z : z \in u.list[a] <=>
                  z \in s.list[a] \/ (a = d.addr /\ z = <<t, i>>)
             /\ SameBut(d, u.dep[t][i])
             /\ u.dep[t][i].ready <=> d.ready \/ alone
             /\ \A r \in Tasks : \A k \in Arguments(r) :
                  r # t \/ k # i => u.dep[r][k] = s.dep[r][k]
<1>1. PICK d \in Dependencies : d = s.dep[t][i]
  BY DepAt
<1>2. PICK alone \in BOOLEAN : alone <=> s.list[d.addr] = {}
  OBVIOUS
<1> DEFINE x == [d EXCEPT !.ready = TRUE]
           dep == [s.dep EXCEPT ![t] = [s.dep[t] EXCEPT ![i] = x]]
           ndep == [s.ndep EXCEPT ![t] = @ - 1]
           list == [s.list EXCEPT ![d.addr] = @ \cup {<<t, i>>}]
<1>3. x \in Dependencies /\ SameBut(d, x) /\ x.ready
  BY DEF Dependencies, SameBut
<1> HIDE DEF x
<1>4. Join(s, t, i) = IF ~alone THEN [s EXCEPT !.list = list]
                      ELSE [s EXCEPT !.dep = dep, !.ndep = ndep, !.list = list]
  BY <1>1, <1>2 DEF Join, Shaped, Nodes, x
<1>5. /\ ndep \in [Tasks -> Int] /\ list \in [prog.addrs -> SUBSET (Nat \X Nat)]
      /\ \A r \in Tasks : ndep[r] = IF r = t THEN s.ndep[r] - 1 ELSE s.ndep[r]
      /\ \A a \in prog.addrs : \A z : z \in list[a] <=> z \in s.list[a] \/ (a = d.addr /\ z = <<t, i>>)
  <2>1. /\ s.ndep \in [Tasks -> Int] /\ s.list \in [prog.addrs -> SUBSET (Nat \X Nat)]
        /\ d.addr \in prog.addrs
    BY <1>1 DEF Shaped, Nodes
  <2>2. ndep \in [Tasks -> Int]
        /\ \A r \in Tasks : ndep[r] = IF r = t THEN s.ndep[r] - 1 ELSE s.ndep[r]
    BY <2>1
  <2>3. t \in Nat /\ i \in Nat
    BY TasksFinite DEF Arguments
  <2>4. s.list[d.addr] \cup {<<t, i>>} \in SUBSET (Nat \X Nat)
    BY <2>1, <2>3
  <2>5. list \in [prog.addrs -> SUBSET (Nat \X Nat)]
    BY <2>1, <2>4
  <2>6. \A a \in prog.addrs : \A z : z \in list[a] <=> z \in s.list[a] \/ (a = d.addr /\ z = <<t, i>>)
    BY <2>1
  <2> QED
    BY <2>2, <2>5, <2>6
<1> HIDE DEF ndep, list
<1>6. /\ DOMAIN dep = Tasks
      /\ \A r \in Tasks : /\ DOMAIN dep[r] = Arguments(r)
                          /\ dep[r] \in [Arguments(r) -> Dependencies]
                          /\ dep[r] \in Seq(Dependencies)
      /\ dep[t][i] = x
      /\ \A r \in Tasks : \A k \in Arguments(r) : r # t \/ k # i => dep[r][k] = s.dep[r][k]
  <2>1. s.dep \in [Tasks -> Seq(Dependencies)] /\ s.dep[t] \in [Arguments(t) -> Dependencies]
        /\ \A r \in Tasks : s.dep[r] \in [Arguments(r) -> Dependencies]
    BY DEF Shaped, Nodes
  <2> DEFINE l == [s.dep[t] EXCEPT ![i] = x]
  <2>2. l \in [Arguments(t) -> Dependencies] /\ l[i] = x
        /\ \A k \in Arguments(t) : k # i => l[k] = s.dep[t][k]
    BY <2>1, <1>3
  <2>3. \A r \in Tasks : Arguments(r) = 1 .. Len(prog.args[r]) /\ Len(prog.args[r]) \in Nat
    BY ProgramTypes DEF Arguments
  <2>4. dep = [s.dep EXCEPT ![t] = l]
    OBVIOUS
  <2> HIDE DEF l, dep
  <2>5. DOMAIN dep = Tasks /\ dep[t] = l /\ \A r \in Tasks : r # t => dep[r] = s.dep[r]
    BY <2>1, <2>4
  <2>6. \A r \in Tasks : dep[r] \in [Arguments(r) -> Dependencies]
    BY <2>1, <2>2, <2>5
  <2>7. ASSUME NEW r \in Tasks PROVE dep[r] \in Seq(Dependencies)
    BY <2>3, <2>6, SeqDef
  <2> QED
    BY <2>2, <2>5, <2>6, <2>7
<1>7. dep \in [Tasks -> Seq(Dependencies)]
  <2>1. dep = [r \in Tasks |-> dep[r]]
    BY DEF Shaped, Nodes
  <2> HIDE DEF dep
  <2> QED
    BY <1>6, <2>1
<1> HIDE DEF dep
<1>8. CASE alone
  <2>1. LET u == Join(s, t, i)
        IN  /\ u \in Nodes /\ SameRest(s, u) /\ u.last = s.last
            /\ u.dep = dep /\ u.ndep = ndep /\ u.list = list
    <3>1. ndep \in [Tasks -> Int] /\ list \in [prog.addrs -> SUBSET (Nat \X Nat)]
      BY <1>5
    <3> QED
      BY <1>4, <1>7, <1>8, <3>1 DEF Shaped, Nodes, SameRest
  <2> QED
    BY <1>1, <1>2, <1>3, <1>5, <1>6, <1>8, <2>1 DEF Shaped
<1>9. CASE ~alone
  <2>1. LET u == Join(s, t, i)
        IN  /\ u \in Nodes /\ SameRest(s, u) /\ u.last = s.last
            /\ u.dep = s.dep /\ u.ndep = s.ndep /\ u.list = list
    <3>1. ndep \in [Tasks -> Int] /\ list \in [prog.addrs -> SUBSET (Nat \X Nat)]
      BY <1>5
    <3> QED
      BY <1>4, <1>9, <3>1 DEF Shaped, Nodes, SameRest
  <2> QED
    BY <1>1, <1>2, <1>5, <1>9, <2>1 DEF Shaped, SameBut
<1> QED
  BY <1>8, <1>9
-----------------------------------------------------------------------------
SameDeps   == q'.ndep = q.ndep /\ q'.dep = q.dep /\ q'.list = q.list /\ q'.last = q.last
SamePlaces == q'.ready = q.ready /\ q'.queued = q.queued
SameStatus == q'.status = q.status /\ q'.live = q.live

\* What the steps that change one field of q do.
LEMMA StatusIs ==
  ASSUME Shaped(q), NEW t \in Tasks, NEW x \in Statuses, q' = [q EXCEPT !.status[t] = x]
  PROVE  /\ Shaped(q') /\ SameDeps /\ SamePlaces /\ q'.live = q.live /\ q'.woken = q.woken
         /\ \A u \in Tasks : q'.status[u] = IF u = t THEN x ELSE q.status[u]
<1> DEFINE status == [q.status EXCEPT ![t] = x]
<1>1. status \in [Tasks -> Statuses] /\ \A u \in Tasks : status[u] = IF u = t THEN x ELSE q.status[u]
  BY DEF Shaped, Nodes
<1>2. q' = [q EXCEPT !.status = status]
  BY DEF Shaped, Nodes
<1> HIDE DEF status
<1>3. /\ q' \in Nodes /\ q'.status = status /\ SameDeps /\ SamePlaces
      /\ q'.live = q.live /\ q'.woken = q.woken
  BY <1>1, <1>2 DEF Shaped, Nodes, SameDeps, SamePlaces
<1> QED
  BY <1>1, <1>3 DEF Shaped, SameDeps

\* What the cancellation of one task changes.
LEMMA LiveIs ==
  ASSUME Shaped(q), NEW t \in Tasks, q' = [q EXCEPT !.live[t] = FALSE]
  PROVE  /\ Shaped(q') /\ SameDeps /\ SamePlaces /\ q'.status = q.status /\ q'.woken = q.woken
         /\ \A u \in Tasks : q'.live[u] <=> q.live[u] /\ u # t
<1> DEFINE live == [q.live EXCEPT ![t] = FALSE]
<1>1. live \in [Tasks -> BOOLEAN] /\ \A u \in Tasks : live[u] <=> q.live[u] /\ u # t
  BY DEF Shaped, Nodes
<1>2. q' = [q EXCEPT !.live = live]
  BY DEF Shaped, Nodes
<1> HIDE DEF live
<1>3. /\ q' \in Nodes /\ q'.live = live /\ SameDeps /\ SamePlaces
      /\ q'.status = q.status /\ q'.woken = q.woken
  BY <1>1, <1>2 DEF Shaped, Nodes, SameDeps, SamePlaces
<1> QED
  BY <1>1, <1>3 DEF Shaped, SameDeps

\* What replacing a ready list changes.
LEMMA ListIs ==
  ASSUME Shaped(q), NEW r \in Threads, NEW l \in Seq(Tasks), q' = [q EXCEPT !.ready[r] = l]
  PROVE  /\ Shaped(q') /\ SameDeps /\ SameStatus /\ q'.queued = q.queued /\ q'.woken = q.woken
         /\ \A s \in Threads : q'.ready[s] = IF s = r THEN l ELSE q.ready[s]
<1> DEFINE ready == [q.ready EXCEPT ![r] = l]
<1>1. ready \in [Threads -> Seq(Tasks)]
  BY DEF Shaped, Nodes
<1>1a. \A s \in Threads : ready[s] = IF s = r THEN l ELSE q.ready[s]
  BY DEF Shaped, Nodes
<1>2. q' = [q EXCEPT !.ready = ready]
  BY DEF Shaped, Nodes
<1> HIDE DEF ready
<1>3. /\ q' \in Nodes /\ q'.ready = ready /\ SameDeps /\ SameStatus
      /\ q'.queued = q.queued /\ q'.woken = q.woken
  BY <1>1, <1>2 DEF Shaped, Nodes, SameDeps, SameStatus
<1> QED
  BY <1>1a, <1>3 DEF Shaped, SameDeps

\* What a signal changes.
LEMMA WokenIs ==
  ASSUME Shaped(q), NEW W \in SUBSET Threads, q' = [q EXCEPT !.woken = W]
  PROVE  Shaped(q') /\ SameDeps /\ SameStatus /\ SamePlaces /\ q'.woken = W
BY DEF Shaped, Nodes, SameDeps, SameStatus, SamePlaces

\* What counting a task off changes.
LEMMA UncountIs ==
  ASSUME Shaped(q), q' = [q EXCEPT !.queued = @ - 1]
  PROVE  /\ Shaped(q') /\ SameDeps /\ SameStatus /\ q'.ready = q.ready /\ q'.woken = q.woken
         /\ q'.queued = q.queued - 1
<1>1. PICK n \in Int : n = q.queued - 1
  BY DEF Shaped, Nodes
<1>2. q' = [q EXCEPT !.queued = n]
  BY <1>1
<1>3. /\ q' \in Nodes /\ SameDeps /\ SameStatus /\ q'.ready = q.ready /\ q'.woken = q.woken
      /\ q'.queued = n
  BY <1>2 DEF Shaped, Nodes, SameDeps, SameStatus
<1> QED
  BY <1>1, <1>3 DEF Shaped, SameDeps

\* The next dependency of a completed task: those between are dropped.
LEMMA NextDepIs ==
  ASSUME prog \in Programs, Shaped(q), NEW t \in Tasks, NEW i \in Nat
  PROVE  \/ /\ NextDep(t, i) = 0
            /\ \A j \in Arguments(t) : j > i => q.dep[t][j].dropped
         \/ /\ NextDep(t, i) \in Arguments(t) /\ NextDep(t, i) > i
            /\ ~q.dep[t][NextDep(t, i)].dropped
            /\ \A j \in Arguments(t) : j > i /\ j < NextDep(t, i) => q.dep[t][j].dropped
<1> DEFINE rest == {j \in DOMAIN q.dep[t] : j > i /\ ~q.dep[t][j].dropped}
<1>1. DOMAIN q.dep[t] = Arguments(t) /\ Arguments(t) \in SUBSET Nat
  BY DepAt DEF Arguments
<1>2. NextDep(t, i) = IF rest = {} THEN 0 ELSE Min(rest)
  BY DEF NextDep
<1>3. rest \in SUBSET Nat
  BY <1>1
<1>4. CASE rest = {}
  BY <1>1, <1>2, <1>4
<1>5. CASE rest # {}
  <2>1. Min(rest) \in rest /\ \A y \in rest : Min(rest) =< y
    <3> HIDE DEF rest
    <3> QED
      BY <1>3, <1>5, MinIn
  <2>2. \A j \in Arguments(t) : j > i /\ j < Min(rest) => j \notin rest
    BY <1>1, <2>1
  <2> QED
    BY <1>1, <1>2, <1>5, <2>1, <2>2
<1> QED
  BY <1>4, <1>5

Due(s, D) == {t \in Tasks : (\E d \in D : d[1] = t) /\ Queueable(Ready(s, D), t)}

\* u is s with the dependencies of D ready and the tasks of S queued.
Releases(s, D, S, u) ==
  /\ Shaped(u)
  /\ \A t \in Tasks : u.status[t] = IF t \in S THEN "QUEUED" ELSE s.status[t]
  /\ u.live = s.live /\ u.list = s.list
  /\ \A t \in Tasks : u.ndep[t] = IF \E d \in D : d[1] = t THEN s.ndep[t] - 1 ELSE s.ndep[t]
  /\ \A t \in Tasks : \A i \in Arguments(t) :
       /\ SameBut(s.dep[t][i], u.dep[t][i])
       /\ u.dep[t][i].ready <=> s.dep[t][i].ready \/ <<t, i>> \in D
  /\ \A t \in S : /\ u.ndep[t] = 0 /\ \E d \in D : d[1] = t
                  /\ s.status[t] \notin {"QUEUED", "RUNNING", "DONE"}
  /\ u.queued = s.queued + Cardinality(S)
  /\ s.woken \subseteq u.woken
  /\ \E p \in [S -> Threads] :
       /\ \A r \in Threads :
            /\ Once(u.ready[r])
            /\ \A t : In(t, u.ready[r]) <=> In(t, s.ready[r]) \/ (t \in S /\ p[t] = r)
       /\ \A t \in S : p[t] \in sleeping => p[t] \in u.woken

\* Release makes the dependencies of D ready and queues the tasks that are due.
LEMMA ReleaseIs ==
  ASSUME prog \in Programs, NEW s, Shaped(s), NEW D,
         \A r \in Threads : Once(s.ready[r]) /\ \A d \in D : ~In(d[1], s.ready[r]),
         NEW u, u = Release(s, D), NEW S, S = Due(s, D)
  PROVE  Releases(s, D, S, u)
<1> DEFINE v == Ready(s, D)
           p == [t \in S |-> Place(v, S, t)]
<1>1. u = Queue(v, S)
  BY DEF Release, Due
<1>2. /\ Shaped(v) /\ SameRest(s, v) /\ v.list = s.list
      /\ \A t \in Tasks : v.ndep[t] = IF \E d \in D : d[1] = t THEN s.ndep[t] - 1 ELSE s.ndep[t]
      /\ \A t \in Tasks : \A i \in Arguments(t) :
           /\ SameBut(s.dep[t][i], v.dep[t][i])
           /\ v.dep[t][i].ready <=> s.dep[t][i].ready \/ <<t, i>> \in D
  BY ReadyIs
<1>3. /\ S \in SUBSET Tasks
      /\ \A t \in S : /\ v.ndep[t] = 0 /\ \E d \in D : d[1] = t
                      /\ s.status[t] \notin {"QUEUED", "RUNNING", "DONE"}
  BY <1>2 DEF Due, Queueable, SameRest
<1> HIDE DEF v
<1>4. v \in Nodes /\ \A r \in Threads : Once(v.ready[r]) /\ \A t \in S : ~In(t, v.ready[r])
  BY <1>2, <1>3 DEF SameRest, Shaped
<1>5. \A t \in S : Place(v, S, t) \in Threads
  BY <1>3, <1>4, PlaceIn
<1>6. p \in [S -> Threads] /\ \A t \in S : p[t] = Place(v, S, t)
  BY <1>5
<1>7. /\ u \in Nodes
      /\ \A t \in Tasks : u.status[t] = IF t \in S THEN "QUEUED" ELSE v.status[t]
      /\ u.live = v.live /\ u.ndep = v.ndep /\ u.dep = v.dep /\ u.list = v.list
      /\ u.queued = v.queued + Cardinality(S)
      /\ \A r \in Threads :
           /\ Once(u.ready[r])
           /\ \A t : In(t, u.ready[r]) <=> In(t, v.ready[r]) \/ (t \in S /\ Place(v, S, t) = r)
      /\ v.woken \subseteq u.woken
      /\ \A t \in S : Place(v, S, t) \in sleeping => Place(v, S, t) \in u.woken
  BY <1>1, <1>3, <1>4, QueueIs
<1>8. Shaped(u)
  BY <1>2, <1>7 DEF Shaped
<1>9. /\ \A t \in Tasks : u.status[t] = IF t \in S THEN "QUEUED" ELSE s.status[t]
      /\ u.live = s.live /\ u.list = s.list
      /\ u.queued = s.queued + Cardinality(S)
      /\ s.woken \subseteq u.woken
  BY <1>2, <1>7 DEF SameRest
<1>10. /\ \A r \in Threads :
            /\ Once(u.ready[r])
            /\ \A t : In(t, u.ready[r]) <=> In(t, s.ready[r]) \/ (t \in S /\ p[t] = r)
       /\ \A t \in S : p[t] \in sleeping => p[t] \in u.woken
  <2> HIDE DEF p
  <2> QED
    BY <1>2, <1>6, <1>7 DEF SameRest
<1>11. /\ \A t \in Tasks : u.ndep[t] = IF \E d \in D : d[1] = t THEN s.ndep[t] - 1 ELSE s.ndep[t]
       /\ \A t \in Tasks : \A i \in Arguments(t) :
            /\ SameBut(s.dep[t][i], u.dep[t][i])
            /\ u.dep[t][i].ready <=> s.dep[t][i].ready \/ <<t, i>> \in D
       /\ \A t \in S : /\ u.ndep[t] = 0 /\ \E d \in D : d[1] = t
                       /\ s.status[t] \notin {"QUEUED", "RUNNING", "DONE"}
  BY <1>2, <1>3, <1>7
<1> HIDE DEF p
<1> QED
  BY <1>6, <1>8, <1>9, <1>10, <1>11 DEF Releases
-----------------------------------------------------------------------------
\* What the tasks of S being queued does to q.
Queued(S) ==
  /\ S \in SUBSET Tasks
  /\ \A t \in S : q.status[t] = "NOTREADY" /\ q'.ndep[t] = 0
  /\ \A t \in Tasks : q'.status[t] = IF t \in S THEN "QUEUED" ELSE q.status[t]
  /\ q'.live = q.live
  /\ q'.queued = q.queued + Cardinality(S)
  /\ q.woken \subseteq q'.woken
  /\ \E p \in [S -> Threads] :
       /\ \A r \in Threads :
            /\ Once(q'.ready[r])
            /\ \A t : In(t, q'.ready[r]) <=> In(t, q.ready[r]) \/ (t \in S /\ p[t] = r)
       /\ \A t \in S : p[t] \in sleeping => p[t] \in q'.woken

\* What becomes ready when <<t, i>> leaves its address.
Updated(t, i, D) ==
  LET a == q.dep[t][i].addr IN
  /\ \A d \in D :
       /\ d \in q.list[a] /\ d # <<t, i>>
       /\ ~Of(q, d).ready
       /\ \/ \A e \in q.list[a] : e # <<t, i>> /\ e[1] =< d[1] =>
               Of(q, e).gather /\ Of(q, e).region = q.dep[t][i].region
          \/ \A e \in q.list[a] : e # <<t, i>> /\ e[1] < d[1] /\ Open(q, e) => ~Clash(Of(q, e), Of(q, d))
  /\ \A b \in prog.addrs : \A e : e \in q'.list[b] <=> e \in q.list[b] /\ ~(b = a /\ e = <<t, i>>)
  /\ \A u \in Tasks : q'.ndep[u] = IF \E d \in D : d[1] = u THEN q.ndep[u] - 1 ELSE q.ndep[u]
  /\ \A u \in Tasks : \A k \in Arguments(u) :
       /\ SameBut(q.dep[u][k], q'.dep[u][k])
       /\ q'.dep[u][k].ready <=> q.dep[u][k].ready \/ <<u, k>> \in D

\* A task with an unready dependency is not queued.
LEMMA UnreadyWaits ==
  ASSUME Inv, NEW t \in Tasks, NEW i \in Arguments(t), ~q.dep[t][i].ready, q.status[t] \notin Out
  PROVE  q.status[t] = "NOTREADY" /\ q.ndep[t] > 0
<1>1. Unready(t) # {} /\ q.ndep[t] = Cardinality(Unready(t))
  BY DEF Inv, Deps, Unready
<1>2. IsFiniteSet(Unready(t)) /\ Cardinality(Unready(t)) \in Nat
  <2>1. Len(prog.args[t]) \in Nat
    BY ProgramTypes DEF Inv, TypeOK
  <2>2. IsFiniteSet(Arguments(t))
    BY <2>1, FS_Interval DEF Arguments
  <2>3. Unready(t) \in SUBSET Arguments(t)
    BY DEF Unready
  <2> QED
    BY <2>2, <2>3, FS_Subset, FS_CardinalityType
<1>3. q.ndep[t] > 0
  BY <1>1, <1>2, FS_EmptySet
<1>4. q.status[t] \in Statuses
  BY DEF Inv, TypeOK, Shaped, Nodes
<1> QED
  BY <1>3, <1>4 DEF Inv, Stages, Past, Out, Statuses

\* Update removes one dependency, releases others, and queues the tasks they were the last
\* of (quark.c:2438).
LEMMA UpdateIs ==
  ASSUME Inv, NEW r \in Threads, Update(r)
  PROVE  /\ job[r].task \in Tasks /\ job[r].dep \in Arguments(job[r].task)
         /\ q.dep[job[r].task][job[r].dep].addr \in prog.addrs
         /\ Shaped(q')
         /\ \E D, S : Updated(job[r].task, job[r].dep, D) /\ Queued(S)
<1> DEFINE t == job[r].task
           i == job[r].dep
           d == q.dep[t][i]
           s == Departed(q, t, i, job[r].by)
           D == Released(s, d.addr, d.region)
           S == Due(s, D)
<1>1. prog \in Programs /\ Shaped(q)
  BY DEF Inv, TypeOK
<1>2. t \in Tasks /\ i \in Arguments(t) /\ job[r].by \in Threads \cup {Nobody}
  BY DEF Inv, TypeOK, Ctl, Update, Clearing
<1>3. d.addr \in prog.addrs
  BY <1>2 DEF Inv, Deps
<1>4. q' = Release(s, D)
  BY DEF Update
<1>4a. d = q.dep[t][i] /\ s = Departed(q, t, i, job[r].by) /\ S = Due(s, D)
  OBVIOUS
<1> HIDE DEF t, i, d, s, D, S
<1>5. /\ Shaped(s) /\ SameRest(q, s) /\ s.dep = q.dep /\ s.ndep = q.ndep
      /\ \A a \in prog.addrs : \A e : e \in s.list[a] <=> e \in q.list[a] /\ ~(a = d.addr /\ e = <<t, i>>)
  <2>1. q.dep[t][i].addr \in prog.addrs
    BY <1>3, <1>4a
  <2>2. PICK by \in Threads \cup {Nobody} : s = Departed(q, t, i, by)
    BY <1>2, <1>4a
  <2>3. /\ Shaped(s) /\ SameRest(q, s) /\ s.dep = q.dep /\ s.ndep = q.ndep
        /\ \A a \in prog.addrs : \A e : e \in s.list[a] <=>
              e \in q.list[a] /\ ~(a = q.dep[t][i].addr /\ e = <<t, i>>)
    BY <1>1, <1>2, <2>1, <2>2, DepartedIs
  <2> QED
    BY <1>4a, <2>3
<1>6. ASSUME NEW x \in D
      PROVE  /\ x \in q.list[d.addr] /\ x # <<t, i>>
             /\ ~Of(q, x).ready
             /\ \/ \A e \in q.list[d.addr] : e # <<t, i>> /\ e[1] =< x[1] =>
                     Of(q, e).gather /\ Of(q, e).region = d.region
                \/ \A e \in q.list[d.addr] : e # <<t, i>> /\ e[1] < x[1] /\ Open(q, e) => ~Clash(Of(q, e), Of(q, x))
  <2>1. /\ x \in s.list[d.addr] /\ ~Of(s, x).ready
        /\ Gathered(s, d.addr, x, d.region) \/ Conflictless(s, d.addr, x)
    BY <1>6 DEF D, Released
  <2>2. \A e : Of(s, e) = Of(q, e)
    BY <1>5 DEF Of
  <2>3. \A e : Open(s, e) <=> Open(q, e)
    BY <1>5 DEF Open, SameRest
  <2>4. \A e : e \in s.list[d.addr] <=> e \in q.list[d.addr] /\ e # <<t, i>>
    BY <1>3, <1>5
  <2>5. CASE Gathered(s, d.addr, x, d.region)
    BY <2>1, <2>2, <2>4, <2>5 DEF Gathered
  <2>6. CASE Conflictless(s, d.addr, x)
    BY <2>1, <2>2, <2>3, <2>4, <2>6 DEF Conflictless
  <2> QED
    BY <2>1, <2>5, <2>6
<1>7. ASSUME NEW x \in D
      PROVE  /\ x[1] \in Tasks /\ x[2] \in Arguments(x[1]) /\ x = <<x[1], x[2]>>
             /\ q.status[x[1]] = "NOTREADY" /\ \A w \in Threads : ~In(x[1], q.ready[w])
  <2>1. x \in q.list[d.addr] /\ ~Of(q, x).ready
    BY <1>6
  <2>2. x[1] \in Tasks /\ x[2] \in Arguments(x[1])
    BY <1>3, <2>1 DEF Inv, Lists
  <2>2a. x = <<x[1], x[2]>>
    <3>1. q.list[d.addr] \in SUBSET (Nat \X Nat)
      BY <1>1, <1>3 DEF Shaped, Nodes
    <3> QED
      BY <2>1, <3>1
  <2>3. Waits(x[1], x[2], d.addr)
    BY <1>3, <2>1, <2>2, <2>2a DEF Inv, Lists
  <2>4. q.status[x[1]] = "NOTREADY"
    BY <2>1, <2>2, <2>3, UnreadyWaits DEF Waits, Came, Of
  <2>5. \A w \in Threads : ~In(x[1], q.ready[w])
    BY <2>2, <2>4 DEF Inv, ReadyPlace
  <2> QED
    BY <2>2, <2>2a, <2>4, <2>5
<1>8. \A w \in Threads : Once(s.ready[w]) /\ \A x \in D : ~In(x[1], s.ready[w])
  BY <1>5, <1>7 DEF SameRest, Inv, ReadyPlace
<1>9. Releases(s, D, S, q')
  BY <1>1, <1>4, <1>4a, <1>5, <1>8, ReleaseIs
<1>10. Updated(t, i, D)
  <2>1. \A b \in prog.addrs : \A e : e \in q'.list[b] <=> e \in q.list[b] /\ ~(b = d.addr /\ e = <<t, i>>)
    <3>1. q'.list = s.list
      BY <1>9 DEF Releases
    <3> QED
      BY <1>5, <3>1
  <2>2. \A u \in Tasks : q'.ndep[u] = IF \E x \in D : x[1] = u THEN q.ndep[u] - 1 ELSE q.ndep[u]
    BY <1>5, <1>9 DEF Releases
  <2>3. \A u \in Tasks : \A k \in Arguments(u) :
          /\ SameBut(q.dep[u][k], q'.dep[u][k])
          /\ q'.dep[u][k].ready <=> q.dep[u][k].ready \/ <<u, k>> \in D
    BY <1>5, <1>9 DEF Releases
  <2> QED
    BY <1>4a, <1>6, <2>1, <2>2, <2>3, Zenon DEF Updated
<1>11. Queued(S)
  <2>1. S \in SUBSET Tasks
    BY DEF S, Due
  <2>2. \A u \in S : q.status[u] = "NOTREADY"
    BY <1>7, <1>9 DEF Releases
  <2> QED
    BY <1>5, <1>9, <2>1, <2>2 DEF Queued, SameRest, Releases
<1> QED
  BY <1>2, <1>3, <1>9, <1>10, <1>11 DEF t, i, d, Releases

\* Check queues the new task, or nothing.
LEMMA CheckIs ==
  ASSUME Inv, Check, master.next \notin freed
  PROVE  /\ master.next \in Tasks /\ Shaped(q')
         /\ q'.dep = q.dep /\ q'.ndep = q.ndep /\ q'.list = q.list
         /\ \E S : Queued(S)
<1> DEFINE t == master.next
           S == {t}
<1>1. prog \in Programs /\ Shaped(q) /\ t \in Tasks /\ q.status[t] \in Statuses
  BY DEF Inv, TypeOK, Ctl, Check, Shaped, Nodes
<1>2. q.status[t] \notin {"NEW", "REJECTED", "CANCELLED"}
  BY <1>1 DEF Inv, Stages, Known, Check, Again, Queueable, Past
<1>3. CASE ~Queueable(q, t)
  <2>1. q' = q
    BY <1>3 DEF Check
  <2>2. [u \in {} |-> 0] \in [{} -> Threads]
    OBVIOUS
  <2>3. Cardinality({}) = 0 /\ q.queued \in Int
    BY <1>1, FS_EmptySet DEF Shaped, Nodes
  <2>4. \E p \in [{} -> Threads] :
           /\ \A r \in Threads :
                /\ Once(q'.ready[r])
                /\ \A u : In(u, q'.ready[r]) <=> In(u, q.ready[r]) \/ (u \in {} /\ p[u] = r)
           /\ \A u \in {} : p[u] \in sleeping => p[u] \in q'.woken
    BY <2>1, <2>2 DEF Inv, ReadyPlace
  <2>5. Queued({})
    <3>1. \A u \in Tasks : q'.status[u] = IF u \in {} THEN "QUEUED" ELSE q.status[u]
      BY <2>1
    <3>2. q'.live = q.live /\ q.woken \subseteq q'.woken /\ q'.queued = q.queued + Cardinality({})
      BY <2>1, <2>3
    <3>3. {} \in SUBSET Tasks /\ \A u \in {} : q.status[u] = "NOTREADY" /\ q'.ndep[u] = 0
      OBVIOUS
    <3> QED
      BY <2>4, <3>1, <3>2, <3>3, Zenon DEF Queued
  <2> QED
    BY <1>1, <2>1, <2>5
<1>4. CASE Queueable(q, t)
  <2>1. q' = Queue(q, S)
    BY <1>4 DEF Check
  <2>2. q.ndep[t] = 0 /\ q.status[t] = "NOTREADY"
    BY <1>1, <1>2, <1>4 DEF Queueable, Statuses
  <2>3. S \in SUBSET Tasks /\ q \in Nodes
    BY <1>1 DEF Shaped
  <2>4. \A r \in Threads : Once(q.ready[r]) /\ \A u \in S : ~In(u, q.ready[r])
    BY <1>1, <2>2 DEF Inv, ReadyPlace
  <2> HIDE DEF t
  <2>5. \A u \in S : q.status[u] = "NOTREADY" /\ q.ndep[u] = 0
    BY <2>2
  <2> HIDE DEF S
  <2> DEFINE p == [u \in S |-> Place(q, S, u)]
  <2>6. p \in [S -> Threads] /\ \A u \in S : p[u] = Place(q, S, u)
    BY <1>1, <2>3, PlaceIn
  <2>7. /\ q' \in Nodes
        /\ \A u \in Tasks : q'.status[u] = IF u \in S THEN "QUEUED" ELSE q.status[u]
        /\ q'.live = q.live /\ q'.ndep = q.ndep /\ q'.dep = q.dep /\ q'.list = q.list
        /\ q'.queued = q.queued + Cardinality(S)
        /\ \A r \in Threads :
             /\ Once(q'.ready[r])
             /\ \A u : In(u, q'.ready[r]) <=> In(u, q.ready[r]) \/ (u \in S /\ Place(q, S, u) = r)
        /\ q.woken \subseteq q'.woken
        /\ \A u \in S : Place(q, S, u) \in sleeping => Place(q, S, u) \in q'.woken
    BY <1>1, <2>1, <2>3, <2>4, QueueIs
  <2> HIDE DEF p
  <2>8. Queued(S)
    BY <2>3, <2>5, <2>6, <2>7 DEF Queued
  <2> QED
    BY <1>1, <2>7, <2>8 DEF Shaped, t
<1> QED
  BY <1>3, <1>4
-----------------------------------------------------------------------------
\* What Arrive does: argument i of task t takes the place of those in J, one at most;
\* it is ready if it is alone then.
Arrived(t, i, J, alone) ==
  LET d == q.dep[t][i]
      x == q'.dep[t][i]
  IN
  /\ J \in SUBSET Arguments(t) /\ i \notin J /\ alone \in BOOLEAN
  /\ \A j \in Arguments(t) : j \in J <=> <<t, j>> \in q.list[d.addr]
  /\ \A j, k \in J : j = k
  /\ \A j \in J : q.dep[t][j].addr = d.addr
  /\ alone => \A e \in q.list[d.addr] : e[1] = t
  /\ \A b \in prog.addrs : \A e : e \in q'.list[b] <=>
       \/ e \in q.list[b] /\ ~(b = d.addr /\ \E j \in J : e = <<t, j>>)
       \/ b = d.addr /\ e = <<t, i>>
  /\ x.addr = d.addr
  /\ x.write <=> d.write \/ \E j \in J : q.dep[t][j].write
  /\ \A p : p \in x.region <=> p \in d.region \/ \E j \in J : p \in q.dep[t][j].region
  /\ x.gather <=> d.gather
  /\ x.ready <=> d.ready \/ alone
  /\ x.dropped <=> d.dropped
  /\ \A j \in J : LET e == q.dep[t][j]
                      y == q'.dep[t][j]
                  IN  /\ y.addr = e.addr
                      /\ y.write <=> e.write
                      /\ y.region = e.region
                      /\ y.gather <=> e.gather
                      /\ y.ready /\ y.dropped
  /\ \A r \in Tasks : \A k \in Arguments(r) :
       r # t \/ (k # i /\ k \notin J) => q'.dep[r][k] = q.dep[r][k]
  /\ \A r \in Tasks : r # t => q'.ndep[r] = q.ndep[r]
  /\ q'.ndep[t] = q.ndep[t] - (IF \E j \in J : ~q.dep[t][j].ready THEN 1 ELSE 0)
                            - (IF alone THEN 1 ELSE 0)

\* The dependency that a task has in a list has come, and no other of its has.
LEMMA ListedOnce ==
  ASSUME Inv, NEW a \in prog.addrs, NEW t \in Tasks, NEW i \in Arguments(t), <<t, i>> \in q.list[a]
  PROVE  /\ q.dep[t][i].addr = a /\ Came(t, i) /\ ~q.dep[t][i].dropped /\ ~Gone(t, i)
         /\ \A j \in Arguments(t) : <<t, j>> \in q.list[a] => j = i
<1>1. \A j \in Arguments(t) : <<t, j>> \in q.list[a] <=> Waits(t, j, a)
  BY DEF Inv, Lists
<1>2. \A j \in Arguments(t) : <<t, j>> \in q.list[a] =>
         q.dep[t][j].addr = a /\ Came(t, j) /\ ~q.dep[t][j].dropped /\ ~Gone(t, j)
  BY <1>1 DEF Waits
<1> QED
  BY <1>2 DEF Inv, Deps

\* Depend puts one dependency of the new task into the list of its address.
LEMMA DependIs ==
  ASSUME Inv, Depend
  PROVE  /\ master.next \in Tasks /\ master.dep \in Arguments(master.next)
         /\ q.dep[master.next][master.dep].addr \in prog.addrs
         /\ Shaped(q') /\ SameRest(q, q')
         /\ \E J, alone : Arrived(master.next, master.dep, J, alone)
<1> DEFINE t == master.next
           i == master.dep
           d == q.dep[t][i]
           J == {j \in DOMAIN q.dep[t] : <<t, j>> \in q.list[d.addr]}
<1>1. prog \in Programs /\ Shaped(q) /\ t \in Tasks /\ i \in Arguments(t)
  BY DEF Inv, TypeOK, Ctl, Depend
<1>2. d.addr \in prog.addrs
  BY <1>1 DEF Inv, Deps
<1>3. q' = Join(IF J = {} THEN q ELSE Merge(q, t, i, CHOOSE j \in J : TRUE), t, i)
  BY DEF Depend, Arrive
<1>4. /\ J \in SUBSET Arguments(t)
      /\ \A j \in Arguments(t) : j \in J <=> <<t, j>> \in q.list[d.addr]
  BY <1>1, DepAt
<1>5. ~Came(t, i)
  BY <1>1 DEF Inv, Came, Depend, Arguments
<1>6. i \notin J /\ (\A j, k \in J : j = k) /\ \A j \in J : q.dep[t][j].addr = d.addr
  <2> HIDE DEF t, i, d, J
  <2>1. ASSUME NEW j \in J
        PROVE  /\ q.dep[t][j].addr = d.addr /\ Came(t, j)
               /\ \A k \in Arguments(t) : <<t, k>> \in q.list[d.addr] => k = j
    <3>1. j \in Arguments(t) /\ <<t, j>> \in q.list[d.addr]
      BY <1>4
    <3> QED
      BY <1>1, <1>2, <3>1, ListedOnce
  <2> QED
    BY <1>4, <1>5, <2>1
<1>7. q.dep[t] \in Seq(Dependencies) /\ DOMAIN q.dep[t] = Arguments(t)
      /\ \A k \in Arguments(t) : q.dep[t][k] \in Dependencies
  BY <1>1, DepAt
<1>8. q.ndep[t] \in Int
  BY <1>1 DEF Shaped, Nodes
<1>8a. d = q.dep[t][i]
  OBVIOUS
<1> HIDE DEF t, i, d, J
<1>9. CASE J = {}
  <2>1. q' = Join(q, t, i)
    BY <1>3, <1>9
  <2>2. PICK alone \in BOOLEAN : alone <=> q.list[d.addr] = {}
    OBVIOUS
  <2>3. /\ Shaped(q') /\ SameRest(q, q')
        /\ \A r \in Tasks : q'.ndep[r] = IF r = t /\ alone THEN q.ndep[r] - 1 ELSE q.ndep[r]
        /\ \A a \in prog.addrs : \A z : z \in q'.list[a] <=>
             z \in q.list[a] \/ (a = d.addr /\ z = <<t, i>>)
        /\ SameBut(d, q'.dep[t][i])
        /\ q'.dep[t][i].ready <=> d.ready \/ alone
        /\ \A r \in Tasks : \A k \in Arguments(r) :
             r # t \/ k # i => q'.dep[r][k] = q.dep[r][k]
    BY <1>1, <1>2, <1>8a, <2>1, <2>2, JoinIs
  <2>4. Arrived(t, i, J, alone)
    BY <1>1, <1>4, <1>6, <1>8, <1>8a, <1>9, <2>2, <2>3 DEF Arrived, SameBut
  <2> QED
    BY <1>1, <1>2, <2>3, <2>4 DEF t, i, d
<1>10. CASE J # {}
  <2>1. PICK j \in J : j = CHOOSE k \in J : TRUE
    BY <1>10
  <2> DEFINE u == Merge(q, t, i, j)
             e == q.dep[t][j]
  <2>2. q' = Join(u, t, i)
    BY <1>3, <1>10, <2>1
  <2>3. j \in Arguments(t) /\ j # i /\ \A k : k \in J <=> k = j
    BY <1>4, <1>6
  <2>4. /\ Shaped(u) /\ SameRest(q, u)
        /\ \A r \in Tasks : u.ndep[r] = IF r = t /\ ~e.ready THEN q.ndep[r] - 1 ELSE q.ndep[r]
        /\ \A a \in prog.addrs : \A x : x \in u.list[a] <=>
             x \in q.list[a] /\ ~(a = d.addr /\ x = <<t, j>>)
        /\ LET x == u.dep[t][i]
           IN  /\ x.addr = d.addr /\ (x.write <=> d.write \/ e.write)
               /\ x.region = d.region \cup e.region /\ (x.gather <=> d.gather)
               /\ (x.ready <=> d.ready) /\ (x.dropped <=> d.dropped)
        /\ LET y == u.dep[t][j]
           IN  /\ y.addr = e.addr /\ (y.write <=> e.write) /\ y.region = e.region
               /\ (y.gather <=> e.gather) /\ y.ready /\ y.dropped
        /\ \A r \in Tasks : \A k \in Arguments(r) :
             r # t \/ k \notin {i, j} => u.dep[r][k] = q.dep[r][k]
    BY <1>1, <1>2, <1>8a, <2>3, MergeIs
  <2>5. e = q.dep[t][j]
    OBVIOUS
  <2> HIDE DEF u, e
  <2>6. PICK alone \in BOOLEAN : alone <=> u.list[d.addr] = {}
    OBVIOUS
  <2>7. u.dep[t][i].addr = d.addr
    BY <2>4
  <2>8. /\ Shaped(q') /\ SameRest(u, q')
        /\ \A r \in Tasks : q'.ndep[r] = IF r = t /\ alone THEN u.ndep[r] - 1 ELSE u.ndep[r]
        /\ \A a \in prog.addrs : \A z : z \in q'.list[a] <=>
             z \in u.list[a] \/ (a = d.addr /\ z = <<t, i>>)
        /\ SameBut(u.dep[t][i], q'.dep[t][i])
        /\ q'.dep[t][i].ready <=> u.dep[t][i].ready \/ alone
        /\ \A r \in Tasks : \A k \in Arguments(r) :
             r # t \/ k # i => q'.dep[r][k] = u.dep[r][k]
    BY <1>1, <1>2, <2>2, <2>4, <2>6, <2>7, JoinIs
  <2>9. SameRest(q, q')
    BY <2>4, <2>8 DEF SameRest
  <2>10. alone => \A x \in q.list[d.addr] : x[1] = t
    BY <1>2, <2>4, <2>6
  <2>11. \A b \in prog.addrs : \A x : x \in q'.list[b] <=>
           \/ x \in q.list[b] /\ ~(b = d.addr /\ \E k \in J : x = <<t, k>>)
           \/ b = d.addr /\ x = <<t, i>>
    BY <2>3, <2>4, <2>8
  <2>12. LET x == q'.dep[t][i] IN
           /\ x.addr = d.addr
           /\ x.write <=> d.write \/ \E k \in J : q.dep[t][k].write
           /\ \A p : p \in x.region <=> p \in d.region \/ \E k \in J : p \in q.dep[t][k].region
           /\ x.gather <=> d.gather
           /\ x.ready <=> d.ready \/ alone
           /\ x.dropped <=> d.dropped
    BY <2>3, <2>4, <2>5, <2>8 DEF SameBut
  <2>13. LET y == q'.dep[t][j] IN
           /\ y.addr = e.addr
           /\ y.write <=> e.write
           /\ y.region = e.region
           /\ y.gather <=> e.gather
           /\ y.ready /\ y.dropped
    BY <1>1, <2>3, <2>4, <2>8
  <2>14. \A r \in Tasks : \A k \in Arguments(r) :
           r # t \/ (k # i /\ k \notin J) => q'.dep[r][k] = q.dep[r][k]
    BY <2>3, <2>4, <2>8
  <2>15. \A r \in Tasks : r # t => q'.ndep[r] = q.ndep[r]
    BY <2>4, <2>8
  <2>16. q'.ndep[t] = q.ndep[t] - (IF \E k \in J : ~q.dep[t][k].ready THEN 1 ELSE 0)
                                - (IF alone THEN 1 ELSE 0)
    BY <1>1, <1>8, <2>3, <2>4, <2>5, <2>8
  <2>17. Arrived(t, i, J, alone)
    BY <1>4, <1>6, <1>8a, <2>3, <2>5, <2>10, <2>11, <2>12, <2>13, <2>14, <2>15, <2>16 DEF Arrived
  <2> QED
    BY <1>1, <1>2, <2>8, <2>9, <2>17 DEF t, i, d
<1> QED
  BY <1>9, <1>10
-----------------------------------------------------------------------------
\* The program never changes, so what depends on it alone does not.
LEMMA GivenKept ==
  ASSUME NEW r \in Threads, Step(r)
  PROVE  prog' = prog
BY DEF Step, Master, Completion, MainLoop, Insert, Hash, Depend, Check, BarrierStart, Return,
       Finalize, Signal, Process, ProcessOver, Update, Delete, Unlink, Uncount, Help, Take, Steal,
       Got, Miss, Doze, Wake, Leave, ReadSequence, Start, Finish, Enqueue, BeginCancel,
       CancelTask, EndCancel, given

\* The program that is run does not change, nor what depends on it alone.
LEMMA SameGiven ==
  ASSUME prog' = prog
  PROVE  /\ Tasks' = Tasks
         /\ \A t : Arguments(t)' = Arguments(t)
         /\ Nodes' = Nodes
         /\ Shaped(q') => Shaped(q)'
BY DEF Tasks, Arguments, Nodes, Shaped

\* The worker does not take a task that is not there.
LEMMA TakeIs ==
  ASSUME Inv, NEW r \in Threads, Take(r)
  PROVE  /\ Shaped(q') /\ SameDeps /\ SameStatus /\ q'.queued = q.queued /\ q'.woken = q.woken
         /\ Head(q.ready[r]) \in Tasks /\ In(Head(q.ready[r]), q.ready[r])
         /\ \A s \in Threads : /\ Once(q'.ready[s])
                               /\ \A t : In(t, q'.ready[s]) <=>
                                    In(t, q.ready[s]) /\ ~(s = r /\ t = Head(q.ready[r]))
<1>1. Shaped(q) /\ q.ready[r] \in Seq(Tasks) /\ q.ready[r] # <<>>
  BY DEF Inv, TypeOK, Shaped, Nodes, Take
<1>2. \A s \in Threads : Once(q.ready[s])
  BY DEF Inv, ReadyPlace
<1>3. /\ Tail(q.ready[r]) \in Seq(Tasks) /\ Once(Tail(q.ready[r]))
      /\ Head(q.ready[r]) \in Tasks /\ In(Head(q.ready[r]), q.ready[r])
      /\ \A t : In(t, Tail(q.ready[r])) <=> In(t, q.ready[r]) /\ t # Head(q.ready[r])
  BY <1>1, <1>2, TailIs
<1>4. q' = [q EXCEPT !.ready[r] = Tail(q.ready[r])]
  BY DEF Take
<1>5. /\ Shaped(q') /\ SameDeps /\ SameStatus /\ q'.queued = q.queued /\ q'.woken = q.woken
      /\ \A s \in Threads : q'.ready[s] = IF s = r THEN Tail(q.ready[r]) ELSE q.ready[s]
  <2>1. PICK l \in Seq(Tasks) : l = Tail(q.ready[r])
    BY <1>3
  <2>2. q' = [q EXCEPT !.ready[r] = l]
    BY <1>4, <2>1
  <2>3. /\ Shaped(q') /\ SameDeps /\ SameStatus /\ q'.queued = q.queued /\ q'.woken = q.woken
        /\ \A s \in Threads : q'.ready[s] = IF s = r THEN l ELSE q.ready[s]
    BY <1>1, <2>2, ListIs
  <2> QED
    BY <2>1, <2>3
<1> QED
  BY <1>2, <1>3, <1>5

\* Steal takes the last task of the victim's ready list (quark.c:1997).
LEMMA StealIs ==
  ASSUME Inv, NEW r \in Threads, Steal(r)
  PROVE  /\ Shaped(q') /\ SameDeps /\ SameStatus /\ q'.queued = q.queued /\ q'.woken = q.woken
         /\ Last(q.ready[victim[r]]) \in Tasks /\ victim[r] \in Threads
         /\ In(Last(q.ready[victim[r]]), q.ready[victim[r]])
         /\ \A s \in Threads : /\ Once(q'.ready[s])
                               /\ \A t : In(t, q'.ready[s]) <=>
                                    In(t, q.ready[s]) /\ ~(s = victim[r] /\ t = Last(q.ready[victim[r]]))
<1>0. PICK v \in Threads : v = victim[r]
  BY DEF Inv, TypeOK
<1>1. Shaped(q) /\ q.ready[v] \in Seq(Tasks) /\ q.ready[v] # <<>>
  BY <1>0 DEF Inv, TypeOK, Shaped, Nodes, Steal
<1>2. \A s \in Threads : Once(q.ready[s])
  BY DEF Inv, ReadyPlace
<1>3. /\ Front(q.ready[v]) \in Seq(Tasks) /\ Once(Front(q.ready[v]))
      /\ Last(q.ready[v]) \in Tasks /\ In(Last(q.ready[v]), q.ready[v])
      /\ \A t : In(t, Front(q.ready[v])) <=> In(t, q.ready[v]) /\ t # Last(q.ready[v])
  BY <1>1, <1>2, FrontIs
<1>4. q' = [q EXCEPT !.ready[v] = Front(q.ready[v])]
  BY <1>0 DEF Steal
<1>5. /\ Shaped(q') /\ SameDeps /\ SameStatus /\ q'.queued = q.queued /\ q'.woken = q.woken
      /\ \A s \in Threads : q'.ready[s] = IF s = v THEN Front(q.ready[v]) ELSE q.ready[s]
  <2>1. PICK l \in Seq(Tasks) : l = Front(q.ready[v])
    BY <1>3
  <2>2. q' = [q EXCEPT !.ready[v] = l]
    BY <1>4, <2>1
  <2>3. /\ Shaped(q') /\ SameDeps /\ SameStatus /\ q'.queued = q.queued /\ q'.woken = q.woken
        /\ \A s \in Threads : q'.ready[s] = IF s = v THEN l ELSE q.ready[s]
    BY <1>1, <2>2, ListIs
  <2> QED
    BY <2>1, <2>3
<1> QED
  BY <1>0, <1>2, <1>3, <1>5

\* What the other steps that change q do.
LEMMA HashIs ==
  ASSUME Inv, Hash
  PROVE  /\ master.next \in Tasks
         /\ Shaped(q') /\ SameDeps /\ SamePlaces /\ q'.live = q.live /\ q'.woken = q.woken
         /\ \A u \in Tasks : q'.status[u] = IF u = master.next THEN "NOTREADY" ELSE q.status[u]
<1>1. Shaped(q) /\ master.next \in Tasks /\ "NOTREADY" \in Statuses
  BY DEF Inv, TypeOK, Ctl, Hash, Statuses
<1>2. q' = [q EXCEPT !.status[master.next] = "NOTREADY"]
  BY DEF Hash
<1> QED
  BY <1>1, <1>2, StatusIs

\* Insert rejects a task of a cancelled sequence and leaves q alone otherwise.
LEMMA InsertIs ==
  ASSUME Inv, Insert
  PROVE  /\ master.next \in Tasks
         /\ \/ /\ q' = q
               /\ ~(master.next \in prog.member /\ seq.off)
            \/ /\ master.next \in prog.member /\ seq.off
               /\ Shaped(q') /\ SameDeps /\ SamePlaces /\ q'.live = q.live /\ q'.woken = q.woken
               /\ \A u \in Tasks : q'.status[u] = IF u = master.next THEN "REJECTED" ELSE q.status[u]
<1>1. Shaped(q) /\ master.next \in Tasks /\ "REJECTED" \in Statuses
  BY DEF Inv, TypeOK, Insert, Statuses
<1>2. CASE master.next \in prog.member /\ seq.off
  <2>1. q' = [q EXCEPT !.status[master.next] = "REJECTED"]
    BY <1>2 DEF Insert
  <2> QED
    BY <1>1, <1>2, <2>1, StatusIs
<1>3. CASE ~(master.next \in prog.member /\ seq.off)
  BY <1>1, <1>3 DEF Insert
<1> QED
  BY <1>2, <1>3

Skips(r) == pc[r] = "skip" \/ ~q.live[mine[r]]

\* Start marks the task as running, or as cancelled when it is skipped.
LEMMA StartIs ==
  ASSUME Inv, NEW r \in Threads, Start(r)
  PROVE  /\ mine[r] \in Tasks
         /\ Shaped(q') /\ SameDeps /\ SamePlaces /\ q'.live = q.live /\ q'.woken = q.woken
         /\ \A u \in Tasks : q'.status[u] =
              IF u = mine[r] THEN (IF Skips(r) THEN "CANCELLED" ELSE "RUNNING") ELSE q.status[u]
<1>1. Shaped(q) /\ mine[r] \in Tasks
  BY DEF Inv, TypeOK, Ctl, Start, Holding
<1>2. PICK x \in Statuses : x = IF Skips(r) THEN "CANCELLED" ELSE "RUNNING"
  BY DEF Statuses
<1>3. q' = [q EXCEPT !.status[mine[r]] = x]
  BY <1>2 DEF Start, Skips
<1> QED
  BY <1>1, <1>2, <1>3, StatusIs

\* Finish marks the task as done.
LEMMA FinishIs ==
  ASSUME Inv, NEW r \in Threads, Finish(r)
  PROVE  /\ mine[r] \in Tasks
         /\ Shaped(q') /\ SameDeps /\ SamePlaces /\ q'.live = q.live /\ q'.woken = q.woken
         /\ \A u \in Tasks : q'.status[u] = IF u = mine[r] THEN "DONE" ELSE q.status[u]
<1>1. Shaped(q) /\ mine[r] \in Tasks /\ "DONE" \in Statuses
  BY DEF Inv, TypeOK, Ctl, Finish, Holding, Statuses
<1>2. q' = [q EXCEPT !.status[mine[r]] = "DONE"]
  BY DEF Finish
<1> QED
  BY <1>1, <1>2, StatusIs

\* CancelTask takes the function from one task of the sequence that has not run.
LEMMA CancelTaskIs ==
  ASSUME Inv, NEW r \in Threads, CancelTask(r)
  PROVE  /\ Max(seq.rest) \in seq.rest /\ Max(seq.rest) \in Tasks
         /\ Shaped(q') /\ SameDeps /\ SamePlaces /\ q'.status = q.status /\ q'.woken = q.woken
         /\ \A u \in Tasks : q'.live[u] <=>
              q.live[u] /\ ~(u = Max(seq.rest) /\ u \in taskSet /\ q.status[u] \notin {"RUNNING", "DONE", "CANCELLED"})
<1>1. prog \in Programs /\ Shaped(q) /\ seq.rest \in SUBSET prog.member
  BY DEF Inv, TypeOK
<1>2. seq.rest \in SUBSET Nat /\ seq.rest # {} /\ Len(prog.args) \in Nat
      /\ \A t \in seq.rest : t \in Tasks /\ t =< Len(prog.args)
  BY <1>1, ProgramTypes DEF CancelTask, Tasks
<1>3. Max(seq.rest) \in seq.rest
  BY <1>2, MaxIn
<1>4. PICK t \in Tasks : t = Max(seq.rest)
  BY <1>2, <1>3
<1>5. CASE t \in taskSet /\ q.status[t] \notin {"RUNNING", "DONE", "CANCELLED"}
  <2>1. q' = [q EXCEPT !.live[t] = FALSE]
    BY <1>4, <1>5 DEF CancelTask
  <2>2. /\ Shaped(q') /\ SameDeps /\ SamePlaces /\ q'.status = q.status /\ q'.woken = q.woken
        /\ \A u \in Tasks : q'.live[u] <=> q.live[u] /\ u # t
    BY <1>1, <2>1, LiveIs
  <2> QED
    BY <1>3, <1>4, <1>5, <2>2
<1>6. CASE ~(t \in taskSet /\ q.status[t] \notin {"RUNNING", "DONE", "CANCELLED"})
  <2>1. q' = q
    BY <1>4, <1>6 DEF CancelTask
  <2> QED
    BY <1>1, <1>3, <1>4, <1>6, <2>1 DEF SameDeps, SamePlaces
<1> QED
  BY <1>5, <1>6

\* Signal wakes every thread that sleeps.
LEMMA SignalIs ==
  ASSUME Inv, Signal
  PROVE  /\ Shaped(q') /\ SameDeps /\ SameStatus /\ SamePlaces
         /\ q'.woken = q.woken \cup sleeping
<1>1. PICK W \in SUBSET Threads : W = q.woken \cup sleeping
  BY DEF Inv, TypeOK, Shaped, Nodes, Workers
<1>2. Shaped(q) /\ q' = [q EXCEPT !.woken = W]
  BY <1>1 DEF Signal, Inv, TypeOK
<1> QED
  BY <1>1, <1>2, WokenIs

\* A thread that wakes uses up its signal.
LEMMA WakeIs ==
  ASSUME Inv, NEW r \in Threads, Wake(r)
  PROVE  /\ Shaped(q') /\ SameDeps /\ SameStatus /\ SamePlaces
         /\ q'.woken = q.woken \ {r}
<1>1. PICK W \in SUBSET Threads : W = q.woken \ {r}
  BY DEF Inv, TypeOK, Shaped, Nodes
<1>2. Shaped(q) /\ q' = [q EXCEPT !.woken = W]
  BY <1>1 DEF Wake, Inv, TypeOK
<1> QED
  BY <1>1, <1>2, WokenIs

\* Uncount counts one task off.
LEMMA UncountedIs ==
  ASSUME Inv, NEW r \in Threads, Uncount(r)
  PROVE  /\ Shaped(q') /\ SameDeps /\ SameStatus /\ q'.ready = q.ready /\ q'.woken = q.woken
         /\ q'.queued = q.queued - 1
<1>1. Shaped(q) /\ q' = [q EXCEPT !.queued = @ - 1]
  BY DEF Uncount, Inv, TypeOK
<1> QED
  BY <1>1, UncountIs
-----------------------------------------------------------------------------
\* The steps that leave the master's insertion where it is.
Apart == /\ master'.next = master.next /\ master'.dep = master.dep
         /\ \A l \in {"hash", "depend", "check", "fault"} : pc'[0] = l <=> pc[0] = l

\* While the master is not at fault, the steps of a worker leave the master's alone.
LEMMA Bystander ==
  ASSUME Inv, NEW r \in Threads, pc[0] # "fault", Completion(r) \/ MainLoop(r)
  PROVE  Apart
<1>1. pc \in [Threads -> Before0 \cup Looking \cup Napping \cup Holding \cup Clearing] /\ 0 \in Threads
  BY ThreadsAssumption DEF Inv, TypeOK, Threads
<1>2. master'.next = master.next /\ master'.dep = master.dep
  BY DEF Completion, MainLoop, Process, ProcessOver, Update, Delete, Unlink, Uncount, Help, Take,
         Steal, Got, Miss, Doze, Wake, Leave, ReadSequence, Start, Finish, Enqueue, BeginCancel,
         CancelTask, EndCancel, Inv, TypeOK
<1>3. pc[r] \notin {"hash", "depend", "check"}
  BY <1>1 DEF Completion, MainLoop, Process, ProcessOver, Update, Delete, Unlink, Uncount, Help,
     Take,
         Steal, Got, Hunts, Miss, Doze, Wake, Leave, ReadSequence, Start, Finish, Enqueue,
         BeginCancel,
         CancelTask, EndCancel
<1>4. \A s \in Threads \ {r} : pc'[s] = pc[s]
  BY <1>1 DEF Completion, MainLoop, Process, ProcessOver, Update, Delete, Unlink, Uncount, Help,
     Take,
         Steal, Got, Hunts, Miss, Doze, Wake, Leave, ReadSequence, Start, Finish, Enqueue,
         BeginCancel,
         CancelTask, EndCancel, Goto
<1>5. pc'[r] \notin {"hash", "depend", "check", "fault"} \/ pc'[r] = pc[r]
  <2>1. CASE Completion(r)
    BY <1>1, <2>1 DEF Completion, Process, ProcessOver, Update, Delete, Unlink, Uncount, Goto, Inv,
       TypeOK
  <2>2. CASE MainLoop(r)
    BY <1>1, <2>2 DEF MainLoop, Help, Take, Steal, Got, Miss, Doze, Wake, Leave, ReadSequence,
       Start,
           Finish, Enqueue, BeginCancel, CancelTask, EndCancel, Goto
  <2> QED
    BY <2>1, <2>2
<1> QED
  BY <1>1, <1>2, <1>3, <1>4, <1>5 DEF Apart
-----------------------------------------------------------------------------
\* Every step keeps the shape of q.
LEMMA ShapeKept ==
  ASSUME Inv, NEW r \in Threads, Step(r)
  PROVE  Shaped(q')
<1>1. Shaped(q)
  BY DEF Inv, TypeOK
<1>2. CASE q' = q
  BY <1>1, <1>2
<1>3. CASE Insert
  BY <1>1, <1>3, InsertIs
<1>4. CASE Hash
  BY <1>4, HashIs
<1>5. CASE Depend
  BY <1>5, DependIs
<1>6. CASE Check
  <2>1. CASE master.next \in freed
    BY <1>1, <1>6, <2>1 DEF Check
  <2> QED
    BY <1>6, <2>1, CheckIs
<1>7. CASE Signal
  BY <1>7, SignalIs
<1>8. CASE Update(r)
  BY <1>8, UpdateIs
<1>9. CASE Uncount(r)
  BY <1>9, UncountedIs
<1>10. CASE Take(r)
  BY <1>10, TakeIs
<1>11. CASE Steal(r)
  BY <1>11, StealIs
<1>12. CASE Wake(r)
  BY <1>12, WakeIs
<1>13. CASE Start(r)
  BY <1>13, StartIs
<1>14. CASE Finish(r)
  BY <1>14, FinishIs
<1>15. CASE CancelTask(r)
  BY <1>15, CancelTaskIs
<1>16. CASE \/ BarrierStart \/ Return \/ Finalize \/ Process(r) \/ ProcessOver(r) \/ Delete(r) \/ Unlink(r)
            \/ Help(r) \/ Miss(r) \/ Doze(r) \/ Leave(r) \/ ReadSequence(r) \/ Enqueue(r)
            \/ BeginCancel(r) \/ EndCancel(r)
  BY <1>2, <1>16 DEF BarrierStart, Return, Finalize, Process, ProcessOver, Delete, Unlink, Help,
     Miss,
         Doze, Leave, ReadSequence, Enqueue, BeginCancel, EndCancel
<1> QED
  BY <1>3, <1>4, <1>5, <1>6, <1>7, <1>8, <1>9, <1>10, <1>11, <1>12, <1>13, <1>14, <1>15, <1>16
     DEF Step, Master, Completion, MainLoop

\* Every step preserves the types.
LEMMA TypeKept ==
  ASSUME Inv, NEW r \in Threads, Step(r)
  PROVE  TypeOK'
<1> DEFINE Labels == Before0 \cup Looking \cup Napping \cup Holding \cup Clearing
<1>1. prog' = prog /\ Tasks' = Tasks /\ Shaped(q)' /\ prog \in Programs
  BY GivenKept, SameGiven, ShapeKept DEF Inv, TypeOK
<1>2. 0 \in Threads /\ IsFiniteSet(taskSet) /\ Cardinality(taskSet) \in Nat /\ prog.member \in SUBSET Tasks
  <2>1. taskSet \in SUBSET Tasks /\ 0 \in Threads
    BY ThreadsAssumption DEF Inv, TypeOK, Threads
  <2> QED
    BY <1>1, <2>1, TasksFinite, ProgramTypes
<1>3. /\ completed' \in Seq(Tasks \X (Threads \cup {Nobody}))
      /\ job' \in [Threads -> [task : Tasks \cup {None}, dep : Nat, by : Threads \cup {Nobody}]]
  <2>1. CASE completed' = completed /\ job' = job
    BY <2>1 DEF Inv, TypeOK
  <2>2. CASE Process(r)
    <3>1. /\ Tail(completed) \in Seq(Tasks \X (Threads \cup {Nobody}))
          /\ Head(completed) \in Tasks \X (Threads \cup {Nobody})
      BY <2>2, HeadTailProperties DEF Inv, TypeOK, Process
    <3>2. PICK t \in Tasks, by \in Threads \cup {Nobody} : Head(completed) = <<t, by>>
      BY <3>1
    <3>3. PICK i \in Nat : i = NextDep(t, 0)
      <4>1. NextDep(t, 0) \in Arguments(t) \/ NextDep(t, 0) = 0
        BY <1>1, NextDepIs DEF Inv, TypeOK
      <4> QED
        BY <4>1 DEF Arguments
    <3>4. job' = [job EXCEPT ![r] = [task |-> t, dep |-> i, by |-> by]]
      <4>1. Head(completed)[1] = t /\ Head(completed)[2] = by
        BY <3>2
      <4> QED
        BY <2>2, <3>3, <4>1 DEF Process
    <3> QED
      BY <2>2, <3>1, <3>4 DEF Process, Inv, TypeOK
  <2>3. CASE Update(r)
    <3>1. PICK i \in Nat : i = NextDep(job[r].task, job[r].dep)
      <4>1. job[r].task \in Tasks /\ job[r].dep \in Arguments(job[r].task) /\ job[r].dep \in Nat
        BY <2>3, UpdateIs DEF Arguments
      <4>2. NextDep(job[r].task, job[r].dep) \in Arguments(job[r].task) \/ NextDep(job[r].task, job[r].dep) = 0
        BY <1>1, <4>1, NextDepIs DEF Inv, TypeOK
      <4> QED
        BY <4>2 DEF Arguments
    <3>2. job' = [job EXCEPT ![r].dep = i]
      BY <2>3, <3>1 DEF Update
    <3> QED
      <4>1. job \in [Threads -> [task : Tasks \cup {None}, dep : Nat, by : Threads \cup {Nobody}]]
        BY DEF Inv, TypeOK
      <4>2. completed' = completed /\ completed \in Seq(Tasks \X (Threads \cup {Nobody}))
        BY <2>3 DEF Update, Inv, TypeOK
      <4> QED
        BY <3>2, <4>1, <4>2
  <2>4. CASE Uncount(r)
    BY <1>2, <2>4 DEF Uncount, Inv, TypeOK, None
  <2>5. CASE Enqueue(r)
    <3>1. mine[r] \in Tasks /\ r \in Threads \cup {Nobody} /\ ~Second(mine[r])
      BY <2>5 DEF Inv, TypeOK, Ctl, Enqueue, Holding, Second
    <3>2. Append(completed, <<mine[r], r>>) \in Seq(Tasks \X (Threads \cup {Nobody}))
      BY <3>1, AppendProperties DEF Inv, TypeOK
    <3> QED
      BY <2>5, <3>2 DEF Enqueue, Inv, TypeOK
  <2> QED
    BY <2>1, <2>2, <2>3, <2>4, <2>5
       DEF Step, Master, Completion, MainLoop, Insert, Hash, Depend, Check, BarrierStart, Return,
       Finalize, Signal, ProcessOver, Delete, Unlink, Help, Take, Steal, Got, Miss, Doze, Wake,
       Leave,
       ReadSequence, Start, Finish, BeginCancel, CancelTask, EndCancel, threads
<1>4. pc' \in [Threads -> Labels]
  <2>1. PICK l \in Labels : pc' = [pc EXCEPT ![r] = l] \/ pc' = pc
    <3>1. CASE r = 0 /\ Master
      BY <3>1 DEF Master, Insert, Hash, Depend, Check, BarrierStart, Return, Finalize, Signal, Goto,
             Before0, Looking, Napping, Holding, Clearing
    <3>2. CASE Completion(r)
      BY <3>2 DEF Completion, Process, ProcessOver, Update, Delete, Unlink, Uncount, Goto, Inv,
         TypeOK,
             Before0, Looking, Napping, Holding, Clearing
    <3>3. CASE MainLoop(r)
      BY <3>3 DEF MainLoop, Help, Take, Steal, Got, Miss, Doze, Wake, Leave, ReadSequence, Start,
             Finish, Enqueue, BeginCancel, CancelTask, EndCancel, Goto,
             Before0, Looking, Napping, Holding, Clearing
    <3> QED
      BY <3>1, <3>2, <3>3 DEF Step
  <2> QED
    BY <2>1 DEF Inv, TypeOK
<1>5. /\ mine' \in [Threads -> Tasks \cup {None}]
      /\ victim' \in [Threads -> Threads]
  <2>1. CASE mine' = mine /\ victim' = victim
    BY <2>1 DEF Inv, TypeOK
  <2>2. CASE Take(r)
    BY <2>2, TakeIs DEF Take, Got, Inv, TypeOK
  <2>3. CASE Steal(r)
    BY <2>3, StealIs DEF Steal, Got, Inv, TypeOK
  <2>4. CASE Miss(r)
    <3>1. (victim[r] + 1) % N \in Threads
      <4>1. victim[r] + 1 \in Int
        BY DEF Inv, TypeOK, Threads
      <4> QED
        BY <4>1, ModThreads
    <3> QED
      BY <1>2, <2>4, <3>1 DEF Miss, Inv, TypeOK
  <2>5. CASE Enqueue(r)
    BY <2>5 DEF Enqueue, Inv, TypeOK
  <2> QED
    BY <2>1, <2>2, <2>3, <2>4, <2>5
       DEF Step, Master, Completion, MainLoop, Insert, Hash, Depend, Check, BarrierStart, Return,
       Finalize, Signal, Process, ProcessOver, Update, Delete, Unlink, Uncount, Help, Doze, Wake,
       Leave,
       ReadSequence, Start, Finish, BeginCancel, CancelTask, EndCancel, threads
<1>6. taskSet' \in SUBSET Tasks /\ freed' \in SUBSET Tasks
  <2>1. CASE taskSet' = taskSet /\ freed' = freed
    BY <2>1 DEF Inv, TypeOK
  <2>2. CASE Hash
    BY <2>2, HashIs DEF Hash, Inv, TypeOK
  <2>3. CASE Delete(r)
    BY <2>3 DEF Delete, Inv, TypeOK, Ctl, Clearing
  <2> QED
    BY <2>1, <2>2, <2>3
       DEF Step, Master, Completion, MainLoop, Insert, Depend, Check, BarrierStart, Return,
       Finalize, Signal, Process, ProcessOver, Update, Unlink, Uncount, Help, Take, Steal, Got,
       Miss, Doze, Wake, Leave,
       ReadSequence, Start, Finish, Enqueue, BeginCancel, CancelTask, EndCancel, threads
<1>7. seq' \in [off : BOOLEAN, owner : Threads \cup {Nobody}, tasks : SUBSET prog.member,
                rest : SUBSET prog.member]
  <2>1. CASE seq' = seq
    BY <2>1 DEF Inv, TypeOK
  <2>2. CASE Insert
    BY <2>2 DEF Insert, Inv, TypeOK
  <2>3. CASE Unlink(r)
    BY <2>3 DEF Unlink, Inv, TypeOK
  <2>4. CASE BeginCancel(r) \/ CancelTask(r) \/ EndCancel(r)
    <3>1. CASE BeginCancel(r)
      BY <3>1 DEF BeginCancel, Inv, TypeOK
    <3>2. CASE CancelTask(r)
      BY <3>2 DEF CancelTask, Inv, TypeOK
    <3>3. CASE EndCancel(r)
      BY <3>3 DEF EndCancel, Inv, TypeOK
    <3> QED
      BY <2>4, <3>1, <3>2, <3>3
  <2> QED
    BY <2>1, <2>2, <2>3, <2>4
       DEF Step, Master, Completion, MainLoop, Hash, Depend, Check, BarrierStart, Return,
       Finalize, Signal, Process, ProcessOver, Update, Delete, Uncount, Help, Take, Steal, Got,
       Miss, Doze, Wake, Leave,
       ReadSequence, Start, Finish, Enqueue, threads
<1>8. sleeping' \in SUBSET Workers /\ executing' \in SUBSET Threads /\ finalize' \in SUBSET Workers
  <2>1. CASE r = 0 /\ Master
    BY <2>1 DEF Master, Insert, Hash, Depend, Check, BarrierStart, Return, Finalize, Signal,
       threads, Inv, TypeOK
  <2>2. CASE Completion(r)
    BY <2>2 DEF Completion, Process, ProcessOver, Update, Delete, Unlink, Uncount, threads, Inv,
       TypeOK
  <2>3. CASE Doze(r)
    BY <2>3 DEF Doze, Inv, TypeOK, Ctl, Napping, Workers
  <2>4. CASE MainLoop(r) /\ ~Doze(r)
    BY <2>4 DEF MainLoop, Help, Take, Steal, Got, Miss, Wake, Leave, ReadSequence, Start,
             Finish, Enqueue, BeginCancel, CancelTask, EndCancel, threads, Inv, TypeOK
  <2> QED
    BY <2>1, <2>2, <2>3, <2>4 DEF Step
<1>9. master' \in [next : Nat \ {0}, dep : Nat, count : Nat, after : {"water", "look", "try"},
                   barrier : BOOLEAN]
  <2>0. /\ master \in [next : Nat \ {0}, dep : Nat, count : Nat, after : {"water", "look", "try"},
                       barrier : BOOLEAN]
        /\ master.next \in Nat \ {0} /\ master.dep \in Nat
    BY DEF Inv, TypeOK
  <2>1. CASE r = 0 /\ Master
    <3>1. CASE Insert \/ Depend
      <4>1. \/ master' = master
            \/ master' = [master EXCEPT !.next = master.next + 1]
            \/ master' = [master EXCEPT !.dep = master.dep + 1]
        BY <3>1 DEF Insert, Depend
      <4> QED
        BY <2>0, <4>1
    <3>1a. CASE Hash
      <4>1. PICK n \in Nat : n = Cardinality(taskSet)
        BY <1>2
      <4>2. master' = [master EXCEPT !.count = n, !.dep = 1]
        BY <3>1a, <4>1 DEF Hash
      <4> QED
        BY <2>0, <4>2
    <3>2. CASE Check
      <4>1. PICK n \in Nat \ {0} : n = master.next + 1
        BY <2>0
      <4>2. master' = master \/ master' = [master EXCEPT !.next = n, !.after = "water"]
        BY <3>2, <4>1 DEF Check
      <4> QED
        BY <2>0, <4>2
    <3>3. CASE BarrierStart
      <4>1. master' = [master EXCEPT !.barrier = TRUE, !.after = "look", !.count = 0]
        BY <3>3 DEF BarrierStart
      <4> QED
        BY <2>0, <4>1
    <3>4. CASE Return
      <4>1. PICK n \in Nat : n = Cardinality(taskSet)
        BY <1>2
      <4>2. \/ master' = [master EXCEPT !.after = "look"]
            \/ master' = [master EXCEPT !.count = n, !.after = "water"]
        BY <3>4, <4>1 DEF Return
      <4> QED
        BY <2>0, <4>2
    <3>5. CASE Finalize \/ Signal
      BY <2>0, <3>5 DEF Finalize, Signal
    <3> QED
      BY <2>1, <3>1, <3>1a, <3>2, <3>3, <3>4, <3>5 DEF Master
  <2>2. CASE Completion(r)
    BY <2>2 DEF Completion, Process, ProcessOver, Update, Delete, Unlink, Uncount, Inv, TypeOK
  <2>3. CASE MainLoop(r)
    BY <2>3 DEF MainLoop, Help, Take, Steal, Got, Miss, Doze, Wake, Leave, ReadSequence, Start,
             Finish, Enqueue, BeginCancel, CancelTask, EndCancel, Inv, TypeOK
  <2> QED
    BY <2>1, <2>2, <2>3 DEF Step
<1> QED
  BY <1>1, <1>3, <1>4, <1>5, <1>6, <1>7, <1>8, <1>9 DEF TypeOK
-----------------------------------------------------------------------------
\* A step changes the variables of one thread.
LEMMA OthersKept ==
  ASSUME Inv, NEW r \in Threads, Step(r), NEW s \in Threads, s # r
  PROVE  /\ pc'[s] = pc[s] /\ mine'[s] = mine[s] /\ job'[s] = job[s]
         /\ s \in sleeping' <=> s \in sleeping
         /\ s \in executing' <=> s \in executing
<1>1. CASE r = 0 /\ Master
  BY <1>1 DEF Master, Insert, Hash, Depend, Check, BarrierStart, Return, Finalize, Signal, Goto,
     threads, Inv, TypeOK
<1>2. CASE Completion(r)
  BY <1>2 DEF Completion, Process, ProcessOver, Update, Delete, Unlink, Uncount, Goto, threads,
     Inv, TypeOK
<1>3. CASE MainLoop(r)
  BY <1>3 DEF MainLoop, Help, Take, Steal, Miss, Doze, Wake, Leave, ReadSequence, Start, Finish,
     Enqueue, BeginCancel, CancelTask, EndCancel, Got, Goto, threads, Inv, TypeOK
<1> QED
  BY <1>1, <1>2, <1>3 DEF Step

\* While its dependencies are inserted a task waits.
LEMMA DependWaits ==
  ASSUME Inv, Depend
  PROVE  /\ q.status[master.next] = "NOTREADY" /\ q.ndep[master.next] > 0
         /\ ~q.dep[master.next][master.dep].ready
<1>1. master.next \in Tasks /\ master.dep \in Arguments(master.next) /\ master.dep \in Nat
  BY DEF Inv, TypeOK, Ctl, Depend
<1>2. ~Came(master.next, master.dep)
  BY <1>1 DEF Came, Depend
<1>3. ~q.dep[master.next][master.dep].ready
  BY <1>1, <1>2 DEF Inv, Deps
<1>4. q.status[master.next] \notin Out
  BY <1>1 DEF Inv, Stages, Known, Out, Depend
<1> QED
  BY <1>1, <1>3, <1>4, UnreadyWaits

\* A completed task has a dependency to process.
LEMMA ProcessIs ==
  ASSUME Inv, NEW r \in Threads, Process(r)
  PROVE  \E t \in Tasks, by \in Threads \cup {Nobody} : \E i \in Arguments(t) :
           /\ Head(completed) = <<t, by>> /\ Names(t, completed)
           /\ i = NextDep(t, 0)
           /\ ~q.dep[t][i].dropped /\ \A j \in Arguments(t) : j < i => q.dep[t][j].dropped
           /\ job' = [job EXCEPT ![r] = [task |-> t, dep |-> i, by |-> by]]
           /\ completed' \in Seq(Tasks \X (Threads \cup {Nobody}))
           /\ NamedOnce(completed')
           /\ \A u : Names(u, completed') <=> Names(u, completed) /\ u # t
<1>1. prog \in Programs /\ completed \in Seq(Tasks \X (Threads \cup {Nobody})) /\ completed # <<>>
      /\ NamedOnce(completed) /\ completed' = Tail(completed) /\ Shaped(q)
  BY DEF Inv, TypeOK, DonePlace, Process
<1>2. /\ Tail(completed) \in Seq(Tasks \X (Threads \cup {Nobody})) /\ NamedOnce(Tail(completed))
      /\ Head(completed) \in Tasks \X (Threads \cup {Nobody}) /\ Names(Head(completed)[1], completed)
      /\ \A t : Names(t, Tail(completed)) <=> Names(t, completed) /\ t # Head(completed)[1]
  BY <1>1, CompletedTail
<1>3. PICK t \in Tasks, by \in Threads \cup {Nobody} : Head(completed) = <<t, by>>
  BY <1>2
<1>4. Head(completed)[1] = t /\ Head(completed)[2] = by
  BY <1>3
<1>5. PICK k \in Arguments(t) : ~q.dep[t][k].dropped
  <2>1. 1 \in Arguments(t)
    BY <1>1, ProgramTypes DEF Arguments
  <2> QED
    BY <2>1 DEF Inv, Covers, Stands
<1>6. \A j \in Arguments(t) : j > 0 /\ j \in Nat
  BY DEF Arguments
<1>7. PICK i \in Arguments(t) :
        /\ i = NextDep(t, 0) /\ ~q.dep[t][i].dropped
        /\ \A j \in Arguments(t) : j < i => q.dep[t][j].dropped
  BY <1>1, <1>5, <1>6, NextDepIs
<1>8. job' = [job EXCEPT ![r] = [task |-> t, dep |-> i, by |-> by]]
  BY <1>4, <1>7 DEF Process
<1> QED
  BY <1>1, <1>2, <1>3, <1>4, <1>7, <1>8
-----------------------------------------------------------------------------
\* At each of these places the master takes the step of that place.
LEMMA DependNext ==
  ASSUME Step(0), pc[0] = "depend"
  PROVE  Depend
BY DEF Step, Completion, MainLoop, Master, Insert, Hash, Check, BarrierStart, Return, Finalize,
   Signal, Process, ProcessOver, Update, Delete, Unlink, Uncount, Help, Take, Steal, Miss, Doze,
Wake, Leave, ReadSequence, Start, Finish, Enqueue, BeginCancel, CancelTask, EndCancel, Got, Hunts

\* Only the insertion of a task changes more of a dependency than whether it is ready.
LEMMA DepsKept ==
  ASSUME Inv, NEW r \in Threads, Step(r), r # 0 \/ pc[0] # "depend"
  PROVE  \A t \in Tasks : \A i \in Arguments(t) : SameBut(q.dep[t][i], q'.dep[t][i])
<1>1. CASE q'.dep = q.dep
  BY <1>1 DEF SameBut
<1>2. CASE Update(r)
  BY <1>2, UpdateIs, Zenon DEF Updated
<1>3. CASE r = 0 /\ Master
  <2>1. CASE Insert
    BY <1>1, <2>1, InsertIs DEF SameDeps
  <2>2. CASE Hash
    BY <1>1, <2>2, HashIs DEF SameDeps
  <2>3. CASE Check
    <3>1. CASE master.next \in freed
      BY <1>1, <2>3, <3>1 DEF Check
    <3> QED
      BY <1>1, <2>3, <3>1, CheckIs
  <2>4. CASE Signal
    BY <1>1, <2>4, SignalIs DEF SameDeps
  <2>5. CASE BarrierStart \/ Return \/ Finalize
    BY <1>1, <2>5 DEF BarrierStart, Return, Finalize
  <2> QED
    BY <1>3, <2>1, <2>2, <2>3, <2>4, <2>5 DEF Master, Depend
<1>4. CASE Completion(r)
  <2>1. CASE Uncount(r)
    BY <1>1, <2>1, UncountedIs DEF SameDeps
  <2> QED
    BY <1>1, <1>2, <1>4, <2>1 DEF Completion, Process, ProcessOver, Delete, Unlink
<1>5. CASE MainLoop(r)
  <2>1. CASE Take(r)
    BY <1>1, <2>1, TakeIs DEF SameDeps
  <2>2. CASE Steal(r)
    BY <1>1, <2>2, StealIs DEF SameDeps
  <2>3. CASE Wake(r)
    BY <1>1, <2>3, WakeIs DEF SameDeps
  <2>4. CASE Start(r)
    BY <1>1, <2>4, StartIs DEF SameDeps
  <2>5. CASE Finish(r)
    BY <1>1, <2>5, FinishIs DEF SameDeps
  <2>6. CASE CancelTask(r)
    BY <1>1, <2>6, CancelTaskIs DEF SameDeps
  <2> QED
    BY <1>1, <1>5, <2>1, <2>2, <2>3, <2>4, <2>5, <2>6
       DEF MainLoop, Help, Miss, Doze, Leave, ReadSequence, Enqueue, BeginCancel, EndCancel
<1> QED
  BY <1>3, <1>4, <1>5 DEF Step

\* A completed task keeps the dependency that is being processed.
LEMMA JobDepKept ==
  ASSUME Inv, NEW r \in Threads, Step(r), NEW s \in Threads, pc[s] = "update"
  PROVE  ~q'.dep[job[s].task][job[s].dep].dropped
<1>1. /\ job[s].task \in Tasks /\ job[s].dep \in Arguments(job[s].task)
      /\ ~q.dep[job[s].task][job[s].dep].dropped /\ q.status[job[s].task] \in Done
  BY DEF Inv, TypeOK, Ctl, JobPlace, Clearing
<1>2. CASE r # 0 \/ pc[0] # "depend"
  BY <1>1, <1>2, DepsKept DEF SameBut
<1>3. CASE r = 0 /\ pc[0] = "depend"
  <2>0. Depend
    BY <1>3, DependNext
  <2>1. job[s].task # master.next
    BY <1>1, <2>0, DependWaits DEF Done
  <2>2. q'.dep[job[s].task][job[s].dep] = q.dep[job[s].task][job[s].dep]
    BY <1>1, <2>0, <2>1, DependIs, ZenonT(20) DEF Arrived
  <2> QED
    BY <1>1, <2>2
<1> QED
  BY <1>2, <1>3

\* What a thread does in a step, as far as its own variables show it.
Own(r) ==
  /\ mine'[r] # None <=> pc'[r] \in Holding
  /\ job'[r].task # None <=> pc'[r] \in Clearing
  /\ pc'[r] = "update" => /\ job'[r].dep \in Arguments(job'[r].task)
                          /\ ~q'.dep[job'[r].task][job'[r].dep].dropped
  /\ pc'[r] # "update" => job'[r].dep = 0
  /\ r \in sleeping' <=> pc'[r] = "asleep"
  /\ r \in executing' <=> pc'[r] \in {"run", "cancel", "flushed"}
  /\ pc'[r] \in {"read", "skip", "cancel", "flushed"} => mine'[r] \in prog.member
  /\ pc'[r] \in {"cancel", "flushed"} => mine'[r] \in prog.fails
  /\ pc'[r] \in Before0 => r = 0

\* A thread keeps what it has.
Keeps(r) == /\ mine'[r] = mine[r] /\ job'[r] = job[r]
            /\ r \in sleeping' <=> r \in sleeping
            /\ r \in executing' <=> r \in executing

\* A step keeps, for the thread that takes it, what Ctl says of a thread.
LEMMA OwnKept ==
  ASSUME Inv, NEW r \in Threads, Step(r)
  PROVE  Own(r)
<1>0. /\ pc \in [Threads -> Before0 \cup Looking \cup Napping \cup Holding \cup Clearing]
      /\ mine \in [Threads -> Tasks \cup {None}]
      /\ job \in [Threads -> [task : Tasks \cup {None}, dep : Nat, by : Threads \cup {Nobody}]]
      /\ sleeping \in SUBSET Workers /\ executing \in SUBSET Threads
      /\ None \notin Tasks /\ 0 \in Threads /\ None \notin prog.member
      /\ prog.fails \in SUBSET prog.member
  <2>1. prog \in Programs /\ 0 \in Threads /\ None \notin Tasks
    BY ThreadsAssumption DEF Inv, TypeOK, Tasks, None, Threads
  <2>2. prog.member \in SUBSET Tasks /\ prog.fails \in SUBSET prog.member
    BY <2>1, ProgramTypes
  <2> QED
    BY <2>1, <2>2 DEF Inv, TypeOK
<1>1. /\ mine[r] # None <=> pc[r] \in Holding
      /\ job[r].task # None <=> pc[r] \in Clearing
      /\ pc[r] = "update" => /\ job[r].dep \in Arguments(job[r].task)
                             /\ ~q.dep[job[r].task][job[r].dep].dropped
      /\ pc[r] # "update" => job[r].dep = 0
      /\ r \in sleeping <=> pc[r] = "asleep"
      /\ r \in executing <=> pc[r] \in {"run", "cancel", "flushed"}
      /\ pc[r] \in {"read", "skip", "cancel", "flushed"} => mine[r] \in prog.member
      /\ pc[r] \in {"cancel", "flushed"} => mine[r] \in prog.fails
      /\ pc[r] \in Before0 => r = 0
  BY DEF Inv, Ctl
<1>2. CASE r = 0 /\ Master
  <2>1. Keeps(r) /\ pc[r] \in Before0 /\ pc'[r] \in Before0 \cup {"process"}
    BY <1>0, <1>2 DEF Keeps, Master, Insert, Hash, Depend, Check, BarrierStart, Return, Finalize,
       Signal, Goto, threads, Before0
  <2> QED
    BY <1>1, <1>2, <2>1 DEF Own, Keeps, Before0, Looking, Napping, Holding, Clearing
<1>3. CASE Process(r)
  <2>1. PICK t \in Tasks, by \in Threads \cup {Nobody}, i \in Nat :
           /\ i \in Arguments(t) /\ ~q.dep[t][i].dropped
           /\ job' = [job EXCEPT ![r] = [task |-> t, dep |-> i, by |-> by]]
    BY <1>3, ProcessIs DEF Arguments
  <2>2. /\ pc[r] = "process" /\ pc'[r] = "update" /\ mine'[r] = mine[r]
        /\ r \in sleeping' <=> r \in sleeping
        /\ r \in executing' <=> r \in executing
        /\ q' = q
    BY <1>0, <1>3 DEF Process, Goto
  <2>3. job'[r].task = t /\ job'[r].dep = i
    BY <1>0, <2>1
  <2> QED
    BY <1>0, <1>1, <2>1, <2>2, <2>3 DEF Own, Before0, Looking, Napping, Holding, Clearing
<1>4. CASE Update(r)
  <2>1. job[r].task \in Tasks /\ job[r].dep \in Arguments(job[r].task) /\ prog \in Programs /\ Shaped(q)
    BY <1>4, UpdateIs DEF Inv, TypeOK
  <2>2. PICK i \in Nat : i = NextDep(job[r].task, job[r].dep)
    BY <2>1, NextDepIs DEF Arguments
  <2>3. i = 0 \/ (i \in Arguments(job[r].task) /\ ~q.dep[job[r].task][i].dropped)
    <3>1. job[r].dep \in Nat
      BY <2>1 DEF Arguments
    <3> QED
      BY <2>1, <2>2, <3>1, NextDepIs
  <2>4. i # 0 => ~q'.dep[job[r].task][i].dropped
    <3>1. r # 0 \/ pc[0] # "depend"
      BY <1>4 DEF Update
    <3> QED
      BY <2>1, <2>3, <3>1, DepsKept DEF SameBut
  <2>5. /\ job' = [job EXCEPT ![r].dep = i]
        /\ IF i = 0 THEN Goto(r, "delete") ELSE UNCHANGED pc
    BY <1>4, <2>2 DEF Update
  <2>6. 0 \notin Arguments(job[r].task)
    BY DEF Arguments
  <2>7. /\ pc[r] = "update" /\ pc'[r] = IF i = 0 THEN "delete" ELSE "update"
        /\ mine'[r] = mine[r]
        /\ r \in sleeping' <=> r \in sleeping
        /\ r \in executing' <=> r \in executing
    BY <1>0, <1>4, <2>5 DEF Update, Goto
  <2>8. job'[r].task = job[r].task /\ job'[r].dep = i
    BY <1>0, <2>5
  <2> QED
    BY <1>0, <1>1, <2>1, <2>3, <2>4, <2>7, <2>8 DEF Own, Before0, Looking, Napping, Holding,
       Clearing
<1>5. CASE ProcessOver(r)
  <2>1. Keeps(r) /\ pc[r] = "process" /\ pc'[r] \in {"try", "look", "insert"} /\ (pc'[r] = "insert" => r = 0)
    BY <1>0, <1>5 DEF Keeps, ProcessOver, Goto, threads, Inv, TypeOK
  <2> QED
    BY <1>0, <1>1, <2>1 DEF Own, Keeps, Before0, Looking, Napping, Holding, Clearing
<1>6. CASE Delete(r)
  <2>1. Keeps(r) /\ pc[r] = "delete" /\ pc'[r] = "unlink"
    BY <1>0, <1>6 DEF Keeps, Delete, Goto, threads
  <2> QED
    BY <1>0, <1>1, <2>1 DEF Own, Keeps, Before0, Looking, Napping, Holding, Clearing
<1>7. CASE Unlink(r)
  <2>1. Keeps(r) /\ pc[r] = "unlink" /\ pc'[r] = "uncount"
    BY <1>0, <1>7 DEF Keeps, Unlink, Goto, threads
  <2> QED
    BY <1>0, <1>1, <2>1 DEF Own, Keeps, Before0, Looking, Napping, Holding, Clearing
<1>8. CASE Uncount(r)
  <2>1. /\ pc[r] = "uncount" /\ pc'[r] = "process" /\ job'[r] = [task |-> None, dep |-> 0, by |-> 0]
        /\ mine'[r] = mine[r]
        /\ r \in sleeping' <=> r \in sleeping
        /\ r \in executing' <=> r \in executing
    BY <1>0, <1>8 DEF Keeps, Uncount, Goto
  <2> QED
    BY <1>0, <1>1, <2>1 DEF Own, Keeps, Before0, Looking, Napping, Holding, Clearing
<1>9. CASE Help(r)
  <2>1. Keeps(r) /\ pc[r] = "look" /\ pc'[r] = "process"
    BY <1>0, <1>9 DEF Keeps, Help, Goto, threads
  <2> QED
    BY <1>0, <1>1, <2>1 DEF Own, Keeps, Before0, Looking, Napping, Holding, Clearing
<1>10. CASE Take(r)
  <2>1. /\ pc[r] \in {"look", "try"} /\ mine'[r] \in Tasks /\ job'[r] = job[r]
        /\ pc'[r] = IF mine'[r] \in prog.member THEN "read" ELSE "start"
        /\ r \in sleeping' <=> r \in sleeping
        /\ r \in executing' <=> r \in executing
    BY <1>0, <1>10, TakeIs DEF Keeps, Take, Got, Hunts, Goto
  <2> QED
    BY <1>0, <1>1, <2>1 DEF Own, Keeps, Before0, Looking, Napping, Holding, Clearing
<1>11. CASE Steal(r)
  <2>1. /\ pc[r] \in {"look", "try"} /\ mine'[r] \in Tasks /\ job'[r] = job[r]
        /\ pc'[r] = IF mine'[r] \in prog.member THEN "read" ELSE "start"
        /\ r \in sleeping' <=> r \in sleeping
        /\ r \in executing' <=> r \in executing
    BY <1>0, <1>11, StealIs DEF Keeps, Steal, Got, Hunts, Goto
  <2> QED
    BY <1>0, <1>1, <2>1 DEF Own, Keeps, Before0, Looking, Napping, Holding, Clearing
<1>12. CASE Miss(r)
  <2>1. Keeps(r) /\ pc[r] \in {"look", "try"} /\ pc'[r] \in {"look", "doze", "return"} /\ (pc'[r] = "return" => r = 0)
    BY <1>0, <1>12 DEF Keeps, Miss, Hunts, Goto
  <2> QED
    BY <1>0, <1>1, <2>1 DEF Own, Keeps, Before0, Looking, Napping, Holding, Clearing
<1>13. CASE Doze(r)
  <2>1. /\ pc[r] = "doze" /\ mine'[r] = mine[r] /\ job'[r] = job[r]
        /\ r \in executing' <=> r \in executing
        /\ \/ pc'[r] = "asleep" /\ r \in sleeping'
           \/ pc'[r] = "look" /\ r \notin sleeping'
    BY <1>0, <1>1, <1>13 DEF Keeps, Doze, Goto
  <2> QED
    BY <1>0, <1>1, <2>1 DEF Own, Keeps, Before0, Looking, Napping, Holding, Clearing
<1>14. CASE Wake(r)
  <2>1. /\ pc[r] = "asleep" /\ mine'[r] = mine[r] /\ job'[r] = job[r]
        /\ r \in executing' <=> r \in executing
        /\ \/ pc'[r] = "asleep" /\ r \in sleeping'
           \/ pc'[r] = "look" /\ r \notin sleeping'
    BY <1>0, <1>1, <1>14 DEF Keeps, Wake, Goto
  <2> QED
    BY <1>0, <1>1, <2>1 DEF Own, Keeps, Before0, Looking, Napping, Holding, Clearing
<1>15. CASE Leave(r)
  <2>1. Keeps(r) /\ pc[r] = "look" /\ pc'[r] = "left"
    BY <1>0, <1>15 DEF Keeps, Leave, Goto
  <2> QED
    BY <1>0, <1>1, <2>1 DEF Own, Keeps, Before0, Looking, Napping, Holding, Clearing
<1>16. CASE ReadSequence(r)
  <2>1. Keeps(r) /\ pc[r] = "read" /\ pc'[r] \in {"skip", "start"}
    BY <1>0, <1>16 DEF Keeps, ReadSequence, Goto, threads
  <2> QED
    BY <1>0, <1>1, <2>1 DEF Own, Keeps, Before0, Looking, Napping, Holding, Clearing
<1>17. CASE Start(r)
  <2>1. /\ pc[r] \in {"start", "skip"} /\ mine'[r] = mine[r] /\ job'[r] = job[r]
        /\ r \in sleeping' <=> r \in sleeping
        /\ \/ pc'[r] = "enqueue" /\ r \notin executing'
           \/ pc'[r] = "run" /\ r \in executing'
    BY <1>0, <1>1, <1>17 DEF Keeps, Start, Goto
  <2> QED
    BY <1>0, <1>1, <2>1 DEF Own, Keeps, Before0, Looking, Napping, Holding, Clearing
<1>18. CASE Finish(r)
  <2>1. /\ pc[r] \in {"run", "flushed"} /\ pc'[r] = "enqueue" /\ mine'[r] = mine[r] /\ job'[r] = job[r]
        /\ r \in sleeping' <=> r \in sleeping
        /\ r \notin executing'
    BY <1>0, <1>18 DEF Keeps, Finish, Goto
  <2> QED
    BY <1>0, <1>1, <2>1 DEF Own, Keeps, Before0, Looking, Napping, Holding, Clearing
<1>19. CASE Enqueue(r)
  <2>1. /\ pc[r] = "enqueue" /\ pc'[r] = IF r = 0 THEN "return" ELSE "look"
        /\ mine'[r] = None /\ job'[r] = job[r]
        /\ r \in sleeping' <=> r \in sleeping
        /\ r \in executing' <=> r \in executing
    BY <1>0, <1>19 DEF Keeps, Enqueue, Goto
  <2> QED
    BY <1>0, <1>1, <2>1 DEF Own, Keeps, Before0, Looking, Napping, Holding, Clearing
<1>20. CASE BeginCancel(r)
  <2>1. Keeps(r) /\ pc[r] = "run" /\ mine[r] \in prog.fails /\ pc'[r] \in {"cancel", "flushed"}
    BY <1>0, <1>20 DEF Keeps, BeginCancel, Goto, threads
  <2> QED
    BY <1>0, <1>1, <2>1 DEF Own, Keeps, Before0, Looking, Napping, Holding, Clearing
<1>21. CASE CancelTask(r)
  <2>1. Keeps(r) /\ pc[r] = "cancel" /\ pc'[r] = "cancel"
    BY <1>0, <1>21 DEF Keeps, CancelTask, threads
  <2> QED
    BY <1>0, <1>1, <2>1 DEF Own, Keeps, Before0, Looking, Napping, Holding, Clearing
<1>22. CASE EndCancel(r)
  <2>1. Keeps(r) /\ pc[r] = "cancel" /\ pc'[r] = "flushed"
    BY <1>0, <1>22 DEF Keeps, EndCancel, Goto, threads
  <2> QED
    BY <1>0, <1>1, <2>1 DEF Own, Keeps, Before0, Looking, Napping, Holding, Clearing
<1> QED
  BY <1>2, <1>3, <1>4, <1>5, <1>6, <1>7, <1>8, <1>9, <1>10, <1>11, <1>12, <1>13, <1>14, <1>15,
     <1>16, <1>17, <1>18, <1>19, <1>20, <1>21, <1>22 DEF Step, Completion, MainLoop
-----------------------------------------------------------------------------
\* Where the master is, and who is told to leave.
MasterCtl ==
  /\ pc[0] \notin Napping
  /\ pc[0] \in {"hash", "depend", "check", "fault"} => master.next \in Tasks
  /\ pc[0] \in {"insert", "hash", "depend", "check", "fault"} => ~master.barrier
  /\ pc[0] = "depend" => master.dep \in Arguments(master.next)
  /\ master.barrier => master.next \notin Tasks /\ master.after # "water"
  /\ pc[0] \in {"finalize", "signal", "over"} => master.barrier /\ taskSet = {}
LeaveCtl ==
  /\ pc[0] \notin {"signal", "over"} => finalize = {} /\ \A w \in Workers : pc[w] # "left"
  /\ pc[0] \in {"signal", "over"} => \A w \in Workers : w \in finalize <=> pc[w] # "left"

\* Every step keeps what Ctl says of the master.
LEMMA MasterCtlKept ==
  ASSUME Inv, NEW r \in Threads, Step(r)
  PROVE  MasterCtl'
<1>0. /\ pc \in [Threads -> Before0 \cup Looking \cup Napping \cup Holding \cup Clearing]
      /\ master \in [next : Nat \ {0}, dep : Nat, count : Nat, after : {"water", "look", "try"},
                     barrier : BOOLEAN]
      /\ 0 \in Threads /\ MasterCtl /\ Tasks' = Tasks
      /\ \A t : Arguments(t)' = Arguments(t)
      /\ finalize \in SUBSET Workers /\ prog' = prog
      /\ master.next \in Nat /\ master.dep \in Nat
  BY ThreadsAssumption, GivenKept, SameGiven DEF Inv, TypeOK, Ctl, MasterCtl, Threads
<1>1. CASE Insert
  <2>1. /\ pc[0] = "insert" /\ master.next \in Tasks
        /\ \/ pc' = pc /\ master' = [master EXCEPT !.next = master.next + 1]
           \/ pc' = [pc EXCEPT ![0] = "hash"] /\ master' = master
    BY <1>1 DEF Insert, Goto
  <2> QED
    BY <1>0, <2>1 DEF MasterCtl, Napping
<1>2. CASE Hash
  <2>1. PICK n : /\ pc[0] = "hash" /\ master' = [master EXCEPT !.count = n, !.dep = 1]
                 /\ pc' = [pc EXCEPT ![0] = "depend"]
    BY <1>2 DEF Hash, Goto
  <2>2. master.next \in Tasks /\ 1 \in Arguments(master.next)
    BY <1>0, <2>1, ProgramTypes DEF MasterCtl, Arguments, Inv, TypeOK
  <2> QED
    BY <1>0, <2>1, <2>2 DEF MasterCtl, Napping
<1>3. CASE Depend
  <2>1. /\ pc[0] = "depend" /\ master' = [master EXCEPT !.dep = master.dep + 1]
        /\ IF master.dep = Len(prog.args[master.next]) THEN pc' = [pc EXCEPT ![0] = "check"] ELSE pc' = pc
    BY <1>3 DEF Depend, Goto
  <2>2. pc' = pc => master.dep + 1 \in Arguments(master.next)
    <3>1. master.next \in Tasks /\ master.dep \in 1 .. Len(prog.args[master.next]) /\ Len(prog.args[master.next]) \in Nat
      BY <1>0, <2>1, ProgramTypes DEF MasterCtl, Arguments, Inv, TypeOK
    <3>2. pc' = pc => master.dep # Len(prog.args[master.next])
      BY <1>0, <2>1
    <3> QED
      BY <3>1, <3>2 DEF Arguments
  <2> QED
    BY <1>0, <2>1, <2>2 DEF MasterCtl, Napping
<1>4. CASE Check
  <2>1. /\ pc[0] = "check"
        /\ \/ pc' = [pc EXCEPT ![0] = "fault"] /\ master' = master
           \/ /\ pc' = [pc EXCEPT ![0] = "process"]
              /\ master' = [master EXCEPT !.next = master.next + 1, !.after = "water"]
    BY <1>4 DEF Check, Goto
  <2> QED
    BY <1>0, <2>1 DEF MasterCtl, Napping
<1>5. CASE BarrierStart
  <2>1. /\ pc[0] = "insert" /\ master.next \notin Tasks
        /\ master' = [master EXCEPT !.barrier = TRUE, !.after = "look", !.count = 0]
        /\ pc' = [pc EXCEPT ![0] = "process"]
    BY <1>5 DEF BarrierStart, Goto
  <2> QED
    BY <1>0, <2>1 DEF MasterCtl, Napping
<1>6. CASE Return
  <2>0. taskSet' = taskSet /\ taskSet \in SUBSET Tasks /\ prog \in Programs
    BY <1>6 DEF Return, Inv, TypeOK
  <2>1. PICK n : /\ n = Cardinality(taskSet) /\ pc[0] = "return"
                 /\ \/ master.barrier /\ master' = [master EXCEPT !.after = "look"]
                    \/ ~master.barrier /\ master' = [master EXCEPT !.count = n, !.after = "water"]
                 /\ \/ pc' = [pc EXCEPT ![0] = "finalize"] /\ master.barrier /\ n = 0
                    \/ pc' = [pc EXCEPT ![0] = "process"]
    BY <1>6 DEF Return, Goto
  <2>2. n = 0 => taskSet = {}
    BY <2>0, <2>1, TasksFinite, FS_EmptySet
  <2> QED
    BY <1>0, <2>0, <2>1, <2>2 DEF MasterCtl, Napping
<1>7. CASE Finalize
  <2>1. /\ pc[0] = "finalize" /\ pc' = [pc EXCEPT ![0] = "signal"] /\ master' = master /\ taskSet' = taskSet
    BY <1>7 DEF Finalize, Goto
  <2> QED
    BY <1>0, <2>1 DEF MasterCtl, Napping
<1>8. CASE Signal
  <2>1. /\ pc[0] = "signal" /\ pc' = [pc EXCEPT ![0] = "over"] /\ master' = master /\ taskSet' = taskSet
    BY <1>8 DEF Signal, Goto
  <2> QED
    BY <1>0, <2>1 DEF MasterCtl, Napping
<1>9. CASE Completion(r) \/ MainLoop(r)
  <2>1. Apart
    BY <1>9, Bystander DEF Step
  <2>2. taskSet' = taskSet \/ taskSet' = taskSet \ {job[r].task}
    BY <1>9 DEF Completion, Process, ProcessOver, Update, Delete, Unlink, Uncount, MainLoop, Help,
       Take, Steal, Miss, Doze, Wake, Leave, ReadSequence, Start, Finish, Enqueue, BeginCancel,
    CancelTask, EndCancel, Got
  <2>3. \/ master' = master
        \/ r = 0 /\ pc[0] = "look" /\ master' = [master EXCEPT !.after = "try"]
    BY <1>9 DEF Completion, Process, ProcessOver, Update, Delete, Unlink, Uncount, MainLoop, Help,
       Take, Steal, Miss, Doze, Wake, Leave, ReadSequence, Start, Finish, Enqueue, BeginCancel,
    CancelTask, EndCancel, Got
  <2>4. master'.barrier = master.barrier
    BY <1>0, <2>3
  <2>5. master.after # "water" => master'.after # "water"
    BY <1>0, <2>3
  <2>6. pc'[0] \in {"insert", "finalize", "signal", "over"} =>
           pc'[0] = pc[0] \/ (pc'[0] = "insert" /\ master.after = "water")
    <3>1. CASE r = 0
      <4>1. CASE Completion(0)
        BY <1>0, <4>1 DEF Completion, Process, ProcessOver, Update, Delete, Unlink, Uncount, Goto
      <4>2. CASE MainLoop(0)
        BY <1>0, <4>2 DEF MainLoop, Help, Take, Steal, Miss, Doze, Wake, Leave, ReadSequence,
           Start, Finish, Enqueue, BeginCancel, CancelTask, EndCancel, Got, Goto
      <4> QED
        BY <1>9, <3>1, <4>1, <4>2
    <3>2. CASE r # 0
      BY <1>0, <3>2, OthersKept
    <3> QED
      BY <3>1, <3>2
  <2>7. pc'[0] \notin Napping
    <3>1. CASE r = 0
      <4>1. CASE Completion(0)
        BY <1>0, <4>1 DEF Completion, Process, ProcessOver, Update, Delete, Unlink, Uncount, Goto,
           MasterCtl, Napping
      <4>2. CASE MainLoop(0)
        BY <1>0, <4>2 DEF MainLoop, Help, Take, Steal, Miss, Doze, Wake, Leave, ReadSequence,
           Start, Finish, Enqueue, BeginCancel, CancelTask, EndCancel, Got, Goto, MasterCtl,
        Napping, Workers
      <4> QED
        BY <1>9, <3>1, <4>1, <4>2
    <3>2. CASE r # 0
      BY <1>0, <3>2, OthersKept DEF MasterCtl
    <3> QED
      BY <3>1, <3>2
  <2>8. ~master.barrier \/ master.after # "water"
    BY <1>0 DEF MasterCtl
  <2> QED
    BY <1>0, <2>1, <2>2, <2>4, <2>5, <2>6, <2>7, <2>8 DEF MasterCtl, Apart
<1> QED
  BY <1>1, <1>2, <1>3, <1>4, <1>5, <1>6, <1>7, <1>8, <1>9 DEF Step, Master

\* Every step keeps what Ctl says of the workers that leave.
LEMMA LeaveCtlKept ==
  ASSUME Inv, NEW r \in Threads, Step(r)
  PROVE  LeaveCtl'
<1>0. /\ pc \in [Threads -> Before0 \cup Looking \cup Napping \cup Holding \cup Clearing]
      /\ 0 \in Threads /\ LeaveCtl
      /\ finalize \in SUBSET Workers /\ Workers \in SUBSET Threads /\ 0 \notin Workers
  <2>1. 0 \in Threads /\ Workers \in SUBSET Threads /\ 0 \notin Workers
    BY ThreadsAssumption DEF Threads, Workers
  <2>2. LeaveCtl
    BY DEF Inv, Ctl, LeaveCtl
  <2>3. /\ pc \in [Threads -> Before0 \cup Looking \cup Napping \cup Holding \cup Clearing]
        /\ finalize \in SUBSET Workers
    BY DEF Inv, TypeOK
  <2> QED
    BY <2>1, <2>2, <2>3
<1>1. CASE Finalize
  <2>1. pc[0] = "finalize" /\ pc' = [pc EXCEPT ![0] = "signal"] /\ finalize' = Workers
    BY <1>1 DEF Finalize, Goto
  <2> QED
    BY <1>0, <2>1 DEF LeaveCtl
<1>2. CASE Signal
  <2>1. pc[0] = "signal" /\ pc' = [pc EXCEPT ![0] = "over"] /\ finalize' = finalize
    BY <1>2 DEF Signal, Goto, threads
  <2> QED
    BY <1>0, <2>1 DEF LeaveCtl
<1>3. CASE Leave(r)
  <2>1. /\ pc[r] = "look" /\ r \in finalize /\ pc' = [pc EXCEPT ![r] = "left"] /\ finalize' = finalize \ {r}
    BY <1>3 DEF Leave, Goto
  <2> QED
    BY <1>0, <2>1 DEF LeaveCtl
<1>4. CASE ~Finalize /\ ~Signal /\ ~Leave(r)
  <2>1. /\ finalize' = finalize
        /\ \/ pc' = pc
           \/ \E l : /\ pc' = [pc EXCEPT ![r] = l] /\ l \notin {"left", "signal", "over"}
                     /\ pc[r] \notin {"left", "signal", "over"}
    <3>1. CASE r = 0 /\ Master
      BY <1>4, <3>1 DEF Master, Insert, Hash, Depend, Check, BarrierStart, Return, Goto, threads
    <3>2. CASE Completion(r)
      BY <3>2 DEF Completion, Process, ProcessOver, Update, Delete, Unlink, Uncount, Goto,
         threads, Inv, TypeOK
    <3>3. CASE MainLoop(r)
      BY <1>4, <3>3 DEF MainLoop, Help, Take, Steal, Miss, Doze, Wake, ReadSequence, Start,
         Finish, Enqueue, BeginCancel, CancelTask, EndCancel, Got, Hunts, Goto, threads
    <3> QED
      BY <3>1, <3>2, <3>3 DEF Step
  <2> QED
    BY <1>0, <2>1 DEF LeaveCtl
<1> QED
  BY <1>1, <1>2, <1>3, <1>4

\* Every step preserves Ctl.
LEMMA CtlKept ==
  ASSUME Inv, NEW r \in Threads, Step(r)
  PROVE  Ctl'
<1>0. prog' = prog /\ Tasks' = Tasks /\ \A t : Arguments(t)' = Arguments(t)
  BY GivenKept, SameGiven
<1>1. ASSUME NEW s \in Threads
      PROVE  /\ mine'[s] # None <=> pc'[s] \in Holding
             /\ job'[s].task # None <=> pc'[s] \in Clearing
             /\ pc'[s] = "update" => /\ job'[s].dep \in Arguments(job'[s].task)
                                     /\ ~q'.dep[job'[s].task][job'[s].dep].dropped
             /\ pc'[s] # "update" => job'[s].dep = 0
             /\ s \in sleeping' <=> pc'[s] = "asleep"
             /\ s \in executing' <=> pc'[s] \in {"run", "cancel", "flushed"}
             /\ pc'[s] \in {"read", "skip", "cancel", "flushed"} => mine'[s] \in prog.member
             /\ pc'[s] \in {"cancel", "flushed"} => mine'[s] \in prog.fails
             /\ pc'[s] \in Before0 => s = 0
  <2>1. CASE s = r
    BY <2>1, OwnKept DEF Own
  <2>2. CASE s # r
    BY <2>2, OthersKept, JobDepKept DEF Inv, Ctl
  <2> QED
    BY <2>1, <2>2
<1>2. MasterCtl' /\ LeaveCtl'
  BY MasterCtlKept, LeaveCtlKept
<1> QED
  BY <1>0, <1>1, <1>2 DEF Ctl, MasterCtl, LeaveCtl
-----------------------------------------------------------------------------
\* Most steps do not change the states of the tasks and their dependencies.
LEMMA StatusKept ==
  ASSUME Inv, NEW r \in Threads, Step(r),
         r = 0 => ~Insert /\ ~Hash /\ ~Depend /\ ~Check,
         ~Update(r), ~Start(r), ~Finish(r)
  PROVE  /\ q'.status = q.status /\ q'.ndep = q.ndep /\ q'.dep = q.dep /\ q'.list = q.list
         /\ Apart
<1>1. CASE r = 0 /\ (BarrierStart \/ Return \/ Finalize)
  <2>1. q' = q
    BY <1>1 DEF BarrierStart, Return, Finalize
  <2>2. Apart
    BY <1>1 DEF Apart, BarrierStart, Return, Finalize, Goto, Inv, TypeOK
  <2> QED
    BY <2>1, <2>2
<1>2. CASE r = 0 /\ Signal
  <2>1. Apart
    BY <1>2 DEF Apart, Signal, Goto, Inv, TypeOK
  <2> QED
    BY <1>2, <2>1, SignalIs DEF SameDeps, SameStatus
<1>3. CASE Completion(r)
  <2>1. Apart
    BY <1>3, Bystander DEF Step
  <2>2. CASE Uncount(r)
    BY <2>1, <2>2, UncountedIs DEF SameDeps, SameStatus
  <2> QED
    BY <1>3, <2>1, <2>2 DEF Completion, Process, ProcessOver, Delete, Unlink
<1>4. CASE MainLoop(r)
  <2>0. Apart
    BY <1>4, Bystander DEF Step
  <2>1. CASE Take(r)
    BY <2>0, <2>1, TakeIs DEF SameDeps, SameStatus
  <2>2. CASE Steal(r)
    BY <2>0, <2>2, StealIs DEF SameDeps, SameStatus
  <2>3. CASE Wake(r)
    BY <2>0, <2>3, WakeIs DEF SameDeps, SameStatus
  <2>4. CASE CancelTask(r)
    BY <2>0, <2>4, CancelTaskIs DEF SameDeps, SameStatus
  <2> QED
    BY <1>4, <2>0, <2>1, <2>2, <2>3, <2>4
       DEF MainLoop, Help, Miss, Doze, Leave, ReadSequence, Enqueue, BeginCancel, EndCancel
<1> QED
  BY <1>1, <1>2, <1>3, <1>4 DEF Step, Master

\* A cancelled sequence stays cancelled.
LEMMA OffKept ==
  ASSUME Inv, NEW r \in Threads, Step(r)
  PROVE  seq.off => seq'.off
<1>1. seq \in [off : BOOLEAN, owner : Threads \cup {Nobody}, tasks : SUBSET prog.member,
               rest : SUBSET prog.member]
  BY DEF Inv, TypeOK
<1>2. CASE seq' = seq
  BY <1>2
<1>3. CASE Insert
  <2>1. seq' = seq \/ \E T : seq' = [seq EXCEPT !.tasks = T]
    BY <1>3 DEF Insert
  <2> QED
    BY <1>1, <2>1
<1>4. CASE Unlink(r)
  <2>1. \E T : seq' = [seq EXCEPT !.tasks = T]
    BY <1>4 DEF Unlink
  <2> QED
    BY <1>1, <2>1
<1>5. CASE BeginCancel(r)
  <2>1. seq' = seq \/ seq' = [seq EXCEPT !.off = TRUE, !.owner = r, !.rest = seq.tasks]
    BY <1>5 DEF BeginCancel
  <2> QED
    BY <1>1, <2>1
<1>6. CASE CancelTask(r) \/ EndCancel(r)
  <2>1. (\E T : seq' = [seq EXCEPT !.rest = T]) \/ seq' = [seq EXCEPT !.owner = Nobody]
    BY <1>6 DEF CancelTask, EndCancel
  <2> QED
    BY <1>1, <2>1
<1> QED
  BY <1>2, <1>3, <1>4, <1>5, <1>6
     DEF Step, Master, Completion, MainLoop, Hash, Depend, Check, BarrierStart, Return, Finalize,
        Signal, Process, ProcessOver, Update, Delete, Uncount, Help, Take, Steal, Miss, Doze,
     Wake, Leave, ReadSequence, Start, Finish, Enqueue, Got

\* A dependency that becomes ready is one of a waiting task.
LEMMA UpdatedWaits ==
  ASSUME Inv, NEW t \in Tasks, NEW i \in Arguments(t), q.dep[t][i].addr \in prog.addrs,
         NEW D, Updated(t, i, D), NEW d \in D
  PROVE  /\ d[1] \in Tasks /\ d[2] \in Arguments(d[1]) /\ d = <<d[1], d[2]>>
         /\ ~q.dep[d[1]][d[2]].ready /\ Came(d[1], d[2]) /\ ~Gone(d[1], d[2])
         /\ q.dep[d[1]][d[2]].addr = q.dep[t][i].addr /\ ~q.dep[d[1]][d[2]].dropped
         /\ q.status[d[1]] = "NOTREADY" /\ q.ndep[d[1]] > 0
<1>1. d \in q.list[q.dep[t][i].addr] /\ ~Of(q, d).ready
  BY DEF Updated
<1>2. d[1] \in Tasks /\ d[2] \in Arguments(d[1])
  BY <1>1 DEF Inv, Lists
<1>3. d = <<d[1], d[2]>>
  <2>1. q.list[q.dep[t][i].addr] \in SUBSET (Nat \X Nat)
    BY DEF Inv, TypeOK, Shaped, Nodes
  <2> QED
    BY <1>1, <2>1
<1>4. Waits(d[1], d[2], q.dep[t][i].addr)
  BY <1>1, <1>2, <1>3 DEF Inv, Lists
<1>5. q.status[d[1]] \notin Out
  BY <1>4 DEF Waits, Came
<1> QED
  BY <1>1, <1>2, <1>3, <1>4, <1>5, UnreadyWaits DEF Waits, Of

\* What the processing of one dependency does to the states of the tasks.
LEMMA UpdateStatus ==
  ASSUME Inv, NEW r \in Threads, Update(r)
  PROVE  \E S \in SUBSET Tasks :
           /\ Queued(S)
           /\ \A t \in Tasks : q.status[t] # "NOTREADY" => q'.ndep[t] = q.ndep[t] /\ t \notin S
<1>1. /\ job[r].task \in Tasks /\ job[r].dep \in Arguments(job[r].task)
      /\ q.dep[job[r].task][job[r].dep].addr \in prog.addrs
  BY UpdateIs
<1>2. PICK D, S : Updated(job[r].task, job[r].dep, D) /\ Queued(S)
  BY UpdateIs
<1>3. \A d \in D : q.status[d[1]] = "NOTREADY"
  BY <1>1, <1>2, UpdatedWaits
<1>4. \A t \in Tasks : q.status[t] # "NOTREADY" => q'.ndep[t] = q.ndep[t]
  BY <1>2, <1>3 DEF Updated
<1>5. S \in SUBSET Tasks /\ \A t \in Tasks : q.status[t] # "NOTREADY" => t \notin S
  BY <1>2 DEF Queued
<1> QED
  BY <1>2, <1>4, <1>5
-----------------------------------------------------------------------------
\* What the stages of one task are.
Stage(t) ==
  /\ Known(t) <=> q.status[t] # "NEW"
  /\ t \in taskSet <=> q.status[t] \notin Out /\ t \notin freed
  /\ t \in freed => q.status[t] \in Done
  /\ q.status[t] \in Past => q.ndep[t] = 0
  /\ q.status[t] \in {"REJECTED", "CANCELLED"} => t \in prog.member /\ seq.off
  /\ ~q.live[t] => t \in prog.member /\ seq.off
Entering == pc[0] \in {"depend", "check", "fault"} => q.status[master.next] # "REJECTED"

\* Every step keeps Stages.
LEMMA StagesKept ==
  ASSUME Inv, NEW r \in Threads, Step(r)
  PROVE  Stages'
<1>0. /\ prog' = prog /\ Tasks' = Tasks /\ (seq.off => seq'.off)
      /\ Tasks \in SUBSET Nat /\ master.next \in Nat \ {0} /\ prog \in Programs
  <2>1. prog \in Programs /\ master.next \in Nat \ {0}
    BY DEF Inv, TypeOK
  <2> QED
    BY <2>1, GivenKept, SameGiven, OffKept, TasksFinite
<1>1. (\A t \in Tasks : Stage(t)) /\ Entering
  BY DEF Inv, Stages, Stage, Entering
<1>2. q.status \in [Tasks -> Statuses] /\ pc \in [Threads -> Before0 \cup Looking \cup Napping \cup Holding \cup Clearing] /\ 0 \in Threads
  <2>1. 0 \in Threads
    BY ThreadsAssumption DEF Threads
  <2>2. q \in Nodes
    BY DEF Inv, TypeOK, Shaped
  <2> QED
    BY <2>1, <2>2 DEF Inv, TypeOK, Nodes
<1>a. CASE Insert
  <2>1. CASE master.next \in prog.member /\ seq.off
    <3>1. /\ master'.next = master.next + 1 /\ pc' = pc /\ pc[0] = "insert"
          /\ taskSet' = taskSet /\ freed' = freed
      BY <1>a, <2>1 DEF Insert, Inv, TypeOK
    <3>2. /\ master.next \in Tasks /\ q'.ndep = q.ndep /\ q'.live = q.live
          /\ \A u \in Tasks : q'.status[u] = IF u = master.next THEN "REJECTED" ELSE q.status[u]
      BY <1>a, <2>1, InsertIs DEF SameDeps
    <3>3. q.status[master.next] = "NEW"
      BY <1>0, <1>1, <3>1, <3>2 DEF Stage, Known
    <3>4. \A t \in Tasks : Stage(t)'
      <4> TAKE t \in Tasks
      <4>1. Stage(t)
        BY <1>1
      <4>2. CASE t = master.next
        BY <1>0, <2>1, <3>1, <3>2, <3>3, <4>1, <4>2 DEF Stage, Known, Out, Past, Done
      <4>3. CASE t # master.next
        BY <1>0, <3>1, <3>2, <4>1, <4>3 DEF Stage, Known
      <4> QED
        BY <4>2, <4>3
    <3> QED
      BY <1>0, <3>1, <3>4 DEF Stages, Stage
  <2>2. CASE ~(master.next \in prog.member /\ seq.off)
    <3>1. /\ master' = master /\ pc' = [pc EXCEPT ![0] = "hash"] /\ pc[0] = "insert" /\ q' = q
          /\ taskSet' = taskSet /\ freed' = freed
      BY <1>a, <2>2 DEF Insert, Goto
    <3>2. \A t \in Tasks : Stage(t)'
      BY <1>0, <1>1, <1>2, <3>1 DEF Stage, Known
    <3> QED
      BY <1>0, <1>2, <3>1, <3>2 DEF Stages, Stage
  <2> QED
    BY <2>1, <2>2
<1>b. CASE Hash
  <2>1. /\ master'.next = master.next /\ pc' = [pc EXCEPT ![0] = "depend"] /\ pc[0] = "hash"
        /\ taskSet' = taskSet \cup {master.next} /\ freed' = freed /\ seq' = seq
    BY <1>b DEF Hash, Goto, Inv, TypeOK
  <2>2. /\ master.next \in Tasks /\ q'.ndep = q.ndep /\ q'.live = q.live
        /\ \A u \in Tasks : q'.status[u] = IF u = master.next THEN "NOTREADY" ELSE q.status[u]
    BY <1>b, HashIs DEF SameDeps
  <2>3. q.status[master.next] = "NEW"
    BY <1>0, <1>1, <2>1, <2>2 DEF Stage, Known
  <2>4. \A t \in Tasks : Stage(t)'
    <3> TAKE t \in Tasks
    <3>1. Stage(t)
      BY <1>1
    <3>2. CASE t = master.next
      BY <1>0, <1>2, <2>1, <2>2, <2>3, <3>1, <3>2 DEF Stage, Known, Out, Past, Done
    <3>3. CASE t # master.next
      BY <1>0, <1>2, <2>1, <2>2, <3>1, <3>3 DEF Stage, Known
    <3> QED
      BY <3>2, <3>3
  <2> QED
    BY <1>0, <2>1, <2>2, <2>4 DEF Stages, Stage
<1>c. CASE Depend
  <2>1. /\ master'.next = master.next /\ pc[0] = "depend"
        /\ pc' = pc \/ pc' = [pc EXCEPT ![0] = "check"]
        /\ taskSet' = taskSet /\ freed' = freed /\ seq' = seq
    BY <1>c DEF Depend, Goto, Inv, TypeOK
  <2>2. /\ master.next \in Tasks /\ q'.status = q.status /\ q'.live = q.live
        /\ \A u \in Tasks : u # master.next => q'.ndep[u] = q.ndep[u]
    BY <1>c, DependIs DEF SameRest, Arrived
  <2>3. q.status[master.next] = "NOTREADY"
    BY <1>c, DependWaits
  <2>4. \A t \in Tasks : Stage(t)'
    <3> TAKE t \in Tasks
    <3>1. Stage(t)
      BY <1>1
    <3>2. Known(t)' <=> Known(t)
      BY <1>2, <2>1 DEF Known
    <3> QED
      BY <1>0, <2>1, <2>2, <2>3, <3>1, <3>2 DEF Stage, Past
  <2> QED
    BY <1>0, <2>1, <2>2, <2>3, <2>4 DEF Stages, Stage
<1>d. CASE Check
  <2>1. CASE master.next \in freed
    <3>1. /\ master' = master /\ pc[0] = "check" /\ pc' = [pc EXCEPT ![0] = "fault"] /\ q' = q
          /\ taskSet' = taskSet /\ freed' = freed
      BY <1>d, <2>1 DEF Check, Goto
    <3>2. \A t \in Tasks : Known(t)' <=> Known(t)
      BY <1>2, <3>1 DEF Known
    <3>3. \A t \in Tasks : Stage(t)'
      BY <1>0, <1>1, <3>1, <3>2 DEF Stage
    <3> QED
      BY <1>0, <1>1, <3>1, <3>3 DEF Stages, Stage, Entering
  <2>2. CASE master.next \notin freed
    <3>1. /\ master'.next = master.next + 1 /\ pc[0] = "check" /\ pc' = [pc EXCEPT ![0] = "process"]
          /\ taskSet' = taskSet /\ freed' = freed
      BY <1>d, <2>2 DEF Check, Goto, Inv, TypeOK
    <3>2. \A t \in Tasks : Known(t)' <=> Known(t)
      <4>1. pc'[0] = "process"
        BY <1>2, <3>1
      <4> TAKE t \in Tasks
      <4>2. t \in Nat /\ (t < master.next + 1 <=> t < master.next \/ t = master.next)
        BY <1>0
      <4> QED
        BY <3>1, <4>1, <4>2 DEF Known
    <3>3. PICK S : Queued(S) /\ q'.ndep = q.ndep
      BY <1>d, <2>2, CheckIs
    <3>4. \A t \in Tasks : Stage(t)'
      BY <1>0, <1>1, <3>1, <3>2, <3>3 DEF Stage, Queued, Out, Past, Done
    <3> QED
      BY <1>0, <1>2, <3>1, <3>4 DEF Stages, Stage
  <2> QED
    BY <2>1, <2>2
<1>e. CASE Update(r)
  <2>1. PICK S \in SUBSET Tasks :
          /\ Queued(S)
          /\ \A t \in Tasks : q.status[t] # "NOTREADY" => q'.ndep[t] = q.ndep[t] /\ t \notin S
    BY <1>e, UpdateStatus
  <2>2. Apart /\ taskSet' = taskSet /\ freed' = freed /\ seq' = seq
    BY <1>e, Bystander DEF Update, Step, Completion
  <2>3. \A t \in Tasks : Known(t)' <=> Known(t)
    BY <2>2 DEF Known, Apart
  <2>4. \A t \in Tasks : Stage(t)'
    BY <1>0, <1>1, <2>1, <2>2, <2>3 DEF Stage, Queued, Out, Past, Done
  <2>5. Entering'
    BY <1>1, <2>1, <2>2 DEF Entering, Queued, Apart, Inv, Ctl
  <2> QED
    BY <1>0, <2>4, <2>5 DEF Stages, Stage, Entering
<1>f. CASE Start(r)
  <2>1. Apart /\ taskSet' = taskSet /\ freed' = freed /\ seq' = seq
    BY <1>f, Bystander DEF Start, Step, MainLoop
  <2>2. \A t \in Tasks : Known(t)' <=> Known(t)
    BY <2>1 DEF Known, Apart
  <2>3. /\ mine[r] \in Tasks /\ q'.ndep = q.ndep /\ q'.live = q.live
        /\ \A u \in Tasks : q'.status[u] =
             IF u = mine[r] THEN (IF Skips(r) THEN "CANCELLED" ELSE "RUNNING") ELSE q.status[u]
    BY <1>f, StartIs DEF SameDeps
  <2>4. q.status[mine[r]] = "QUEUED" /\ mine[r] \notin freed
    BY <1>f DEF Start, Inv, MinePlace
  <2>5. Skips(r) => mine[r] \in prog.member /\ seq.off
    BY <1>1, <2>3 DEF Skips, Stage, Inv, Ctl, Sequence
  <2>6. \A t \in Tasks : Stage(t)'
    BY <1>0, <1>1, <2>1, <2>2, <2>3, <2>4, <2>5 DEF Stage, Out, Past, Done
  <2>7. Entering'
    BY <1>1, <2>1, <2>3 DEF Entering, Apart, Inv, Ctl
  <2> QED
    BY <1>0, <2>6, <2>7 DEF Stages, Stage, Entering
<1>g. CASE Finish(r)
  <2>1. Apart /\ taskSet' = taskSet /\ freed' = freed /\ seq' = seq
    BY <1>g, Bystander DEF Finish, Step, MainLoop
  <2>2. \A t \in Tasks : Known(t)' <=> Known(t)
    BY <2>1 DEF Known, Apart
  <2>3. /\ mine[r] \in Tasks /\ q'.ndep = q.ndep /\ q'.live = q.live
        /\ \A u \in Tasks : q'.status[u] = IF u = mine[r] THEN "DONE" ELSE q.status[u]
    BY <1>g, FinishIs DEF SameDeps
  <2>4. q.status[mine[r]] = "RUNNING" /\ mine[r] \notin freed
    BY <1>g DEF Finish, Inv, MinePlace
  <2>5. \A t \in Tasks : Stage(t)'
    BY <1>0, <1>1, <2>1, <2>2, <2>3, <2>4 DEF Stage, Out, Past, Done
  <2>6. Entering'
    BY <1>1, <2>1, <2>3 DEF Entering, Apart, Inv, Ctl
  <2> QED
    BY <1>0, <2>5, <2>6 DEF Stages, Stage, Entering
<1>h. CASE Delete(r)
  <2>1. Apart /\ q' = q
    BY <1>h, Bystander DEF Delete, Step, Completion
  <2>2. \A t \in Tasks : Known(t)' <=> Known(t)
    BY <2>1 DEF Known, Apart
  <2>3. /\ taskSet' = taskSet \ {job[r].task} /\ freed' = freed \cup {job[r].task}
        /\ q.status[job[r].task] \in Done
    BY <1>h DEF Delete, Inv, JobPlace, Clearing
  <2>4. \A t \in Tasks : Stage(t)'
    BY <1>0, <1>1, <2>1, <2>2, <2>3 DEF Stage
  <2>5. Entering'
    BY <1>1, <2>1 DEF Entering, Apart
  <2> QED
    BY <1>0, <2>4, <2>5 DEF Stages, Stage, Entering
<1>i. CASE CancelTask(r)
  <2>1. Apart /\ taskSet' = taskSet /\ freed' = freed
    BY <1>i, Bystander DEF CancelTask, Step, MainLoop
  <2>2. \A t \in Tasks : Known(t)' <=> Known(t)
    BY <2>1 DEF Known, Apart
  <2>3. /\ Max(seq.rest) \in seq.rest /\ q'.ndep = q.ndep /\ q'.status = q.status
        /\ \A u \in Tasks : ~q'.live[u] => ~q.live[u] \/ u = Max(seq.rest)
    BY <1>i, CancelTaskIs DEF SameDeps
  <2>4. Max(seq.rest) \in prog.member /\ seq.off
    BY <1>i, <2>3 DEF CancelTask, Inv, TypeOK, Sequence
  <2>5. \A t \in Tasks : Stage(t)'
    BY <1>0, <1>1, <2>1, <2>2, <2>3, <2>4 DEF Stage
  <2>6. Entering'
    BY <1>1, <2>1, <2>3 DEF Entering, Apart
  <2> QED
    BY <1>0, <2>5, <2>6 DEF Stages, Stage, Entering
<1>z. CASE /\ r = 0 => ~Insert /\ ~Hash /\ ~Depend /\ ~Check
           /\ ~Update(r) /\ ~Start(r) /\ ~Finish(r) /\ ~Delete(r) /\ ~CancelTask(r)
  <2>1. q'.status = q.status /\ q'.ndep = q.ndep /\ Apart
    BY <1>z, StatusKept
  <2>2. q'.live = q.live /\ taskSet' = taskSet /\ freed' = freed
    <3>1. CASE q' = q
      BY <1>z, <3>1 DEF Step, Master, Completion, MainLoop, BarrierStart, Return, Finalize,
         Signal, Process, ProcessOver, Unlink, Uncount, Help, Take, Steal, Miss, Doze, Wake,
      Leave, ReadSequence, Enqueue, BeginCancel, EndCancel, Got
    <3>2. CASE r = 0 /\ Signal
      BY <3>2, SignalIs DEF Signal, SameStatus
    <3>3. CASE Uncount(r)
      BY <3>3, UncountedIs DEF Uncount, SameStatus
    <3>4. CASE Take(r)
      BY <3>4, TakeIs DEF Take, Got, SameStatus
    <3>5. CASE Steal(r)
      BY <3>5, StealIs DEF Steal, Got, SameStatus
    <3>6. CASE Wake(r)
      BY <3>6, WakeIs DEF Wake, SameStatus
    <3> QED
      BY <1>z, <3>1, <3>2, <3>3, <3>4, <3>5, <3>6
         DEF Step, Master, Completion, MainLoop, BarrierStart, Return, Finalize, Process,
            ProcessOver,
         Unlink, Help, Miss, Doze, Leave, ReadSequence, Enqueue, BeginCancel, EndCancel
  <2>3. \A t \in Tasks : Known(t)' <=> Known(t)
    BY <2>1 DEF Known, Apart
  <2>4. \A t \in Tasks : Stage(t)'
    BY <1>0, <1>1, <2>1, <2>2, <2>3 DEF Stage
  <2>5. Entering'
    BY <1>1, <2>1 DEF Entering, Apart
  <2> QED
    BY <1>0, <2>4, <2>5 DEF Stages, Stage, Entering
<1> QED
  BY <1>a, <1>b, <1>c, <1>d, <1>e, <1>f, <1>g, <1>h, <1>i, <1>z
-----------------------------------------------------------------------------
Places == ReadyPlace /\ MinePlace /\ DonePlace /\ JobPlace /\ Nowhere /\ Counted

\* A task that is somewhere has been queued.
LEMMA BusyPast ==
  ASSUME Inv, NEW t \in Busy
  PROVE  t \in Tasks /\ q.status[t] \in Past
<1>1. t \in Tasks
  BY DEF Busy
<1>2. CASE \E r \in Threads : In(t, q.ready[r])
  BY <1>1, <1>2 DEF Inv, ReadyPlace, Past
<1>3. CASE \E r \in Threads : mine[r] = t
  <2>1. PICK r \in Threads : mine[r] = t
    BY <1>3
  <2>2. t # None
    BY <1>1 DEF Tasks, None
  <2> QED
    BY <1>1, <2>1, <2>2 DEF Inv, Ctl, MinePlace, Holding, Past, Done
<1>4. CASE Names(t, completed)
  BY <1>1, <1>4 DEF Inv, DonePlace, Past, Done
<1>5. CASE \E r \in Threads : job[r].task = t
  <2>1. PICK r \in Threads : job[r].task = t
    BY <1>5
  <2>2. t # None
    BY <1>1 DEF Tasks, None
  <2> QED
    BY <1>1, <2>1, <2>2 DEF Inv, Ctl, JobPlace, Past, Done
<1> QED
  BY <1>1, <1>2, <1>3, <1>4, <1>5 DEF Busy

\* The tasks that are somewhere are finitely many.
LEMMA BusyFinite ==
  ASSUME Inv
  PROVE  IsFiniteSet(Busy) /\ Cardinality(Busy) \in Nat /\ Busy \in SUBSET Tasks
<1>1. prog \in Programs /\ Busy \in SUBSET Tasks
  BY DEF Inv, TypeOK, Busy
<1> QED
  BY <1>1, TasksFinite

\* A thread stays in the same part of the main loop.
Alike(s) ==
  /\ pc'[s] \in {"read", "start", "skip"} => pc[s] \in {"read", "start", "skip"}
  /\ pc'[s] \in {"run", "cancel", "flushed"} => pc[s] \in {"run", "cancel", "flushed"}
  /\ pc'[s] = "enqueue" => pc[s] = "enqueue"
  /\ pc'[s] \in {"update", "delete"} => pc[s] \in {"update", "delete"}
  /\ pc'[s] \in {"unlink", "uncount"} => pc[s] \in {"unlink", "uncount"}

\* The tasks of S come to the ready lists, everything else stays where it is.
LEMMA QueuedPlaces ==
  ASSUME Inv, prog' = prog, NEW S, Queued(S),
         mine' = mine, completed' = completed, freed' = freed,
         \A s \in Threads : job'[s].task = job[s].task /\ Alike(s)
  PROVE  Places'
<1>0. Tasks' = Tasks
  BY SameGiven
<1>1. /\ S \in SUBSET Tasks
      /\ \A t \in S : q.status[t] = "NOTREADY"
      /\ \A t \in Tasks : q'.status[t] = IF t \in S THEN "QUEUED" ELSE q.status[t]
      /\ q'.queued = q.queued + Cardinality(S)
  BY DEF Queued
<1>2. PICK p \in [S -> Threads] :
        \A r \in Threads :
            /\ Once(q'.ready[r])
            /\ \A t : In(t, q'.ready[r]) <=> In(t, q.ready[r]) \/ (t \in S /\ p[t] = r)
  BY DEF Queued
<1>3. \A t \in Busy : t \notin S /\ q'.status[t] = q.status[t]
  BY <1>1, BusyPast DEF Past
<1>4. \A r \in Threads :
        /\ mine[r] # None => mine[r] \in Tasks
        /\ mine[r] \in Tasks => mine[r] \in Busy
        /\ \A t \in Tasks : In(t, q.ready[r]) => t \in Busy
        /\ job[r].task \in Tasks => job[r].task \in Busy
        /\ job[r].task \in Tasks \cup {None}
  BY DEF Inv, TypeOK, Busy
<1>5. \A t \in Tasks : Names(t, completed) => t \in Busy
  BY DEF Busy
<1>6. ReadyPlace'
  <2>1. \A r \in Threads : \A t \in Tasks : In(t, q'.ready[r]) => q'.status[t] = "QUEUED"
    BY <1>1, <1>2, <1>3, <1>4 DEF Inv, ReadyPlace
  <2>2. \A r, s \in Threads : \A t \in Tasks : In(t, q'.ready[r]) /\ In(t, q'.ready[s]) => r = s
    BY <1>1, <1>2, <1>3, <1>4 DEF Inv, ReadyPlace
  <2>3. \A r, s \in Threads : ~In(mine[s], q'.ready[r])
    BY <1>1, <1>2, <1>3, <1>4 DEF Inv, ReadyPlace
  <2> QED
    BY <1>0, <1>2, <2>1, <2>2, <2>3 DEF ReadyPlace
<1>7. MinePlace'
  <2>1. ASSUME NEW r \in Threads
        PROVE  /\ pc'[r] \in {"read", "start", "skip"} => q'.status[mine[r]] = "QUEUED"
               /\ pc'[r] \in {"run", "cancel", "flushed"} => q'.status[mine[r]] = "RUNNING"
               /\ pc'[r] = "enqueue" => q'.status[mine[r]] \in Done
    BY <1>3, <1>4 DEF Inv, MinePlace, Alike, Ctl, Holding
  <2> QED
    BY <2>1 DEF Inv, MinePlace
<1>8. DonePlace'
  BY <1>0, <1>3, <1>5 DEF Inv, DonePlace
<1>9. JobPlace'
  <2>1. ASSUME NEW r \in Threads
        PROVE  /\ pc'[r] \in Clearing => q'.status[job[r].task] \in Done
               /\ pc'[r] \in {"update", "delete"} => job[r].task \notin freed
               /\ pc'[r] \in {"unlink", "uncount"} => job[r].task \in freed
    BY <1>3, <1>4 DEF Inv, JobPlace, Alike, Ctl, Clearing
  <2> QED
    BY <2>1 DEF Inv, JobPlace
<1>10. Busy' = Busy \cup S
  <2>1. \A t \in Tasks : (\E r \in Threads : In(t, q'.ready[r])) <=> (\E r \in Threads : In(t, q.ready[r])) \/ t \in S
    BY <1>2
  <2>2. \A t \in Tasks : (\E r \in Threads : job'[r].task = t) <=> \E r \in Threads : job[r].task = t
    OBVIOUS
  <2>3. \A t : t \in Busy' <=> t \in Busy \/ t \in S
    BY <1>0, <1>1, <2>1, <2>2 DEF Busy
  <2> QED
    BY <2>3
<1>11. Nowhere'
  BY <1>0, <1>1, <1>10 DEF Inv, Nowhere
<1>12. Counted'
  <2>1. prog \in Programs /\ Busy \cap S = {}
    BY <1>3 DEF Inv, TypeOK
  <2>2. IsFiniteSet(S) /\ Cardinality(S) \in Nat /\ IsFiniteSet(Busy) /\ Cardinality(Busy) \in Nat
    BY <1>1, <2>1, TasksFinite, BusyFinite
  <2>3. Cardinality(Busy \cup S) = Cardinality(Busy) + Cardinality(S)
    <3>1. Cardinality(Busy \cup S) = Cardinality(Busy) + Cardinality(S) - Cardinality(Busy \cap S)
      BY <2>2, FS_Union
    <3>2. Cardinality(Busy \cap S) = 0
      BY <2>1, FS_EmptySet
    <3> QED
      BY <2>2, <3>1, <3>2
  <2> QED
    BY <1>1, <1>10, <2>3 DEF Inv, Counted
<1> QED
  BY <1>6, <1>7, <1>8, <1>9, <1>11, <1>12 DEF Places

\* Every task stays where it is, and those that are somewhere keep their states.
LEMMA SamePlacesKept ==
  ASSUME Inv, prog' = prog, SamePlaces,
         mine' = mine, completed' = completed, freed' = freed,
         \A s \in Threads : job'[s].task = job[s].task /\ Alike(s),
         \A t \in Tasks : \/ q'.status[t] = q.status[t]
                          \/ q.status[t] \notin Past /\ q'.status[t] \notin Past
  PROVE  Places'
<1>0. Tasks' = Tasks
  BY SameGiven
<1>1. q'.ready = q.ready /\ q'.queued = q.queued
  BY DEF SamePlaces
<1>3. \A t \in Busy : q'.status[t] = q.status[t]
  BY BusyPast
<1>4. \A r \in Threads :
        /\ mine[r] # None => mine[r] \in Tasks
        /\ mine[r] \in Tasks => mine[r] \in Busy
        /\ \A t \in Tasks : In(t, q.ready[r]) => t \in Busy
        /\ job[r].task \in Tasks => job[r].task \in Busy
        /\ job[r].task \in Tasks \cup {None}
  BY DEF Inv, TypeOK, Busy
<1>5. \A t \in Tasks : Names(t, completed) => t \in Busy
  BY DEF Busy
<1>6. ReadyPlace'
  BY <1>0, <1>1, <1>3, <1>4 DEF Inv, ReadyPlace
<1>7. MinePlace'
  <2>1. ASSUME NEW r \in Threads
        PROVE  /\ pc'[r] \in {"read", "start", "skip"} => q'.status[mine[r]] = "QUEUED"
               /\ pc'[r] \in {"run", "cancel", "flushed"} => q'.status[mine[r]] = "RUNNING"
               /\ pc'[r] = "enqueue" => q'.status[mine[r]] \in Done
    BY <1>3, <1>4 DEF Inv, MinePlace, Alike, Ctl, Holding
  <2> QED
    BY <2>1 DEF Inv, MinePlace
<1>8. DonePlace'
  BY <1>0, <1>3, <1>5 DEF Inv, DonePlace
<1>9. JobPlace'
  <2>1. ASSUME NEW r \in Threads
        PROVE  /\ pc'[r] \in Clearing => q'.status[job[r].task] \in Done
               /\ pc'[r] \in {"update", "delete"} => job[r].task \notin freed
               /\ pc'[r] \in {"unlink", "uncount"} => job[r].task \in freed
    BY <1>3, <1>4 DEF Inv, JobPlace, Alike, Ctl, Clearing
  <2> QED
    BY <2>1 DEF Inv, JobPlace
<1>10. Busy' = Busy
  <2>1. \A t : t \in Busy' <=> t \in Busy
    BY <1>0, <1>1 DEF Busy
  <2> QED
    BY <2>1
<1>11. Nowhere'
  BY <1>0, <1>10 DEF Inv, Nowhere
<1>12. Counted'
  BY <1>1, <1>10 DEF Inv, Counted
<1> QED
  BY <1>6, <1>7, <1>8, <1>9, <1>11, <1>12 DEF Places
-----------------------------------------------------------------------------
\* A thread takes a task out of a ready list.
LEMMA TakenPlaces ==
  ASSUME Inv, prog' = prog, NEW r \in Threads, NEW v \in Threads, NEW t \in Tasks,
         In(t, q.ready[v]), SameStatus, q'.queued = q.queued,
         \A s \in Threads : /\ Once(q'.ready[s])
                            /\ \A u : In(u, q'.ready[s]) <=> In(u, q.ready[s]) /\ ~(s = v /\ u = t),
         pc[r] \in Looking, pc' = [pc EXCEPT ![r] = IF t \in prog.member THEN "read" ELSE "start"],
         mine' = [mine EXCEPT ![r] = t],
         completed' = completed, freed' = freed, job' = job
  PROVE  Places'
<1>0. Tasks' = Tasks /\ q'.status = q.status
  BY SameGiven DEF SameStatus
<1>1. /\ pc \in [Threads -> Before0 \cup Looking \cup Napping \cup Holding \cup Clearing]
      /\ mine \in [Threads -> Tasks \cup {None}]
      /\ t # None
  BY DEF Inv, TypeOK, Tasks, None
<1>2. /\ pc'[r] \in {"read", "start"} /\ mine'[r] = t /\ mine[r] = None /\ job[r].task = None
      /\ \A s \in Threads : s # r => pc'[s] = pc[s] /\ mine'[s] = mine[s]
  BY <1>1 DEF Inv, Ctl, Looking, Holding, Clearing
<1>3. /\ q.status[t] = "QUEUED" /\ \A s \in Threads : mine[s] # t
      /\ \A s \in Threads : In(t, q.ready[s]) => s = v
  BY DEF Inv, ReadyPlace
<1>4. t \notin freed /\ ~Names(t, completed) /\ \A s \in Threads : job[s].task # t
  <2>1. t \notin freed
    BY <1>3 DEF Inv, Stages, Done
  <2>2. ~Names(t, completed)
    BY <1>3 DEF Inv, DonePlace, Done
  <2>3. \A s \in Threads : job[s].task # t
    BY <1>1, <1>3 DEF Inv, JobPlace, Ctl, Done
  <2> QED
    BY <2>1, <2>2, <2>3
<1>6. ReadyPlace'
  <2>1. \A s \in Threads : \A u \in Tasks : In(u, q'.ready[s]) => q.status[u] = "QUEUED"
    BY DEF Inv, ReadyPlace
  <2>2. \A w, s \in Threads : \A u \in Tasks : In(u, q'.ready[w]) /\ In(u, q'.ready[s]) => w = s
    BY DEF Inv, ReadyPlace
  <2>3. ASSUME NEW w \in Threads, NEW s \in Threads
        PROVE  ~In(mine'[s], q'.ready[w])
    <3>1. CASE s = r
      BY <1>2, <1>3, <3>1
    <3>2. CASE s # r
      BY <1>2, <3>2 DEF Inv, ReadyPlace
    <3> QED
      BY <3>1, <3>2
  <2> QED
    BY <1>0, <2>1, <2>2, <2>3 DEF ReadyPlace
<1>7. MinePlace'
  <2>1. ASSUME NEW s \in Threads
        PROVE  /\ pc'[s] \in {"read", "start", "skip"} => q.status[mine'[s]] = "QUEUED"
               /\ pc'[s] \in {"run", "cancel", "flushed"} => q.status[mine'[s]] = "RUNNING"
               /\ pc'[s] = "enqueue" => q.status[mine'[s]] \in Done
               /\ mine'[s] \notin freed
               /\ ~Names(mine'[s], completed)
    <3>1. CASE s = r
      BY <1>2, <1>3, <1>4, <3>1
    <3>2. CASE s # r
      BY <1>2, <3>2 DEF Inv, MinePlace
    <3> QED
      BY <3>1, <3>2
  <2>2. \A w, s \in Threads : mine'[w] = mine'[s] /\ mine'[w] # None => w = s
    BY <1>2, <1>3 DEF Inv, MinePlace
  <2>3. \A w, s \in Threads : mine'[w] = job[s].task => mine'[w] = None
    BY <1>2, <1>4 DEF Inv, MinePlace
  <2> QED
    BY <1>0, <2>1, <2>2, <2>3 DEF MinePlace
<1>8. DonePlace'
  BY <1>0 DEF Inv, DonePlace
<1>9. JobPlace'
  BY <1>0, <1>2 DEF Inv, JobPlace, Clearing
<1>10. Busy' = Busy
  <2>1. ASSUME NEW u \in Tasks
        PROVE  (\E s \in Threads : In(u, q'.ready[s])) \/ (\E s \in Threads : mine'[s] = u)
               <=> (\E s \in Threads : In(u, q.ready[s])) \/ (\E s \in Threads : mine[s] = u)
    <3>1. CASE u = t
      BY <1>2, <3>1
    <3>2. CASE u # t
      <4>1. u # None
        BY DEF Tasks, None
      <4>2. (\E s \in Threads : mine'[s] = u) <=> (\E s \in Threads : mine[s] = u)
        BY <1>2, <3>2, <4>1
      <4> QED
        BY <3>2, <4>2
    <3> QED
      BY <3>1, <3>2
  <2>2. \A u : u \in Busy' <=> u \in Busy
    BY <1>0, <2>1 DEF Busy
  <2> QED
    BY <2>2
<1>11. Nowhere'
  BY <1>0, <1>10 DEF Inv, Nowhere
<1>12. Counted'
  BY <1>10 DEF Inv, Counted
<1> QED
  BY <1>6, <1>7, <1>8, <1>9, <1>11, <1>12 DEF Places

\* A thread starts or ends the task it has.
LEMMA TurnedPlaces ==
  ASSUME Inv, prog' = prog, NEW r \in Threads, NEW l, NEW x,
         pc[r] \in Holding, pc' = [pc EXCEPT ![r] = l],
         \/ l = "run" /\ x = "RUNNING"
         \/ l = "enqueue" /\ x \in Done,
         SamePlaces, \A u \in Tasks : q'.status[u] = IF u = mine[r] THEN x ELSE q.status[u],
         mine' = mine, completed' = completed, freed' = freed, job' = job
  PROVE  Places'
<1>0. Tasks' = Tasks
  BY SameGiven
<1>1. /\ pc \in [Threads -> Before0 \cup Looking \cup Napping \cup Holding \cup Clearing]
      /\ mine \in [Threads -> Tasks \cup {None}]
      /\ \A s \in Threads : job[s].task \in Tasks \cup {None}
  BY DEF Inv, TypeOK
<1>2. /\ mine[r] \in Tasks /\ mine[r] # None /\ pc'[r] = l
      /\ \A s \in Threads : s # r => pc'[s] = pc[s]
      /\ q'.ready = q.ready /\ q'.queued = q.queued
  BY <1>1 DEF Inv, Ctl, SamePlaces
<1>3. ReadyPlace'
  BY <1>0, <1>2 DEF Inv, ReadyPlace
<1>4. MinePlace'
  <2>1. ASSUME NEW s \in Threads
        PROVE  /\ pc'[s] \in {"read", "start", "skip"} => q'.status[mine[s]] = "QUEUED"
               /\ pc'[s] \in {"run", "cancel", "flushed"} => q'.status[mine[s]] = "RUNNING"
               /\ pc'[s] = "enqueue" => q'.status[mine[s]] \in Done
    <3>1. CASE s = r
      BY <1>2, <3>1 DEF Done
    <3>2. CASE s # r
      <4>1. mine[s] # mine[r]
        BY <1>2, <3>2 DEF Inv, MinePlace
      <4>2. pc[s] \in Holding => mine[s] \in Tasks
        BY <1>1 DEF Inv, Ctl
      <4> QED
        BY <1>2, <3>2, <4>1, <4>2 DEF Inv, MinePlace, Holding
    <3> QED
      BY <3>1, <3>2
  <2> QED
    BY <1>0, <2>1 DEF Inv, MinePlace
<1>5. DonePlace'
  BY <1>0, <1>2 DEF Inv, DonePlace, MinePlace
<1>6. JobPlace'
  <2>1. ASSUME NEW s \in Threads
        PROVE  /\ pc'[s] \in Clearing => q'.status[job[s].task] \in Done
               /\ pc'[s] \in {"update", "delete"} => job[s].task \notin freed
               /\ pc'[s] \in {"unlink", "uncount"} => job[s].task \in freed
    <3>1. CASE s = r
      BY <1>2, <3>1 DEF Clearing
    <3>2. CASE s # r
      <4>1. mine[r] # job[s].task
        BY <1>2 DEF Inv, MinePlace
      <4>2. pc[s] \in Clearing => job[s].task \in Tasks
        BY <1>1 DEF Inv, Ctl
      <4> QED
        BY <1>2, <3>2, <4>1, <4>2 DEF Inv, JobPlace, Clearing
    <3> QED
      BY <3>1, <3>2
  <2> QED
    BY <1>0, <2>1 DEF Inv, JobPlace
<1>7. Busy' = Busy
  <2>1. \A u : u \in Busy' <=> u \in Busy
    BY <1>0, <1>2 DEF Busy
  <2> QED
    BY <2>1
<1>8. Nowhere'
  BY <1>0, <1>2, <1>7 DEF Inv, Nowhere, Busy
<1>9. Counted'
  BY <1>2, <1>7 DEF Inv, Counted
<1> QED
  BY <1>3, <1>4, <1>5, <1>6, <1>8, <1>9 DEF Places
-----------------------------------------------------------------------------
\* A thread puts its task to the completed ones.
LEMMA EnqueuePlaces ==
  ASSUME Inv, NEW r \in Threads, Step(r), Enqueue(r)
  PROVE  Places'
<1>0. prog' = prog /\ Tasks' = Tasks
  BY GivenKept, SameGiven
<1>1. /\ pc \in [Threads -> Before0 \cup Looking \cup Napping \cup Holding \cup Clearing]
      /\ mine \in [Threads -> Tasks \cup {None}]
      /\ completed \in Seq(Tasks \X (Threads \cup {Nobody}))
      /\ None \notin Tasks /\ ~Second(mine[r])
  BY DEF Inv, TypeOK, Second, Tasks, None
<1>2. /\ pc[r] = "enqueue" /\ mine[r] \in Tasks /\ job[r].task = None
      /\ q.status[mine[r]] \in Done /\ mine[r] \notin freed /\ ~Names(mine[r], completed)
  BY <1>1 DEF Enqueue, Inv, Ctl, MinePlace, Holding, Clearing
<1>3. /\ q' = q /\ freed' = freed /\ job' = job
      /\ completed' = Append(completed, <<mine[r], r>>)
      /\ mine' = [mine EXCEPT ![r] = None]
      /\ pc' = [pc EXCEPT ![r] = IF r = 0 THEN "return" ELSE "look"]
  BY <1>1 DEF Enqueue, Goto
<1>4. NamedOnce(completed') /\ \A u : Names(u, completed') <=> Names(u, completed) \/ u = mine[r]
  <2>1. PICK e \in Tasks \X (Threads \cup {Nobody}) : e = <<mine[r], r>>
    BY <1>1, <1>2
  <2>2. e[1] = mine[r]
    BY <2>1
  <2>3. NamedOnce(completed)
    BY DEF Inv, DonePlace
  <2>4. NamedOnce(Append(completed, e)) /\ \A u : Names(u, Append(completed, e)) <=> Names(u, completed) \/ u = e[1]
    BY <1>1, <1>2, <2>2, <2>3, CompletedAppend
  <2> QED
    BY <1>3, <2>1, <2>2, <2>4
<1>5. /\ mine'[r] = None /\ pc'[r] \in {"return", "look"}
      /\ \A s \in Threads : s # r => pc'[s] = pc[s] /\ mine'[s] = mine[s]
  BY <1>1, <1>3
<1>6. ReadyPlace'
  <2>1. \A w, s \in Threads : ~In(mine'[s], q.ready[w])
    <3>1. \A w \in Threads : ~In(None, q.ready[w])
      <4>1. \A w \in Threads : q.ready[w] \in Seq(Tasks)
        BY DEF Inv, TypeOK, Shaped, Nodes
      <4> QED
        BY <1>1, <4>1 DEF In
    <3> QED
      BY <1>5, <3>1 DEF Inv, ReadyPlace
  <2> QED
    BY <1>0, <1>3, <2>1 DEF Inv, ReadyPlace
<1>7. MinePlace'
  <2>1. ASSUME NEW s \in Threads
        PROVE  /\ pc'[s] \in {"read", "start", "skip"} => q.status[mine'[s]] = "QUEUED"
               /\ pc'[s] \in {"run", "cancel", "flushed"} => q.status[mine'[s]] = "RUNNING"
               /\ pc'[s] = "enqueue" => q.status[mine'[s]] \in Done
               /\ mine'[s] \notin freed
               /\ ~Names(mine'[s], completed')
    <3>1. CASE s = r
      <4>1. None \notin freed /\ ~Names(None, completed)
        <5>1. freed \in SUBSET Tasks
          BY DEF Inv, TypeOK
        <5>2. \A k \in DOMAIN completed : completed[k] \in Tasks \X (Threads \cup {Nobody})
          BY <1>1
        <5>3. \A k \in DOMAIN completed : completed[k][1] \in Tasks
          BY <5>2
        <5> QED
          BY <1>1, <5>1, <5>3 DEF Names
      <4> QED
        BY <1>1, <1>2, <1>4, <1>5, <3>1, <4>1
    <3>2. CASE s # r
      BY <1>1, <1>2, <1>4, <1>5, <3>2 DEF Inv, MinePlace
    <3> QED
      BY <3>1, <3>2
  <2>2. \A w, s \in Threads : mine'[w] = mine'[s] /\ mine'[w] # None => w = s
    BY <1>5 DEF Inv, MinePlace
  <2>3. \A w, s \in Threads : mine'[w] = job[s].task => mine'[w] = None
    BY <1>5 DEF Inv, MinePlace
  <2> QED
    BY <1>0, <1>3, <2>1, <2>2, <2>3 DEF MinePlace
<1>8. DonePlace'
  <2>1. \A s \in Threads : job[s].task # mine[r]
    BY <1>1, <1>2 DEF Inv, MinePlace
  <2> QED
    BY <1>0, <1>2, <1>3, <1>4, <2>1 DEF Inv, DonePlace
<1>9. JobPlace'
  BY <1>2, <1>3, <1>5 DEF Inv, JobPlace, Clearing
<1>10. Busy' = Busy
  <2>1. ASSUME NEW u \in Tasks
        PROVE  (\E s \in Threads : mine'[s] = u) \/ Names(u, completed')
               <=> (\E s \in Threads : mine[s] = u) \/ Names(u, completed)
    BY <1>1, <1>4, <1>5
  <2>2. \A u : u \in Busy' <=> u \in Busy
    BY <1>0, <1>3, <2>1 DEF Busy
  <2> QED
    BY <2>2
<1>11. Nowhere'
  BY <1>0, <1>3, <1>10 DEF Inv, Nowhere
<1>12. Counted'
  BY <1>3, <1>10 DEF Inv, Counted
<1> QED
  BY <1>6, <1>7, <1>8, <1>9, <1>11, <1>12 DEF Places

\* A thread takes a completed task to process it.
LEMMA ProcessPlaces ==
  ASSUME Inv, NEW r \in Threads, Step(r), Process(r)
  PROVE  Places'
<1>0. prog' = prog /\ Tasks' = Tasks
  BY GivenKept, SameGiven
<1>1. /\ pc \in [Threads -> Before0 \cup Looking \cup Napping \cup Holding \cup Clearing]
      /\ job \in [Threads -> [task : Tasks \cup {None}, dep : Nat, by : Threads \cup {Nobody}]]
      /\ None \notin Tasks
  BY DEF Inv, TypeOK, Tasks, None
<1>2. PICK t \in Tasks, by \in Threads \cup {Nobody}, i \in Nat :
        /\ Names(t, completed)
        /\ job' = [job EXCEPT ![r] = [task |-> t, dep |-> i, by |-> by]]
        /\ NamedOnce(completed')
        /\ \A u : Names(u, completed') <=> Names(u, completed) /\ u # t
  BY ProcessIs DEF Arguments
<1>3. /\ pc[r] = "process" /\ pc' = [pc EXCEPT ![r] = "update"]
      /\ q' = q /\ mine' = mine /\ freed' = freed
  BY DEF Process, Goto
<1>4. /\ job'[r].task = t /\ pc'[r] = "update" /\ job[r].task = None /\ mine[r] = None
      /\ \A s \in Threads : s # r => pc'[s] = pc[s] /\ job'[s] = job[s]
  BY <1>1, <1>2, <1>3 DEF Inv, Ctl, Holding, Clearing
<1>5. /\ q.status[t] \in Done /\ t \notin freed
      /\ \A s \in Threads : mine[s] # t /\ job[s].task # t
  BY <1>2 DEF Inv, DonePlace, MinePlace
<1>6. ReadyPlace'
  BY <1>0, <1>3 DEF Inv, ReadyPlace
<1>7. MinePlace'
  <2>1. ASSUME NEW s \in Threads
        PROVE  /\ pc'[s] \in {"read", "start", "skip"} => q.status[mine[s]] = "QUEUED"
               /\ pc'[s] \in {"run", "cancel", "flushed"} => q.status[mine[s]] = "RUNNING"
               /\ pc'[s] = "enqueue" => q.status[mine[s]] \in Done
               /\ ~Names(mine[s], completed')
    BY <1>2, <1>4 DEF Inv, MinePlace
  <2>2. \A w, s \in Threads : mine[w] = job'[s].task => mine[w] = None
    BY <1>4, <1>5 DEF Inv, MinePlace
  <2> QED
    BY <1>0, <1>3, <2>1, <2>2 DEF Inv, MinePlace
<1>8. DonePlace'
  BY <1>0, <1>2, <1>3, <1>4 DEF Inv, DonePlace
<1>9. JobPlace'
  <2>1. ASSUME NEW s \in Threads
        PROVE  /\ pc'[s] \in Clearing => q.status[job'[s].task] \in Done
               /\ pc'[s] \in {"update", "delete"} => job'[s].task \notin freed
               /\ pc'[s] \in {"unlink", "uncount"} => job'[s].task \in freed
    BY <1>4, <1>5 DEF Inv, JobPlace
  <2>2. \A w, s \in Threads : job'[w].task = job'[s].task /\ job'[w].task # None => w = s
    BY <1>4, <1>5 DEF Inv, JobPlace
  <2> QED
    BY <1>0, <1>3, <2>1, <2>2 DEF JobPlace
<1>10. Busy' = Busy
  <2>1. ASSUME NEW u \in Tasks
        PROVE  (\E s \in Threads : job'[s].task = u) \/ Names(u, completed')
               <=> (\E s \in Threads : job[s].task = u) \/ Names(u, completed)
    BY <1>1, <1>2, <1>4
  <2>2. \A u : u \in Busy' <=> u \in Busy
    BY <1>0, <1>3, <2>1 DEF Busy
  <2> QED
    BY <2>2
<1>11. Nowhere'
  BY <1>0, <1>3, <1>10 DEF Inv, Nowhere
<1>12. Counted'
  BY <1>3, <1>10 DEF Inv, Counted
<1> QED
  BY <1>6, <1>7, <1>8, <1>9, <1>11, <1>12 DEF Places

\* A processed task is deleted ..
LEMMA DeletePlaces ==
  ASSUME Inv, NEW r \in Threads, Step(r), Delete(r)
  PROVE  Places'
<1>0. prog' = prog /\ Tasks' = Tasks
  BY GivenKept, SameGiven
<1>1. /\ pc[r] = "delete" /\ pc' = [pc EXCEPT ![r] = "unlink"]
      /\ q' = q /\ mine' = mine /\ job' = job /\ completed' = completed
      /\ freed' = freed \cup {job[r].task}
  BY DEF Delete, Goto, threads
<1>2. /\ pc'[r] = "unlink" /\ \A s \in Threads : s # r => pc'[s] = pc[s]
      /\ job[r].task # None /\ mine[r] = None
  BY <1>1 DEF Inv, TypeOK, Ctl, Holding, Clearing
<1>3. \A s \in Threads : mine[s] # job[r].task
  BY <1>2 DEF Inv, MinePlace
<1>4. \A s \in Threads : s # r => job[s].task # job[r].task
  BY <1>2 DEF Inv, JobPlace
<1>6. ReadyPlace'
  BY <1>0, <1>1 DEF Inv, ReadyPlace
<1>7. MinePlace'
  <2>1. ASSUME NEW s \in Threads
        PROVE  /\ pc'[s] \in {"read", "start", "skip"} => q.status[mine[s]] = "QUEUED"
               /\ pc'[s] \in {"run", "cancel", "flushed"} => q.status[mine[s]] = "RUNNING"
               /\ pc'[s] = "enqueue" => q.status[mine[s]] \in Done
    BY <1>2 DEF Inv, MinePlace
  <2> QED
    BY <1>0, <1>1, <1>3, <2>1 DEF Inv, MinePlace
<1>8. DonePlace'
  BY <1>0, <1>1 DEF Inv, DonePlace
<1>9. JobPlace'
  <2>1. ASSUME NEW s \in Threads
        PROVE  /\ pc'[s] \in Clearing => q.status[job[s].task] \in Done
               /\ pc'[s] \in {"update", "delete"} => job[s].task \notin freed'
               /\ pc'[s] \in {"unlink", "uncount"} => job[s].task \in freed'
    BY <1>1, <1>2, <1>4 DEF Inv, JobPlace, Clearing
  <2> QED
    BY <1>0, <1>1, <2>1 DEF Inv, JobPlace
<1>10. Busy' = Busy
  <2>2. \A u : u \in Busy' <=> u \in Busy
    BY <1>0, <1>1 DEF Busy
  <2> QED
    BY <2>2
<1>11. Nowhere'
  BY <1>0, <1>1, <1>10 DEF Inv, Nowhere
<1>12. Counted'
  BY <1>1, <1>10 DEF Inv, Counted
<1> QED
  BY <1>6, <1>7, <1>8, <1>9, <1>11, <1>12 DEF Places

\* .. and no longer counted.
LEMMA UncountPlaces ==
  ASSUME Inv, NEW r \in Threads, Step(r), Uncount(r)
  PROVE  Places'
<1>0. prog' = prog /\ Tasks' = Tasks
  BY GivenKept, SameGiven
<1>1. /\ pc[r] = "uncount" /\ pc' = [pc EXCEPT ![r] = "process"]
      /\ mine' = mine /\ completed' = completed /\ freed' = freed
      /\ job' = [job EXCEPT ![r] = [task |-> None, dep |-> 0, by |-> 0]]
  BY DEF Uncount, Goto
<1>2. q'.status = q.status /\ q'.ready = q.ready /\ q'.queued = q.queued - 1
  BY UncountedIs DEF SameStatus
<1>3. /\ pc \in [Threads -> Before0 \cup Looking \cup Napping \cup Holding \cup Clearing]
      /\ job \in [Threads -> [task : Tasks \cup {None}, dep : Nat, by : Threads \cup {Nobody}]]
      /\ None \notin Tasks /\ completed \in Seq(Tasks \X (Threads \cup {Nobody}))
  BY DEF Inv, TypeOK, Tasks, None
<1>4. /\ pc'[r] = "process" /\ job'[r].task = None /\ job[r].task \in Tasks /\ job[r].task # None
      /\ \A s \in Threads : s # r => pc'[s] = pc[s] /\ job'[s] = job[s]
      /\ mine[r] = None
  BY <1>1, <1>3 DEF Inv, Ctl, Holding, Clearing
<1>5. /\ \A s \in Threads : mine[s] # job[r].task /\ ~In(job[r].task, q.ready[s])
      /\ \A s \in Threads : s # r => job[s].task # job[r].task
      /\ ~Names(job[r].task, completed)
      /\ job[r].task \in freed
  <2>1. q.status[job[r].task] \in Done
    BY <1>1 DEF Inv, JobPlace, Clearing
  <2> QED
    BY <1>1, <1>4, <2>1 DEF Inv, MinePlace, ReadyPlace, JobPlace, DonePlace, Done
<1>6. ReadyPlace'
  BY <1>0, <1>1, <1>2 DEF Inv, ReadyPlace
<1>7. MinePlace'
  <2>1. ASSUME NEW s \in Threads
        PROVE  /\ pc'[s] \in {"read", "start", "skip"} => q.status[mine[s]] = "QUEUED"
               /\ pc'[s] \in {"run", "cancel", "flushed"} => q.status[mine[s]] = "RUNNING"
               /\ pc'[s] = "enqueue" => q.status[mine[s]] \in Done
    BY <1>4 DEF Inv, MinePlace
  <2>2. \A w, s \in Threads : mine[w] = job'[s].task => mine[w] = None
    BY <1>4 DEF Inv, MinePlace
  <2> QED
    BY <1>0, <1>1, <1>2, <2>1, <2>2 DEF Inv, MinePlace
<1>8. DonePlace'
  <2>1. ~Names(None, completed)
    <3>1. \A k \in DOMAIN completed : completed[k] \in Tasks \X (Threads \cup {Nobody})
      BY <1>3
    <3>2. \A k \in DOMAIN completed : completed[k][1] \in Tasks
      BY <3>1
    <3> QED
      BY <1>3, <3>2 DEF Names
  <2> QED
    BY <1>0, <1>1, <1>2, <1>4, <2>1 DEF Inv, DonePlace
<1>9. JobPlace'
  <2>1. ASSUME NEW s \in Threads
        PROVE  /\ pc'[s] \in Clearing => q.status[job'[s].task] \in Done
               /\ pc'[s] \in {"update", "delete"} => job'[s].task \notin freed
               /\ pc'[s] \in {"unlink", "uncount"} => job'[s].task \in freed
    BY <1>4 DEF Inv, JobPlace, Clearing
  <2>2. \A w, s \in Threads : job'[w].task = job'[s].task /\ job'[w].task # None => w = s
    BY <1>4 DEF Inv, JobPlace
  <2> QED
    BY <1>0, <1>1, <1>2, <2>1, <2>2 DEF JobPlace
<1>10. Busy' = Busy \ {job[r].task}
  <2>1. ASSUME NEW u \in Tasks
        PROVE  (\E s \in Threads : job'[s].task = u)
               <=> (\E s \in Threads : job[s].task = u) /\ u # job[r].task
    BY <1>3, <1>4, <1>5
  <2>2. \A u : u \in Busy' <=> u \in Busy /\ u # job[r].task
    BY <1>0, <1>1, <1>2, <1>5, <2>1 DEF Busy
  <2> QED
    BY <2>2
<1>11. Nowhere'
  BY <1>0, <1>1, <1>2, <1>5, <1>10 DEF Inv, Nowhere
<1>12. Counted'
  <2>1. job[r].task \in Busy
    BY <1>4 DEF Busy
  <2>2. Cardinality(Busy \ {job[r].task}) = Cardinality(Busy) - 1
    <3>1. IsFiniteSet(Busy) /\ Cardinality(Busy) \in Nat
      BY BusyFinite
    <3>2. PICK x \in Busy : x = job[r].task
      BY <2>1
    <3>3. Cardinality(Busy \ {x}) = Cardinality(Busy) - 1
      BY <3>1, FS_RemoveElement
    <3> QED
      BY <3>2, <3>3
  <2> QED
    BY <1>2, <1>10, <2>2 DEF Inv, Counted
<1> QED
  BY <1>6, <1>7, <1>8, <1>9, <1>11, <1>12 DEF Places
-----------------------------------------------------------------------------
\* The steps that move no task and change no state.
LEMMA QuietPlaces ==
  ASSUME Inv, NEW r \in Threads, Step(r), SamePlaces, q'.status = q.status,
         mine' = mine, completed' = completed, freed' = freed, job' = job, Alike(r)
  PROVE  Places'
<1>1. prog' = prog
  BY GivenKept
<1>2. \A s \in Threads : job'[s].task = job[s].task /\ Alike(s)
  BY OthersKept DEF Alike
<1> QED
  BY <1>1, <1>2, SamePlacesKept

\* The steps of the insertion keep the tasks where they belong.
LEMMA MasterPlaces ==
  ASSUME Inv, NEW r \in Threads, Step(r), r = 0, Master
  PROVE  Places'
<1>0. prog' = prog /\ pc \in [Threads -> Before0 \cup Looking \cup Napping \cup Holding \cup Clearing]
  BY GivenKept DEF Inv, TypeOK
<1>1. mine' = mine /\ job' = job /\ completed' = completed /\ freed' = freed
  BY DEF Master, Insert, Hash, Depend, Check, BarrierStart, Return, Finalize, Signal, threads
<1>2. Alike(r)
  BY <1>0 DEF Master, Insert, Hash, Depend, Check, BarrierStart, Return, Finalize, Signal, Goto,
     Alike
<1>3. \A s \in Threads : job'[s].task = job[s].task /\ Alike(s)
  BY <1>1, <1>2, OthersKept DEF Alike
<1>4. CASE q' = q
  BY <1>1, <1>2, <1>4, QuietPlaces DEF SamePlaces
<1>5. CASE Insert
  <2>1. CASE master.next \in prog.member /\ seq.off
    <3>1. /\ SamePlaces /\ pc[0] = "insert" /\ master.next \in Tasks
          /\ \A u \in Tasks : q'.status[u] = IF u = master.next THEN "REJECTED" ELSE q.status[u]
      BY <1>5, <2>1, InsertIs DEF Insert
    <3>2. q.status[master.next] = "NEW"
      <4>1. master.next \in Nat
        BY DEF Inv, TypeOK
      <4> QED
        BY <3>1, <4>1 DEF Inv, Stages, Known
    <3>3. \A t \in Tasks : \/ q'.status[t] = q.status[t]
                           \/ q.status[t] \notin Past /\ q'.status[t] \notin Past
      BY <3>1, <3>2 DEF Past
    <3> QED
      BY <1>0, <1>1, <1>3, <3>1, <3>3, SamePlacesKept
  <2> QED
    BY <1>4, <1>5, <2>1, InsertIs
<1>6. CASE Hash
  <2>1. /\ SamePlaces /\ pc[0] = "hash" /\ master.next \in Tasks
        /\ \A u \in Tasks : q'.status[u] = IF u = master.next THEN "NOTREADY" ELSE q.status[u]
    BY <1>6, HashIs DEF Hash
  <2>2. q.status[master.next] = "NEW"
    <3>1. master.next \in Nat
      BY DEF Inv, TypeOK
    <3> QED
      BY <2>1, <3>1 DEF Inv, Stages, Known
  <2>3. \A t \in Tasks : \/ q'.status[t] = q.status[t]
                         \/ q.status[t] \notin Past /\ q'.status[t] \notin Past
    BY <2>1, <2>2 DEF Past
  <2> QED
    BY <1>0, <1>1, <1>3, <2>1, <2>3, SamePlacesKept
<1>7. CASE Depend
  <2>1. SamePlaces /\ q'.status = q.status
    BY <1>7, DependIs DEF SameRest, SamePlaces
  <2> QED
    BY <1>1, <1>2, <2>1, QuietPlaces
<1>8. CASE Check
  <2>1. CASE master.next \in freed
    BY <1>4, <1>8, <2>1 DEF Check
  <2>2. CASE master.next \notin freed
    <3>1. PICK S : Queued(S)
      BY <1>8, <2>2, CheckIs
    <3> QED
      BY <1>0, <1>1, <1>3, <3>1, QueuedPlaces
  <2> QED
    BY <2>1, <2>2
<1>9. CASE Signal
  <2>1. SamePlaces /\ q'.status = q.status
    BY <1>9, SignalIs DEF SameStatus
  <2> QED
    BY <1>1, <1>2, <2>1, QuietPlaces
<1> QED
  BY <1>4, <1>5, <1>6, <1>7, <1>8, <1>9 DEF Master, BarrierStart, Return, Finalize

\* The steps that process completed tasks keep the tasks where they belong.
LEMMA CompletionPlaces ==
  ASSUME Inv, NEW r \in Threads, Step(r), Completion(r)
  PROVE  Places'
<1>0. prog' = prog /\ pc \in [Threads -> Before0 \cup Looking \cup Napping \cup Holding \cup Clearing]
  BY GivenKept DEF Inv, TypeOK
<1>1. CASE ProcessOver(r) \/ Unlink(r)
  <2>1. /\ mine' = mine /\ job' = job /\ completed' = completed /\ freed' = freed /\ q' = q
        /\ \/ pc[r] = "process" /\ pc'[r] \in {"try", "look", "insert"}
           \/ pc[r] = "unlink" /\ pc'[r] = "uncount"
    BY <1>0, <1>1 DEF ProcessOver, Unlink, Goto, threads, Inv, TypeOK
  <2>2. Alike(r)
    BY <2>1 DEF Alike
  <2> QED
    BY <2>1, <2>2, QuietPlaces DEF SamePlaces
<1>2. CASE Update(r)
  <2>1. PICK S : Queued(S)
    BY <1>2, UpdateIs
  <2>2. /\ mine' = mine /\ completed' = completed /\ freed' = freed
        /\ pc[r] = "update" /\ pc'[r] \in {"update", "delete"}
        /\ job' = [job EXCEPT ![r].dep = NextDep(job[r].task, job[r].dep)]
    BY <1>0, <1>2 DEF Update, Goto
  <2>3. Alike(r)
    BY <2>2 DEF Alike
  <2>4. \A s \in Threads : job'[s].task = job[s].task
    BY <2>2 DEF Inv, TypeOK
  <2>5. \A s \in Threads : Alike(s)
    BY <2>3, OthersKept DEF Alike
  <2> QED
    BY <1>0, <2>1, <2>2, <2>4, <2>5, QueuedPlaces
<1> QED
  BY <1>1, <1>2, ProcessPlaces, DeletePlaces, UncountPlaces DEF Completion

\* The steps of the main loop keep the tasks where they belong.
LEMMA MainLoopPlaces ==
  ASSUME Inv, NEW r \in Threads, Step(r), MainLoop(r)
  PROVE  Places'
<1>0. prog' = prog /\ pc \in [Threads -> Before0 \cup Looking \cup Napping \cup Holding \cup Clearing]
  BY GivenKept DEF Inv, TypeOK
<1>1. CASE Take(r)
  <2>1. PICK t \in Tasks : t = Head(q.ready[r])
    BY <1>1, TakeIs
  <2>2. /\ pc[r] \in Looking /\ pc' = [pc EXCEPT ![r] = IF t \in prog.member THEN "read" ELSE "start"]
        /\ mine' = [mine EXCEPT ![r] = t]
        /\ completed' = completed /\ freed' = freed /\ job' = job
    BY <1>1, <2>1 DEF Take, Got, Hunts, Goto, Looking
  <2>3. /\ In(t, q.ready[r]) /\ SameStatus /\ q'.queued = q.queued
        /\ \A s \in Threads : /\ Once(q'.ready[s])
                              /\ \A u : In(u, q'.ready[s]) <=> In(u, q.ready[s]) /\ ~(s = r /\ u = t)
    BY <1>1, <2>1, TakeIs
  <2> QED
    BY <1>0, <2>2, <2>3, TakenPlaces
<1>2. CASE Steal(r)
  <2>1. PICK v \in Threads : v = victim[r]
    BY <1>2, StealIs
  <2>2. PICK t \in Tasks : t = Last(q.ready[v])
    BY <1>2, <2>1, StealIs
  <2>3. /\ pc[r] \in Looking /\ pc' = [pc EXCEPT ![r] = IF t \in prog.member THEN "read" ELSE "start"]
        /\ mine' = [mine EXCEPT ![r] = t]
        /\ completed' = completed /\ freed' = freed /\ job' = job
    BY <1>2, <2>1, <2>2 DEF Steal, Got, Hunts, Goto, Looking
  <2>4. /\ In(t, q.ready[v]) /\ SameStatus /\ q'.queued = q.queued
        /\ \A s \in Threads : /\ Once(q'.ready[s])
                              /\ \A u : In(u, q'.ready[s]) <=> In(u, q.ready[s]) /\ ~(s = v /\ u = t)
    BY <1>2, <2>1, <2>2, StealIs
  <2> QED
    BY <1>0, <2>3, <2>4, TakenPlaces
<1>3. CASE Start(r)
  <2>1. PICK x \in {"CANCELLED", "RUNNING"} : x = IF Skips(r) THEN "CANCELLED" ELSE "RUNNING"
    OBVIOUS
  <2>2. PICK l : l = IF Skips(r) THEN "enqueue" ELSE "run"
    OBVIOUS
  <2>3. \/ l = "run" /\ x = "RUNNING"
        \/ l = "enqueue" /\ x \in Done
    BY <2>1, <2>2 DEF Done
  <2>4. /\ pc[r] \in Holding /\ pc' = [pc EXCEPT ![r] = l]
        /\ mine' = mine /\ completed' = completed /\ freed' = freed /\ job' = job
    BY <1>3, <2>2 DEF Start, Skips, Goto, Holding
  <2>5. SamePlaces /\ \A u \in Tasks : q'.status[u] = IF u = mine[r] THEN x ELSE q.status[u]
    BY <1>3, <2>1, StartIs
  <2> QED
    BY <1>0, <2>3, <2>4, <2>5, TurnedPlaces
<1>4. CASE Finish(r)
  <2>1. /\ pc[r] \in Holding /\ pc' = [pc EXCEPT ![r] = "enqueue"]
        /\ mine' = mine /\ completed' = completed /\ freed' = freed /\ job' = job
    BY <1>4 DEF Finish, Goto, Holding
  <2>2. SamePlaces /\ \A u \in Tasks : q'.status[u] = IF u = mine[r] THEN "DONE" ELSE q.status[u]
    BY <1>4, FinishIs
  <2> QED
    BY <1>0, <2>1, <2>2, TurnedPlaces DEF Done
<1>5. CASE \/ Help(r) \/ Miss(r) \/ Doze(r) \/ Wake(r) \/ Leave(r)
           \/ ReadSequence(r) \/ BeginCancel(r) \/ CancelTask(r) \/ EndCancel(r)
  <2>1. mine' = mine /\ job' = job /\ completed' = completed /\ freed' = freed
    BY <1>5 DEF Help, Miss, Doze, Wake, Leave, ReadSequence, BeginCancel, CancelTask, EndCancel,
       threads
  <2>2. Alike(r)
    BY <1>0, <1>5 DEF Help, Miss, Doze, Wake, Leave, ReadSequence, BeginCancel, CancelTask,
       EndCancel,
       Goto, Alike
  <2>3. SamePlaces /\ q'.status = q.status
    <3>1. CASE Wake(r)
      BY <3>1, WakeIs DEF SameStatus
    <3>2. CASE CancelTask(r)
      BY <3>2, CancelTaskIs
    <3> QED
      BY <1>5, <3>1, <3>2 DEF Help, Miss, Doze, Leave, ReadSequence, BeginCancel, EndCancel,
         SamePlaces
  <2> QED
    BY <2>1, <2>2, <2>3, QuietPlaces
<1> QED
  BY <1>1, <1>2, <1>3, <1>4, <1>5, EnqueuePlaces DEF MainLoop

\* Every step keeps what is said of the places of the tasks.
LEMMA PlacesKept ==
  ASSUME Inv, NEW r \in Threads, Step(r)
  PROVE  Places'
BY MasterPlaces, CompletionPlaces, MainLoopPlaces DEF Step
-----------------------------------------------------------------------------
\* A dependency that has come has come for good, and one comes at a time.
LEMMA CameKept ==
  ASSUME Inv, NEW r \in Threads, Step(r), r # 0 \/ pc[0] # "depend",
         NEW t \in Tasks, NEW i \in Arguments(t)
  PROVE  Came(t, i)' <=> Came(t, i)
<1>0. /\ pc \in [Threads -> Before0 \cup Looking \cup Napping \cup Holding \cup Clearing] /\ 0 \in Threads
      /\ master \in [next : Nat \ {0}, dep : Nat, count : Nat, after : {"water", "look", "try"},
                     barrier : BOOLEAN]
      /\ i \in Nat \ {0}
  BY ThreadsAssumption DEF Inv, TypeOK, Threads, Arguments
<1>1. ~(r = 0 /\ Depend)
  BY DEF Depend
<1>2. CASE r = 0 /\ Insert
  <2>1. CASE master.next \in prog.member /\ seq.off
    <3>1. /\ pc[0] = "insert" /\ pc' = pc /\ master.next \in Tasks
          /\ \A u \in Tasks : q'.status[u] = IF u = master.next THEN "REJECTED" ELSE q.status[u]
      BY <1>2, <2>1, InsertIs DEF Insert
    <3>2. q.status[master.next] = "NEW"
      BY <1>0, <3>1 DEF Inv, Stages, Known
    <3> QED
      BY <3>1, <3>2 DEF Came, Out
  <2>2. CASE ~(master.next \in prog.member /\ seq.off)
    BY <1>0, <1>2, <2>2 DEF Insert, Goto, Came
  <2> QED
    BY <2>1, <2>2
<1>3. CASE r = 0 /\ Hash
  <2>1. /\ master.next \in Tasks
        /\ \A u \in Tasks : q'.status[u] = IF u = master.next THEN "NOTREADY" ELSE q.status[u]
    BY <1>3, HashIs
  <2>2. pc[0] = "hash" /\ pc' = [pc EXCEPT ![0] = "depend"]
    BY <1>3 DEF Hash, Goto
  <2>3. q.status[master.next] = "NEW"
    BY <1>0, <2>1, <2>2 DEF Inv, Stages, Known
  <2>4. master'.next = master.next /\ master'.dep = 1
    <3>1. \E n : master' = [master EXCEPT !.count = n, !.dep = 1]
      BY <1>3 DEF Hash
    <3> QED
      BY <1>0, <3>1
  <2> QED
    BY <1>0, <2>1, <2>2, <2>3, <2>4 DEF Came, Out
<1>4. CASE r = 0 /\ Check
  <2>1. pc[0] = "check" /\ pc'[0] \in {"fault", "process"}
    BY <1>0, <1>4 DEF Check, Goto
  <2>2. q'.status[t] \in Out <=> q.status[t] \in Out
    <3>1. CASE master.next \in freed
      BY <1>4, <3>1 DEF Check
    <3>2. CASE master.next \notin freed
      BY <1>4, <3>2, CheckIs DEF Queued, Out
    <3> QED
      BY <3>1, <3>2
  <2> QED
    BY <2>1, <2>2 DEF Came
<1>5. CASE Update(r) \/ Start(r) \/ Finish(r)
  <2>1. Apart
    BY <1>5, Bystander DEF Step, Completion, MainLoop
  <2>2. q'.status[t] \in Out <=> q.status[t] \in Out
    <3>1. CASE Update(r)
      BY <3>1, UpdateIs DEF Queued, Out
    <3>2. CASE Start(r)
      <4>1. q.status[mine[r]] = "QUEUED"
        BY <3>2 DEF Start, Inv, MinePlace
      <4> QED
        BY <3>2, <4>1, StartIs DEF Out
    <3>3. CASE Finish(r)
      <4>1. q.status[mine[r]] = "RUNNING"
        BY <3>3 DEF Finish, Inv, MinePlace
      <4> QED
        BY <3>3, <4>1, FinishIs DEF Out
    <3> QED
      BY <1>5, <3>1, <3>2, <3>3
  <2> QED
    BY <2>1, <2>2 DEF Came, Apart
<1>6. CASE /\ r = 0 => ~Insert /\ ~Hash /\ ~Depend /\ ~Check
           /\ ~Update(r) /\ ~Start(r) /\ ~Finish(r)
  BY <1>6, StatusKept DEF Came, Apart
<1> QED
  BY <1>1, <1>2, <1>3, <1>4, <1>5, <1>6

\* Depend brings one dependency into its list.
LEMMA CameDepend ==
  ASSUME Inv, Depend, NEW t \in Tasks, NEW i \in Arguments(t)
  PROVE  Came(t, i)' <=> Came(t, i) \/ (t = master.next /\ i = master.dep)
<1>0. /\ pc \in [Threads -> Before0 \cup Looking \cup Napping \cup Holding \cup Clearing] /\ 0 \in Threads
      /\ master \in [next : Nat \ {0}, dep : Nat, count : Nat, after : {"water", "look", "try"},
                     barrier : BOOLEAN]
      /\ i \in 1 .. Len(prog.args[t]) /\ Len(prog.args[t]) \in Nat
  BY ThreadsAssumption, ProgramTypes DEF Inv, TypeOK, Threads, Arguments
<1>1. /\ pc[0] = "depend" /\ master' = [master EXCEPT !.dep = master.dep + 1]
      /\ IF master.dep = Len(prog.args[master.next]) THEN pc' = [pc EXCEPT ![0] = "check"] ELSE pc' = pc
  BY DEF Depend, Goto
<1>2. q'.status = q.status /\ q.status[master.next] \notin Out
  BY DependIs, DependWaits DEF SameRest, Out
<1>3. master'.next = master.next /\ master'.dep = master.dep + 1
  BY <1>0, <1>1
<1>4. CASE t # master.next
  BY <1>2, <1>3, <1>4 DEF Came
<1>5. CASE t = master.next
  <2>1. Came(t, i) <=> i < master.dep
    BY <1>1, <1>2, <1>5 DEF Came
  <2>2. CASE master.dep = Len(prog.args[master.next])
    <3>1. pc'[0] = "check"
      BY <1>0, <1>1, <2>2
    <3>2. Came(t, i)'
      BY <1>2, <1>5, <3>1 DEF Came
    <3> QED
      BY <1>0, <1>5, <2>1, <2>2, <3>2
  <2>3. CASE master.dep # Len(prog.args[master.next])
    <3>1. Came(t, i)' <=> i < master.dep + 1
      BY <1>1, <1>2, <1>3, <1>5, <2>3 DEF Came
    <3> QED
      BY <1>0, <1>5, <2>1, <3>1
  <2> QED
    BY <2>2, <2>3
<1> QED
  BY <1>4, <1>5

\* A task that is over stays so.
LEMMA OverStays ==
  ASSUME Inv, NEW r \in Threads, Step(r), NEW t \in Tasks
  PROVE  q.status[t] \in Done => q'.status[t] = q.status[t]
<1>1. master.next \in Nat
  BY DEF Inv, TypeOK
<1>2. CASE r = 0 /\ (Insert \/ Hash)
  <2>1. pc[0] \in {"insert", "hash"} /\ master.next \in Tasks
    BY <1>2, InsertIs, HashIs DEF Insert, Hash
  <2>2. q.status[master.next] = "NEW"
    BY <1>1, <2>1 DEF Inv, Stages, Known
  <2> QED
    BY <1>2, <2>2, InsertIs, HashIs DEF Done
<1>3. CASE r = 0 /\ Depend
  BY <1>3, DependIs DEF SameRest
<1>4. CASE r = 0 /\ Check
  <2>1. CASE master.next \in freed
    BY <1>4, <2>1 DEF Check
  <2>2. CASE master.next \notin freed
    BY <1>4, <2>2, CheckIs DEF Queued, Done
  <2> QED
    BY <2>1, <2>2
<1>5. CASE Update(r)
  BY <1>5, UpdateIs DEF Queued, Done
<1>6. CASE Start(r)
  <2>1. q.status[mine[r]] = "QUEUED"
    BY <1>6 DEF Start, Inv, MinePlace
  <2> QED
    BY <1>6, <2>1, StartIs DEF Done
<1>7. CASE Finish(r)
  <2>1. q.status[mine[r]] = "RUNNING"
    BY <1>7 DEF Finish, Inv, MinePlace
  <2> QED
    BY <1>7, <2>1, FinishIs DEF Done
<1> QED
  BY <1>2, <1>3, <1>4, <1>5, <1>6, <1>7, StatusKept

\* The unready dependencies of a task can be counted.
LEMMA UnreadyFinite ==
  ASSUME Inv, NEW t \in Tasks
  PROVE  IsFiniteSet(Unready(t)) /\ Cardinality(Unready(t)) \in Nat /\ IsFiniteSet(Arguments(t))
<1>1. Len(prog.args[t]) \in Nat
  BY ProgramTypes DEF Inv, TypeOK
<1>2. IsFiniteSet(Arguments(t))
  BY <1>1, FS_Interval DEF Arguments
<1>3. Unready(t) \in SUBSET Arguments(t)
  BY DEF Unready
<1> QED
  BY <1>2, <1>3, FS_Subset, FS_CardinalityType
-----------------------------------------------------------------------------
\* What the inserted task and its argument are.
LEMMA DependFacts ==
  ASSUME Inv, Depend, NEW J, NEW alone, Arrived(master.next, master.dep, J, alone)
  PROVE  /\ master.next \in Tasks /\ master.dep \in Arguments(master.next)
         /\ ~q.dep[master.next][master.dep].ready /\ ~q.dep[master.next][master.dep].dropped
         /\ q.dep[master.next][master.dep].addr \in prog.addrs
         /\ ~Came(master.next, master.dep)
         /\ \A i \in Arguments(master.next) : ~Gone(master.next, i)
         /\ \A j \in J : /\ j \in Arguments(master.next) /\ j # master.dep
                         /\ Came(master.next, j) /\ ~q.dep[master.next][j].dropped
         /\ \A i, j \in J : i = j
         /\ \A j \in Arguments(master.next) :
              /\ Came(master.next, j) /\ ~q.dep[master.next][j].dropped
              /\ q.dep[master.next][j].addr = q.dep[master.next][master.dep].addr
              => j \in J
<1> DEFINE t == master.next
           i == master.dep
           a == q.dep[t][i].addr
<1>1. t \in Tasks /\ i \in Arguments(t) /\ a \in prog.addrs
  BY DependIs
<1>2. q.status[t] = "NOTREADY" /\ ~q.dep[t][i].ready
  BY DependWaits
<1>3. ~q.dep[t][i].dropped
  BY <1>1, <1>2 DEF Inv, Deps
<1>4. ~Came(t, i)
  <2>1. i \in Nat
    BY DEF Inv, TypeOK
  <2> QED
    BY <2>1 DEF Came, Depend
<1>5. \A k \in Arguments(t) : ~Gone(t, k)
  <2>1. t \notin freed
    BY <1>1, <1>2 DEF Inv, Stages, Done
  <2>2. \A r \in Threads : job[r].task # t
    <3>1. t # None
      BY <1>1 DEF Tasks, None
    <3> QED
      BY <1>2, <3>1 DEF Inv, Ctl, JobPlace, Done
  <2> QED
    BY <2>1, <2>2 DEF Gone
<1>6. /\ J \in SUBSET Arguments(t) /\ i \notin J
      /\ \A j \in Arguments(t) : j \in J <=> <<t, j>> \in q.list[a]
      /\ \A j, k \in J : j = k
  BY DEF Arrived
<1>7. \A j \in Arguments(t) : <<t, j>> \in q.list[a] <=> Waits(t, j, a)
  BY <1>1 DEF Inv, Lists
<1>8. \A j \in Arguments(t) : j \in J <=>
         Came(t, j) /\ ~q.dep[t][j].dropped /\ q.dep[t][j].addr = a
  <2>1. \A j \in Arguments(t) : Waits(t, j, a) <=> q.dep[t][j].addr = a /\ Came(t, j) /\ ~q.dep[t][j].dropped /\ ~Gone(t, j)
    BY DEF Waits
  <2> QED
    BY <1>5, <1>6, <1>7, <2>1
<1> QED
  BY <1>1, <1>2, <1>3, <1>4, <1>5, <1>6, <1>8

\* What Deps says of one task.
Counting(t) == q.ndep[t] = Cardinality(Unready(t))
Coming(t)   == \A i \in Arguments(t) :
                 /\ q.dep[t][i].addr \in prog.addrs
                 /\ q.dep[t][i].dropped => q.dep[t][i].ready
                 /\ q.dep[t][i].ready => Came(t, i)
Single(t)   == \A i, j \in Arguments(t) :
                 /\ q.dep[t][i].addr = q.dep[t][j].addr
                 /\ Came(t, i) /\ Came(t, j)
                 /\ ~q.dep[t][i].dropped /\ ~q.dep[t][j].dropped
                 => i = j

\* Depend keeps Deps: the new dependency is counted unless it is ready.
LEMMA DependDeps ==
  ASSUME Inv, Step(0), 0 \in Threads, Depend, NEW t, t = master.next, NEW i, i = master.dep
  PROVE  Deps'
<1>0. prog' = prog /\ Tasks' = Tasks /\ \A u : Arguments(u)' = Arguments(u)
  BY GivenKept, SameGiven
<1>1. PICK J, alone : Arrived(master.next, master.dep, J, alone)
  BY DependIs
<1>a. PICK d : d = q.dep[t][i]
  OBVIOUS
<1>2. /\ t \in Tasks /\ i \in Arguments(t) /\ ~d.ready /\ ~d.dropped /\ d.addr \in prog.addrs
      /\ \A j \in J : /\ j \in Arguments(t) /\ j # i
                      /\ Came(t, j) /\ ~q.dep[t][j].dropped
      /\ \A k, j \in J : k = j
      /\ \A j \in Arguments(t) :
           Came(t, j) /\ ~q.dep[t][j].dropped /\ q.dep[t][j].addr = d.addr => j \in J
  BY <1>1, <1>a, DependFacts
<1>3. /\ q'.dep[t][i].addr = d.addr
      /\ q'.dep[t][i].ready <=> d.ready \/ alone
      /\ q'.dep[t][i].dropped <=> d.dropped
      /\ \A j \in J : /\ q'.dep[t][j].addr = q.dep[t][j].addr
                      /\ q'.dep[t][j].ready /\ q'.dep[t][j].dropped
      /\ \A r \in Tasks : \A k \in Arguments(r) :
           r # t \/ (k # i /\ k \notin J) => q'.dep[r][k] = q.dep[r][k]
      /\ \A r \in Tasks : r # t => q'.ndep[r] = q.ndep[r]
      /\ q'.ndep[t] = q.ndep[t] - (IF \E j \in J : ~q.dep[t][j].ready THEN 1 ELSE 0)
                                - (IF alone THEN 1 ELSE 0)
      /\ alone \in BOOLEAN
  <2>1. Arrived(t, i, J, alone)
    BY <1>1
  <2>2. alone \in BOOLEAN
    BY <2>1 DEF Arrived
  <2>3. \A j \in J : /\ q'.dep[t][j].addr = q.dep[t][j].addr
                     /\ q'.dep[t][j].ready /\ q'.dep[t][j].dropped
    BY <2>1 DEF Arrived
  <2>4. /\ q'.dep[t][i].addr = d.addr
        /\ q'.dep[t][i].ready <=> d.ready \/ alone
        /\ q'.dep[t][i].dropped <=> d.dropped
    BY <2>1, <2>2, <1>a DEF Arrived
  <2>5. /\ \A r \in Tasks : \A k \in Arguments(r) :
             r # t \/ (k # i /\ k \notin J) => q'.dep[r][k] = q.dep[r][k]
        /\ \A r \in Tasks : r # t => q'.ndep[r] = q.ndep[r]
        /\ q'.ndep[t] = q.ndep[t] - (IF \E j \in J : ~q.dep[t][j].ready THEN 1 ELSE 0)
                                  - (IF alone THEN 1 ELSE 0)
    BY <2>1 DEF Arrived
  <2> QED
    BY <2>2, <2>3, <2>4, <2>5
<1>4. \A u \in Tasks : \A k \in Arguments(u) : Came(u, k)' <=> Came(u, k) \/ (u = t /\ k = i)
  BY CameDepend
<1>5. \A u \in Tasks : Counting(u) /\ Coming(u) /\ Single(u)
  BY DEF Inv, Deps, Counting, Coming, Single
<1>6. ASSUME NEW u \in Tasks, u # t
      PROVE  Counting(u)' /\ Coming(u)' /\ Single(u)'
  <2>1. \A k \in Arguments(u) : q'.dep[u][k] = q.dep[u][k] /\ (Came(u, k)' <=> Came(u, k))
    BY <1>3, <1>4, <1>6
  <2>2. Unready(u)' = Unready(u)
    BY <1>0, <2>1 DEF Unready
  <2> QED
    BY <1>0, <1>3, <1>5, <1>6, <2>1, <2>2 DEF Counting, Coming, Single
<1>7. Counting(t)'
  <2> DEFINE U == Unready(t)
             V == U \ J
  <2>1. IsFiniteSet(U) /\ Cardinality(U) \in Nat /\ q.ndep[t] = Cardinality(U)
    BY <1>2, <1>5, UnreadyFinite DEF Counting
  <2>2. i \in U /\ i \in V
    BY <1>2, <1>a DEF Unready
  <2>3. IsFiniteSet(V) /\ Cardinality(V) = Cardinality(U) - (IF \E j \in J : ~q.dep[t][j].ready THEN 1 ELSE 0)
    <3>1. CASE \E j \in J : ~q.dep[t][j].ready
      <4>1. PICK j \in J : ~q.dep[t][j].ready
        BY <3>1
      <4>2. j \in U /\ V = U \ {j}
        BY <1>2, <4>1 DEF Unready
      <4> HIDE DEF U, V
      <4>3. IsFiniteSet(U \ {j}) /\ Cardinality(U \ {j}) = Cardinality(U) - 1
        BY <2>1, <4>2, FS_RemoveElement
      <4> QED
        BY <3>1, <4>2, <4>3
    <3>2. CASE ~ \E j \in J : ~q.dep[t][j].ready
      <4>1. V = U
        BY <3>2 DEF Unready
      <4> HIDE DEF U, V
      <4> QED
        BY <2>1, <3>2, <4>1
    <3> QED
      BY <3>1, <3>2
  <2>4. Unready(t)' = IF alone THEN V \ {i} ELSE V
    <3>1. \A k \in Arguments(t) : ~q'.dep[t][k].ready <=> ~q.dep[t][k].ready /\ k \notin J /\ ~(k = i /\ alone)
      BY <1>2, <1>3, <1>a
    <3>2. Unready(t)' = {k \in Arguments(t) : ~q'.dep[t][k].ready}
      BY <1>0 DEF Unready
    <3> QED
      BY <3>1, <3>2 DEF Unready
  <2> HIDE DEF U, V
  <2>5. IsFiniteSet(V \ {i}) /\ Cardinality(V \ {i}) = Cardinality(V) - 1
    BY <2>2, <2>3, FS_RemoveElement
  <2>6. q'.ndep[t] = Cardinality(IF alone THEN V \ {i} ELSE V)
    BY <1>3, <2>1, <2>3, <2>5
  <2> QED
    BY <2>4, <2>6 DEF Counting
<1>8. \A k \in J : Came(t, k)
  BY <1>2
<1>10. Coming(t)'
  <2>1. \A k \in Arguments(t) :
          /\ q'.dep[t][k].addr = q.dep[t][k].addr
          /\ q'.dep[t][k].dropped => q.dep[t][k].dropped \/ k \in J
          /\ q.dep[t][k].ready \/ k \in J => q'.dep[t][k].ready
          /\ q'.dep[t][k].ready => q.dep[t][k].ready \/ k \in J \/ k = i
    BY <1>2, <1>3, <1>a
  <2> QED
    BY <1>0, <1>2, <1>4, <1>5, <1>8, <2>1 DEF Coming
<1>11. Single(t)'
  <2>1. \A k \in Arguments(t) :
          /\ q'.dep[t][k].addr = q.dep[t][k].addr
          /\ ~q'.dep[t][k].dropped => ~q.dep[t][k].dropped /\ k \notin J
    BY <1>2, <1>3, <1>a
  <2> QED
    BY <1>0, <1>2, <1>4, <1>5, <1>a, <2>1 DEF Single
<1> QED
  <2>1. \A u \in Tasks : (Counting(u) /\ Coming(u) /\ Single(u))'
    BY <1>2, <1>6, <1>7, <1>10, <1>11
  <2> QED
    BY <1>0, <2>1 DEF Deps, Counting, Coming, Single

\* Update keeps Deps: each task it releases a dependency of is counted down by one.
LEMMA UpdateDeps ==
  ASSUME Inv, NEW r \in Threads, Step(r), Update(r)
  PROVE  Deps'
<1>0. prog' = prog /\ Tasks' = Tasks /\ \A u : Arguments(u)' = Arguments(u)
  BY GivenKept, SameGiven
<1>1. PICK t, i, D : /\ t \in Tasks /\ i \in Arguments(t) /\ q.dep[t][i].addr \in prog.addrs
                     /\ Updated(t, i, D)
  BY UpdateIs
<1>2. pc[0] # "depend" \/ r # 0
  BY DEF Update
<1>3. \A u \in Tasks : \A k \in Arguments(u) : Came(u, k)' <=> Came(u, k)
  BY <1>2, CameKept
<1>4. \A d \in D :
        /\ d[1] \in Tasks /\ d[2] \in Arguments(d[1]) /\ d = <<d[1], d[2]>>
        /\ ~q.dep[d[1]][d[2]].ready /\ Came(d[1], d[2])
        /\ d \in q.list[q.dep[t][i].addr]
  BY <1>1, UpdatedWaits DEF Updated
<1>5. \A u \in Tasks : \A k \in Arguments(u) :
        /\ q'.dep[u][k].addr = q.dep[u][k].addr
        /\ q'.dep[u][k].dropped <=> q.dep[u][k].dropped
        /\ q'.dep[u][k].ready <=> q.dep[u][k].ready \/ <<u, k>> \in D
  <2>1. \A u \in Tasks : \A k \in Arguments(u) :
          /\ SameBut(q.dep[u][k], q'.dep[u][k])
          /\ q'.dep[u][k].ready <=> q.dep[u][k].ready \/ <<u, k>> \in D
    BY <1>1, Zenon DEF Updated
  <2> QED
    BY <2>1, Zenon DEF SameBut
<1>6. \A u \in Tasks : Counting(u) /\ Coming(u) /\ Single(u)
  BY DEF Inv, Deps, Counting, Coming, Single
<1>7. ASSUME NEW u \in Tasks
      PROVE  Counting(u)'
  <2>0. Unready(u)' = {k \in Arguments(u) : ~q'.dep[u][k].ready}
    BY <1>0 DEF Unready
  <2>1. q'.ndep[u] = IF \E d \in D : d[1] = u THEN q.ndep[u] - 1 ELSE q.ndep[u]
    BY <1>1 DEF Updated
  <2>2. IsFiniteSet(Unready(u)) /\ Cardinality(Unready(u)) \in Nat /\ q.ndep[u] = Cardinality(Unready(u))
    BY <1>6, UnreadyFinite DEF Counting
  <2>3. CASE \E d \in D : d[1] = u
    <3>1. PICK k : k \in Arguments(u) /\ <<u, k>> \in D
      BY <1>4, <2>3
    <3>2. \A m \in Arguments(u) : <<u, m>> \in D => m = k
      BY <1>1, <1>4, <3>1, ListedOnce
    <3>3. k \in Unready(u)
      BY <1>4, <3>1 DEF Unready
    <3>4. Unready(u)' = Unready(u) \ {k}
      BY <1>5, <2>0, <3>1, <3>2 DEF Unready
    <3>5. Cardinality(Unready(u) \ {k}) = Cardinality(Unready(u)) - 1
      BY <2>2, <3>3, FS_RemoveElement
    <3> QED
      BY <2>1, <2>2, <2>3, <3>4, <3>5 DEF Counting
  <2>4. CASE ~ \E d \in D : d[1] = u
    <3>1. \A k : <<u, k>> \notin D
      BY <2>4
    <3>2. Unready(u)' = Unready(u)
      BY <1>5, <2>0, <3>1 DEF Unready
    <3> QED
      BY <2>1, <2>2, <2>4, <3>2 DEF Counting
  <2> QED
    BY <2>3, <2>4
<1>8. ASSUME NEW u \in Tasks
      PROVE  Coming(u)' /\ Single(u)'
  <2>1. \A k \in Arguments(u) : <<u, k>> \in D => Came(u, k)
    BY <1>4
  <2>2. Coming(u)'
    <3>1. \A k \in Arguments(u) :
            /\ q.dep[u][k].addr \in prog.addrs
            /\ q.dep[u][k].dropped => q.dep[u][k].ready
            /\ q.dep[u][k].ready => Came(u, k)
      BY <1>6 DEF Coming
    <3>2. \A k \in Arguments(u) : q'.dep[u][k].addr \in prog.addrs'
      BY <1>0, <1>5, <3>1
    <3>3. \A k \in Arguments(u) : q'.dep[u][k].dropped => q'.dep[u][k].ready
      BY <1>5, <3>1
    <3>4. \A k \in Arguments(u) : q'.dep[u][k].ready => Came(u, k)'
      BY <1>3, <1>5, <2>1, <3>1
    <3> QED
      BY <1>0, <3>2, <3>3, <3>4 DEF Coming
  <2>3. Single(u)'
    <3>1. Single(u)
      BY <1>6
    <3>2. ASSUME NEW k \in Arguments(u), NEW m \in Arguments(u),
                 q'.dep[u][k].addr = q'.dep[u][m].addr, Came(u, k)', Came(u, m)',
                 ~q'.dep[u][k].dropped, ~q'.dep[u][m].dropped
          PROVE  k = m
      <4>1. Came(u, k) /\ Came(u, m)
        BY <1>3, <3>2
      <4>2. q.dep[u][k].addr = q.dep[u][m].addr /\ ~q.dep[u][k].dropped /\ ~q.dep[u][m].dropped
        BY <1>5, <3>2
      <4> QED
        BY <3>1, <4>1, <4>2 DEF Single
    <3> QED
      BY <1>0, <3>2 DEF Single
  <2> QED
    BY <2>2, <2>3
<1> QED
  BY <1>0, <1>7, <1>8 DEF Deps, Counting, Coming, Single

\* The dependencies change where one comes and where one is processed.
LEMMA SameDepsElse ==
  ASSUME Inv, NEW r \in Threads, Step(r), ~(r = 0 /\ pc[0] = "depend"), ~Update(r)
  PROVE  q'.dep = q.dep /\ q'.ndep = q.ndep /\ q'.list = q.list
<1>1. CASE r = 0 /\ (Insert \/ Hash)
  BY <1>1, InsertIs, HashIs DEF SameDeps
<1>2. CASE r = 0 /\ Check
  <2>1. CASE master.next \in freed
    BY <1>2, <2>1 DEF Check
  <2> QED
    BY <1>2, <2>1, CheckIs
<1>3. CASE Start(r) \/ Finish(r)
  BY <1>3, StartIs, FinishIs DEF SameDeps
<1>4. ~(r = 0 /\ Depend)
  BY DEF Depend
<1> QED
  BY <1>1, <1>2, <1>3, <1>4, StatusKept

\* Every step keeps Deps.
LEMMA DepsHold ==
  ASSUME Inv, NEW r \in Threads, Step(r)
  PROVE  Deps'
<1>0. prog' = prog /\ Tasks' = Tasks /\ \A u : Arguments(u)' = Arguments(u)
  BY GivenKept, SameGiven
<1>1. CASE r = 0 /\ pc[0] = "depend"
  <2>1. PICK t, i : t = master.next /\ i = master.dep
    OBVIOUS
  <2> QED
    BY <1>1, <2>1, DependNext, DependDeps
<1>2. CASE Update(r)
  BY <1>2, UpdateDeps
<1>3. CASE ~(r = 0 /\ pc[0] = "depend") /\ ~Update(r)
  <2>1. q'.dep = q.dep /\ q'.ndep = q.ndep
    BY <1>3, SameDepsElse
  <2>2. \A u \in Tasks : \A k \in Arguments(u) : Came(u, k)' <=> Came(u, k)
    BY <1>3, CameKept
  <2>3. \A u \in Tasks : Counting(u) /\ Coming(u) /\ Single(u)
    BY DEF Inv, Deps, Counting, Coming, Single
  <2>4. ASSUME NEW u \in Tasks
        PROVE  (Counting(u) /\ Coming(u) /\ Single(u))'
    <3>1. Unready(u)' = Unready(u)
      BY <1>0, <2>1 DEF Unready
    <3> QED
      BY <1>0, <2>1, <2>2, <2>3, <3>1 DEF Counting, Coming, Single
  <2> QED
    BY <1>0, <2>4 DEF Deps, Counting, Coming, Single
<1> QED
  BY <1>1, <1>2, <1>3
-----------------------------------------------------------------------------
\* What the insertion of an argument leaves of the dependencies of the task.
LEMMA DependKeeps ==
  ASSUME Inv, Depend, NEW J, NEW alone, Arrived(master.next, master.dep, J, alone),
         NEW t \in Tasks, NEW k \in Arguments(t)
  PROVE  /\ q'.dep[t][k].addr = q.dep[t][k].addr
         /\ q.dep[t][k].write => q'.dep[t][k].write
         /\ q.dep[t][k].region \subseteq q'.dep[t][k].region
         /\ q'.dep[t][k].gather <=> q.dep[t][k].gather
         /\ q.dep[t][k].gather => q'.dep[t][k].region = q.dep[t][k].region
         /\ ~(t = master.next /\ k \in J) => (q'.dep[t][k].dropped <=> q.dep[t][k].dropped)
         /\ t # master.next \/ (k # master.dep /\ k \notin J) => q'.dep[t][k] = q.dep[t][k]
<1>1. CASE t # master.next \/ (k # master.dep /\ k \notin J)
  <2>1. q'.dep[t][k] = q.dep[t][k]
    BY <1>1 DEF Arrived
  <2> QED
    BY <1>1, <2>1
<1>2. CASE t = master.next /\ k \in J
  <2>1. k # master.dep
    BY <1>2 DEF Arrived
  <2> QED
    BY <1>2, <2>1 DEF Arrived
<1>3. CASE t = master.next /\ k = master.dep
  <2>1. PICK d, x : d = q.dep[t][k] /\ x = q'.dep[t][k]
    OBVIOUS
  <2>2. /\ x.addr = d.addr /\ (x.gather <=> d.gather) /\ (x.dropped <=> d.dropped)
        /\ d.write => x.write
        /\ \A p : p \in x.region <=> p \in d.region \/ \E j \in J : p \in q.dep[t][j].region
        /\ \A j \in J : j \in Arguments(t) /\ q.dep[t][j].addr = d.addr
        /\ k \notin J
    BY <1>3, <2>1 DEF Arrived
  <2>3. d.gather => \A j \in J : q.dep[t][j].region = d.region
    BY <2>1, <2>2 DEF Inv, Covers
  <2>4. d.region \subseteq x.region /\ (d.gather => x.region = d.region)
    BY <2>2, <2>3
  <2> QED
    BY <1>3, <2>1, <2>2, <2>4
<1> QED
  BY <1>1, <1>2, <1>3

\* Every step keeps Covers.
LEMMA CoversHold ==
  ASSUME Inv, NEW r \in Threads, Step(r)
  PROVE  Covers'
<1>0. prog' = prog /\ Tasks' = Tasks /\ \A u : Arguments(u)' = Arguments(u)
  BY GivenKept, SameGiven
<1>1. \A t \in Tasks :
        /\ \A k \in Arguments(t) : \E i \in Arguments(t) : Stands(t, i, prog.args[t][k])
        /\ \A i, j \in Arguments(t) :
             q.dep[t][i].addr = q.dep[t][j].addr /\ q.dep[t][i].gather =>
                q.dep[t][j].gather /\ q.dep[t][j].region = q.dep[t][i].region
  BY DEF Inv, Covers
<1>2. CASE ~(r = 0 /\ pc[0] = "depend")
  <2>1. \A t \in Tasks : \A i \in Arguments(t) : SameBut(q.dep[t][i], q'.dep[t][i])
    BY <1>2, DepsKept
  <2>2. ASSUME NEW t \in Tasks, NEW i \in Arguments(t), NEW d
        PROVE  Stands(t, i, d) => Stands(t, i, d)'
    BY <2>1 DEF Stands, SameBut
  <2>3. ASSUME NEW t \in Tasks
        PROVE  \A k \in Arguments(t) : \E i \in Arguments(t) : Stands(t, i, prog.args[t][k])'
    BY <1>0, <1>1, <2>2
  <2>4. \A t \in Tasks : \A i, j \in Arguments(t) :
          q'.dep[t][i].addr = q'.dep[t][j].addr /\ q'.dep[t][i].gather =>
            q'.dep[t][j].gather /\ q'.dep[t][j].region = q'.dep[t][i].region
    BY <1>1, <2>1 DEF SameBut
  <2> QED
    BY <1>0, <2>3, <2>4 DEF Covers
<1>3. CASE r = 0 /\ pc[0] = "depend"
  <2>0. Depend
    BY <1>3, DependNext
  <2>1. PICK J, alone : Arrived(master.next, master.dep, J, alone)
    BY <2>0, DependIs
  <2>2. /\ master.next \in Tasks /\ master.dep \in Arguments(master.next)
        /\ ~q.dep[master.next][master.dep].dropped
        /\ master.dep \notin J
    BY <2>0, <2>1, DependFacts
  <2>3. \A t \in Tasks : \A k \in Arguments(t) :
          /\ q'.dep[t][k].addr = q.dep[t][k].addr
          /\ q.dep[t][k].write => q'.dep[t][k].write
          /\ q.dep[t][k].region \subseteq q'.dep[t][k].region
          /\ q'.dep[t][k].gather <=> q.dep[t][k].gather
          /\ q.dep[t][k].gather => q'.dep[t][k].region = q.dep[t][k].region
          /\ ~(t = master.next /\ k \in J) => (q'.dep[t][k].dropped <=> q.dep[t][k].dropped)
    BY <2>0, <2>1, DependKeeps
  <2>4. ASSUME NEW t \in Tasks, NEW i \in Arguments(t), NEW d, Stands(t, i, d), ~(t = master.next /\ i \in J)
        PROVE  Stands(t, i, d)'
    <3>1. /\ q.dep[t][i].addr = d.addr /\ ~q.dep[t][i].dropped
          /\ d.write => q.dep[t][i].write
          /\ d.region \subseteq q.dep[t][i].region
          /\ q.dep[t][i].gather <=> d.gather
          /\ d.gather => q.dep[t][i].region = d.region
      BY <2>4 DEF Stands
    <3> QED
      BY <2>3, <2>4, <3>1 DEF Stands
  <2>5. ASSUME NEW t, t = master.next, NEW m, m = master.dep, NEW i \in J, NEW d, Stands(t, i, d)
        PROVE  Stands(t, m, d)'
    <3>1. PICK x, y, z : x = q.dep[t][i] /\ y = q.dep[t][m] /\ z = q'.dep[t][m]
      OBVIOUS
    <3>2. /\ x.addr = d.addr /\ ~x.dropped
          /\ d.write => x.write
          /\ d.region \subseteq x.region
          /\ x.gather <=> d.gather
          /\ d.gather => x.region = d.region
      BY <2>5, <3>1 DEF Stands
    <3>3. i \in Arguments(t) /\ y.addr = x.addr
      BY <2>1, <2>5, <3>1 DEF Arrived
    <3>4. /\ z.addr = y.addr /\ (z.gather <=> y.gather) /\ ~z.dropped
          /\ y.gather => z.region = y.region
          /\ y.write => z.write
      BY <2>2, <2>3, <2>5, <3>1
    <3>5. /\ x.write => z.write
          /\ x.region \subseteq z.region
      BY <2>1, <2>5, <3>1 DEF Arrived
    <3>6. (x.gather <=> y.gather) /\ (x.gather => x.region = y.region)
      BY <1>1, <2>2, <2>5, <3>1, <3>3
    <3>7. /\ z.addr = d.addr /\ ~z.dropped /\ (z.gather <=> d.gather)
          /\ d.write => z.write
          /\ d.region \subseteq z.region
          /\ d.gather => z.region = d.region
      BY <3>2, <3>3, <3>4, <3>5, <3>6
    <3> QED
      BY <3>1, <3>7 DEF Stands
  <2>6. ASSUME NEW t \in Tasks, NEW k \in Arguments(t)
        PROVE  \E i \in Arguments(t) : Stands(t, i, prog.args[t][k])'
    <3>1. PICK i \in Arguments(t) : Stands(t, i, prog.args[t][k])
      BY <1>1
    <3>2. CASE ~(t = master.next /\ i \in J)
      BY <1>0, <2>4, <3>1, <3>2
    <3>3. CASE t = master.next /\ i \in J
      <4>1. PICK m \in Arguments(t) : m = master.dep
        BY <2>2, <3>3
      <4>2. Stands(t, m, prog.args[t][k])'
        BY <1>0, <2>5, <3>1, <3>3, <4>1
      <4> QED
        BY <1>0, <4>1, <4>2
    <3> QED
      BY <3>2, <3>3
  <2>7. \A t \in Tasks : \A i, j \in Arguments(t) :
          q'.dep[t][i].addr = q'.dep[t][j].addr /\ q'.dep[t][i].gather =>
            q'.dep[t][j].gather /\ q'.dep[t][j].region = q'.dep[t][i].region
    BY <1>1, <2>3
  <2>8. \A t \in Tasks : \A k \in Arguments(t) : \E i \in Arguments(t) : Stands(t, i, prog.args[t][k])'
    BY <1>0, <2>6
  <2> QED
    BY <1>0, <2>7, <2>8 DEF Covers
<1> QED
  BY <1>2, <1>3
-----------------------------------------------------------------------------
\* Which dependencies of completed tasks are gone.
LEMMA GoneKept ==
  ASSUME Inv, NEW r \in Threads, Step(r), ~Process(r), ~Update(r), NEW t \in Tasks, NEW k
  PROVE  Gone(t, k)' <=> Gone(t, k)
<1>0. job \in [Threads -> [task : Tasks \cup {None}, dep : Nat, by : Threads \cup {Nobody}]] /\ t # None
  BY DEF Inv, TypeOK, Tasks, None
<1>1. CASE freed' = freed /\ job' = job
  BY <1>1 DEF Gone
<1>2. CASE Delete(r)
  <2>1. freed' = freed \cup {job[r].task} /\ job' = job /\ job[r].dep = 0
    BY <1>2 DEF Delete, threads, Inv, Ctl
  <2> QED
    BY <2>1 DEF Gone
<1>3. CASE Uncount(r)
  <2>1. freed' = freed /\ job[r].task \in freed
    BY <1>3 DEF Uncount, Inv, JobPlace
  <2>2. job'[r].task = None /\ \A s \in Threads \ {r} : job'[s] = job[s]
    BY <1>0, <1>3 DEF Uncount
  <2> QED
    BY <1>0, <2>1, <2>2 DEF Gone
<1> QED
  BY <1>1, <1>2, <1>3
     DEF Step, Master, Completion, MainLoop, threads, Insert, Hash, Depend, Check, BarrierStart,
        Return, Finalize, Signal, ProcessOver, Unlink, Help, Take, Steal, Miss, Doze, Wake, Leave,
     ReadSequence, Start, Finish, Enqueue, BeginCancel, CancelTask, EndCancel, Got

\* A task whose processing begins has nothing removed yet.
LEMMA GoneProcess ==
  ASSUME Inv, NEW r \in Threads, Process(r), NEW t \in Tasks, NEW k \in Arguments(t),
         ~q.dep[t][k].dropped
  PROVE  Gone(t, k)' <=> Gone(t, k)
<1>0. /\ job \in [Threads -> [task : Tasks \cup {None}, dep : Nat, by : Threads \cup {Nobody}]]
      /\ completed \in Seq(Tasks \X (Threads \cup {Nobody})) /\ t # None
      /\ prog \in Programs /\ Shaped(q) /\ k \in Nat \ {0}
  BY DEF Inv, TypeOK, Tasks, None, Arguments
<1>1. PICK u, i, by : /\ u = Head(completed)[1] /\ i = NextDep(u, 0) /\ completed # <<>>
                      /\ job' = [job EXCEPT ![r] = [task |-> u, dep |-> i, by |-> by]]
                      /\ freed' = freed /\ pc[r] = "process"
  BY DEF Process
<1>2. u \in Tasks /\ Names(u, completed)
  <2>1. 1 \in DOMAIN completed /\ Head(completed) = completed[1] /\ completed[1] \in Tasks \X (Threads \cup {Nobody})
    BY <1>0, <1>1
  <2> QED
    BY <1>1, <2>1 DEF Names
<1>3. /\ u \notin freed /\ \A s \in Threads : job[s].task # u
  BY <1>2 DEF Inv, DonePlace
<1>4. job[r].task = None
  BY <1>1 DEF Inv, Ctl, Clearing
<1>5. i = 0 \/ i \in Nat
  BY <1>0, <1>1, <1>2, NextDepIs DEF Arguments
<1>6. u = t => i # 0 /\ ~(k < i)
  BY <1>0, <1>1, <1>2, NextDepIs
<1>7. /\ job'[r].task = u /\ job'[r].dep = i
      /\ \A s \in Threads \ {r} : job'[s] = job[s]
  BY <1>0, <1>1
<1> QED
  BY <1>0, <1>1, <1>3, <1>4, <1>6, <1>7 DEF Gone

\* Update removes one dependency.
LEMMA GoneUpdate ==
  ASSUME Inv, NEW r \in Threads, Update(r), NEW t \in Tasks, NEW k \in Arguments(t),
         ~q.dep[t][k].dropped
  PROVE  Gone(t, k)' <=> Gone(t, k) \/ (t = job[r].task /\ k = job[r].dep)
<1>0. /\ job \in [Threads -> [task : Tasks \cup {None}, dep : Nat, by : Threads \cup {Nobody}]]
      /\ prog \in Programs /\ Shaped(q) /\ k \in Nat \ {0} /\ t # None
  BY DEF Inv, TypeOK, Tasks, None, Arguments
<1>1. PICK u, i, j : /\ u = job[r].task /\ i = job[r].dep /\ j = NextDep(u, i)
                     /\ job' = [job EXCEPT ![r].dep = j]
                     /\ freed' = freed /\ pc[r] = "update"
  BY DEF Update
<1>2. u \in Tasks /\ i \in Arguments(u) /\ i \in Nat \ {0}
  BY <1>1, UpdateIs DEF Arguments
<1>3. \/ j = 0 /\ \A m \in Arguments(u) : m > i => q.dep[u][m].dropped
      \/ /\ j \in Arguments(u) /\ j > i
         /\ \A m \in Arguments(u) : m > i /\ m < j => q.dep[u][m].dropped
  BY <1>0, <1>1, <1>2, NextDepIs
<1>4. u \notin freed /\ u # None /\ \A s \in Threads : job[s].task = u => s = r
  BY <1>0, <1>1, <1>2 DEF Inv, JobPlace, Tasks, None
<1>5. /\ job'[r].task = u /\ job'[r].dep = j
      /\ \A s \in Threads \ {r} : job'[s] = job[s]
  BY <1>0, <1>1
<1>6. CASE t # u
  BY <1>1, <1>5, <1>6 DEF Gone
<1>7. CASE t = u
  <2>1. Gone(t, k) <=> k < i
    BY <1>1, <1>2, <1>4, <1>7 DEF Gone
  <2>2. Gone(t, k)' <=> j = 0 \/ k < j
    BY <1>1, <1>4, <1>5, <1>7 DEF Gone
  <2>3. j = 0 \/ k < j <=> k < i \/ k = i
    <3>1. ASSUME k > i, j = 0 \/ k < j
          PROVE  FALSE
      BY <1>0, <1>2, <1>3, <1>7, <3>1
    <3> QED
      BY <1>0, <1>2, <1>3, <3>1 DEF Arguments
  <2> QED
    BY <1>1, <1>7, <2>1, <2>2, <2>3
<1> QED
  BY <1>6, <1>7

\* Every step keeps Lists.
LEMMA ListsHold ==
  ASSUME Inv, NEW r \in Threads, Step(r)
  PROVE  Lists'
<1>0. prog' = prog /\ Tasks' = Tasks /\ \A u : Arguments(u)' = Arguments(u)
  BY GivenKept, SameGiven
<1>1. \A a \in prog.addrs :
        /\ \A d \in q.list[a] : d[1] \in Tasks /\ d[2] \in Arguments(d[1])
        /\ \A t \in Tasks : \A i \in Arguments(t) : <<t, i>> \in q.list[a] <=> Waits(t, i, a)
  BY DEF Inv, Lists
<1>2. CASE r = 0 /\ pc[0] = "depend"
  <2>0. Depend /\ ~Process(r) /\ ~Update(r)
    BY <1>2, DependNext DEF Process, Update
  <2>1. PICK J, alone : Arrived(master.next, master.dep, J, alone)
    BY <2>0, DependIs
  <2>2. PICK t, m : t = master.next /\ m = master.dep
    OBVIOUS
  <2>3. /\ t \in Tasks /\ m \in Arguments(t)
        /\ ~q.dep[t][m].dropped /\ q.dep[t][m].addr \in prog.addrs
        /\ ~Came(t, m) /\ ~Gone(t, m)
        /\ \A j \in J : j # m
    BY <2>0, <2>1, <2>2, DependFacts
  <2>4. /\ \A u \in Tasks : \A k \in Arguments(u) :
             /\ q'.dep[u][k].addr = q.dep[u][k].addr
             /\ ~(u = t /\ k \in J) => (q'.dep[u][k].dropped <=> q.dep[u][k].dropped)
             /\ Came(u, k)' <=> Came(u, k) \/ (u = t /\ k = m)
             /\ Gone(u, k)' <=> Gone(u, k)
    BY <2>0, <2>1, <2>2, DependKeeps, CameDepend, GoneKept
  <2>5. /\ \A j \in J : q'.dep[t][j].dropped /\ q.dep[t][j].addr = q.dep[t][m].addr
        /\ \A b \in prog.addrs : \A e : e \in q'.list[b] <=>
             \/ e \in q.list[b] /\ ~(b = q.dep[t][m].addr /\ \E j \in J : e = <<t, j>>)
             \/ b = q.dep[t][m].addr /\ e = <<t, m>>
    <3>1. Arrived(t, m, J, alone)
      BY <2>1, <2>2
    <3> QED
      BY <3>1 DEF Arrived
  <2>6. ASSUME NEW b \in prog.addrs
        PROVE  /\ \A d \in q'.list[b] : d[1] \in Tasks /\ d[2] \in Arguments(d[1])
               /\ \A u \in Tasks : \A k \in Arguments(u) : <<u, k>> \in q'.list[b] <=> Waits(u, k, b)'
    <3>1. \A d \in q'.list[b] : d[1] \in Tasks /\ d[2] \in Arguments(d[1])
      BY <1>1, <2>3, <2>5
    <3>2. ASSUME NEW u \in Tasks, NEW k \in Arguments(u)
          PROVE  <<u, k>> \in q'.list[b] <=> Waits(u, k, b)'
      <4>1. <<u, k>> \in q.list[b] <=> Waits(u, k, b)
        BY <1>1
      <4>2. <<u, k>> \in q'.list[b] <=>
              \/ <<u, k>> \in q.list[b] /\ ~(b = q.dep[t][m].addr /\ u = t /\ k \in J)
              \/ b = q.dep[t][m].addr /\ u = t /\ k = m
        BY <2>5
      <4>3. Waits(u, k, b)' <=> /\ q'.dep[u][k].addr = b
                                /\ Came(u, k)'
                                /\ ~q'.dep[u][k].dropped
                                /\ ~Gone(u, k)'
        BY DEF Waits
      <4>4. Waits(u, k, b) <=> /\ q.dep[u][k].addr = b
                               /\ Came(u, k)
                               /\ ~q.dep[u][k].dropped
                               /\ ~Gone(u, k)
        BY DEF Waits
      <4>5. CASE u = t /\ k = m
        BY <2>3, <2>4, <4>1, <4>2, <4>3, <4>4, <4>5
      <4>6. CASE u = t /\ k \in J
        BY <2>3, <2>4, <2>5, <4>1, <4>2, <4>3, <4>4, <4>6
      <4>7. CASE ~(u = t /\ k = m) /\ ~(u = t /\ k \in J)
        BY <2>4, <4>1, <4>2, <4>3, <4>4, <4>7
      <4> QED
        BY <4>5, <4>6, <4>7
    <3> QED
      BY <3>1, <3>2
  <2> QED
    BY <1>0, <2>6 DEF Lists
<1>3. CASE Update(r)
  <2>1. PICK t, i, D : /\ t = job[r].task /\ i = job[r].dep
                       /\ t \in Tasks /\ i \in Arguments(t) /\ q.dep[t][i].addr \in prog.addrs
                       /\ Updated(t, i, D)
    BY <1>3, UpdateIs
  <2>2. r # 0 \/ pc[0] # "depend"
    BY <1>3 DEF Update
  <2>3. \A u \in Tasks : \A k \in Arguments(u) :
          /\ SameBut(q.dep[u][k], q'.dep[u][k])
          /\ Came(u, k)' <=> Came(u, k)
    BY <2>2, CameKept, DepsKept
  <2>4. \A u \in Tasks : \A k \in Arguments(u) :
          ~q.dep[u][k].dropped => (Gone(u, k)' <=> Gone(u, k) \/ (u = t /\ k = i))
    BY <1>3, <2>1, GoneUpdate
  <2>5. \A b \in prog.addrs : \A e : e \in q'.list[b] <=> e \in q.list[b] /\ ~(b = q.dep[t][i].addr /\ e = <<t, i>>)
    BY <2>1 DEF Updated
  <2>6. ASSUME NEW b \in prog.addrs
        PROVE  /\ \A d \in q'.list[b] : d[1] \in Tasks /\ d[2] \in Arguments(d[1])
               /\ \A u \in Tasks : \A k \in Arguments(u) : <<u, k>> \in q'.list[b] <=> Waits(u, k, b)'
    <3>1. \A d \in q'.list[b] : d[1] \in Tasks /\ d[2] \in Arguments(d[1])
      BY <1>1, <2>5
    <3>2. ASSUME NEW u \in Tasks, NEW k \in Arguments(u)
          PROVE  <<u, k>> \in q'.list[b] <=> Waits(u, k, b)'
      <4>1. <<u, k>> \in q.list[b] <=> Waits(u, k, b)
        BY <1>1
      <4>2. <<u, k>> \in q'.list[b] <=> <<u, k>> \in q.list[b] /\ ~(b = q.dep[t][i].addr /\ u = t /\ k = i)
        BY <2>5
      <4>3. q'.dep[u][k].addr = q.dep[u][k].addr /\ (q'.dep[u][k].dropped = q.dep[u][k].dropped)
        BY <2>3 DEF SameBut
      <4>4. Waits(u, k, b)' <=> /\ q'.dep[u][k].addr = b
                                /\ Came(u, k)'
                                /\ ~q'.dep[u][k].dropped
                                /\ ~Gone(u, k)'
        BY DEF Waits
      <4>5. Waits(u, k, b) <=> /\ q.dep[u][k].addr = b
                               /\ Came(u, k)
                               /\ ~q.dep[u][k].dropped
                               /\ ~Gone(u, k)
        BY DEF Waits
      <4> QED
        BY <2>3, <2>4, <4>1, <4>2, <4>3, <4>4, <4>5
    <3> QED
      BY <3>1, <3>2
  <2> QED
    BY <1>0, <2>6 DEF Lists
<1>4. CASE ~(r = 0 /\ pc[0] = "depend") /\ ~Update(r)
  <2>1. q'.dep = q.dep /\ q'.list = q.list
    BY <1>4, SameDepsElse
  <2>2. \A u \in Tasks : \A k \in Arguments(u) : Came(u, k)' <=> Came(u, k)
    BY <1>4, CameKept
  <2>3. \A u \in Tasks : \A k \in Arguments(u) : ~q.dep[u][k].dropped => (Gone(u, k)' <=> Gone(u, k))
    BY <1>4, GoneKept, GoneProcess
  <2>4. ASSUME NEW u \in Tasks, NEW k \in Arguments(u), NEW b
        PROVE  Waits(u, k, b)' <=> Waits(u, k, b)
    BY <2>1, <2>2, <2>3 DEF Waits
  <2> QED
    BY <1>0, <1>1, <2>1, <2>4 DEF Lists
<1> QED
  BY <1>2, <1>3, <1>4
-----------------------------------------------------------------------------
\* What is in a list.
LEMMA Listed ==
  ASSUME Inv, NEW a \in prog.addrs, NEW d \in q.list[a]
  PROVE  /\ d = <<d[1], d[2]>> /\ d[1] \in Tasks /\ d[2] \in Arguments(d[1])
         /\ Of(q, d) = q.dep[d[1]][d[2]] /\ Of(q, d).addr = a /\ Came(d[1], d[2])
<1>1. d[1] \in Tasks /\ d[2] \in Arguments(d[1])
  BY DEF Inv, Lists
<1>2. d = <<d[1], d[2]>>
  <2>1. q.list[a] \in SUBSET (Nat \X Nat)
    BY DEF Inv, TypeOK, Shaped, Nodes
  <2> QED
    BY <2>1
<1>3. q.dep[d[1]][d[2]].addr = a /\ Came(d[1], d[2])
  BY <1>1, <1>2, ListedOnce
<1> QED
  BY <1>1, <1>2, <1>3 DEF Of

\* A task that is not over after a step was not over before it.
LEMMA OpenBefore ==
  ASSUME Inv, NEW r \in Threads, Step(r), NEW d, d[1] \in Tasks, Open(q', d)
  PROVE  Open(q, d)
BY OverStays DEF Open, Done

\* Conflicts do not depend on what a dependency waits for.
LEMMA ConflictKept ==
  ASSUME NEW d, NEW e, NEW x, NEW y, SameBut(d, x), SameBut(e, y)
  PROVE  Conflict(d, e) <=> Conflict(x, y)
BY DEF Conflict, Clash, SameBut

\* Update releases a dependency only when no earlier one of its list conflicts with it.
LEMMA UpdateClear ==
  ASSUME Inv, NEW r \in Threads, Step(r), Update(r), NEW b \in prog.addrs,
         NEW d \in q'.list[b], NEW e \in q'.list[b],
         e[1] < d[1], Of(q', d).ready, Open(q', e)
  PROVE  ~Conflict(Of(q', e), Of(q', d))
<1>1. PICK t, i, D : /\ t \in Tasks /\ i \in Arguments(t) /\ q.dep[t][i].addr \in prog.addrs
                     /\ Updated(t, i, D)
  BY UpdateIs
<1>2. /\ d \in q.list[b] /\ e \in q.list[b]
      /\ b = q.dep[t][i].addr => e # <<t, i>> /\ d # <<t, i>>
  BY <1>1 DEF Updated
<1>3. /\ d = <<d[1], d[2]>> /\ d[1] \in Tasks /\ d[2] \in Arguments(d[1]) /\ Of(q, d).addr = b
      /\ e = <<e[1], e[2]>> /\ e[1] \in Tasks /\ e[2] \in Arguments(e[1]) /\ Of(q, e).addr = b
  BY <1>2, Listed
<1>4. Open(q, e)
  BY <1>3, OpenBefore
<1>5. SameBut(Of(q, d), Of(q', d)) /\ SameBut(Of(q, e), Of(q', e)) /\ (Of(q', d).ready <=> Of(q, d).ready \/ d \in D)
  <2>1. \A u \in Tasks : \A k \in Arguments(u) :
          /\ SameBut(q.dep[u][k], q'.dep[u][k])
          /\ q'.dep[u][k].ready <=> q.dep[u][k].ready \/ <<u, k>> \in D
    BY <1>1, Zenon DEF Updated
  <2>2. /\ SameBut(q.dep[d[1]][d[2]], q'.dep[d[1]][d[2]])
        /\ q'.dep[d[1]][d[2]].ready <=> q.dep[d[1]][d[2]].ready \/ <<d[1], d[2]>> \in D
    BY <1>3, <2>1, Zenon
  <2>3. SameBut(q.dep[e[1]][e[2]], q'.dep[e[1]][e[2]])
    BY <1>3, <2>1, Zenon
  <2>4. <<d[1], d[2]>> \in D <=> d \in D
    BY <1>3
  <2> QED
    BY <2>2, <2>3, <2>4, Zenon DEF Of
<1>6. CASE Of(q, d).ready
  <2>1. ~Conflict(Of(q, e), Of(q, d))
    BY <1>2, <1>4, <1>6 DEF Inv, Clear
  <2> QED
    BY <1>5, <2>1, ConflictKept
<1>7. CASE d \in D
  <2>0. e[1] \in Nat /\ d[1] \in Nat
    BY <1>3 DEF Tasks
  <2>1. d \in q.list[q.dep[t][i].addr]
    BY <1>1, <1>7 DEF Updated
  <2>2. b = q.dep[t][i].addr
    BY <1>1, <1>3, <2>1, Listed
  <2>3. \/ \A x \in q.list[b] : x # <<t, i>> /\ x[1] =< d[1] =>
             Of(q, x).gather /\ Of(q, x).region = q.dep[t][i].region
        \/ \A x \in q.list[b] : x # <<t, i>> /\ x[1] < d[1] /\ Open(q, x) => ~Clash(Of(q, x), Of(q, d))
    BY <1>1, <1>7, <2>2 DEF Updated
  <2>4. CASE \A x \in q.list[b] : x # <<t, i>> /\ x[1] =< d[1] =>
               Of(q, x).gather /\ Of(q, x).region = q.dep[t][i].region
    <3>1. /\ Of(q, e).gather /\ Of(q, e).region = q.dep[t][i].region
          /\ Of(q, d).gather /\ Of(q, d).region = q.dep[t][i].region
      BY <1>2, <2>0, <2>2, <2>4
    <3>2. ~Conflict(Of(q, e), Of(q, d))
      BY <3>1 DEF Conflict
    <3> QED
      BY <1>5, <3>2, ConflictKept
  <2>5. CASE \A x \in q.list[b] : x # <<t, i>> /\ x[1] < d[1] /\ Open(q, x) => ~Clash(Of(q, x), Of(q, d))
    <3>1. ~Conflict(Of(q, e), Of(q, d))
      BY <1>2, <1>4, <2>2, <2>5 DEF Conflict
    <3> QED
      BY <1>5, <3>1, ConflictKept
  <2> QED
    BY <2>3, <2>4, <2>5
<1> QED
  BY <1>5, <1>6, <1>7

\* Depend calls a dependency ready only when no earlier one of its list conflicts with it.
LEMMA DependClear ==
  ASSUME Inv, Depend, Step(0), 0 \in Threads, NEW b \in prog.addrs,
         NEW d \in q'.list[b], NEW e \in q'.list[b],
         e[1] < d[1], Of(q', d).ready, Open(q', e)
  PROVE  ~Conflict(Of(q', e), Of(q', d))
<1>1. PICK J, alone : Arrived(master.next, master.dep, J, alone)
  BY DependIs
<1>2. PICK t, m, a : t = master.next /\ m = master.dep /\ a = q.dep[t][m].addr
  OBVIOUS
<1>3. /\ t \in Tasks /\ m \in Arguments(t) /\ a \in prog.addrs /\ ~q.dep[t][m].ready
      /\ pc[0] = "depend" /\ master.next \in Nat /\ \A u \in Tasks : u \in Nat
  BY <1>1, <1>2, DependFacts DEF Depend, Inv, TypeOK, Tasks
<1>4. /\ alone => \A x \in q.list[a] : x[1] = t
      /\ \A x : x \in q'.list[b] <=>
           \/ x \in q.list[b] /\ ~(b = a /\ \E j \in J : x = <<t, j>>)
           \/ b = a /\ x = <<t, m>>
      /\ \A j \in Arguments(t) : j \in J <=> <<t, j>> \in q.list[a]
      /\ q'.dep[t][m].ready <=> q.dep[t][m].ready \/ alone
  BY <1>1, <1>2 DEF Arrived
<1>5. ASSUME NEW x \in q'.list[b], x # <<t, m>>
      PROVE  /\ x \in q.list[b] /\ x[1] \in Tasks /\ Of(q', x) = Of(q, x) /\ ~(t < x[1])
  <2>1. x \in q.list[b] /\ ~(b = a /\ \E j \in J : x = <<t, j>>)
    BY <1>4, <1>5
  <2>2. /\ x = <<x[1], x[2]>> /\ x[1] \in Tasks /\ x[2] \in Arguments(x[1])
        /\ Of(q, x) = q.dep[x[1]][x[2]] /\ Of(q, x).addr = b /\ Came(x[1], x[2])
    BY <2>1, Listed
  <2>3. ~(x[1] = t /\ x[2] \in J)
    <3>1. CASE x[1] = t /\ x[2] \in J
      <4>1. q.dep[t][x[2]].addr = a
        BY <1>1, <1>2, <3>1 DEF Arrived
      <4> QED
        BY <2>1, <2>2, <3>1, <4>1
    <3> QED
      BY <3>1
  <2>4. ~(x[1] = t /\ x[2] = m)
    BY <1>5, <2>2
  <2>5. q'.dep[x[1]][x[2]] = q.dep[x[1]][x[2]]
    BY <1>1, <1>2, <2>2, <2>3, <2>4, DependKeeps
  <2>6. ~(t < x[1])
    <3>1. q.status[x[1]] # "NEW"
      BY <2>2 DEF Came, Out
    <3>2. Known(x[1])
      BY <2>2, <3>1 DEF Inv, Stages
    <3> QED
      BY <1>2, <1>3, <2>2, <3>2 DEF Known
  <2> QED
    BY <2>1, <2>2, <2>5, <2>6 DEF Of
<1>6. CASE d = <<t, m>>
  <2>1. alone /\ b = a
    <3>1. q'.dep[t][m].ready
      BY <1>6 DEF Of
    <3>2. ~Came(t, m)
      BY <1>1, <1>2, DependFacts
    <3>3. <<t, m>> \notin q.list[b]
      BY <1>3, <3>2, ListedOnce
    <3> QED
      BY <1>3, <1>4, <1>6, <3>1, <3>3
  <2>2. e # <<t, m>>
    BY <1>3, <1>6
  <2>3. e \in q.list[b]
    BY <1>5, <2>2
  <2>4. e[1] = t /\ d[1] = t
    BY <1>4, <1>6, <2>1, <2>3
  <2> QED
    BY <1>3, <2>4
<1>7. CASE d # <<t, m>>
  <2>1. d \in q.list[b] /\ d[1] \in Tasks /\ Of(q', d) = Of(q, d) /\ ~(t < d[1])
    BY <1>5, <1>7
  <2>2. e # <<t, m>>
    BY <2>1
  <2>3. e \in q.list[b] /\ e[1] \in Tasks /\ Of(q', e) = Of(q, e)
    BY <1>5, <2>2
  <2>4. Open(q, e)
    BY <2>3, OpenBefore
  <2> QED
    BY <2>1, <2>3, <2>4 DEF Inv, Clear
<1> QED
  BY <1>6, <1>7

\* Every step keeps Clear.
LEMMA ClearHolds ==
  ASSUME Inv, NEW r \in Threads, Step(r)
  PROVE  Clear'
<1>0. prog' = prog
  BY GivenKept
<1>1. ASSUME NEW b \in prog.addrs, NEW d \in q'.list[b], NEW e \in q'.list[b],
             e[1] < d[1], Of(q', d).ready, Open(q', e)
      PROVE  ~Conflict(Of(q', e), Of(q', d))
  <2>1. CASE r = 0 /\ pc[0] = "depend"
    BY <1>1, <2>1, DependNext, DependClear
  <2>2. CASE Update(r)
    BY <1>1, <2>2, UpdateClear
  <2>3. CASE ~(r = 0 /\ pc[0] = "depend") /\ ~Update(r)
    <3>1. q'.dep = q.dep /\ q'.list = q.list
      BY <2>3, SameDepsElse
    <3>2. d \in q.list[b] /\ e \in q.list[b] /\ Of(q', d) = Of(q, d) /\ Of(q', e) = Of(q, e)
      BY <1>1, <3>1 DEF Of
    <3>3. Open(q, e)
      BY <1>1, <3>2, Listed, OpenBefore
    <3> QED
      BY <1>1, <3>2, <3>3 DEF Inv, Clear
  <2> QED
    BY <2>1, <2>2, <2>3
<1>2. \A b \in prog.addrs : \A d, e \in q'.list[b] :
        e[1] < d[1] /\ Of(q', d).ready /\ Open(q', e) => ~Conflict(Of(q', e), Of(q', d))
  BY <1>1, Zenon
<1> QED
  BY <1>0, <1>2 DEF Clear
-----------------------------------------------------------------------------
\* Only a cancellation takes the function of a task away.
LEMMA LiveKept ==
  ASSUME Inv, NEW r \in Threads, Step(r), ~CancelTask(r)
  PROVE  q'.live = q.live
<1>1. CASE q' = q
  BY <1>1
<1>2. CASE Insert
  BY <1>2, InsertIs
<1>3. CASE Hash
  BY <1>3, HashIs
<1>4. CASE Depend
  BY <1>4, DependIs DEF SameRest
<1>5. CASE Check
  <2>1. CASE master.next \in freed
    BY <1>1, <1>5, <2>1 DEF Check
  <2> QED
    BY <1>5, <2>1, CheckIs DEF Queued
<1>6. CASE Signal
  BY <1>6, SignalIs DEF SameStatus
<1>7. CASE Update(r)
  BY <1>7, UpdateIs DEF Queued
<1>8. CASE Uncount(r)
  BY <1>8, UncountedIs DEF SameStatus
<1>9. CASE Take(r)
  BY <1>9, TakeIs DEF SameStatus
<1>10. CASE Steal(r)
  BY <1>10, StealIs DEF SameStatus
<1>11. CASE Wake(r)
  BY <1>11, WakeIs DEF SameStatus
<1>12. CASE Start(r)
  BY <1>12, StartIs
<1>13. CASE Finish(r)
  BY <1>13, FinishIs
<1>14. CASE \/ BarrierStart \/ Return \/ Finalize \/ Process(r) \/ ProcessOver(r) \/ Delete(r) \/ Unlink(r)
            \/ Help(r) \/ Miss(r) \/ Doze(r) \/ Leave(r) \/ ReadSequence(r) \/ Enqueue(r)
            \/ BeginCancel(r) \/ EndCancel(r)
  BY <1>1, <1>14 DEF BarrierStart, Return, Finalize, Process, ProcessOver, Delete, Unlink, Help,
     Miss,
         Doze, Leave, ReadSequence, Enqueue, BeginCancel, EndCancel
<1> QED
  BY <1>2, <1>3, <1>4, <1>5, <1>6, <1>7, <1>8, <1>9, <1>10, <1>11, <1>12, <1>13, <1>14
     DEF Step, Master, Completion, MainLoop

\* What Sequence says of one thread.
Sound(r) == /\ seq.owner = r <=> pc[r] = "cancel"
            /\ pc[r] \in {"skip", "cancel", "flushed"} => seq.off
            /\ pc[r] = "flushed" => seq.owner = Nobody
            /\ pc[r] = "start" /\ mine[r] \in prog.member /\ seq.off /\ q.live[mine[r]] =>
                 seq.owner # Nobody /\ mine[r] \in seq.rest

\* Another thread's step leaves a thread and the cancellation as they are.
LEMMA SoundKept ==
  ASSUME Inv, NEW r \in Threads, Step(r), NEW s \in Threads, s # r,
         seq'.owner = seq.owner, seq'.off = seq.off, seq'.rest = seq.rest, q'.live = q.live
  PROVE  Sound(s)'
<1>1. Sound(s)
  BY DEF Inv, Sequence, Sound
<1>2. pc'[s] = pc[s] /\ mine'[s] = mine[s] /\ prog' = prog
  BY OthersKept, GivenKept
<1> QED
  BY <1>1, <1>2 DEF Sound

\* The steps that have nothing to do with the cancellation.
LEMMA PlainSequence ==
  ASSUME Inv, NEW r \in Threads, Step(r), ~BeginCancel(r), ~CancelTask(r), ~EndCancel(r)
  PROVE  Sequence'
<1>0. /\ seq \in [off : BOOLEAN, owner : Threads \cup {Nobody}, tasks : SUBSET prog.member,
                  rest : SUBSET prog.member]
      /\ pc \in [Threads -> Before0 \cup Looking \cup Napping \cup Holding \cup Clearing]
      /\ mine \in [Threads -> Tasks \cup {None}] /\ 0 \in Threads /\ prog' = prog
  <2>1. 0 \in Threads /\ prog' = prog
    BY ThreadsAssumption, GivenKept DEF Threads
  <2> QED
    BY <2>1 DEF Inv, TypeOK
<1>1. seq'.owner = seq.owner /\ seq'.off = seq.off /\ seq'.rest = seq.rest
  <2>1. CASE seq' = seq
    BY <2>1
  <2>2. CASE Insert
    <3>1. \E T : seq' = seq \/ seq' = [seq EXCEPT !.tasks = T]
      BY <2>2 DEF Insert
    <3> QED
      BY <1>0, <3>1
  <2>3. CASE Unlink(r)
    <3>1. \E T : seq' = [seq EXCEPT !.tasks = T]
      BY <2>3 DEF Unlink
    <3> QED
      BY <1>0, <3>1
  <2> QED
    BY <2>1, <2>2, <2>3 DEF Step, Master, Completion, MainLoop,
       Hash, Depend, Check, BarrierStart, Return, Finalize, Signal, Process, ProcessOver, Update,
       Delete, Uncount, Help, Take, Steal, Miss, Doze, Wake, Leave, ReadSequence, Start, Finish,
       Enqueue, Got
<1>2. q'.live = q.live
  BY LiveKept
<1>3. Sound(r)
  BY DEF Inv, Sequence, Sound
<1>4. /\ seq.owner # Nobody => seq.off
      /\ seq.owner = Nobody => seq.rest = {}
  BY DEF Inv, Sequence
<1>5. pc[r] # "cancel"
  BY DEF Step, Master, Completion, MainLoop, Hunts, Insert, Hash, Depend, Check, BarrierStart,
     Return, Finalize, Signal, Process, ProcessOver, Update, Delete, Unlink, Uncount, Help, Take,
  Steal, Miss, Doze, Wake, Leave, ReadSequence, Start, Finish, Enqueue, Got
<1>6. Sound(r)'
  <2>1. CASE pc'[r] \notin {"skip", "cancel", "flushed", "start"}
    BY <1>1, <1>3, <1>5, <2>1 DEF Sound
  <2>2. CASE ReadSequence(r)
    <3>1. seq.owner = Nobody /\ pc'[r] = IF seq.off THEN "skip" ELSE "start"
      BY <1>0, <2>2 DEF ReadSequence, Goto
    <3> QED
      BY <1>1, <1>3, <1>5, <3>1 DEF Sound
  <2>3. CASE Take(r) \/ Steal(r)
    <3>1. PICK t : mine' = [mine EXCEPT ![r] = t] /\ pc' = [pc EXCEPT ![r] = IF t \in prog.member THEN "read" ELSE "start"]
      BY <2>3 DEF Take, Steal, Got, Goto
    <3>2. mine'[r] = t /\ pc'[r] = IF t \in prog.member THEN "read" ELSE "start"
      BY <1>0, <3>1
    <3> QED
      BY <1>0, <1>1, <1>3, <1>5, <3>2 DEF Sound
  <2>4. CASE r = 0 /\ Master
    <3>1. pc[0] \in Before0 /\ pc'[0] \in Before0 \cup {"process"}
      BY <1>0, <2>4 DEF Master, Insert, Hash, Depend, Check, BarrierStart, Return, Finalize,
         Signal, Goto, Before0
    <3> QED
      BY <1>0, <2>1, <2>4, <3>1 DEF Before0
  <2>5. CASE Completion(r)
    <3>1. pc'[r] \notin {"skip", "cancel", "flushed", "start"}
      <4>1. CASE ProcessOver(r)
        <5>1. master.after \in {"water", "look", "try"}
          BY DEF Inv, TypeOK
        <5> QED
          BY <1>0, <4>1, <5>1 DEF ProcessOver, Goto
      <4> QED
        BY <1>0, <2>5, <4>1 DEF Completion, Process, Update, Delete, Unlink, Uncount, Goto
    <3> QED
      BY <2>1, <3>1
  <2>6. CASE \/ Help(r) \/ Miss(r) \/ Doze(r) \/ Wake(r) \/ Leave(r) \/ Start(r) \/ Finish(r) \/ Enqueue(r)
    <3>1. pc'[r] \notin {"skip", "cancel", "flushed", "start"}
      BY <1>0, <2>6 DEF Help, Miss, Doze, Wake, Leave, Start, Finish, Enqueue, Goto
    <3> QED
      BY <2>1, <3>1
  <2> QED
    BY <2>2, <2>3, <2>4, <2>5, <2>6 DEF Step, MainLoop
<1>7. \A s \in Threads : Sound(s)'
  BY <1>1, <1>2, <1>6, SoundKept
<1> QED
  BY <1>1, <1>4, <1>7 DEF Sequence, Sound

\* The steps of a cancellation keep Sequence.
LEMMA CancelSequence ==
  ASSUME Inv, NEW r \in Threads, Step(r), BeginCancel(r) \/ CancelTask(r) \/ EndCancel(r)
  PROVE  Sequence'
<1>0. /\ seq \in [off : BOOLEAN, owner : Threads \cup {Nobody}, tasks : SUBSET prog.member,
                  rest : SUBSET prog.member]
      /\ pc \in [Threads -> Before0 \cup Looking \cup Napping \cup Holding \cup Clearing]
      /\ mine \in [Threads -> Tasks \cup {None}] /\ prog' = prog
      /\ Nobody \notin Threads
  <2>1. Nobody \notin Threads
    BY ThreadsAssumption DEF Nobody, Threads
  <2> QED
    BY <2>1, GivenKept DEF Inv, TypeOK
<1>1. \A s \in Threads : Sound(s)
  BY DEF Inv, Sequence, Sound
<1>2. /\ seq.owner # Nobody => seq.off
      /\ seq.owner = Nobody => seq.rest = {}
  BY DEF Inv, Sequence
<1>3. mine' = mine /\ \A s \in Threads : s # r => pc'[s] = pc[s]
  <2>1. mine' = mine
    BY DEF BeginCancel, CancelTask, EndCancel, threads
  <2> QED
    BY <2>1, OthersKept
<1>4. \A s \in Threads : pc[s] = "start" /\ mine[s] \in prog.member =>
         mine[s] \in seq.tasks /\ mine[s] \in taskSet /\ mine[s] \in Tasks /\ q.status[mine[s]] = "QUEUED"
  <2>1. ASSUME NEW s \in Threads, pc[s] = "start", mine[s] \in prog.member
        PROVE  mine[s] \in seq.tasks /\ mine[s] \in taskSet /\ mine[s] \in Tasks /\ q.status[mine[s]] = "QUEUED"
    <3>1. mine[s] \in Tasks /\ q.status[mine[s]] = "QUEUED" /\ mine[s] \notin freed
      BY <1>0, <2>1 DEF Inv, Ctl, MinePlace, Holding
    <3> QED
      BY <2>1, <3>1 DEF Inv, Stages, Members, Out
  <2> QED
    BY <2>1
<1>5. CASE BeginCancel(r)
  <2>1. pc[r] = "run" /\ seq.owner = Nobody /\ q' = q
    BY <1>5 DEF BeginCancel
  <2>2. CASE seq.off
    <3>1. seq' = seq /\ pc'[r] = "flushed"
      BY <1>0, <1>5, <2>2 DEF BeginCancel, Goto
    <3>2. Sound(r)'
      BY <1>0, <1>1, <2>1, <2>2, <3>1 DEF Sound
    <3>3. \A s \in Threads : Sound(s)'
      BY <2>1, <3>1, <3>2, SoundKept
    <3> QED
      BY <1>2, <3>1, <3>3 DEF Sequence, Sound
  <2>3. CASE ~seq.off
    <3>1. seq' = [seq EXCEPT !.off = TRUE, !.owner = r, !.rest = seq.tasks] /\ pc'[r] = "cancel"
      BY <1>0, <1>5, <2>3 DEF BeginCancel, Goto
    <3>2. seq'.off /\ seq'.owner = r /\ seq'.rest = seq.tasks
      BY <1>0, <3>1
    <3>3. \A s \in Threads : Sound(s)'
      BY <1>0, <1>1, <1>3, <1>4, <2>1, <2>3, <3>1, <3>2 DEF Sound
    <3> QED
      BY <1>0, <3>2, <3>3 DEF Sequence, Sound
  <2> QED
    BY <2>2, <2>3
<1>6. CASE CancelTask(r)
  <2>1. PICK t : t = Max(seq.rest)
    OBVIOUS
  <2>2. pc' = pc /\ pc[r] = "cancel" /\ seq' = [seq EXCEPT !.rest = seq.rest \ {t}]
    BY <1>6, <2>1 DEF CancelTask
  <2>3. seq'.rest = seq.rest \ {t} /\ seq'.off = seq.off /\ seq'.owner = seq.owner
    BY <1>0, <2>2
  <2>4. \A u \in Tasks : q'.live[u] <=>
          q.live[u] /\ ~(u = t /\ u \in taskSet /\ q.status[u] \notin {"RUNNING", "DONE", "CANCELLED"})
    BY <1>6, <2>1, CancelTaskIs
  <2>5. ASSUME NEW s \in Threads PROVE Sound(s)'
    <3>1. Sound(s)
      BY <1>1
    <3>2. pc'[s] = "start" /\ mine'[s] \in prog.member /\ seq'.off /\ q'.live[mine'[s]] =>
            seq'.owner # Nobody /\ mine'[s] \in seq'.rest
      BY <1>3, <1>4, <2>2, <2>3, <2>4, <3>1 DEF Sound
    <3> QED
      BY <1>0, <2>2, <2>3, <3>1, <3>2 DEF Sound
  <2> QED
    BY <1>0, <1>1, <1>2, <2>2, <2>3, <2>5 DEF Sequence, Sound
<1>7. CASE EndCancel(r)
  <2>1. pc[r] = "cancel" /\ seq.rest = {} /\ seq' = [seq EXCEPT !.owner = Nobody] /\ pc'[r] = "flushed" /\ q' = q
    BY <1>0, <1>7 DEF EndCancel, Goto
  <2>2. seq'.owner = Nobody /\ seq'.rest = {} /\ seq'.off = seq.off
    BY <1>0, <2>1
  <2>3. seq.owner = r /\ seq.off
    BY <1>1, <2>1 DEF Sound
  <2>4. ASSUME NEW s \in Threads PROVE Sound(s)'
    BY <1>0, <1>1, <1>3, <2>1, <2>2, <2>3 DEF Sound
  <2> QED
    BY <2>2, <2>4 DEF Sequence, Sound
<1> QED
  BY <1>5, <1>6, <1>7

\* Every step keeps Sequence.
LEMMA SequenceHolds ==
  ASSUME Inv, NEW r \in Threads, Step(r)
  PROVE  Sequence'
BY PlainSequence, CancelSequence
-----------------------------------------------------------------------------
\* What Members says of one task.
Member(t) ==
  t \in seq.tasks <=>
     /\ t \in prog.member
     /\ q.status[t] \notin Out \/ (t = master.next /\ pc[0] = "hash")
     /\ t \in freed => \E r \in Threads : pc[r] = "unlink" /\ job[r].task = t

\* Only Insert and Hash bring tasks in.
LEMMA OutKept ==
  ASSUME Inv, NEW r \in Threads, Step(r), ~(r = 0 /\ Insert), ~(r = 0 /\ Hash), NEW t \in Tasks
  PROVE  q'.status[t] \in Out <=> q.status[t] \in Out
<1>1. CASE r = 0 /\ Depend
  BY <1>1, DependIs DEF SameRest
<1>2. CASE r = 0 /\ Check
  <2>1. CASE master.next \in freed
    BY <1>2, <2>1 DEF Check
  <2> QED
    BY <1>2, <2>1, CheckIs DEF Queued, Out
<1>3. CASE Update(r)
  BY <1>3, UpdateIs DEF Queued, Out
<1>4. CASE Start(r)
  <2>1. q.status[mine[r]] = "QUEUED"
    BY <1>4 DEF Start, Inv, MinePlace
  <2> QED
    BY <1>4, <2>1, StartIs DEF Out
<1>5. CASE Finish(r)
  <2>1. q.status[mine[r]] = "RUNNING"
    BY <1>5 DEF Finish, Inv, MinePlace
  <2> QED
    BY <1>5, <2>1, FinishIs DEF Out
<1> QED
  BY <1>1, <1>2, <1>3, <1>4, <1>5, StatusKept

\* Every step keeps Members.
LEMMA MembersHold ==
  ASSUME Inv, NEW r \in Threads, Step(r)
  PROVE  Members'
<1>0. /\ seq \in [off : BOOLEAN, owner : Threads \cup {Nobody}, tasks : SUBSET prog.member,
                  rest : SUBSET prog.member]
      /\ pc \in [Threads -> Before0 \cup Looking \cup Napping \cup Holding \cup Clearing]
      /\ job \in [Threads -> [task : Tasks \cup {None}, dep : Nat, by : Threads \cup {Nobody}]]
      /\ master \in [next : Nat \ {0}, dep : Nat, count : Nat, after : {"water", "look", "try"},
                     barrier : BOOLEAN]
      /\ 0 \in Threads /\ prog' = prog /\ Tasks' = Tasks /\ None \notin Tasks
      /\ \A t \in Tasks : t \in Nat
  <2>1. 0 \in Threads /\ None \notin Tasks /\ \A t \in Tasks : t \in Nat
    BY ThreadsAssumption DEF Threads, Tasks, None
  <2> QED
    BY <2>1, GivenKept, SameGiven DEF Inv, TypeOK
<1>1. \A t \in Tasks : Member(t)
  BY DEF Inv, Members, Member
<1>2. CASE r = 0 /\ Insert
  <2>1. /\ pc[0] = "insert" /\ master.next \in Tasks /\ freed' = freed /\ job' = job
    BY <1>2 DEF Insert, threads
  <2>2. q.status[master.next] = "NEW" /\ master.next \notin freed
    BY <1>0, <2>1 DEF Inv, Stages, Known, Done
  <2>3. CASE master.next \in prog.member /\ seq.off
    <3>1. pc' = pc /\ seq' = seq
      BY <1>2, <2>3 DEF Insert
    <3>2. \A u \in Tasks : q'.status[u] = IF u = master.next THEN "REJECTED" ELSE q.status[u]
      BY <1>2, <2>3, InsertIs
    <3>3. ASSUME NEW t \in Tasks PROVE Member(t)'
      BY <1>0, <1>1, <2>1, <2>2, <3>1, <3>2 DEF Member, Out
    <3> QED
      BY <1>0, <3>3 DEF Members, Member
  <2>4. CASE ~(master.next \in prog.member /\ seq.off)
    <3>1. /\ q' = q /\ master' = master /\ pc' = [pc EXCEPT ![0] = "hash"]
          /\ seq' = IF master.next \in prog.member THEN [seq EXCEPT !.tasks = @ \cup {master.next}] ELSE seq
      BY <1>2, <2>4 DEF Insert, Goto
    <3>2. \A t \in Tasks : t \in seq'.tasks <=> t \in seq.tasks \/ (t = master.next /\ t \in prog.member)
      BY <1>0, <3>1
    <3>3. pc'[0] = "hash" /\ \A s \in Threads : pc'[s] = "unlink" <=> pc[s] = "unlink"
      BY <1>0, <2>1, <3>1
    <3>4. ASSUME NEW t \in Tasks PROVE Member(t)'
      BY <1>0, <1>1, <2>1, <2>2, <3>1, <3>2, <3>3, <3>4 DEF Member, Out
    <3> QED
      BY <1>0, <3>4 DEF Members, Member
  <2> QED
    BY <2>3, <2>4
<1>3. CASE r = 0 /\ Hash
  <2>1. /\ pc[0] = "hash" /\ pc' = [pc EXCEPT ![0] = "depend"] /\ seq' = seq /\ freed' = freed /\ job' = job
    BY <1>3 DEF Hash, Goto, threads
  <2>2. /\ master.next \in Tasks
        /\ \A u \in Tasks : q'.status[u] = IF u = master.next THEN "NOTREADY" ELSE q.status[u]
    BY <1>3, HashIs
  <2>3. pc'[0] = "depend" /\ \A s \in Threads : pc'[s] = "unlink" <=> pc[s] = "unlink"
    BY <1>0, <2>1
  <2>4. ASSUME NEW t \in Tasks PROVE Member(t)'
    BY <1>0, <1>1, <2>1, <2>2, <2>3 DEF Member, Out
  <2> QED
    BY <1>0, <2>4 DEF Members, Member
<1>4. CASE Completion(r) \/ MainLoop(r)
  <2>0. pc[0] # "fault"
    BY DEF Step
  <2>1. Apart
    BY <1>4, <2>0, Bystander
  <2>3. \A t \in Tasks : q'.status[t] \in Out <=> q.status[t] \in Out
    <3>1. ~(r = 0 /\ Insert) /\ ~(r = 0 /\ Hash)
      BY <1>4 DEF Completion, MainLoop, Insert, Hash, Hunts, Process, ProcessOver, Update, Delete,
         Unlink, Uncount, Help, Take, Steal, Miss, Doze, Wake, Leave, ReadSequence, Start, Finish,
      Enqueue, BeginCancel, CancelTask, EndCancel, Got
    <3> QED
      BY <3>1, OutKept
  <2>4. CASE Delete(r)
    <3>1. PICK t : t = job[r].task
      OBVIOUS
    <3>2. /\ pc[r] = "delete" /\ pc' = [pc EXCEPT ![r] = "unlink"] /\ seq' = seq /\ freed' = freed \cup {t} /\ job' = job
      BY <2>4, <3>1 DEF Delete, Goto, threads
    <3>3. \A s \in Threads : pc'[s] = "unlink" <=> pc[s] = "unlink" \/ s = r
      BY <1>0, <3>2
    <3>4. t \notin freed
      BY <3>1, <3>2 DEF Inv, JobPlace
    <3>5. ASSUME NEW u \in Tasks PROVE Member(u)'
      BY <1>0, <1>1, <2>1, <2>3, <3>1, <3>2, <3>3, <3>4 DEF Member, Apart
    <3> QED
      BY <1>0, <3>5 DEF Members, Member
  <2>5. CASE Unlink(r)
    <3>1. PICK t : t = job[r].task
      OBVIOUS
    <3>2. /\ pc[r] = "unlink" /\ pc' = [pc EXCEPT ![r] = "uncount"] /\ freed' = freed /\ job' = job
          /\ seq' = [seq EXCEPT !.tasks = seq.tasks \ {t}]
      BY <2>5, <3>1 DEF Unlink, Goto, threads
    <3>3. /\ \A s \in Threads : pc'[s] = "unlink" <=> pc[s] = "unlink" /\ s # r
          /\ seq'.tasks = seq.tasks \ {t}
      BY <1>0, <3>2
    <3>4. t \in freed /\ t # None /\ \A s \in Threads : job[s].task = t => s = r
      BY <3>1, <3>2 DEF Inv, Ctl, JobPlace, Clearing
    <3>5. ASSUME NEW u \in Tasks PROVE Member(u)'
      BY <1>0, <1>1, <2>1, <2>3, <3>1, <3>2, <3>3, <3>4 DEF Member, Apart
    <3> QED
      BY <1>0, <3>5 DEF Members, Member
  <2>6. CASE ~Delete(r) /\ ~Unlink(r)
    <3>1. seq'.tasks = seq.tasks
      <4>1. CASE seq' = seq
        BY <4>1
      <4>2. CASE BeginCancel(r)
        <5>1. seq' = seq \/ seq' = [seq EXCEPT !.off = TRUE, !.owner = r, !.rest = seq.tasks]
          BY <4>2 DEF BeginCancel
        <5> QED
          BY <1>0, <5>1
      <4>3. CASE CancelTask(r) \/ EndCancel(r)
        <5>1. (\E T : seq' = [seq EXCEPT !.rest = T]) \/ seq' = [seq EXCEPT !.owner = Nobody]
          BY <4>3 DEF CancelTask, EndCancel
        <5> QED
          BY <1>0, <5>1
      <4> QED
        BY <1>4, <2>6, <4>1, <4>2, <4>3
           DEF Completion, MainLoop, Process, ProcessOver, Update, Uncount, Help, Take, Steal,
              Miss, Doze, Wake, Leave, ReadSequence, Start, Finish, Enqueue, Got
    <3>2. freed' = freed
      BY <1>4, <2>6 DEF Completion, MainLoop, Process, ProcessOver, Update, Uncount, Help, Take,
         Steal, Miss, Doze, Wake, Leave, ReadSequence, Start, Finish, Enqueue, BeginCancel,
      CancelTask, EndCancel, Got
    <3>3. \A s \in Threads : (pc'[s] = "unlink" <=> pc[s] = "unlink")
                              /\ (pc[s] = "unlink" => job'[s] = job[s])
      <4>1. pc[r] # "unlink" /\ pc'[r] # "unlink"
        <5>1. CASE ProcessOver(r)
          <6>1. master.after \in {"water", "look", "try"}
            BY <1>0
          <6> QED
            BY <1>0, <5>1, <6>1 DEF ProcessOver, Goto
        <5>2. CASE Completion(r) /\ ~ProcessOver(r)
          BY <1>0, <2>6, <5>2 DEF Completion, Process, Update, Uncount, Goto
        <5>3. CASE MainLoop(r)
          BY <1>0, <5>3 DEF MainLoop, Help, Take, Steal, Miss, Doze, Wake, Leave, ReadSequence,
             Start, Finish, Enqueue, BeginCancel, CancelTask, EndCancel, Got, Goto, Hunts
        <5> QED
          BY <1>4, <5>1, <5>2, <5>3
      <4> QED
        BY <4>1, OthersKept
    <3>4. ASSUME NEW t \in Tasks PROVE Member(t)'
      BY <1>0, <1>1, <2>1, <2>3, <3>1, <3>2, <3>3 DEF Member, Apart
    <3> QED
      BY <1>0, <3>4 DEF Members, Member
  <2> QED
    BY <2>4, <2>5, <2>6
<1>5. CASE r = 0 /\ Master /\ ~Insert /\ ~Hash
  <2>1. seq' = seq /\ freed' = freed /\ job' = job
    BY <1>5 DEF Master, Depend, Check, BarrierStart, Return, Finalize, Signal, threads
  <2>2. pc[0] \in Before0 \ {"hash"} /\ pc'[0] \in Before0 \cup {"process"} /\ pc'[0] # "hash"
    BY <1>0, <1>5 DEF Master, Depend, Check, BarrierStart, Return, Finalize, Signal, Goto, Before0
  <2>3. \A s \in Threads : pc'[s] = "unlink" <=> pc[s] = "unlink"
    BY <1>5, <2>2, OthersKept DEF Before0
  <2>4. \A t \in Tasks : q'.status[t] \in Out <=> q.status[t] \in Out
    BY <1>5, OutKept
  <2>5. ASSUME NEW t \in Tasks PROVE Member(t)'
    BY <1>0, <1>1, <2>1, <2>2, <2>3, <2>4 DEF Member
  <2> QED
    BY <1>0, <2>5 DEF Members, Member
<1> QED
  BY <1>2, <1>3, <1>4, <1>5 DEF Step
-----------------------------------------------------------------------------
\* A dependency stands for an argument with which it agrees at least.
LEMMA ConflictStands ==
  ASSUME NEW s, NEW i, NEW d, Stands(s, i, d), NEW t, NEW j, NEW e, Stands(t, j, e), Conflict(d, e)
  PROVE  Conflict(q.dep[s][i], q.dep[t][j])
<1>1. PICK x, y : x = q.dep[s][i] /\ y = q.dep[t][j]
  OBVIOUS
<1>2. /\ x.addr = d.addr /\ (d.write => x.write) /\ d.region \subseteq x.region
      /\ (x.gather <=> d.gather) /\ (d.gather => x.region = d.region)
  BY <1>1 DEF Stands
<1>3. /\ y.addr = e.addr /\ (e.write => y.write) /\ e.region \subseteq y.region
      /\ (y.gather <=> e.gather) /\ (e.gather => y.region = e.region)
  BY <1>1 DEF Stands
<1>4. Conflict(x, y)
  BY <1>2, <1>3 DEF Conflict, Clash
<1> QED
  BY <1>1, <1>4

\* A task that has come and is not over waits at every address of its arguments.
LEMMA StandsListed ==
  ASSUME Inv, NEW t \in Tasks, NEW i \in Arguments(t), q.status[t] \notin Out, q.status[t] \notin Done,
         Came(t, i), ~q.dep[t][i].dropped
  PROVE  q.dep[t][i].addr \in prog.addrs /\ <<t, i>> \in q.list[q.dep[t][i].addr]
<1>1. q.dep[t][i].addr \in prog.addrs
  BY DEF Inv, Deps
<1>2. t \notin freed /\ \A r \in Threads : job[r].task # t
  <2>1. t \notin freed /\ t # None
    BY DEF Inv, Stages, Tasks, None
  <2>2. ASSUME NEW r \in Threads PROVE job[r].task # t
    BY <2>1 DEF Inv, Ctl, JobPlace
  <2> QED
    BY <2>1, <2>2
<1>3. Waits(t, i, q.dep[t][i].addr)
  BY <1>2 DEF Waits, Gone
<1> QED
  BY <1>1, <1>3 DEF Inv, Lists

\* When a task is queued, the tasks before it are over.
LEMMA BeforeOver ==
  ASSUME Inv, NEW s, NEW t, <<s, t>> \in prog.order, q.status[t] = "QUEUED"
  PROVE  s \in Tasks /\ t \in Tasks /\ s < t /\ q.status[s] \in Done \cup {"REJECTED"}
<1>1. /\ s \in Tasks /\ t \in Tasks /\ s < t
      /\ \E k \in Arguments(s) : \E l \in Arguments(t) : Conflict(prog.args[s][k], prog.args[t][l])
  <2>1. /\ prog.order = Order(prog.args) /\ DOMAIN prog.args = Tasks
        /\ \A u \in Tasks : DOMAIN prog.args[u] = Arguments(u)
    BY ProgramTypes DEF Inv, TypeOK
  <2>2. /\ <<s, t>> \in Tasks \X Tasks /\ s < t
        /\ \E k \in DOMAIN prog.args[s], l \in DOMAIN prog.args[t] : Conflict(prog.args[s][k], prog.args[t][l])
    BY <2>1 DEF Order
  <2> QED
    BY <2>1, <2>2
<1>2. PICK k \in Arguments(s), l \in Arguments(t) : Conflict(prog.args[s][k], prog.args[t][l])
  BY <1>1
<1>3. PICK i \in Arguments(s) : Stands(s, i, prog.args[s][k])
  BY <1>1 DEF Inv, Covers
<1>4. PICK j \in Arguments(t) : Stands(t, j, prog.args[t][l])
  BY <1>1 DEF Inv, Covers
<1>5. Conflict(q.dep[s][i], q.dep[t][j])
  BY <1>2, <1>3, <1>4, ConflictStands
<1>6. SUFFICES ASSUME q.status[s] \notin Done, q.status[s] # "REJECTED"
               PROVE  FALSE
  BY <1>1
<1>7. s < master.next
  <2>1. q.status[t] # "NEW"
    OBVIOUS
  <2>2. Known(t)
    BY <1>1, <2>1 DEF Inv, Stages
  <2>3. s \in Nat /\ t \in Nat /\ master.next \in Nat
    BY <1>1 DEF Inv, TypeOK, Tasks
  <2> QED
    BY <1>1, <2>2, <2>3 DEF Known
<1>8. q.status[s] \notin Out
  <2>1. q.status[s] # "NEW"
    BY <1>1, <1>7 DEF Inv, Stages, Known
  <2> QED
    BY <1>6, <2>1 DEF Out
<1>9. <<s, i>> \in q.list[q.dep[s][i].addr] /\ q.dep[s][i].addr \in prog.addrs
  <2>1. s # master.next
    <3>1. s \in Nat /\ master.next \in Nat
      BY <1>1 DEF Inv, TypeOK, Tasks
    <3> QED
      BY <1>7, <3>1
  <2>2. Came(s, i)
    BY <1>8, <2>1 DEF Came
  <2>3. ~q.dep[s][i].dropped
    BY <1>3 DEF Stands
  <2> QED
    BY <1>1, <1>6, <1>8, <2>2, <2>3, StandsListed
<1>10. q.dep[t][j].ready
  <2>1. q.ndep[t] = 0 /\ q.ndep[t] = Cardinality(Unready(t)) /\ IsFiniteSet(Unready(t))
    BY <1>1, UnreadyFinite DEF Inv, Stages, Deps, Past
  <2>2. Unready(t) = {}
    BY <2>1, FS_EmptySet
  <2> QED
    BY <2>2 DEF Unready
<1>11. <<t, j>> \in q.list[q.dep[t][j].addr]
  <2>1. Came(t, j)
    BY <1>1, <1>10 DEF Inv, Deps
  <2>2. ~q.dep[t][j].dropped
    BY <1>4 DEF Stands
  <2> QED
    BY <1>1, <2>1, <2>2, StandsListed DEF Out, Done
<1>12. q.dep[t][j].addr = q.dep[s][i].addr
  BY <1>5 DEF Conflict
<1>13. Open(q, <<s, i>>) /\ Of(q, <<t, j>>).ready
  BY <1>6, <1>10 DEF Open, Of, Done
<1>14. ~Conflict(Of(q, <<s, i>>), Of(q, <<t, j>>))
  <2>1. PICK a \in prog.addrs : a = q.dep[s][i].addr
    BY <1>9
  <2>2. <<s, i>> \in q.list[a] /\ <<t, j>> \in q.list[a] /\ <<s, i>>[1] < <<t, j>>[1]
    BY <1>1, <1>9, <1>11, <1>12, <2>1
  <2> QED
    BY <1>13, <2>2 DEF Inv, Clear
<1> QED
  BY <1>5, <1>14 DEF Of

\* Every step keeps Follows.
LEMMA FollowsHold ==
  ASSUME Inv, NEW r \in Threads, Step(r)
  PROVE  Follows'
<1>0. /\ pc \in [Threads -> Before0 \cup Looking \cup Napping \cup Holding \cup Clearing]
      /\ mine \in [Threads -> Tasks \cup {None}] /\ 0 \in Threads /\ prog' = prog
      /\ prog.member \in SUBSET Tasks
  <2>1. 0 \in Threads /\ prog' = prog
    BY ThreadsAssumption, GivenKept DEF Threads
  <2>2. prog \in Programs
    BY DEF Inv, TypeOK
  <2>3. prog.member \in SUBSET Tasks
    BY <2>2, ProgramTypes
  <2> QED
    BY <2>1, <2>3 DEF Inv, TypeOK
<1>1. \A s \in Tasks : q.status[s] = "DONE" => q'.status[s] = "DONE"
  BY OverStays DEF Done
<1>2. \A u \in Threads : pc[u] = "start" /\ mine[u] \in prog.member =>
        \A s \in prog.member : <<s, mine[u]>> \in prog.order => q.status[s] = "DONE"
  BY DEF Inv, Follows
<1>3. CASE pc'[r] = "start" /\ mine'[r] \in prog.member
  <2>1. pc[r] = "read" /\ ~seq.off /\ mine'[r] = mine[r]
    <3>1. CASE ReadSequence(r)
      BY <1>0, <1>3, <3>1 DEF ReadSequence, Goto, threads
    <3>2. CASE Take(r) \/ Steal(r)
      <4>1. PICK t : mine' = [mine EXCEPT ![r] = t] /\ pc' = [pc EXCEPT ![r] = IF t \in prog.member THEN "read" ELSE "start"]
        BY <3>2 DEF Take, Steal, Got, Goto
      <4>2. mine'[r] = t /\ pc'[r] = IF t \in prog.member THEN "read" ELSE "start"
        BY <1>0, <4>1
      <4> QED
        BY <1>3, <4>2
    <3>3. CASE r = 0 /\ Master
      BY <1>0, <1>3, <3>3 DEF Master, Insert, Hash, Depend, Check, BarrierStart, Return, Finalize,
         Signal, Goto, Before0
    <3>4. CASE Completion(r)
      <4>1. CASE ProcessOver(r)
        <5>1. master.after \in {"water", "look", "try"}
          BY DEF Inv, TypeOK
        <5> QED
          BY <1>0, <1>3, <4>1, <5>1 DEF ProcessOver, Goto
      <4> QED
        BY <1>0, <1>3, <3>4, <4>1 DEF Completion, Process, Update, Delete, Unlink, Uncount, Goto
    <3>5. CASE MainLoop(r) /\ ~ReadSequence(r) /\ ~Take(r) /\ ~Steal(r)
      BY <1>0, <1>3, <3>5 DEF MainLoop, Help, Miss, Doze, Wake, Leave, Start, Finish, Enqueue,
         BeginCancel, CancelTask, EndCancel, Goto
    <3> QED
      BY <3>1, <3>2, <3>3, <3>4, <3>5 DEF Step
  <2>2. PICK t : t = mine[r]
    OBVIOUS
  <2>3. q.status[t] = "QUEUED"
    BY <2>1, <2>2 DEF Inv, MinePlace
  <2>4. ASSUME NEW s \in prog.member, <<s, t>> \in prog.order
        PROVE  q.status[s] = "DONE"
    <3>1. s \in Tasks /\ q.status[s] \in Done \cup {"REJECTED"}
      BY <2>3, <2>4, BeforeOver
    <3>2. q.status[s] \notin {"REJECTED", "CANCELLED"}
      BY <2>1, <3>1 DEF Inv, Stages
    <3> QED
      BY <3>1, <3>2 DEF Done
  <2>5. ASSUME NEW u \in Threads, pc'[u] = "start", mine'[u] \in prog.member, u # r
        PROVE  pc[u] = "start" /\ mine[u] = mine'[u]
    BY <2>5, OthersKept
  <2> QED
    BY <1>0, <1>1, <1>2, <2>1, <2>2, <2>4, <2>5 DEF Follows
<1>4. CASE ~(pc'[r] = "start" /\ mine'[r] \in prog.member)
  <2>1. ASSUME NEW u \in Threads, pc'[u] = "start", mine'[u] \in prog.member
        PROVE  pc[u] = "start" /\ mine[u] = mine'[u]
    BY <1>4, <2>1, OthersKept
  <2> QED
    BY <1>0, <1>1, <1>2, <2>1 DEF Follows
<1> QED
  BY <1>3, <1>4
-----------------------------------------------------------------------------
\* An empty list has no task.
LEMMA EmptyList ==
  ASSUME NEW S, NEW l \in Seq(S)
  PROVE  l = <<>> <=> \A t \in S : ~In(t, l)
<1>1. DOMAIN l = 1 .. Len(l) /\ Len(l) \in Nat /\ \A i \in 1 .. Len(l) : l[i] \in S
  BY LenProperties
<1>2. l = <<>> <=> Len(l) = 0
  BY EmptySeq
<1>3. CASE Len(l) = 0
  BY <1>1, <1>2, <1>3 DEF In
<1>4. CASE Len(l) # 0
  <2>1. 1 \in DOMAIN l /\ l[1] \in S /\ In(l[1], l)
    BY <1>1, <1>4 DEF In
  <2> QED
    BY <1>2, <1>4, <2>1
<1> QED
  BY <1>3, <1>4

\* No task is queued: the ready lists are empty.
LEMMA NothingQueued ==
  ASSUME Inv, q.queued = 0, NEW r \in Threads
  PROVE  q.ready[r] = <<>>
<1>1. q.ready[r] \in Seq(Tasks)
  BY DEF Inv, TypeOK, Shaped, Nodes
<1>2. Busy = {}
  BY BusyFinite, FS_EmptySet DEF Inv, Counted
<1>3. \A t \in Tasks : ~In(t, q.ready[r])
  BY <1>2 DEF Busy
<1> QED
  BY <1>1, <1>3, EmptyList

\* Nobody falls asleep, nobody is told to leave, and no task comes to a sleeper.
LEMMA KnowKept ==
  ASSUME Inv, prog' = prog, Shaped(q'),
         \A s \in sleeping' : s \notin q'.woken => s \in sleeping /\ s \notin q.woken,
         \A s \in Threads : s \in sleeping' /\ s \notin q'.woken =>
            \A t \in Tasks : In(t, q'.ready[s]) => In(t, q.ready[s]),
         finalize' = {} \/ (finalize' \subseteq finalize /\ (pc[0] = "signal" => pc'[0] = "signal"))
  PROVE  SleepersKnow'
<1>1. ASSUME NEW s \in sleeping', s \notin q'.woken
      PROVE  q'.ready[s] = <<>> /\ (s \in finalize' => pc'[0] = "signal")
  <2>1. s \in sleeping /\ s \notin q.woken /\ s \in Threads
    BY <1>1 DEF Inv, TypeOK, Workers
  <2>2. q.ready[s] = <<>> /\ (s \in finalize => pc[0] = "signal")
    BY <2>1 DEF Inv, SleepersKnow
  <2>3. q.ready[s] \in Seq(Tasks) /\ q'.ready[s] \in Seq(Tasks)
    BY <2>1 DEF Inv, TypeOK, Shaped, Nodes
  <2>4. \A t \in Tasks : ~In(t, q'.ready[s])
    BY <1>1, <2>1, <2>2, <2>3, EmptyList
  <2> QED
    BY <2>2, <2>3, <2>4, EmptyList
<1> QED
  BY <1>1 DEF SleepersKnow

\* The tasks that become ready wake a sleeper where they come.
LEMMA QueuedKnow ==
  ASSUME Inv, prog' = prog, Shaped(q'), NEW S, Queued(S), sleeping' = sleeping, finalize' = finalize,
         finalize = {} \/ (pc[0] = "signal" => pc'[0] = "signal")
  PROVE  SleepersKnow'
<1>1. q.woken \subseteq q'.woken
  BY DEF Queued
<1>2. PICK p : /\ \A r \in Threads : \A t : In(t, q'.ready[r]) <=> In(t, q.ready[r]) \/ (t \in S /\ p[t] = r)
               /\ \A t \in S : p[t] \in sleeping => p[t] \in q'.woken
  BY DEF Queued
<1>3. \A s \in Threads : s \in sleeping /\ s \notin q'.woken =>
        \A t \in Tasks : In(t, q'.ready[s]) => In(t, q.ready[s])
  BY <1>2
<1> QED
  BY <1>1, <1>3, KnowKept

\* No step of the insertion queues a task for a sleeping worker without a signal.
LEMMA MasterKnow ==
  ASSUME Inv, 0 \in Threads, Step(0), Master
  PROVE  SleepersKnow'
<1>0. prog' = prog /\ Shaped(q') /\ pc \in [Threads -> Before0 \cup Looking \cup Napping \cup Holding \cup Clearing]
  BY GivenKept, ShapeKept DEF Inv, TypeOK
<1>1. CASE Finalize
  <2>1. pc'[0] = "signal" /\ q' = q /\ sleeping' = sleeping
    BY <1>0, <1>1 DEF Finalize, Goto
  <2> QED
    BY <2>1 DEF Inv, SleepersKnow
<1>2. CASE Signal
  <2>1. q'.woken = q.woken \cup sleeping /\ sleeping' = sleeping
    BY <1>2, SignalIs DEF Signal, threads
  <2> QED
    BY <2>1 DEF SleepersKnow
<1>3. CASE Check /\ master.next \notin freed
  <2>1. sleeping' = sleeping /\ finalize' = finalize /\ pc[0] = "check"
    BY <1>3 DEF Check, threads
  <2>2. PICK S : Queued(S)
    BY <1>3, CheckIs
  <2> QED
    BY <1>0, <2>1, <2>2, QueuedKnow
<1>4. CASE ~Finalize /\ ~Signal /\ ~(Check /\ master.next \notin freed)
  <2>1. sleeping' = sleeping /\ finalize' = finalize /\ pc[0] # "signal"
    BY <1>4 DEF Master, Insert, Hash, Depend, Check, BarrierStart, Return, threads
  <2>2. q'.ready = q.ready /\ q'.woken = q.woken
    <3>1. CASE Insert \/ Hash
      BY <3>1, InsertIs, HashIs DEF SamePlaces
    <3>2. CASE Depend
      BY <3>2, DependIs DEF SameRest
    <3>3. CASE Check
      BY <1>4, <3>3 DEF Check
    <3>4. CASE BarrierStart \/ Return
      BY <3>4 DEF BarrierStart, Return
    <3> QED
      BY <1>4, <3>1, <3>2, <3>3, <3>4 DEF Master
  <2> QED
    BY <1>0, <2>1, <2>2, KnowKept
<1> QED
  BY <1>1, <1>2, <1>3, <1>4

\* No step of the main loop, and none of the processing of completed tasks, does.
LEMMA LoopKnow ==
  ASSUME Inv, NEW r \in Threads, Step(r), Completion(r) \/ MainLoop(r)
  PROVE  SleepersKnow'
<1>0. /\ prog' = prog /\ Shaped(q') /\ 0 \in Threads
      /\ pc \in [Threads -> Before0 \cup Looking \cup Napping \cup Holding \cup Clearing]
      /\ sleeping \in SUBSET Workers /\ finalize \in SUBSET Workers
  <2>1. prog' = prog /\ Shaped(q')
    BY GivenKept, ShapeKept DEF Inv
  <2>2. 0 \in Threads
    BY ThreadsAssumption DEF Threads
  <2>3. /\ pc \in [Threads -> Before0 \cup Looking \cup Napping \cup Holding \cup Clearing]
        /\ sleeping \in SUBSET Workers /\ finalize \in SUBSET Workers
    BY DEF Inv, TypeOK
  <2> QED
    BY <2>1, <2>2, <2>3
<1>1. finalize' \subseteq finalize /\ (pc[0] = "signal" => pc'[0] = "signal")
  <2>1. finalize' \subseteq finalize
    BY DEF Completion, MainLoop, Process, ProcessOver, Update, Delete, Unlink, Uncount, Help,
       Take, Steal, Miss, Doze, Wake, Leave, ReadSequence, Start, Finish, Enqueue, BeginCancel,
    CancelTask, EndCancel, Got, threads
  <2>2. CASE r = 0
    <3>1. pc[0] # "signal"
      BY <2>2 DEF Completion, MainLoop, Process, ProcessOver, Update, Delete, Unlink, Uncount,
         Help, Take, Steal, Miss, Doze, Wake, Leave, ReadSequence, Start, Finish, Enqueue,
      BeginCancel, CancelTask, EndCancel, Got, Hunts
    <3> QED
      BY <2>1, <3>1
  <2>3. CASE r # 0
    BY <1>0, <2>1, <2>3, OthersKept
  <2> QED
    BY <2>2, <2>3
<1>2. CASE Update(r)
  <2>1. sleeping' = sleeping /\ finalize' = finalize
    BY <1>2 DEF Update
  <2>2. PICK S : Queued(S)
    BY <1>2, UpdateIs
  <2> QED
    BY <1>0, <1>1, <2>1, <2>2, QueuedKnow
<1>3. CASE Uncount(r)
  <2>1. q'.ready = q.ready /\ q'.woken = q.woken /\ sleeping' = sleeping
    BY <1>3, UncountedIs DEF Uncount
  <2> QED
    BY <1>0, <1>1, <2>1, KnowKept
<1>4. CASE Take(r)
  <2>1. q'.woken = q.woken /\ sleeping' = sleeping
    BY <1>4, TakeIs DEF Take, Got
  <2>2. \A s \in Threads : \A t : In(t, q'.ready[s]) => In(t, q.ready[s])
    BY <1>4, TakeIs
  <2> QED
    BY <1>0, <1>1, <2>1, <2>2, KnowKept
<1>5. CASE Steal(r)
  <2>1. q'.woken = q.woken /\ sleeping' = sleeping
    BY <1>5, StealIs DEF Steal, Got
  <2>2. \A s \in Threads : \A t : In(t, q'.ready[s]) => In(t, q.ready[s])
    BY <1>5, StealIs
  <2> QED
    BY <1>0, <1>1, <2>1, <2>2, KnowKept
<1>6. CASE Doze(r)
  <2>1. q' = q /\ finalize' = finalize
    BY <1>0, <1>6 DEF Doze, Goto
  <2>2. CASE q.queued = 0 /\ r \notin finalize
    <3>1. sleeping' = sleeping \cup {r}
      BY <1>6, <2>2 DEF Doze
    <3>2. q.ready[r] = <<>>
      BY <2>2, NothingQueued
    <3> QED
      BY <1>1, <2>1, <2>2, <3>1, <3>2 DEF Inv, SleepersKnow
  <2>3. CASE ~(q.queued = 0 /\ r \notin finalize)
    <3>1. sleeping' = sleeping
      BY <1>6, <2>3 DEF Doze
    <3> QED
      BY <1>0, <1>1, <2>1, <3>1, KnowKept
  <2> QED
    BY <2>2, <2>3
<1>7. CASE Wake(r)
  <2>1. q'.woken = q.woken \ {r} /\ q'.ready = q.ready /\ finalize' = finalize
    BY <1>7, WakeIs DEF Wake, SamePlaces
  <2>2. CASE q.queued = 0 /\ r \notin finalize
    <3>1. sleeping' = sleeping
      BY <1>7, <2>2 DEF Wake
    <3>2. q.ready[r] = <<>>
      BY <2>2, NothingQueued
    <3> QED
      BY <1>1, <2>1, <2>2, <3>1, <3>2 DEF Inv, SleepersKnow
  <2>3. CASE ~(q.queued = 0 /\ r \notin finalize)
    <3>1. sleeping' = sleeping \ {r}
      BY <1>7, <2>3 DEF Wake
    <3> QED
      BY <1>1, <2>1, <3>1 DEF Inv, SleepersKnow
  <2> QED
    BY <2>2, <2>3
<1>8. CASE Start(r) \/ Finish(r) \/ CancelTask(r)
  <2>1. q'.ready = q.ready /\ q'.woken = q.woken
    BY <1>8, StartIs, FinishIs, CancelTaskIs DEF SamePlaces
  <2>2. sleeping' = sleeping
    BY <1>8 DEF Start, Finish, CancelTask, threads
  <2> QED
    BY <1>0, <1>1, <2>1, <2>2, KnowKept
<1>9. CASE \/ Process(r) \/ ProcessOver(r) \/ Delete(r) \/ Unlink(r) \/ Help(r) \/ Miss(r) \/ Leave(r)
           \/ ReadSequence(r) \/ Enqueue(r) \/ BeginCancel(r) \/ EndCancel(r)
  <2>1. q' = q /\ sleeping' = sleeping
    BY <1>9 DEF Process, ProcessOver, Delete, Unlink, Help, Miss, Leave, ReadSequence, Enqueue,
       BeginCancel,
       EndCancel, threads
  <2> QED
    BY <1>0, <1>1, <2>1, KnowKept
<1> QED
  BY <1>2, <1>3, <1>4, <1>5, <1>6, <1>7, <1>8, <1>9 DEF Completion, MainLoop

\* Every step keeps SleepersKnow.
LEMMA SleepersHold ==
  ASSUME Inv, NEW r \in Threads, Step(r)
  PROVE  SleepersKnow'
BY MasterKnow, LoopKnow DEF Step
-----------------------------------------------------------------------------
\* What the fields of q are at first.
LEMMA InitIs ==
  ASSUME Init
  PROVE  /\ prog \in Programs
         /\ q.status = [t \in Tasks |-> "NEW"] /\ q.live = [t \in Tasks |-> TRUE]
         /\ q.ndep = [t \in Tasks |-> Len(prog.args[t])]
         /\ q.dep = [t \in Tasks |-> Packed(prog.args[t])]
         /\ q.list = [a \in prog.addrs |-> {}]
         /\ q.ready = [r \in Threads |-> <<>>] /\ q.queued = 0 /\ q.woken = {}
         /\ Shaped(q)
         /\ completed = <<>> /\ taskSet = {} /\ freed = {}
         /\ seq = [off |-> FALSE, owner |-> Nobody, tasks |-> {}, rest |-> {}]
         /\ pc = [r \in Threads |-> IF r = 0 THEN "insert" ELSE "look"]
         /\ mine = [r \in Threads |-> None]
         /\ victim = [r \in Threads |-> r]
         /\ job = [r \in Threads |-> [task |-> None, dep |-> 0, by |-> 0]]
         /\ sleeping = {} /\ executing = {} /\ finalize = {}
         /\ master = [next |-> 1, dep |-> 1, count |-> 0, after |-> "water", barrier |-> FALSE]
<1>1. PICK robin \in prog.robins :
        q = [status |-> [t \in Tasks |-> "NEW"],
             live   |-> [t \in Tasks |-> TRUE],
             ndep   |-> [t \in Tasks |-> Len(prog.args[t])],
             dep    |-> [t \in Tasks |-> Packed(prog.args[t])],
             list   |-> [a \in prog.addrs |-> {}],
             last   |-> [a \in prog.addrs |-> Nobody],
             ready  |-> [r \in Threads |-> <<>>],
             robin  |-> robin,
             queued |-> 0,
             woken  |-> {}]
  BY DEF Init
<1>2. prog \in Programs
  BY DEF Init
<1>3. robin \in Threads
  BY <1>2, ProgramTypes
<1>4. ASSUME NEW t \in Tasks
      PROVE  /\ Packed(prog.args[t]) \in Seq(Dependencies)
             /\ Packed(prog.args[t]) \in [Arguments(t) -> Dependencies]
             /\ Len(prog.args[t]) \in Int
  <2>1. prog.args[t] \in Seq(Argument) /\ Len(prog.args[t]) \in Nat
    BY <1>2, ProgramTypes
  <2>2. Packed(prog.args[t]) \in Seq(Dependencies) /\ Len(Packed(prog.args[t])) = Len(prog.args[t])
    BY <2>1, PackedIs
  <2> QED
    BY <2>1, <2>2, LenProperties DEF Arguments
<1>5. Shaped(q)
  <2>1. /\ q.status \in [Tasks -> Statuses] /\ q.live \in [Tasks -> BOOLEAN]
        /\ q.list \in [prog.addrs -> SUBSET (Nat \X Nat)]
        /\ q.last \in [prog.addrs -> Threads \cup {Nobody}]
    BY <1>1 DEF Statuses
  <2>2. /\ q.ndep \in [Tasks -> Int] /\ q.dep \in [Tasks -> Seq(Dependencies)]
        /\ \A t \in Tasks : q.dep[t] \in [Arguments(t) -> Dependencies]
    BY <1>1, <1>4
  <2>3. <<>> \in Seq(Tasks)
    OBVIOUS
  <2>4. /\ q.ready \in [Threads -> Seq(Tasks)] /\ q.robin \in Threads /\ q.queued \in Int
        /\ q.woken \in SUBSET Threads
    BY <1>1, <1>3, <2>3
  <2>5. q = [status |-> q.status, live |-> q.live, ndep |-> q.ndep, dep |-> q.dep, list |-> q.list,
             last |-> q.last, ready |-> q.ready, robin |-> q.robin, queued |-> q.queued, woken |-> q.woken]
    BY <1>1
  <2> HIDE <1>1
  <2> QED
    BY <2>1, <2>2, <2>4, <2>5 DEF Shaped, Nodes
<1>6. /\ q.status = [t \in Tasks |-> "NEW"] /\ q.live = [t \in Tasks |-> TRUE]
      /\ q.ndep = [t \in Tasks |-> Len(prog.args[t])]
      /\ q.dep = [t \in Tasks |-> Packed(prog.args[t])]
      /\ q.list = [a \in prog.addrs |-> {}]
      /\ q.ready = [r \in Threads |-> <<>>] /\ q.queued = 0 /\ q.woken = {}
  BY <1>1
<1> QED
  BY <1>2, <1>5, <1>6 DEF Init

\* At the start no argument has become a dependency of a list.
LEMMA InitDeps ==
  ASSUME Init
  PROVE  Deps /\ Covers
<1>1. /\ prog \in Programs
      /\ q.status = [t \in Tasks |-> "NEW"]
      /\ q.ndep = [t \in Tasks |-> Len(prog.args[t])]
      /\ q.dep = [t \in Tasks |-> Packed(prog.args[t])]
  BY InitIs
<1>2. /\ prog.addrs = Addrs(prog.args) /\ DOMAIN prog.args = Tasks
      /\ \A t \in Tasks : /\ prog.args[t] \in Seq(Argument)
                          /\ Len(prog.args[t]) \in Nat
                          /\ DOMAIN prog.args[t] = Arguments(t)
  BY <1>1, ProgramTypes
<1>3. ASSUME NEW t \in Tasks
      PROVE  /\ \A i \in Arguments(t) : \E k \in Arguments(t) : q.dep[t][i] = Dependency(prog.args[t][k])
             /\ \A k \in Arguments(t) : \E i \in Arguments(t) : q.dep[t][i] = Dependency(prog.args[t][k])
  <2>1. PICK l : l = Packed(prog.args[t])
    OBVIOUS
  <2>2. /\ l \in Seq(Dependencies) /\ Len(l) = Len(prog.args[t])
        /\ \A y : In(y, l) <=> \E k \in 1 .. Len(prog.args[t]) : y = Dependency(prog.args[t][k])
    BY <1>2, <2>1, PackedIs
  <2>3. DOMAIN l = Arguments(t) /\ q.dep[t] = l
    BY <1>1, <2>1, <2>2, LenProperties DEF Arguments
  <2>4. \A y : (\E i \in Arguments(t) : l[i] = y) <=> \E k \in Arguments(t) : y = Dependency(prog.args[t][k])
    BY <2>2, <2>3 DEF In, Arguments
  <2> QED
    BY <2>3, <2>4
<1>4. Deps
  <2>1. ASSUME NEW t \in Tasks PROVE \A i \in Arguments(t) : ~q.dep[t][i].dropped /\ ~q.dep[t][i].ready /\ q.dep[t][i].addr \in prog.addrs
    <3>1. ASSUME NEW i \in Arguments(t) PROVE ~q.dep[t][i].dropped /\ ~q.dep[t][i].ready /\ q.dep[t][i].addr \in prog.addrs
      <4>1. PICK k \in Arguments(t) : q.dep[t][i] = Dependency(prog.args[t][k])
        BY <1>3
      <4>2. prog.args[t][k].addr \in prog.addrs
        BY <1>2 DEF Addrs
      <4> QED
        BY <4>1, <4>2 DEF Dependency
    <3> QED
      BY <3>1
  <2>2. \A t \in Tasks : \A i \in Arguments(t) : ~Came(t, i)
    BY <1>1 DEF Came, Out
  <2>3. \A t \in Tasks : q.ndep[t] = Cardinality(Unready(t))
    <3>1. ASSUME NEW t \in Tasks PROVE q.ndep[t] = Cardinality(Unready(t))
      <4>1. Unready(t) = 1 .. Len(prog.args[t])
        BY <2>1 DEF Unready, Arguments
      <4>2. Cardinality(1 .. Len(prog.args[t])) = Len(prog.args[t])
        BY <1>2, FS_Interval
      <4> QED
        BY <1>1, <4>1, <4>2
    <3> QED
      BY <3>1
  <2> QED
    BY <2>1, <2>2, <2>3 DEF Deps
<1>5. Covers
  <2>1. ASSUME NEW t \in Tasks, NEW k \in Arguments(t)
        PROVE  \E i \in Arguments(t) : Stands(t, i, prog.args[t][k])
    <3>1. PICK i \in Arguments(t) : q.dep[t][i] = Dependency(prog.args[t][k])
      BY <1>3
    <3> QED
      BY <3>1 DEF Stands, Dependency
  <2>2. ASSUME NEW t \in Tasks, NEW i \in Arguments(t), NEW j \in Arguments(t),
               q.dep[t][i].addr = q.dep[t][j].addr, q.dep[t][i].gather
        PROVE  q.dep[t][j].gather /\ q.dep[t][j].region = q.dep[t][i].region
    <3>1. PICK k \in Arguments(t), m \in Arguments(t) :
             q.dep[t][i] = Dependency(prog.args[t][k]) /\ q.dep[t][j] = Dependency(prog.args[t][m])
      BY <1>3
    <3>2. prog.args[t][k].addr = prog.args[t][m].addr /\ prog.args[t][k].gather
      BY <2>2, <3>1 DEF Dependency
    <3>3. prog.args[t][m].gather /\ prog.args[t][m].region = prog.args[t][k].region
      BY <1>1, <1>2, <3>2, GatherAssumption DEF GatherAlone
    <3> QED
      BY <3>1, <3>3 DEF Dependency
  <2> QED
    BY <2>1, <2>2 DEF Covers
<1> QED
  BY <1>4, <1>5

\* The invariant holds at the start.
LEMMA InvInit ==
  ASSUME Init
  PROVE  Inv
<1>0. /\ 0 \in Threads /\ None \notin Tasks /\ Tasks \in SUBSET Nat /\ Nobody \notin Threads
      /\ \A t \in Tasks : t # 0 /\ ~(t < 1)
  BY ThreadsAssumption DEF Threads, None, Tasks, Nobody
<1>1. /\ prog \in Programs
      /\ q.status = [t \in Tasks |-> "NEW"] /\ q.live = [t \in Tasks |-> TRUE]
      /\ q.list = [a \in prog.addrs |-> {}]
      /\ q.ready = [r \in Threads |-> <<>>] /\ q.queued = 0
      /\ Shaped(q)
      /\ completed = <<>> /\ taskSet = {} /\ freed = {}
      /\ seq = [off |-> FALSE, owner |-> Nobody, tasks |-> {}, rest |-> {}]
      /\ pc = [r \in Threads |-> IF r = 0 THEN "insert" ELSE "look"]
      /\ mine = [r \in Threads |-> None]
      /\ victim = [r \in Threads |-> r]
      /\ job = [r \in Threads |-> [task |-> None, dep |-> 0, by |-> 0]]
      /\ sleeping = {} /\ executing = {} /\ finalize = {}
      /\ master = [next |-> 1, dep |-> 1, count |-> 0, after |-> "water", barrier |-> FALSE]
  BY InitIs
<1>2. pc[0] = "insert" /\ (\A r \in Threads : pc[r] \in {"insert", "look"} /\ (pc[r] = "insert" => r = 0))
  BY <1>0, <1>1
<1>3. /\ \A r \in Threads : mine[r] = None /\ job[r].task = None /\ job[r].dep = 0
      /\ \A r \in Threads : \A t : ~In(t, q.ready[r])
      /\ \A t : ~Names(t, completed)
      /\ \A t \in Tasks : q.status[t] = "NEW" /\ q.live[t]
  BY <1>1 DEF In, Names
<1>4. TypeOK
  <2>1. /\ pc \in [Threads -> Before0 \cup Looking \cup Napping \cup Holding \cup Clearing]
        /\ mine \in [Threads -> Tasks \cup {None}]
        /\ victim \in [Threads -> Threads]
    BY <1>1 DEF Before0, Looking
  <2>2. job \in [Threads -> [task : Tasks \cup {None}, dep : Nat, by : Threads \cup {Nobody}]]
    BY <1>0, <1>1
  <2>3. completed \in Seq(Tasks \X (Threads \cup {Nobody}))
    BY <1>1
  <2>4. /\ seq \in [off : BOOLEAN, owner : Threads \cup {Nobody}, tasks : SUBSET prog.member,
                    rest : SUBSET prog.member]
        /\ master \in [next : Nat \ {0}, dep : Nat, count : Nat, after : {"water", "look", "try"},
                       barrier : BOOLEAN]
    BY <1>1
  <2> QED
    BY <1>1, <2>1, <2>2, <2>3, <2>4 DEF TypeOK
<1>5. Ctl
  BY <1>0, <1>1, <1>2, <1>3 DEF Ctl, Before0, Holding, Clearing, Napping, Workers
<1>6. Stages
  BY <1>0, <1>1, <1>2, <1>3 DEF Stages, Known, Out, Past
<1>7. ReadyPlace /\ MinePlace /\ DonePlace /\ JobPlace
  <2>1. ReadyPlace
    BY <1>1, <1>3 DEF ReadyPlace, Once
  <2>2. MinePlace
    BY <1>1, <1>2, <1>3 DEF MinePlace
  <2>3. DonePlace
    BY <1>1, <1>3 DEF DonePlace, NamedOnce
  <2>4. JobPlace
    BY <1>1, <1>2, <1>3 DEF JobPlace, Clearing
  <2> QED
    BY <2>1, <2>2, <2>3, <2>4
<1>8. Nowhere /\ Counted
  <2>1. Busy = {}
    BY <1>0, <1>3 DEF Busy
  <2> QED
    BY <1>1, <1>3, <2>1, FS_EmptySet DEF Nowhere, Counted, Past
<1>9. Lists /\ Clear
  <2>1. \A t \in Tasks : \A i, a : ~Waits(t, i, a)
    BY <1>3 DEF Waits, Came, Out
  <2> QED
    BY <1>1, <2>1 DEF Lists, Clear
<1>10. Sequence /\ Members /\ Follows /\ SleepersKnow
  BY <1>0, <1>1, <1>2, <1>3 DEF Sequence, Members, Follows, SleepersKnow, Out
<1> QED
  BY <1>4, <1>5, <1>6, <1>7, <1>8, <1>9, <1>10, InitDeps DEF Inv, Init

\* Nothing changes.
LEMMA InvStutter ==
  ASSUME Inv, UNCHANGED vars
  PROVE  Inv'
<1>1. /\ prog' = prog /\ q' = q /\ completed' = completed /\ taskSet' = taskSet /\ freed' = freed
      /\ seq' = seq /\ pc' = pc /\ mine' = mine /\ victim' = victim /\ job' = job
      /\ sleeping' = sleeping /\ executing' = executing /\ finalize' = finalize /\ master' = master
  BY DEF vars, given, threads
<1>2. Tasks' = Tasks /\ \A t : Arguments(t)' = Arguments(t)
  BY <1>1, SameGiven
<1>3. (TypeOK /\ Ctl /\ Stages)'
  BY <1>1, <1>2, SameGiven DEF Inv, TypeOK, Ctl, Stages, Known
<1>4. (ReadyPlace /\ MinePlace /\ DonePlace /\ JobPlace)'
  BY <1>1, <1>2 DEF Inv, ReadyPlace, MinePlace, DonePlace, JobPlace
<1>5. (Nowhere /\ Counted)'
  BY <1>1, <1>2 DEF Inv, Nowhere, Counted, Busy
<1>6. (Deps /\ Covers)'
  <2>1. \A t : Unready(t)' = Unready(t) /\ \A i : Came(t, i)' <=> Came(t, i)
    BY <1>1, <1>2 DEF Unready, Came
  <2>2. \A t, i, d : Stands(t, i, d)' <=> Stands(t, i, d)
    BY <1>1 DEF Stands
  <2>3. Deps'
    BY <1>1, <1>2, <2>1 DEF Inv, Deps
  <2>4. Covers'
    BY <1>1, <1>2, <2>2 DEF Inv, Covers
  <2> QED
    BY <2>3, <2>4
<1>7. (Lists /\ Clear)'
  BY <1>1, <1>2 DEF Inv, Lists, Clear, Waits, Came, Gone, Of, Open
<1>8. (Sequence /\ Members /\ Follows /\ SleepersKnow)'
  BY <1>1, <1>2 DEF Inv, Sequence, Members, Follows, SleepersKnow
<1> QED
  BY <1>3, <1>4, <1>5, <1>6, <1>7, <1>8 DEF Inv, vars

\* Every step of a thread but Dangle and Requeue keeps the invariant.
LEMMA InvStep ==
  ASSUME Inv, NEW r \in Threads, Step(r)
  PROVE  Inv'
<1>1. twice' = {}
  BY DEF Inv, Step
<1> QED
  BY <1>1, TypeKept, CtlKept, StagesKept, PlacesKept, DepsHold, CoversHold, ListsHold,
     ClearHolds, SequenceHolds, MembersHold, FollowsHold, SleepersHold DEF Inv, Places

\* The invariant says that none has been queued twice, and such a step queues none.
LEMMA NoneSoFar ==
  ASSUME Inv
  PROVE  twice = {}
BY DEF Inv

LEMMA NoneNext ==
  ASSUME Inv, NEW r \in Threads, Step(r)
  PROVE  twice = {} /\ twice' = {}
BY DEF Inv, Step

\* A thread has no freed task as long as none has been queued twice.
LEMMA NoDangle ==
  ASSUME Inv, NEW r \in Threads
  PROVE  ~Dangle(r)
BY DEF Dangle, Inv, MinePlace

\* What has been queued twice stays so, and Requeue adds to it.
LEMMA TwiceGrows ==
  ASSUME NEW r \in Threads, Turn(r)
  PROVE  twice \subseteq twice' /\ (twice' = {} => Step(r) \/ Dangle(r))
BY DEF Turn, Step, Dangle, Requeue

\* The inductive invariant holds in every state of every section until Requeue queues a
\* cancelled task a second time, whatever the number of threads and the programs: the
\* common ground of the theorems below.
THEOREM InvHolds == Spec => [](twice = {} => Inv)
<1>1. Init => (twice = {} => Inv)
  BY InvInit
<1>2. ASSUME twice = {} => Inv, [Next]_vars, twice' = {} PROVE Inv'
  <2>1. CASE UNCHANGED vars
    BY <1>2, <2>1, InvStutter DEF vars
  <2>2. CASE Next
    <3>1. PICK r \in Threads : Turn(r)
      BY <2>2 DEF Next
    <3>2. twice = {} /\ (Step(r) \/ Dangle(r))
      BY <1>2, <3>1, TwiceGrows
    <3> QED
      BY <1>2, <3>2, InvStep, NoDangle
  <2> QED
    BY <1>2, <2>1, <2>2
<1>3. (twice = {} => Inv) /\ [Next]_vars => (twice = {} => Inv)'
  BY <1>2
<1> QED
  BY <1>1, <1>3, PTL DEF Spec

\* Nothing but a failing task cancels the sequence.
LEMMA OffSame ==
  ASSUME Inv, NEW r \in Threads, Step(r), ~BeginCancel(r)
  PROVE  seq'.off = seq.off
<1>1. seq \in [off : BOOLEAN, owner : Threads \cup {Nobody}, tasks : SUBSET prog.member,
              rest : SUBSET prog.member]
  BY DEF Inv, TypeOK
<1>2. CASE (r = 0 /\ Insert) \/ Unlink(r) \/ CancelTask(r) \/ EndCancel(r)
  BY <1>1, <1>2 DEF Insert, Unlink, CancelTask, EndCancel
<1>3. CASE ~((r = 0 /\ Insert) \/ Unlink(r) \/ CancelTask(r) \/ EndCancel(r))
  BY <1>3 DEF Step, Master, Completion, MainLoop, Hash, Depend, Check, BarrierStart, Return,
       Finalize, Signal, Process, ProcessOver, Update, Delete, Uncount, Help, Take, Steal,
       Got, Miss, Doze, Wake, Leave, ReadSequence, Start, Finish, Enqueue
<1> QED
  BY <1>2, <1>3

\* The program never changes.
LEMMA TurnGiven ==
  ASSUME NEW r \in Threads, Turn(r)
  PROVE  prog' = prog
BY GivenKept DEF Turn, Dangle, Requeue, given

\* Only a program with a task that may fail can have one queued a second time: for the
\* others the theorems below hold in every state.
THEOREM NoneTwice == Spec => [](prog.fails = {} => twice = {})
<1> DEFINE J == prog.fails = {} => twice = {} /\ ~seq.off
<1>1. Init => J
  BY DEF Init
<1>2. ASSUME twice = {} => Inv, J, [Next]_vars PROVE J'
  <2>1. CASE UNCHANGED vars
    BY <1>2, <2>1 DEF vars, given
  <2>2. CASE Next
    <3>1. PICK r \in Threads : Turn(r)
      BY <2>2 DEF Next
    <3>2. CASE prog.fails = {}
      <4>1. Inv /\ ~seq.off
        BY <1>2, <3>2
      <4>2. ~Requeue
        <5>1. q.status[master.next] # "CANCELLED" \/ pc[0] # "check"
          BY <4>1 DEF Inv, Stages, Ctl
        <5> QED
          BY <5>1 DEF Requeue, Again
      <4>3. Step(r)
        BY <3>1, <4>1, <4>2, NoDangle DEF Turn
      <4>4. twice' = {}
        BY <4>1, <4>3 DEF Inv, Step
      <4>5. ~seq'.off
        <5>1. seq \in [off : BOOLEAN, owner : Threads \cup {Nobody},
                      tasks : SUBSET prog.member, rest : SUBSET prog.member]
          BY <4>1 DEF Inv, TypeOK
        <5>2. ~BeginCancel(r) \/ seq' = seq
          BY <3>2 DEF BeginCancel
        <5> QED
          BY <4>1, <4>3, <5>1, <5>2, OffSame
      <4> QED
        BY <4>4, <4>5
    <3>3. CASE prog.fails # {}
      <4>1. prog' = prog
        BY <3>1, TurnGiven
      <4> QED
        BY <3>3, <4>1
    <3> QED
      BY <3>2, <3>3
  <2> QED
    BY <1>2, <2>1, <2>2
<1>3. J => (prog.fails = {} => twice = {})
  OBVIOUS
<1> QED
  BY <1>1, <1>2, <1>3, InvHolds, PTL DEF Spec
-----------------------------------------------------------------------------
\* How many elements a set of at most one has.
LEMMA OneAtMost ==
  ASSUME NEW S, \A x, y \in S : x = y
  PROVE  Cardinality(S) = IF S = {} THEN 0 ELSE 1
<1>1. CASE S = {}
  BY <1>1, FS_EmptySet
<1>2. CASE S # {}
  <2>1. PICK x : S = {x}
    BY <1>2
  <2>2. Cardinality({x}) = 1
    BY FS_Singleton
  <2> QED
    BY <1>2, <2>1, <2>2
<1> QED
  BY <1>1, <1>2

\* A task is in one place at most.
LEMMA HeldIs ==
  ASSUME Inv, NEW t \in Tasks
  PROVE  Held(t) = IF t \in Busy THEN 1 ELSE 0
<1> DEFINE A == {r \in Threads : Contains(q.ready[r], t)}
           B == {r \in Threads : mine[r] = t}
           C == {i \in DOMAIN completed : completed[i][1] = t}
           D == {r \in Threads : job[r].task = t}
<1>0. t # None /\ ReadyPlace /\ MinePlace /\ DonePlace /\ JobPlace
  BY DEF Inv, Tasks, None
<1>1. \A r \in Threads : Contains(q.ready[r], t) <=> In(t, q.ready[r])
  <2>1. \A r \in Threads : q.ready[r] \in Seq(Tasks)
    BY DEF Inv, TypeOK, Shaped, Nodes
  <2>2. \A r \in Threads : DOMAIN q.ready[r] = 1 .. Len(q.ready[r])
    BY <2>1, LenProperties
  <2> QED
    BY <2>2 DEF Contains, In
<1>2. /\ A # {} <=> \E r \in Threads : In(t, q.ready[r])
      /\ B # {} <=> \E r \in Threads : mine[r] = t
      /\ C # {} <=> Names(t, completed)
      /\ D # {} <=> \E r \in Threads : job[r].task = t
  BY <1>1 DEF Names
<1>3. /\ \A x, y \in A : x = y
      /\ \A x, y \in B : x = y
      /\ \A x, y \in C : x = y
      /\ \A x, y \in D : x = y
  <2>1. \A x, y \in A : x = y
    BY <1>0, <1>1 DEF ReadyPlace
  <2>2. \A x, y \in B : x = y
    BY <1>0 DEF MinePlace
  <2>3. \A x, y \in C : x = y
    BY <1>0 DEF DonePlace, NamedOnce
  <2>4. \A x, y \in D : x = y
    BY <1>0 DEF JobPlace
  <2> QED
    BY <2>1, <2>2, <2>3, <2>4
<1>4. /\ A # {} => B = {} /\ C = {} /\ D = {}
      /\ B # {} => C = {} /\ D = {}
      /\ C # {} => D = {}
  <2>1. A # {} => q.status[t] = "QUEUED"
    BY <1>0, <1>2 DEF ReadyPlace
  <2>2. A # {} => B = {}
    BY <1>0, <1>2 DEF ReadyPlace
  <2>3. C # {} => q.status[t] \in Done
    BY <1>0, <1>2 DEF DonePlace
  <2>4. D # {} => q.status[t] \in Done
    BY <1>0, <1>2 DEF JobPlace, Inv, Ctl
  <2>5. B # {} => C = {} /\ D = {}
    BY <1>0, <1>2 DEF MinePlace
  <2>6. C # {} => D = {}
    BY <1>0, <1>2 DEF DonePlace
  <2> QED
    BY <2>1, <2>2, <2>3, <2>4, <2>5, <2>6 DEF Done
<1>5. t \in Busy <=> A # {} \/ B # {} \/ C # {} \/ D # {}
  BY <1>2 DEF Busy
<1>6. Held(t) = Cardinality(A) + Cardinality(B) + Cardinality(C) + Cardinality(D)
  BY DEF Held
<1> HIDE DEF A, B, C, D
<1>7. /\ Cardinality(A) = IF A = {} THEN 0 ELSE 1
      /\ Cardinality(B) = IF B = {} THEN 0 ELSE 1
      /\ Cardinality(C) = IF C = {} THEN 0 ELSE 1
      /\ Cardinality(D) = IF D = {} THEN 0 ELSE 1
  BY <1>3, OneAtMost
<1> QED
  BY <1>4, <1>5, <1>6, <1>7

\* A queued task is in exactly one place, its count of dependencies is that of the unready
\* ones, and num_queued_tasks counts the tasks in any place (quark.c:1483, 1516, 2498).
THEOREM OnePlaceHolds == Spec => [](twice = {} => OnePlace)
<1>1. ASSUME Inv PROVE OnePlace
  <2>1. ASSUME NEW t \in taskSet
        PROVE  /\ Held(t) = IF q.status[t] = "NOTREADY" THEN 0 ELSE 1
               /\ q.ndep[t] = Cardinality({i \in DOMAIN q.dep[t] : ~q.dep[t][i].ready})
    <3>1. t \in Tasks /\ q.status[t] \notin Out /\ t \notin freed
      BY <1>1, <2>1 DEF Inv, TypeOK, Stages
    <3>2. q.status[t] \in Statuses
      BY <1>1, <3>1 DEF Inv, TypeOK, Shaped, Nodes
    <3>3. t \in Busy <=> q.status[t] # "NOTREADY"
      <4>1. t \in Busy => q.status[t] \in Past
        BY <1>1, BusyPast
      <4>2. q.status[t] \in Past => t \in Busy
        BY <1>1, <3>1 DEF Inv, Nowhere
      <4> QED
        BY <3>1, <3>2, <4>1, <4>2 DEF Past, Out, Statuses
    <3>4. Held(t) = IF t \in Busy THEN 1 ELSE 0
      BY <1>1, <3>1, HeldIs
    <3>5. DOMAIN q.dep[t] = Arguments(t)
      BY <1>1, <3>1, DepAt DEF Inv, TypeOK
    <3>6. q.ndep[t] = Cardinality(Unready(t))
      BY <1>1, <3>1 DEF Inv, Deps
    <3> QED
      BY <3>3, <3>4, <3>5, <3>6 DEF Unready
  <2>2. {t \in Tasks : Held(t) > 0} = Busy
    <3>1. \A t \in Tasks : Held(t) > 0 <=> t \in Busy
      BY <1>1, HeldIs
    <3> QED
      BY <3>1 DEF Busy
  <2>3. twice = {} /\ {t \in Tasks : Counts(t)} = Busy
    BY <1>1, <2>2 DEF Inv, Counts
  <2>4. q.queued = Cardinality({t \in Tasks : Counts(t)}) + Cardinality(twice)
    <3>1. q.queued = Cardinality(Busy) /\ q.queued \in Int
      BY <1>1 DEF Inv, Counted, TypeOK, Shaped, Nodes
    <3> QED
      BY <2>3, <3>1, FS_EmptySet
  <2> QED
    BY <2>1, <2>3, <2>4 DEF OnePlace
<1> QED
  BY <1>1, InvHolds, PTL

\* No wake-up is lost: a worker that sleeps unsignalled has an empty ready list and has not
\* been told to leave (quark.c:2037, 1559).
THEOREM SleepersKnowHolds == Spec => [](twice = {} => SleepersKnow)
<1>1. Inv => SleepersKnow
  BY DEF Inv
<1> QED
  BY <1>1, InvHolds, PTL

\* After the barrier nothing is left of the tasks.
LEMMA Cleared ==
  ASSUME Inv, pc[0] \in {"finalize", "signal", "over"}
  PROVE  /\ taskSet = {} /\ completed = <<>>
         /\ \A t \in Tasks : q.status[t] \in {"REJECTED", "DONE", "CANCELLED"}
         /\ \A t \in Tasks : q.status[t] # "REJECTED" => t \in freed
         /\ \A r \in Threads : q.ready[r] = <<>>
<1>1. taskSet = {} /\ master.next \notin Tasks
  BY DEF Inv, Ctl
<1>2. ASSUME NEW t \in Tasks
      PROVE  /\ q.status[t] \in {"REJECTED", "DONE", "CANCELLED"}
             /\ q.status[t] # "REJECTED" => t \in freed
  <2>1. t < master.next
    <3>1. prog \in Programs /\ master.next \in Nat \ {0}
      BY DEF Inv, TypeOK
    <3>2. Len(prog.args) \in Nat
      BY <3>1, ProgramTypes
    <3> QED
      BY <1>1, <3>1, <3>2 DEF Tasks
  <2>2. q.status[t] # "NEW"
    BY <2>1 DEF Inv, Stages, Known
  <2>3. q.status[t] \in Out \/ t \in freed
    BY <1>1 DEF Inv, Stages
  <2> QED
    BY <2>2, <2>3 DEF Inv, Stages, Out, Done
<1>3. completed = <<>>
  <2>1. completed \in Seq(Tasks \X (Threads \cup {Nobody}))
    BY DEF Inv, TypeOK
  <2>2. ASSUME completed # <<>> PROVE FALSE
    <3>1. 1 \in DOMAIN completed /\ completed[1] \in Tasks \X (Threads \cup {Nobody})
      BY <2>1, <2>2, EmptySeq, LenProperties
    <3>2. completed[1][1] \in Tasks /\ Names(completed[1][1], completed)
      BY <3>1 DEF Names
    <3>3. q.status[completed[1][1]] \in Done /\ completed[1][1] \notin freed
      BY <3>2 DEF Inv, DonePlace
    <3> QED
      BY <1>2, <3>2, <3>3 DEF Done
  <2> QED
    BY <2>2
<1>4. ASSUME NEW r \in Threads PROVE q.ready[r] = <<>>
  <2>1. q.ready[r] \in Seq(Tasks)
    BY DEF Inv, TypeOK, Shaped, Nodes
  <2>2. \A t \in Tasks : ~In(t, q.ready[r])
    BY <1>2 DEF Inv, ReadyPlace
  <2> QED
    BY <2>1, <2>2, EmptyList
<1> QED
  BY <1>1, <1>2, <1>3, <1>4

\* The abstract state of a task, status by status.
LEMMA StateIs ==
  ASSUME NEW t \in Tasks, twice = {}
  PROVE  /\ q.status[t] \in {"NEW", "NOTREADY", "QUEUED"} => State(t) = "waiting"
         /\ q.status[t] = "RUNNING" => State(t) = "running"
         /\ q.status[t] = "DONE" => State(t) = "done"
         /\ q.status[t] = "CANCELLED" => State(t) = "skipped"
         /\ q.status[t] = "REJECTED" => State(t) = "rejected"
<1>1. State(t) = Shown[q.status[t]]
  BY DEF State
<1> QED
  BY <1>1 DEF Shown

\* After QUARK_Barrier every task is over and deleted, and a section that has ended leaves
\* nothing behind (quark.c:906, 956).
THEOREM SectionCleanHolds == Spec => [](twice = {} => SectionClean)
<1>1. ASSUME Inv, pc[0] \in {"finalize", "signal", "over"}
      PROVE  /\ \A t \in Tasks : State(t) \in O!Over
             /\ taskSet = {} /\ completed = <<>>
             /\ \A r \in Threads : ToSet(q.ready[r]) \subseteq twice
  <2>1. twice = {} /\ \A r \in Threads : ToSet(q.ready[r]) = {}
    BY <1>1, Cleared DEF Inv, ToSet
  <2> QED
    BY <1>1, <2>1, Cleared, StateIs DEF O!Over
<1>2. ASSUME Inv, \A r \in Threads : pc[r] \in {"over", "left"}
      PROVE  q.queued = Cardinality(twice) /\ seq.tasks = {} /\ sleeping = {} /\ finalize = {} /\ executing = {}
  <2>0. /\ 0 \in Threads /\ sleeping \in SUBSET Workers /\ executing \in SUBSET Threads
        /\ finalize \in SUBSET Workers /\ Workers \in SUBSET Threads
    <3>1. 0 \in Threads /\ Workers \in SUBSET Threads
      BY ThreadsAssumption DEF Threads, Workers
    <3>2. sleeping \in SUBSET Workers /\ executing \in SUBSET Threads /\ finalize \in SUBSET Workers
      BY <1>2 DEF Inv, TypeOK
    <3> QED
      BY <3>1, <3>2
  <2>1. pc[0] = "over"
    BY <1>2, <2>0 DEF Inv, Ctl, Napping
  <2>2. sleeping = {} /\ executing = {}
    BY <1>2, <2>0 DEF Inv, Ctl, Workers
  <2>3. finalize = {}
    <3>1. \A w \in Workers : pc[w] = "left"
      BY <1>2, <2>0 DEF Inv, Ctl, Before0, Workers
    <3> QED
      BY <1>2, <2>0, <2>1, <3>1 DEF Inv, Ctl
  <2>4. \A r \in Threads : mine[r] = None /\ job[r].task = None
    BY <1>2 DEF Inv, Ctl, Holding, Clearing
  <2>5. Busy = {}
    <3>1. \A t : ~Names(t, completed)
      BY <1>2, <2>1, Cleared DEF Names
    <3>2. \A t \in Tasks : t # None
      BY DEF Tasks, None
    <3>3. \A t \in Tasks, r \in Threads : ~In(t, q.ready[r])
      BY <1>2, <2>1, Cleared DEF In
    <3> QED
      BY <2>4, <3>1, <3>2, <3>3 DEF Busy
  <2>6. q.queued = Cardinality(twice)
    BY <1>2, <2>5 DEF Inv, Counted
  <2>7. seq.tasks = {}
    <3>1. seq.tasks \in SUBSET Tasks
      BY <1>2, ProgramTypes DEF Inv, TypeOK
    <3>2. ASSUME NEW t \in seq.tasks PROVE FALSE
      <4>1. q.status[t] \notin Out /\ (t \in freed => \E r \in Threads : pc[r] = "unlink")
        BY <1>2, <2>1, <3>1, <3>2 DEF Inv, Members
      <4>2. t \in freed
        BY <1>2, <2>1, <3>1, <3>2, <4>1, Cleared DEF Out
      <4> QED
        BY <1>2, <4>1, <4>2
    <3> QED
      BY <3>2
  <2> QED
    BY <2>2, <2>3, <2>6, <2>7
<1>3. Inv => SectionClean
  BY <1>1, <1>2 DEF SectionClean
<1> QED
  BY <1>3, InvHolds, PTL
-----------------------------------------------------------------------------
\* What the abstract specification sees of the tasks and of the sequence.
Seen  == [t \in AnyTask |-> State(t)]
Phase == IF ~seq.off THEN "on" ELSE IF seq.owner # Nobody THEN "ending" ELSE "off"

\* The same of the state after a step.
LEMMA NextStateIs ==
  ASSUME NEW t \in Tasks, Tasks' = Tasks, twice = {}, twice' = {}
  PROVE  /\ q'.status[t] = q.status[t] => State(t)' = State(t)
         /\ q'.status[t] \in {"NEW", "NOTREADY", "QUEUED"} => State(t)' = "waiting"
         /\ q'.status[t] = "RUNNING" => State(t)' = "running"
         /\ q'.status[t] = "DONE" => State(t)' = "done"
         /\ q'.status[t] = "CANCELLED" => State(t)' = "skipped"
         /\ q'.status[t] = "REJECTED" => State(t)' = "rejected"
<1>1. State(t) = Shown[q.status[t]] /\ State(t)' = Shown[q'.status[t]]
  BY DEF State, Shown
<1>2. q'.status[t] = q.status[t] => State(t)' = State(t)
  BY <1>1
<1> QED
  BY <1>1, <1>2 DEF Shown

\* The abstract states are those of the tasks.
LEMMA SeenIs ==
  ASSUME Inv
  PROVE  /\ Tasks \in SUBSET AnyTask
         /\ \A t \in Tasks : Seen[t] = State(t)
         /\ \A t \in AnyTask : t \notin Tasks => Seen[t] = "waiting"
         /\ prog.member \in SUBSET Tasks /\ prog.fails \in SUBSET prog.member
         /\ prog.order \in SUBSET (Tasks \X Tasks)
<1>1. prog \in Programs /\ DOMAIN prog.args = Tasks /\ prog.order = Order(prog.args)
  BY ProgramTypes DEF Inv, TypeOK
<1>2. Tasks \in SUBSET AnyTask
  BY <1>1 DEF AnyTask
<1>3. prog.order \in SUBSET (Tasks \X Tasks)
  BY <1>1 DEF Order
<1>4. prog.member \in SUBSET Tasks /\ prog.fails \in SUBSET prog.member
  BY <1>1, ProgramTypes
<1>5. \A t \in AnyTask : Seen[t] = State(t)
  BY DEF Seen
<1>6. \A t \in AnyTask : t \notin Tasks => State(t) = "waiting"
  BY NoneSoFar DEF State
<1> QED
  BY <1>2, <1>3, <1>4, <1>5, <1>6

\* When the states of the tasks look alike, nothing is seen.
LEMMA SeenKept ==
  ASSUME prog' = prog, twice = {}, twice' = {}, \A t \in Tasks : State(t)' = State(t)
  PROVE  Seen' = Seen
<1>1. Tasks' = Tasks /\ AnyTask' = AnyTask
  BY SameGiven DEF AnyTask
<1>2. \A t \in AnyTask : State(t)' = State(t)
  BY <1>1 DEF State
<1> QED
  BY <1>1, <1>2 DEF Seen

\* One task changes its state.
LEMMA SeenChanged ==
  ASSUME Inv, prog' = prog, twice' = {}, NEW u \in Tasks, NEW x, State(u)' = x,
         \A t \in Tasks : t # u => q'.status[t] = q.status[t]
  PROVE  Seen' = [Seen EXCEPT ![u] = x]
<1>1. Tasks' = Tasks /\ AnyTask' = AnyTask /\ Tasks \in SUBSET AnyTask
  BY SameGiven, SeenIs DEF AnyTask
<1>2. \A t \in AnyTask : t # u => State(t)' = State(t)
  <2> SUFFICES ASSUME NEW t \in AnyTask, t # u PROVE State(t)' = State(t)
    OBVIOUS
  <2>1. CASE t \in Tasks
    BY <1>1, <2>1, NextStateIs, NoneSoFar
  <2>2. CASE t \notin Tasks
    BY <1>1, <2>2, NoneSoFar DEF State
  <2> QED
    BY <2>1, <2>2
<1>3. Seen' = [t \in AnyTask |-> State(t)']
  BY <1>1 DEF Seen
<1>4. [Seen EXCEPT ![u] = x] = [t \in AnyTask |-> IF t = u THEN x ELSE State(t)]
  BY <1>1 DEF Seen
<1>5. \A t \in AnyTask : State(t)' = IF t = u THEN x ELSE State(t)
  BY <1>1, <1>2
<1> QED
  BY <1>3, <1>4, <1>5

\* The abstract sequence changes only with off and owner.
LEMMA PhaseKept ==
  ASSUME seq'.off = seq.off, seq'.owner = seq.owner
  PROVE  Phase' = Phase
BY DEF Phase

\* A task that is queued may run as far as the tasks before it are concerned.
LEMMA FreeToRun ==
  ASSUME Inv, NEW t, q.status[t] = "QUEUED", NEW s, <<s, t>> \in prog.order
  PROVE  Seen[s] \in O!Over
<1>1. s \in Tasks /\ q.status[s] \in Done \cup {"REJECTED"}
  BY BeforeOver
<1>2. Seen[s] = State(s)
  BY <1>1, SeenIs
<1> QED
  BY <1>1, <1>2, StateIs, NoneSoFar DEF Done, O!Over

\* A step that starts a task, or skips one of a cancelled sequence.
LEMMA StartSeen ==
  ASSUME Inv, NEW r \in Threads, Step(r), Start(r)
  PROVE  \E t \in AnyTask : O!Start(t) \/ O!Skip(t)
<1>0. prog' = prog /\ seq' = seq /\ Nobody \notin Threads
  <2>1. Nobody \notin Threads
    BY ThreadsAssumption DEF Nobody, Threads
  <2> QED
    BY <2>1, GivenKept DEF Start
<1>1. PICK t \in Tasks : t = mine[r]
  BY StartIs
<1>2. /\ q.status[t] = "QUEUED" /\ t \in AnyTask /\ Seen[t] = "waiting"
      /\ \A s \in AnyTask : <<s, t>> \in prog.order => Seen[s] \in O!Over
  <2>1. q.status[t] = "QUEUED"
    BY <1>1 DEF Start, Inv, MinePlace
  <2> QED
    BY <1>1, <2>1, SeenIs, FreeToRun, StateIs, NoneNext
<1>3. \A u \in Tasks : q'.status[u] = IF u = t THEN (IF Skips(r) THEN "CANCELLED" ELSE "RUNNING") ELSE q.status[u]
  BY <1>1, StartIs
<1>4. Tasks' = Tasks /\ Phase' = Phase
  BY <1>0, SameGiven, PhaseKept
<1>5. CASE Skips(r)
  <2>1. t \in prog.member /\ seq.off
    BY <1>1, <1>5 DEF Skips, Start, Inv, Ctl, Sequence, Stages
  <2>2. Phase # "on"
    BY <2>1 DEF Phase
  <2>3. Seen' = [Seen EXCEPT ![t] = "skipped"]
    <3>1. State(t)' = "skipped"
      BY <1>3, <1>4, <1>5, NextStateIs, NoneNext
    <3> QED
      BY <1>0, <1>3, <3>1, SeenChanged, NoneNext
  <2> QED
    BY <1>0, <1>2, <1>4, <2>1, <2>2, <2>3 DEF O!Skip, O!Free, O!Become, O!given, Seen, Phase
<1>6. CASE ~Skips(r)
  <2>1. pc[r] = "start" /\ q.live[t]
    BY <1>1, <1>6 DEF Skips, Start
  <2>2. t \in prog.member => /\ Phase # "off"
                             /\ \A s \in prog.member : <<s, t>> \in prog.order => Seen[s] = "done"
    <3>1. t \in prog.member /\ seq.off => seq.owner # Nobody
      BY <1>1, <2>1 DEF Inv, Sequence
    <3>2. t \in prog.member => \A s \in prog.member : <<s, t>> \in prog.order => q.status[s] = "DONE"
      BY <1>1, <2>1 DEF Inv, Follows
    <3>3. \A s \in prog.member : s \in Tasks /\ Seen[s] = State(s)
      BY SeenIs
    <3> QED
      BY <3>1, <3>2, <3>3, StateIs, NoneNext DEF Phase
  <2>3. Seen' = [Seen EXCEPT ![t] = "running"]
    <3>1. State(t)' = "running"
      BY <1>3, <1>4, <1>6, NextStateIs, NoneNext
    <3> QED
      BY <1>0, <1>3, <3>1, SeenChanged, NoneNext
  <2> QED
    BY <1>0, <1>2, <1>4, <2>2, <2>3 DEF O!Start, O!Free, O!Become, O!given, Seen, Phase
<1> QED
  BY <1>5, <1>6

\* A task whose function returns finishes; one that fails has cancelled the sequence before.
LEMMA FinishSeen ==
  ASSUME Inv, NEW r \in Threads, Step(r), Finish(r)
  PROVE  \E t \in AnyTask : O!Finish(t)
<1>0. prog' = prog /\ seq' = seq
  BY GivenKept DEF Finish
<1>1. PICK t \in Tasks : t = mine[r]
  BY FinishIs
<1>2. q.status[t] = "RUNNING" /\ t \in AnyTask /\ Seen[t] = "running"
  <2>1. q.status[t] = "RUNNING"
    BY <1>1 DEF Finish, Inv, MinePlace
  <2> QED
    BY <1>1, <2>1, SeenIs, StateIs, NoneNext
<1>3. \A u \in Tasks : q'.status[u] = IF u = t THEN "DONE" ELSE q.status[u]
  BY <1>1, FinishIs
<1>4. Tasks' = Tasks /\ Phase' = Phase
  BY <1>0, SameGiven, PhaseKept
<1>5. t \in prog.fails => Phase = "off"
  BY <1>1 DEF Finish, Inv, Sequence, Phase
<1>6. Seen' = [Seen EXCEPT ![t] = "done"]
  <2>1. State(t)' = "done"
    BY <1>3, <1>4, NextStateIs, NoneNext
  <2> QED
    BY <1>0, <1>3, <2>1, SeenChanged, NoneNext
<1> QED
  BY <1>0, <1>2, <1>4, <1>5, <1>6 DEF O!Finish, O!Become, O!given, Seen, Phase

\* The insertion of a task is not seen, unless it is rejected.
LEMMA InsertSeen ==
  ASSUME Inv, 0 \in Threads, Step(0), Insert
  PROVE  (\E t \in AnyTask : O!Reject(t)) \/ UNCHANGED O!vars
<1>0. prog' = prog /\ Tasks' = Tasks
  BY GivenKept, SameGiven
<1>1. CASE master.next \in prog.member /\ seq.off
  <2>1. PICK t \in Tasks : t = master.next
    BY InsertIs
  <2>2. \A u \in Tasks : q'.status[u] = IF u = t THEN "REJECTED" ELSE q.status[u]
    BY <1>1, <2>1, InsertIs
  <2>3. seq' = seq /\ seq.owner = Nobody /\ pc[0] = "insert"
    BY <1>1 DEF Insert
  <2>4. q.status[t] = "NEW"
    <3>1. master.next \in Nat
      BY DEF Inv, TypeOK
    <3> QED
      BY <2>1, <2>3, <3>1 DEF Inv, Stages, Known
  <2>5. t \in AnyTask /\ Seen[t] = "waiting"
    BY <2>4, SeenIs, StateIs, NoneNext
  <2>6. Phase = "off" /\ Phase' = Phase
    BY <1>1, <2>3, PhaseKept DEF Phase
  <2>7. Seen' = [Seen EXCEPT ![t] = "rejected"]
    <3>1. State(t)' = "rejected"
      BY <1>0, <2>2, NextStateIs, NoneNext
    <3> QED
      BY <1>0, <2>2, <3>1, SeenChanged, NoneNext
  <2> QED
    BY <1>0, <1>1, <2>1, <2>5, <2>6, <2>7 DEF O!Reject, O!Become, O!given, Seen, Phase
<1>2. CASE ~(master.next \in prog.member /\ seq.off)
  <2>1. q' = q
    BY <1>2, InsertIs
  <2>2. Seen' = Seen
    BY <1>0, <2>1, SeenKept, NoneNext DEF State
  <2>3. seq'.off = seq.off /\ seq'.owner = seq.owner
    <3>1. seq' = seq \/ \E T : seq' = [seq EXCEPT !.tasks = T]
      BY <1>2 DEF Insert
    <3> QED
      BY <3>1 DEF Inv, TypeOK
  <2>4. Phase' = Phase
    BY <2>3, PhaseKept
  <2> QED
    BY <1>0, <2>2, <2>4 DEF O!vars, O!given, Seen, Phase
<1> QED
  BY <1>1, <1>2

\* The cancellation of the sequence begins and ends once; between, nothing is seen.
LEMMA CancelSeen ==
  ASSUME Inv, NEW r \in Threads, Step(r), BeginCancel(r) \/ CancelTask(r) \/ EndCancel(r)
  PROVE  O!BeginCancel \/ O!EndCancel \/ UNCHANGED O!vars
<1>0. /\ prog' = prog /\ Tasks' = Tasks /\ Nobody \notin Threads
      /\ seq \in [off : BOOLEAN, owner : Threads \cup {Nobody}, tasks : SUBSET prog.member,
                  rest : SUBSET prog.member]
  <2>1. Nobody \notin Threads
    BY ThreadsAssumption DEF Nobody, Threads
  <2> QED
    BY <2>1, GivenKept, SameGiven DEF Inv, TypeOK
<1>1. Seen' = Seen
  <2>1. q'.status = q.status
    BY CancelTaskIs DEF BeginCancel, EndCancel
  <2> QED
    BY <1>0, <2>1, SeenKept, NoneNext DEF State
<1>2. CASE BeginCancel(r)
  <2>1. CASE seq.off
    <3>1. Phase' = Phase
      BY <1>2, <2>1 DEF BeginCancel, Phase
    <3> QED
      BY <1>0, <1>1, <3>1 DEF O!vars, O!given, Seen, Phase
  <2>2. CASE ~seq.off
    <3>1. seq' = [seq EXCEPT !.off = TRUE, !.owner = r, !.rest = seq.tasks]
      BY <1>2, <2>2 DEF BeginCancel
    <3>2. seq'.off /\ seq'.owner = r
      BY <1>0, <3>1
    <3>3. Phase = "on" /\ Phase' = "ending"
      <4>1. Phase = "on"
        BY <2>2 DEF Phase
      <4>2. r # Nobody /\ ~(~seq'.off) /\ seq'.owner # Nobody
        BY <1>0, <3>2
      <4>3. Phase' = "ending"
        BY <4>2 DEF Phase
      <4> QED
        BY <4>1, <4>3
    <3>4. PICK t : t = mine[r] /\ t \in prog.fails /\ pc[r] = "run"
      BY <1>2 DEF BeginCancel
    <3>5. t \in Tasks /\ Seen[t] = "running"
      <4>1. t \in Tasks /\ Seen[t] = State(t)
        BY <3>4, SeenIs
      <4>2. q.status[t] = "RUNNING"
        BY <3>4 DEF Inv, MinePlace
      <4> QED
        BY <4>1, <4>2, StateIs, NoneNext
    <3> QED
      BY <1>0, <1>1, <3>3, <3>4, <3>5 DEF O!BeginCancel, O!given, Seen, Phase
  <2> QED
    BY <2>1, <2>2
<1>3. CASE CancelTask(r)
  <2>1. \E T : seq' = [seq EXCEPT !.rest = T]
    BY <1>3 DEF CancelTask
  <2>2. seq'.off = seq.off /\ seq'.owner = seq.owner
    BY <1>0, <2>1
  <2>3. Phase' = Phase
    BY <2>2, PhaseKept
  <2> QED
    BY <1>0, <1>1, <2>3 DEF O!vars, O!given, Seen, Phase
<1>4. CASE EndCancel(r)
  <2>1. seq' = [seq EXCEPT !.owner = Nobody] /\ pc[r] = "cancel"
    BY <1>4 DEF EndCancel
  <2>2. seq.off /\ seq.owner = r
    BY <2>1 DEF Inv, Sequence
  <2>3. seq'.off /\ seq'.owner = Nobody
    BY <1>0, <2>1, <2>2
  <2>4. Phase = "ending" /\ Phase' = "off"
    BY <1>0, <2>2, <2>3 DEF Phase
  <2> QED
    BY <1>0, <1>1, <2>4 DEF O!EndCancel, O!given, Seen, Phase
<1> QED
  BY <1>2, <1>3, <1>4

\* The other steps are not seen.
LEMMA ElseSeen ==
  ASSUME Inv, NEW r \in Threads, Step(r), ~(r = 0 /\ Insert), ~Start(r), ~Finish(r),
         ~BeginCancel(r), ~CancelTask(r), ~EndCancel(r)
  PROVE  UNCHANGED O!vars
<1>0. prog' = prog /\ Tasks' = Tasks
  BY GivenKept, SameGiven
<1>1. Seen' = Seen
  <2>1. CASE q'.status = q.status
    BY <1>0, <2>1, SeenKept, NoneNext DEF State
  <2>2. CASE \E S : Queued(S)
    <3>1. PICK S : \A t \in Tasks : \/ q'.status[t] = q.status[t]
                                    \/ q'.status[t] = "QUEUED" /\ q.status[t] = "NOTREADY"
      BY <2>2 DEF Queued
    <3>2. \A t \in Tasks : State(t)' = State(t)
      BY <1>0, <3>1, StateIs, NextStateIs, NoneNext
    <3> QED
      BY <1>0, <3>2, SeenKept, NoneNext
  <2>3. CASE r = 0 /\ Hash
    <3>1. pc[0] = "hash" /\ master.next \in Tasks /\ master.next \in Nat
      BY <2>3, HashIs DEF Hash, Inv, TypeOK
    <3>2. q.status[master.next] = "NEW"
      BY <3>1 DEF Inv, Stages, Known
    <3>3. \A u \in Tasks : q'.status[u] = IF u = master.next THEN "NOTREADY" ELSE q.status[u]
      BY <2>3, HashIs
    <3>4. \A t \in Tasks : State(t)' = State(t)
      BY <1>0, <3>2, <3>3, StateIs, NextStateIs, NoneNext
    <3> QED
      BY <1>0, <3>4, SeenKept, NoneNext
  <2>4. CASE r = 0 /\ Depend
    BY <2>1, <2>4, DependIs DEF SameRest
  <2>5. CASE r = 0 /\ Check
    <3>1. CASE master.next \in freed
      BY <2>1, <2>5, <3>1 DEF Check
    <3> QED
      BY <2>2, <2>5, <3>1, CheckIs
  <2>6. CASE Update(r)
    BY <2>2, <2>6, UpdateIs
  <2> QED
    BY <2>1, <2>3, <2>4, <2>5, <2>6, StatusKept
<1>2. Phase' = Phase
  <2>1. CASE seq' = seq
    BY <2>1 DEF Phase
  <2>2. CASE Unlink(r)
    <3>1. \E T : seq' = [seq EXCEPT !.tasks = T]
      BY <2>2 DEF Unlink
    <3>2. seq'.off = seq.off /\ seq'.owner = seq.owner
      BY <3>1 DEF Inv, TypeOK
    <3> QED
      BY <3>2, PhaseKept
  <2> QED
    BY <2>1, <2>2 DEF Step, Master, Completion, MainLoop,
       Hash, Depend, Check, BarrierStart, Return, Finalize, Signal, Process, ProcessOver, Update,
       Delete, Uncount, Help, Take, Steal, Miss, Doze, Wake, Leave, ReadSequence, Enqueue, Got
<1> QED
  BY <1>0, <1>1, <1>2 DEF O!vars, O!given, Seen, Phase

\* Every step is a step of the abstract specification or is not seen by it.
LEMMA StepSeen ==
  ASSUME Inv, NEW r \in Threads, Step(r)
  PROVE  O!Next \/ UNCHANGED O!vars
BY StartSeen, FinishSeen, InsertSeen, CancelSeen, ElseSeen DEF O!Next

\* The scheduler keeps its promise to every program: conflicting tasks run in the order of
\* their insertion, none runs twice, none of the sequence starts once its cancellation has
\* returned or after a task it depends on was skipped.
THEOREM OrderedHolds == Spec /\ [](twice = {}) => Ordered
<1>1. ASSUME Init PROVE O!Init
  <2>2. Inv
    BY <1>1, InvInit
  <2>3. /\ Tasks \in SUBSET AnyTask
        /\ prog.member \in SUBSET Tasks /\ prog.fails \in SUBSET prog.member
        /\ prog.order \in SUBSET (Tasks \X Tasks)
    BY <2>2, SeenIs
  <2>4. ~seq.off /\ \A t \in Tasks : q.status[t] = "NEW"
    BY <1>1, InitIs
  <2>5. \A t \in AnyTask : State(t) = "waiting"
    <3>1. \A t \in AnyTask : t \notin Tasks => State(t) = "waiting"
      BY <2>2, NoneSoFar DEF State
    <3>2. \A t \in Tasks : State(t) = "waiting"
      BY <2>2, <2>4, NoneSoFar, StateIs
    <3> QED
      BY <3>1, <3>2
  <2>6. Seen = [t \in AnyTask |-> "waiting"]
    BY <2>5 DEF Seen
  <2>7. Phase = "on"
    BY <2>4 DEF Phase
  <2>8. prog.order \in SUBSET (AnyTask \X AnyTask) /\ prog.member \in SUBSET AnyTask
    BY <2>3
  <2> QED
    BY <2>3, <2>6, <2>7, <2>8 DEF O!Init, Seen, Phase
<1>2. Inv /\ (twice = {})' /\ [Next]_vars => [O!Next]_(O!vars)
  <2>1. ASSUME Inv, twice' = {}, Next PROVE O!Next \/ UNCHANGED O!vars
    <3>1. PICK r \in Threads : Turn(r)
      BY <2>1 DEF Next
    <3>2. Step(r)
      BY <2>1, <3>1, TwiceGrows, NoDangle
    <3> QED
      BY <2>1, <3>2, StepSeen
  <2>2. ASSUME Inv, UNCHANGED vars PROVE UNCHANGED O!vars
    <3>1. prog' = prog /\ q' = q /\ seq' = seq /\ twice' = {} /\ twice = {}
      BY <2>2 DEF vars, given, Inv
    <3>2. Seen' = Seen /\ Phase' = Phase
      BY <3>1, SameGiven, SeenKept, NextStateIs DEF Phase
    <3> QED
      BY <3>1, <3>2 DEF O!vars, O!given, Seen, Phase
  <2> QED
    BY <2>1, <2>2
<1> QED
  BY <1>1, <1>2, InvHolds, PTL DEF Spec, Ordered, O!Spec
=============================================================================
