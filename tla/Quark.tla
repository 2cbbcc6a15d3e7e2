-------------------------------- MODULE Quark --------------------------------
(***************************************************************************)
(* The QUARK scheduler (quark/quark.c) under one dynamic section: the      *)
(* master inserts the tasks of a program with QUARK_Insert_Task_Packed     *)
(* and ends with QUARK_Waitall; workers are in quark_work_main_loop, and   *)
(* the master is there too, whenever it waits.                             *)
(*                                                                         *)
(* A program gives each task its arguments (see Programs).  A tile is an   *)
(* address, and a task is its number in the order of insertion.  Code that *)
(* one mutex protects is one step.  The update of an address set node      *)
(* holds asn_mutex, and within it the mutexes of the tasks it readies, of  *)
(* the ready list and of num_queued_tasks: it is one step as well, since   *)
(* nobody can use such a task before its task_mutex is free.               *)
(*                                                                         *)
(* Left out, because no routine of the library uses them: accumulators,    *)
(* tasks locked to threads, manual scheduling, the copies that avoid       *)
(* write-after-read dependencies (off by default); and tasks of several    *)
(* threads, which only the panels of the LU factorization are.             *)
(***************************************************************************)
EXTENDS Integers, FiniteSets, SequencesExt

CONSTANTS
  N,         \* num_threads: thread 0 is the master
  Programs   \* what is inserted; a record with
             \*   args, prio, local: by task, its arguments (addr, write, region,
             \*      gather), its priority, the address of its LOCALITY argument, by
             \*      default that of Locality
             \*   member: the tasks of the sequence; fails: those that cancel it
             \*   addrs, order: Addrs and Order of the arguments
             \*   water: high_water_mark (QUARK_UNROLL_TASKS), 0 for no limit
             \*   backlogs: the completed tasks beyond which thread 1 helps the
             \*      master; 20 in the code
             \*   robins: where the round robin may stand

ASSUME ThreadsAssumption == N \in Nat \ {0, 1}
Threads == 0 .. N - 1
Workers == Threads \ {0}
None    == 0                     \* no task, no address
Nobody  == -1                    \* no thread
All     == {"L", "D", "U"}       \* QUARK_REGION_ALL: a region is a set of parts

Argument == [addr : Nat \ {None}, write : BOOLEAN, region : (SUBSET All) \ {{}}, gather : BOOLEAN]

Addrs(args) == UNION {{args[t][i].addr : i \in DOMAIN args[t]} : t \in DOMAIN args}

\* Where a task should run: by default near the first argument that it writes.
Locality(args) ==
  LET written(t) == {i \in DOMAIN args[t] : args[t][i].write}
  IN  [t \in DOMAIN args |-> IF written(t) = {} THEN None ELSE args[t][Min(written(t))].addr]

Clash(d, e) == (d.write \/ e.write) /\ d.region \cap e.region # {}

\* Two arguments conflict if they share data and one of them writes; GATHERV writers
\* of one region do not ("can run in parallel", quark.h).
Conflict(d, e) == /\ d.addr = e.addr
                  /\ Clash(d, e)
                  /\ ~(d.gather /\ e.gather /\ d.region = e.region)

\* Which task must run before which.
Order(args) ==
  {p \in (DOMAIN args) \X (DOMAIN args) :
     /\ p[1] < p[2]
     /\ \E i \in DOMAIN args[p[1]], j \in DOMAIN args[p[2]] :
          Conflict(args[p[1]][i], args[p[2]][j])}

ASSUME ProgramsAssumption ==
  \A p \in Programs :
    /\ p.args \in Seq(Seq(Argument) \ {<<>>})
    /\ p.prio \in [DOMAIN p.args -> Int]
    /\ p.local \in [DOMAIN p.args -> p.addrs \cup {None}]
    /\ p.member \subseteq DOMAIN p.args
    /\ p.fails \subseteq p.member
    /\ p.addrs = Addrs(p.args)
    /\ p.order = Order(p.args)
    /\ p.robins \subseteq Threads

\* A task has one argument at an address that it gathers on, or several alike: that its
\* order does not matter is "assured by the programmer" (quark.c).
GatherAlone(args) ==
  \A t \in DOMAIN args : \A i, j \in DOMAIN args[t] :
    args[t][i].addr = args[t][j].addr /\ args[t][i].gather =>
      args[t][j].gather /\ args[t][j].region = args[t][i].region

ASSUME GatherAssumption == \A p \in Programs : GatherAlone(p.args)

VARIABLES
  prog,        \* the program; never changes
  limit,       \* its backlog; never changes
  q,           \* tasks, address set nodes and ready lists: see Init
  completed,   \* quark->completed_tasks
  taskSet,     \* quark->task_set; its size is quark->num_tasks
  freed,       \* tasks that quark_task_delete has begun to take apart
  seq,         \* the sequence: cancelled, owner of its mutex, list, cancel's rest
  pc,          \* pc[r]: where thread r is
  mine,        \* mine[r]: the task that r took from a ready list
  victim,      \* victim[r]: the ready list that r looks at
  job,         \* job[r]: the completed task that r processes
  sleeping,    \* workers with status WORKER_SLEEPING
  executing,   \* workers with executing_task set
  finalize,    \* workers with finalize set
  master,      \* the master's own variables
  twice        \* history: tasks that Requeue has queued once more

given   == <<prog, limit>>
threads == <<mine, victim, job, sleeping, executing, finalize>>
vars == <<given, q, completed, taskSet, freed, seq, pc, threads, master, twice>>

Tasks   == 1 .. Len(prog.args)

Goto(r, l) == pc' = [pc EXCEPT ![r] = l]
-----------------------------------------------------------------------------
(* Packing (QUARK_Task_Pack_Arg)                                           *)

\* A dependency goes behind the last one with a greater address, or to the end.
Pack(list, arg) ==
  LET p == SelectLastInSeq(list, LAMBDA d : d.addr > arg.addr)
  IN  IF p = 0 THEN Append(list, arg) ELSE InsertAt(list, p + 1, arg)

\* An argument has addr, write, region, gather; a dependency is ready, or dropped
\* when a later argument of the same task takes its place.
Dependency(arg) == [addr |-> arg.addr, write |-> arg.write, region |-> arg.region,
                    gather |-> arg.gather, ready |-> FALSE, dropped |-> FALSE]

Packed(args) ==
  LET packed[n \in 0 .. Len(args)] ==
        IF n = 0 THEN <<>> ELSE Pack(packed[n - 1], Dependency(args[n]))
  IN  packed[Len(args)]

Init ==
  /\ prog \in Programs
  /\ limit \in prog.backlogs
  /\ \E robin \in prog.robins : q = [status |-> [t \in Tasks |-> "NEW"],
          live   |-> [t \in Tasks |-> TRUE],            \* function # NULL
          ndep   |-> [t \in Tasks |-> Len(prog.args[t])],
          dep    |-> [t \in Tasks |-> Packed(prog.args[t])],
          list   |-> [a \in prog.addrs |-> {}],          \* waiting_deps: see below
          last   |-> [a \in prog.addrs |-> Nobody],      \* last_thread
          ready  |-> [r \in Threads |-> <<>>],          \* by falling priority
          robin  |-> robin,                                 \* list_robin
          queued |-> 0,                                 \* num_queued_tasks
          woken  |-> {}]                                \* signalled sleepers
  /\ completed = <<>>
  /\ taskSet = {}
  /\ freed = {}
  /\ seq = [off |-> FALSE, owner |-> Nobody, tasks |-> {}, rest |-> {}]
  /\ pc = [r \in Threads |-> IF r = 0 THEN "insert" ELSE "look"]
  /\ mine = [r \in Threads |-> None]
  /\ victim = [r \in Threads |-> r]
  /\ job = [r \in Threads |-> [task |-> None, dep |-> 0, by |-> 0]]
  /\ sleeping = {}
  /\ executing = {}
  /\ finalize = {}
  /\ master = [next |-> 1, dep |-> 1, count |-> 0, after |-> "water", barrier |-> FALSE]
  /\ twice = {}
-----------------------------------------------------------------------------
(* Ready lists and address set nodes, as functions of q                    *)

\* The sleeper that is signalled for a task of worker w.
Signalled(w) ==
  LET near == {i \in 0 .. N - 1 : (w + i) % N \in sleeping}
  IN  IF near = {} THEN {} ELSE {(w + Min(near)) % N}

\* A ready list is a tree by priority; equal priorities keep their order, and the
\* tasks of S arrive in the order of their numbers.
ByPriority(list, S) ==
  LET all      == ToSet(list) \cup S
      since(t) == IF t \in S THEN Len(list) + t ELSE CHOOSE i \in DOMAIN list : list[i] = t
      before(u, t) == \/ prog.prio[u] > prog.prio[t]
                      \/ prog.prio[u] = prog.prio[t] /\ since(u) < since(t)
  IN  [i \in 1 .. Cardinality(all) |-> CHOOSE t \in all : Cardinality({u \in all : before(u, t)}) = i - 1]

\* The thread that last wrote the LOCALITY argument of task t.
Home(s, t) == IF prog.local[t] = None THEN Nobody ELSE s.last[prog.local[t]]

\* Where task t goes when the tasks of S are queued: home, or to the next one in turn.
Place(s, S, t) ==
  IF Home(s, t) # Nobody THEN Home(s, t)
  ELSE (s.robin + Cardinality({u \in S : u < t /\ Home(s, u) = Nobody})) % N

\* quark_check_and_queue_ready_task for the tasks of S, in the order of their numbers.
Queue(s, S) ==
  [s EXCEPT !.status = [t \in Tasks |-> IF t \in S THEN "QUEUED" ELSE s.status[t]],
            !.robin = (s.robin + Cardinality({t \in S : Home(s, t) = Nobody})) % N,
            !.ready = [w \in Threads |-> ByPriority(s.ready[w], {t \in S : Place(s, S, t) = w})],
            !.queued = s.queued + Cardinality(S),
            !.woken = s.woken \cup UNION {Signalled(Place(s, S, t)) : t \in S}]

\* Mutant of Queueable: the status is not looked at.
QueueableTwice(s, t) == s.ndep[t] = 0

\* The quick return: the task waits for others or is under way.
Queueable(s, t) == s.ndep[t] = 0 /\ s.status[t] \notin {"QUEUED", "RUNNING", "DONE"}

\* list[a] holds the dependencies <<t, i>> that wait at address a.  One thread inserts
\* the tasks, and a task has one dependency there: its order is that of the tasks.
Of(s, d)   == s.dep[d[1]][d[2]]
Open(s, d) == s.status[d[1]] \notin {"CANCELLED", "DONE"}

\* quark_address_set_node_initial_gatherv_check_and_launch: the dependencies at the
\* head of the list that write, all GATHERV, the region that was just written.
Gathered(s, a, d, region) ==
  \A e \in s.list[a] : e[1] =< d[1] =>
    Of(s, e).gather /\ Of(s, e).write /\ Of(s, e).region = region

\* Mutant of Conflictless: a writer does not wait for earlier readers.
ConflictlessWriters(s, a, d) ==
  /\ Open(s, d)
  /\ \A e \in s.list[a] : e[1] < d[1] /\ Open(s, e) /\ Of(s, e).write => ~Clash(Of(s, e), Of(s, d))

\* quark_address_set_node_initial_check_and_launch: no conflict with an earlier one
\* whose task is not over.
Conflictless(s, a, d) ==
  /\ Open(s, d)
  /\ \A e \in s.list[a] : e[1] < d[1] /\ Open(s, e) => ~Clash(Of(s, e), Of(s, d))

\* The dependencies released at address a.
Released(s, a, region) ==
  {d \in s.list[a] : ~Of(s, d).ready /\ (Gathered(s, a, d, region) \/ Conflictless(s, a, d))}

\* The dependencies of D become ready, and their tasks wait for one less each.
Ready(s, D) ==
  [s EXCEPT !.dep = [t \in Tasks |-> [i \in DOMAIN s.dep[t] |->
                       IF <<t, i>> \in D THEN [s.dep[t][i] EXCEPT !.ready = TRUE]
                                         ELSE s.dep[t][i]]],
            !.ndep = [t \in Tasks |-> IF \E d \in D : d[1] = t THEN s.ndep[t] - 1 ELSE s.ndep[t]]]

Release(s, D) ==
  LET u == Ready(s, D)
  IN  Queue(u, {t \in Tasks : (\E d \in D : d[1] = t) /\ Queueable(u, t)})
-----------------------------------------------------------------------------
(* QUARK_Insert_Task_Packed                                                *)

\* The task joins its sequence, or is deleted at once if that is cancelled.
Insert ==
  LET t == master.next IN
  /\ pc[0] = "insert"
  /\ t \in Tasks
  /\ t \in prog.member => seq.owner = Nobody
  /\ IF t \in prog.member /\ seq.off
       THEN /\ q' = [q EXCEPT !.status[t] = "REJECTED"]
            /\ master' = [master EXCEPT !.next = @ + 1]
            /\ UNCHANGED <<seq, pc>>
       ELSE /\ seq' = IF t \in prog.member THEN [seq EXCEPT !.tasks = @ \cup {t}] ELSE seq
            /\ Goto(0, "hash")
            /\ UNCHANGED <<q, master>>
  /\ UNCHANGED <<given, completed, taskSet, freed, threads>>

\* num_tasks is read before it grows.
Hash ==
  /\ pc[0] = "hash"
  /\ q' = [q EXCEPT !.status[master.next] = "NOTREADY"]
  /\ taskSet' = taskSet \cup {master.next}
  /\ master' = [master EXCEPT !.count = Cardinality(taskSet), !.dep = 1]
  /\ Goto(0, "depend")
  /\ UNCHANGED <<given, completed, freed, seq, threads>>

\* The argument at position i of task t takes the place of an earlier one with the
\* same address.
Merge(s, t, i, earlier) ==
  LET d == s.dep[t][i]
      e == s.dep[t][earlier]
      x == [d EXCEPT !.write = d.write \/ e.write, !.region = d.region \cup e.region]
      y == [e EXCEPT !.ready = TRUE, !.dropped = TRUE]
  IN  [s EXCEPT !.dep[t] = [@ EXCEPT ![i] = x, ![earlier] = y],
                !.ndep[t] = IF e.ready THEN @ ELSE @ - 1,
                !.list[d.addr] = @ \ {<<t, earlier>>}]

\* A dependency joins the list of its address; it is ready if it is alone there.
Join(s, t, i) ==
  LET d == s.dep[t][i]
      u == [s EXCEPT !.list[d.addr] = @ \cup {<<t, i>>}]
      x == [d EXCEPT !.ready = TRUE]
  IN  IF s.list[d.addr] # {} THEN u
      ELSE [u EXCEPT !.dep[t] = [@ EXCEPT ![i] = x], !.ndep[t] = @ - 1]

Arrive(s, t, i) ==
  LET a == s.dep[t][i].addr
      earlier == {j \in DOMAIN s.dep[t] : <<t, j>> \in s.list[a]}      \* one at most
  IN  Join(IF earlier = {} THEN s ELSE Merge(s, t, i, CHOOSE j \in earlier : TRUE), t, i)

\* One turn of the loop of quark_insert_task_dependencies.
Depend ==
  /\ pc[0] = "depend"
  /\ q' = Arrive(q, master.next, master.dep)
  /\ master' = [master EXCEPT !.dep = @ + 1]
  /\ IF master.dep = Len(prog.args[master.next]) THEN Goto(0, "check") ELSE UNCHANGED pc
  /\ UNCHANGED <<given, completed, taskSet, freed, seq, threads>>

\* A worker has had the task since its last dependency came, and has skipped it as
\* cancelled; the quick return does not know that status.
Again(t) == t \notin freed /\ q.status[t] = "CANCELLED" /\ Queueable(q, t)

\* The last look at the new task.  It may have run and be gone: using it is undefined,
\* and the model goes no further.
Check ==
  LET t == master.next IN
  /\ pc[0] = "check"
  /\ ~Again(t)
  /\ IF t \in freed THEN Goto(0, "fault") /\ UNCHANGED <<q, master>>
     ELSE /\ q' = IF Queueable(q, t) THEN Queue(q, {t}) ELSE q
          /\ master' = [master EXCEPT !.next = @ + 1, !.after = "water"]
          /\ Goto(0, "process")
  /\ UNCHANGED <<given, completed, taskSet, freed, seq, threads>>

\* The same look queues the task a second time.
Requeue ==
  LET t == master.next IN
  /\ pc[0] = "check"
  /\ Again(t)
  /\ q' = Queue(q, {t})
  /\ twice' = twice \cup {t}
  /\ master' = [master EXCEPT !.next = @ + 1, !.after = "water"]
  /\ Goto(0, "process")
  /\ UNCHANGED <<given, completed, taskSet, freed, seq, threads>>

\* QUARK_Barrier: all tasks are inserted.
BarrierStart ==
  /\ pc[0] = "insert"
  /\ master.next \notin Tasks
  /\ master' = [master EXCEPT !.barrier = TRUE, !.after = "look", !.count = 0]
  /\ Goto(0, "process")
  /\ UNCHANGED <<given, q, completed, taskSet, freed, seq, threads>>

\* Mutant of Return: QUARK_Barrier leaves the last task to itself.
ReturnEarly ==
  LET n == Cardinality(taskSet) IN
  /\ pc[0] = "return"
  /\ master' = IF master.barrier THEN [master EXCEPT !.after = "look"]
                ELSE [master EXCEPT !.count = n, !.after = "water"]
  /\ Goto(0, IF master.barrier /\ n =< 1 THEN "finalize" ELSE "process")
  /\ UNCHANGED <<given, q, completed, taskSet, freed, seq, threads>>

\* The master leaves quark_work_main_loop with num_tasks.
Return ==
  LET n == Cardinality(taskSet) IN
  /\ pc[0] = "return"
  /\ master' = IF master.barrier THEN [master EXCEPT !.after = "look"]
                ELSE [master EXCEPT !.count = n, !.after = "water"]
  /\ Goto(0, IF master.barrier /\ n = 0 THEN "finalize" ELSE "process")
  /\ UNCHANGED <<given, q, completed, taskSet, freed, seq, threads>>

\* QUARK_Waitall: the workers are told to leave, the sleeping ones are woken.
Finalize ==
  /\ pc[0] = "finalize"
  /\ finalize' = Workers
  /\ Goto(0, "signal")
  /\ UNCHANGED <<given, q, completed, taskSet, freed, seq, mine, victim, job,
                 sleeping, executing, master>>

\* Mutant of Signal: the sleeping workers are not woken.
SignalNobody ==
  /\ pc[0] = "signal"
  /\ Goto(0, "over")
  /\ UNCHANGED <<given, q, completed, taskSet, freed, seq, threads, master>>

Signal ==
  /\ pc[0] = "signal"
  /\ q' = [q EXCEPT !.woken = @ \cup sleeping]
  /\ Goto(0, "over")
  /\ UNCHANGED <<given, completed, taskSet, freed, seq, threads, master>>
-----------------------------------------------------------------------------
(* quark_process_completed_tasks, by the master and by thread 1            *)

NextDep(t, i) ==
  LET rest == {j \in DOMAIN q.dep[t] : j > i /\ ~q.dep[t][j].dropped}
  IN  IF rest = {} THEN 0 ELSE Min(rest)

Process(r) ==
  /\ pc[r] = "process"
  /\ completed # <<>>
  /\ LET c == Head(completed) IN
     /\ job' = [job EXCEPT ![r] = [task |-> c[1], dep |-> NextDep(c[1], 0), by |-> c[2]]]
     /\ completed' = Tail(completed)
  /\ Goto(r, "update")
  /\ UNCHANGED <<given, q, taskSet, freed, seq, mine, victim, sleeping, executing,
                 finalize, master>>

\* The list is empty, or its mutex is busy (the code only tries to lock it): another
\* thread is about to add a task, or has just taken one.
ProcessOver(r) ==
  /\ pc[r] = "process"
  /\ \/ completed = <<>>
     \/ \E o \in Threads \ {r} : pc[o] \in {"update", "enqueue"}
  /\ Goto(r, CASE r # 0 -> "try"
               [] master.after # "water" -> master.after
               [] prog.water > 0 /\ master.count >= prog.water -> "look"
               [] OTHER -> "insert")
  /\ UNCHANGED <<given, q, completed, taskSet, freed, seq, threads, master>>

\* The dependency <<t, i>> of a completed task leaves its address.
Departed(s, t, i, by) ==
  LET d == s.dep[t][i]
  IN  [s EXCEPT !.last[d.addr] = IF d.write THEN by ELSE @,
                !.list[d.addr] = @ \ {<<t, i>>}]

\* One turn of the loop of quark_remove_completed_task_and_check_for_ready.  (A bound
\* name is a LET that TLC evaluates once.)
Update(r) ==
  LET t == job[r].task
      i == job[r].dep
      d == q.dep[t][i]
  IN
  /\ pc[r] = "update"
  /\ \E s \in {Departed(q, t, i, job[r].by)} : \E D \in {Released(s, d.addr, d.region)} :
       q' = Release(s, D)
  /\ job' = [job EXCEPT ![r].dep = NextDep(t, i)]
  /\ IF NextDep(t, i) = 0 THEN Goto(r, "delete") ELSE UNCHANGED pc
  /\ UNCHANGED <<given, completed, taskSet, freed, seq, mine, victim, sleeping,
                 executing, finalize, master>>

\* quark_task_delete: out of the task set; the rest of the task is taken apart ..
Delete(r) ==
  /\ pc[r] = "delete"
  /\ taskSet' = taskSet \ {job[r].task}
  /\ freed' = freed \cup {job[r].task}
  /\ Goto(r, "unlink")
  /\ UNCHANGED <<given, q, completed, seq, threads, master>>

\* .. and it leaves the sequence.
Unlink(r) ==
  LET t == job[r].task IN
  /\ pc[r] = "unlink"
  /\ t \in prog.member => seq.owner = Nobody
  /\ seq' = [seq EXCEPT !.tasks = @ \ {t}]
  /\ Goto(r, "uncount")
  /\ UNCHANGED <<given, q, completed, taskSet, freed, threads, master>>

Uncount(r) ==
  /\ pc[r] = "uncount"
  /\ q' = [q EXCEPT !.queued = @ - 1]
  /\ job' = [job EXCEPT ![r] = [task |-> None, dep |-> 0, by |-> 0]]
  /\ Goto(r, "process")
  /\ UNCHANGED <<given, completed, taskSet, freed, seq, mine, victim, sleeping,
                 executing, finalize, master>>
-----------------------------------------------------------------------------
(* quark_work_main_loop_check_for_task                                     *)

\* The master always processes completed tasks before it looks for a task.
Helps(r) == \/ r = 0
            \/ r % 10 = 1 /\ q.ready[r] = <<>> /\ Len(completed) > limit

Help(r) ==
  /\ pc[r] = "look"
  /\ r \notin finalize
  /\ Helps(r)
  /\ master' = IF r = 0 THEN [master EXCEPT !.after = "try"] ELSE master
  /\ Goto(r, "process")
  /\ UNCHANGED <<given, q, completed, taskSet, freed, seq, threads>>

Hunts(r) == \/ pc[r] = "try"
            \/ pc[r] = "look" /\ r \notin finalize /\ ~Helps(r)

Got(r, t) == /\ mine' = [mine EXCEPT ![r] = t]
             /\ victim' = [victim EXCEPT ![r] = r]
             /\ Goto(r, IF t \in prog.member THEN "read" ELSE "start")
             /\ UNCHANGED <<given, completed, taskSet, freed, seq, job, sleeping,
                            executing, finalize, master>>

Take(r) == /\ Hunts(r)
           /\ victim[r] = r
           /\ q.ready[r] # <<>>
           /\ q' = [q EXCEPT !.ready[r] = Tail(@)]
           /\ Got(r, Head(q.ready[r]))

\* The last task of a thread that is executing another one.
Steal(r) == LET v == victim[r] IN
            /\ Hunts(r)
            /\ v # r /\ v \in executing
            /\ q.ready[v] # <<>>
            /\ q' = [q EXCEPT !.ready[v] = Front(@)]
            /\ Got(r, Last(q.ready[v]))

\* Nothing there, or the mutex of the victim is busy: on to the next list.
Miss(r) ==
  LET v == (victim[r] + 1) % N IN
  /\ Hunts(r)
  /\ victim[r] = r => q.ready[r] = <<>>
  /\ victim' = [victim EXCEPT ![r] = IF r = 0 /\ q.queued = 0 THEN 0 ELSE v]
  /\ Goto(r, CASE r # 0 /\ q.queued = 0             -> "doze"
               [] r = 0 /\ (q.queued = 0 \/ v = 0) -> "return"
               [] OTHER                            -> "look")
  /\ UNCHANGED <<given, q, completed, taskSet, freed, seq, mine, job, sleeping,
                 executing, finalize, master>>

\* Mutant of Doze: the worker does not look again before it sleeps.
DozeUnheard(r) ==
  /\ pc[r] = "doze"
  /\ sleeping' = sleeping \cup {r}
  /\ Goto(r, "asleep")
  /\ UNCHANGED <<given, q, completed, taskSet, freed, seq, mine, victim, job,
                 executing, finalize, master>>

Doze(r) ==
  /\ pc[r] = "doze"
  /\ IF q.queued = 0 /\ r \notin finalize
       THEN sleeping' = sleeping \cup {r} /\ Goto(r, "asleep")
       ELSE Goto(r, "look") /\ UNCHANGED sleeping
  /\ UNCHANGED <<given, q, completed, taskSet, freed, seq, mine, victim, job,
                 executing, finalize, master>>

Wake(r) ==
  /\ pc[r] = "asleep"
  /\ r \in q.woken
  /\ q' = [q EXCEPT !.woken = @ \ {r}]
  /\ IF q.queued = 0 /\ r \notin finalize
       THEN UNCHANGED <<pc, sleeping>>
       ELSE sleeping' = sleeping \ {r} /\ Goto(r, "look")
  /\ UNCHANGED <<given, completed, taskSet, freed, seq, mine, victim, job, executing,
                 finalize, master>>

\* A worker leaves its main loop and resets the flag.
Leave(r) ==
  /\ pc[r] = "look"
  /\ r \in finalize
  /\ finalize' = finalize \ {r}
  /\ Goto(r, "left")
  /\ UNCHANGED <<given, q, completed, taskSet, freed, seq, mine, victim, job,
                 sleeping, executing, master>>
-----------------------------------------------------------------------------
(* quark_work_main_loop: the task that was found                           *)

ReadSequence(r) ==
  /\ pc[r] = "read"
  /\ mine[r] \notin freed
  /\ seq.owner = Nobody
  /\ Goto(r, IF seq.off THEN "skip" ELSE "start")
  /\ UNCHANGED <<given, q, completed, taskSet, freed, seq, threads, master>>

Start(r) ==
  LET t == mine[r]
      skip == pc[r] = "skip" \/ ~q.live[t]
  IN
  /\ pc[r] \in {"start", "skip"}
  /\ t \notin freed
  /\ q' = [q EXCEPT !.status[t] = IF skip THEN "CANCELLED" ELSE "RUNNING"]
  /\ executing' = IF skip THEN executing ELSE executing \cup {r}
  /\ Goto(r, IF skip THEN "enqueue" ELSE "run")
  /\ UNCHANGED <<given, completed, taskSet, freed, seq, mine, victim, job, sleeping,
                 finalize, master>>

\* The task's function ends; a failing one has called QUARK_Sequence_Cancel before.
Finish(r) ==
  /\ \/ pc[r] = "run" /\ mine[r] \notin prog.fails
     \/ pc[r] = "flushed"
  /\ q' = [q EXCEPT !.status[mine[r]] = "DONE"]
  /\ executing' = executing \ {r}
  /\ Goto(r, "enqueue")
  /\ UNCHANGED <<given, completed, taskSet, freed, seq, mine, victim, job, sleeping,
                 finalize, master>>

\* Of the two copies of a task only the first to be over is handed in: after it,
\* task_thread_count_outstanding is below zero.
Second(t) == /\ t \in twice
             /\ \/ \E i \in DOMAIN completed : completed[i][1] = t
                \/ \E o \in Threads : job[o].task = t

Enqueue(r) ==
  /\ pc[r] = "enqueue"
  /\ mine[r] \notin freed
  /\ completed' = IF Second(mine[r]) THEN completed
                                     ELSE Append(completed, <<mine[r], r>>)
  /\ mine' = [mine EXCEPT ![r] = None]
  /\ Goto(r, IF r = 0 THEN "return" ELSE "look")
  /\ UNCHANGED <<given, q, taskSet, freed, seq, victim, job, sleeping, executing,
                 finalize, master>>

\* The first copy of a task is processed and deleted; a thread that has the second one
\* uses freed memory, and the model goes no further.
Dangle(r) ==
  /\ pc[0] # "fault"
  /\ pc[r] \in {"read", "start", "skip", "enqueue"}
  /\ mine[r] \in freed
  /\ Goto(0, "fault")
  /\ UNCHANGED <<given, q, completed, taskSet, freed, seq, threads, master, twice>>
-----------------------------------------------------------------------------
(* QUARK_Sequence_Cancel, called by a task that fails                      *)

BeginCancel(r) ==
  /\ pc[r] = "run" /\ mine[r] \in prog.fails
  /\ seq.owner = Nobody
  /\ IF seq.off THEN Goto(r, "flushed") /\ UNCHANGED seq
     ELSE /\ seq' = [seq EXCEPT !.off = TRUE, !.owner = r, !.rest = seq.tasks]
          /\ Goto(r, "cancel")
  /\ UNCHANGED <<given, q, completed, taskSet, freed, threads, master>>

\* QUARK_Cancel_Task for the newest task that is left in the sequence: one that is not
\* in the task set is left alone.
CancelTask(r) ==
  LET t == Max(seq.rest) IN
  /\ pc[r] = "cancel"
  /\ seq.rest # {}
  /\ q' = IF t \in taskSet /\ q.status[t] \notin {"RUNNING", "DONE", "CANCELLED"}
            THEN [q EXCEPT !.live[t] = FALSE] ELSE q
  /\ seq' = [seq EXCEPT !.rest = @ \ {t}]
  /\ UNCHANGED <<given, completed, taskSet, freed, pc, threads, master>>

EndCancel(r) ==
  /\ pc[r] = "cancel"
  /\ seq.rest = {}
  /\ seq' = [seq EXCEPT !.owner = Nobody]
  /\ Goto(r, "flushed")
  /\ UNCHANGED <<given, q, completed, taskSet, freed, threads, master>>
-----------------------------------------------------------------------------
Master == \/ Insert \/ Hash \/ Depend \/ Check
          \/ BarrierStart \/ Return \/ Finalize \/ Signal

Completion(r) == Process(r) \/ ProcessOver(r) \/ Update(r) \/ Delete(r) \/ Unlink(r) \/ Uncount(r)

MainLoop(r) == \/ Help(r) \/ Take(r) \/ Steal(r) \/ Miss(r) \/ Doze(r) \/ Wake(r) \/ Leave(r)
               \/ ReadSequence(r) \/ Start(r) \/ Finish(r) \/ Enqueue(r)
               \/ BeginCancel(r) \/ CancelTask(r) \/ EndCancel(r)

Step(r) == /\ pc[0] # "fault"
           /\ UNCHANGED twice
           /\ \/ r = 0 /\ Master
              \/ Completion(r)
              \/ MainLoop(r)

Turn(r) == Step(r) \/ Dangle(r) \/ (r = 0 /\ Requeue)

Next == \E r \in Threads : Turn(r)

Spec == Init /\ [][Next]_vars

\* Every thread of the process is scheduled.
FairSpec == Spec /\ \A r \in Threads : WF_vars(Turn(r))
-----------------------------------------------------------------------------
(* What a program asks for                                                 *)

AnyTask == UNION {DOMAIN p.args : p \in Programs}

Shown == [NEW  |-> "waiting", NOTREADY  |-> "waiting", QUEUED   |-> "waiting", RUNNING |-> "running",
          DONE |-> "done",    CANCELLED |-> "skipped", REJECTED |-> "rejected"]

\* A task that is queued a second time has been skipped, and it stays skipped.
State(t) == IF t \in twice THEN "skipped"
            ELSE IF t \in Tasks THEN Shown[q.status[t]] ELSE "waiting"

O == INSTANCE TaskOrder WITH
       Tasks    <- AnyTask,
       order    <- prog.order,
       member   <- prog.member,
       fails    <- prog.fails,
       state    <- [t \in AnyTask |-> State(t)],
       sequence <- IF ~seq.off THEN "on" ELSE IF seq.owner # Nobody THEN "ending" ELSE "off"
-----------------------------------------------------------------------------
(* Properties                                                              *)

\* Tasks with conflicting arguments run in the order of their insertion, no task runs
\* twice, once QUARK_Sequence_Cancel has returned no task of the sequence starts, and a
\* member never starts after a member it depends on was skipped.
Ordered == O!Spec

Held(t) == Cardinality({r \in Threads : Contains(q.ready[r], t)})
           + Cardinality({r \in Threads : mine[r] = t})
           + Cardinality({i \in DOMAIN completed : completed[i][1] = t})
           + Cardinality({r \in Threads : job[r].task = t})

\* Until Uncount counts the task off num_queued_tasks.
Counts(t) == IF t \in twice THEN t \in taskSet \/ \E r \in Threads : job[r].task = t
                            ELSE Held(t) > 0

\* A task is in one place: once it is queued it is in one ready list, with one thread,
\* in the completed tasks or being processed, and never forgotten; only one that Requeue
\* has queued once more is in two, until a copy of it is over.  Its count of
\* dependencies is that of the unready ones, and num_queued_tasks is the number of
\* tasks in any of these places: one too many for good after each Requeue.
OnePlace ==
  /\ \A t \in taskSet :
       /\ Held(t) \in IF q.status[t] = "NOTREADY" THEN {0}
                      ELSE IF t \in twice THEN {1, 2} ELSE {1}
       /\ q.ndep[t] = Cardinality({i \in DOMAIN q.dep[t] : ~q.dep[t][i].ready})
  /\ q.queued = Cardinality({t \in Tasks : Counts(t)}) + Cardinality(twice)

\* No lost wake-up: while a worker sleeps and nobody has signalled it, no task waits in
\* its ready list, and it has not been told to leave, unless the master is about to
\* signal.
SleepersKnow ==
  \A r \in sleeping \ q.woken : q.ready[r] = <<>> /\ (r \in finalize => pc[0] = "signal")

\* After QUARK_Barrier every inserted task is over and deleted; when the section has
\* ended, nothing is left for the next one to trip over, but what Requeue leaves: the
\* second copy of a task, and its count.
SectionClean ==
  /\ pc[0] \in {"finalize", "signal", "over"} =>
       /\ \A t \in Tasks : State(t) \in O!Over
       /\ taskSet = {} /\ completed = <<>>
       /\ \A r \in Threads : ToSet(q.ready[r]) \subseteq twice
  /\ (\A r \in Threads : pc[r] \in {"over", "left"}) =>
       /\ q.queued = Cardinality(twice)
       /\ seq.tasks = {} /\ sleeping = {} /\ finalize = {} /\ executing = {}

\* The section ends: the master returns from QUARK_Waitall and every worker leaves its
\* main loop.  Only where there are tasks enough for thread 1 to help the master may
\* insertion end in a fault instead (see Check, Dangle).
Ends == <>(\/ pc[0] = "fault" /\ limit < Len(prog.args)
           \/ \A r \in Threads : pc[r] \in {"over", "left"})

\* "If the task uses multiple threads (task_thread_count > 1) then put the task into
\* multiple worker queues" (quark.c:1466): the tasks here have one thread, and each is
\* in one queue, or with the thread that took it from there.
OneQueue ==
  \A t \in Tasks : Cardinality({r \in Threads : Contains(q.ready[r], t)})
                    + Cardinality({r \in Threads : mine[r] = t}) =< 1

\* "The task->task_mutex must be locked when this is called" (quark.c:1471): the master
\* calls quark_check_and_queue_ready_task on a task that still exists.
InsertedAlive == pc[0] = "check" => master.next \notin freed
=============================================================================
