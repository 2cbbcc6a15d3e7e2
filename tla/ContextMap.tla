----------------------------- MODULE ContextMap ------------------------------
(***************************************************************************)
(* The table of control/context.c that finds the context of a master       *)
(* thread: PLASMA_Init creates a context and inserts it, PLASMA_Finalize   *)
(* looks its own up (plasma_context_self, without the lock) and removes    *)
(* it.  A removed entry keeps its thread_id.                               *)
(*                                                                         *)
(* plasma_context_create initializes context_map_lock again, whoever holds *)
(* it.  On a mutex that is held this is undefined; the model takes what a  *)
(* build does: the mutex is free afterwards.  The history variable clash   *)
(* says that it has happened.                                              *)
(***************************************************************************)
EXTENDS Integers, TLC

CONSTANTS Threads,       \* threads that use the library
          NULL,          \* no context, and the thread_id of a fresh entry
          CONTEXTS_MAX

ASSUME MaxAssumption == CONTEXTS_MAX \in Nat \ {0}
ASSUME NullAssumption == NULL \notin Threads

VARIABLES
  context,     \* context_map[i].context, named by the thread that created it
  thread_id,   \* context_map[i].thread_id
  lock,        \* owner of context_map_lock
  pc, i,       \* where a thread is; its loop index
  self,        \* what plasma_context_self returned
  clash        \* history: the lock was held when PLASMA_Init initialized it

vars == <<context, thread_id, lock, pc, i, self, clash>>

Slots == 0 .. CONTEXTS_MAX - 1

Goto(t, l) == pc' = [pc EXCEPT ![t] = l]

Init == /\ context = [s \in Slots |-> NULL]
        /\ thread_id = [s \in Slots |-> NULL]
        /\ lock = NULL
        /\ pc = [t \in Threads |-> "out"]
        /\ i = [t \in Threads |-> 0]
        /\ self = [t \in Threads |-> NULL]
        /\ clash = FALSE

\* plasma_context_create, at the beginning of PLASMA_Init: the lock is
\* initialized without a look at it.
Create(t) ==
  /\ pc[t] = "out"
  /\ lock' = NULL
  /\ clash' = (clash \/ lock # NULL)
  /\ Goto(t, "insert")
  /\ UNCHANGED <<context, thread_id, i, self>>

\* pthread_mutex_lock, then for (i = 0; ..)
Lock(t, at, next) ==
  /\ pc[t] = at
  /\ lock = NULL
  /\ lock' = t
  /\ i' = [i EXCEPT ![t] = 0]
  /\ Goto(t, next)
  /\ UNCHANGED <<context, thread_id, self, clash>>

Unlock(t, at, next) ==
  /\ pc[t] = at
  /\ lock' = NULL
  /\ Goto(t, next)
  /\ UNCHANGED <<context, thread_id, i, self, clash>>

\* One turn of a loop over the entries that ends at the first one with hit.
Search(t, at, hit, found, none) ==
  /\ pc[t] = at
  /\ IF i[t] \in Slots /\ ~hit
     THEN i' = [i EXCEPT ![t] = @ + 1] /\ UNCHANGED pc
     ELSE Goto(t, IF i[t] \in Slots THEN found ELSE none) /\ UNCHANGED i
  /\ UNCHANGED <<context, thread_id, lock, self, clash>>

\* Mutant of InsertLock: the table is changed without the lock.
InsertLockNot(t) ==
  /\ pc[t] = "insert"
  /\ i' = [i EXCEPT ![t] = 0]
  /\ Goto(t, "scan")
  /\ UNCHANGED <<context, thread_id, lock, self, clash>>

\* plasma_context_insert: into the first entry that is not occupied.
InsertLock(t) == Lock(t, "insert", "scan")

InsertScan(t) == Search(t, "scan", context[i[t]] = NULL, "context", "full")

InsertContext(t) ==
  /\ pc[t] = "context"
  /\ context' = [context EXCEPT ![i[t]] = t]
  /\ Goto(t, "id")
  /\ UNCHANGED <<thread_id, lock, i, self, clash>>

InsertId(t) ==
  /\ pc[t] = "id"
  /\ thread_id' = [thread_id EXCEPT ![i[t]] = t]
  /\ Goto(t, "inserted")
  /\ UNCHANGED <<context, lock, i, self, clash>>

Inserted(t) == Unlock(t, "inserted", "in")
Refused(t)  == Unlock(t, "full", "out")

\* PLASMA_Finalize: plasma_context_self reads the table without the lock.
BeginSelf(t) ==
  /\ pc[t] = "in"
  /\ i' = [i EXCEPT ![t] = 0]
  /\ Goto(t, "self")
  /\ UNCHANGED <<context, thread_id, lock, self, clash>>

SelfScan(t) == Search(t, "self", thread_id[i[t]] = t, "read", "lost")

SelfRead(t) ==
  /\ pc[t] = "read"
  /\ self' = [self EXCEPT ![t] = context[i[t]]]
  /\ Goto(t, IF context[i[t]] = NULL THEN "lost" ELSE "have")
  /\ UNCHANGED <<context, thread_id, lock, i, clash>>

\* plasma_context_remove: the first entry with the thread's id.
RemoveLock(t) == Lock(t, "have", "rscan")
RemoveScan(t) == Search(t, "rscan", thread_id[i[t]] = t, "match", "failed")

Remove(t) ==
  /\ pc[t] = "match"
  /\ IF context[i[t]] = self[t]
     THEN context' = [context EXCEPT ![i[t]] = NULL] /\ Goto(t, "removed")
     ELSE Goto(t, "failed") /\ UNCHANGED context
  /\ UNCHANGED <<thread_id, lock, i, self, clash>>

\* "context does not match thread" and "thread not found" are errors.
Removed(t) ==
  Unlock(t, pc[t], IF pc[t] = "removed" THEN "out" ELSE "lost")
  /\ pc[t] \in {"removed", "failed"}
-----------------------------------------------------------------------------
Next == \E t \in Threads :
  \/ Create(t) \/ InsertLock(t) \/ InsertScan(t) \/ InsertContext(t)
  \/ InsertId(t) \/ Inserted(t) \/ Refused(t) \/ BeginSelf(t) \/ SelfScan(t)
  \/ SelfRead(t) \/ RemoveLock(t) \/ RemoveScan(t) \/ Remove(t) \/ Removed(t)

Spec == Init /\ [][Next]_vars
-----------------------------------------------------------------------------
\* The threads are alike.
Alike == Permutations(Threads)

TypeOK ==
  /\ context \in [Slots -> Threads \cup {NULL}]
  /\ thread_id \in [Slots -> Threads \cup {NULL}]
  /\ lock \in Threads \cup {NULL}
  /\ pc \in [Threads ->
       {"out", "insert", "scan", "context", "id", "inserted", "full", "in",
        "self", "read", "have", "rscan", "match", "removed", "failed", "lost"}]
  /\ i \in [Threads -> 0 .. CONTEXTS_MAX]
  /\ self \in [Threads -> Threads \cup {NULL}]
  /\ clash \in BOOLEAN

\* What the table is for: a thread whose PLASMA_Init succeeded finds its own
\* context, whatever old entries with its thread_id are left and whoever
\* changes the table while it reads without the lock.
Found == \A t \in Threads : pc[t] # "lost" /\ (pc[t] = "have" => self[t] = t)

\* It is so until a PLASMA_Init meets a lock that is held.
SelfFinds == ~clash => Found

\* Until a PLASMA_Init meets a lock that is held, a context is in the table
\* exactly once from PLASMA_Init to PLASMA_Finalize and not at all after: no
\* entry is overwritten, none is leaked.
OneEntry ==
  ~clash => \A t \in Threads :
    LET entries == {s \in Slots : context[s] = t}
    IN  /\ pc[t] = "in" => \E s \in Slots : entries = {s} /\ thread_id[s] = t
        /\ pc[t] = "out" => entries = {}
=============================================================================
