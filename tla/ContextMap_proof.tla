-------------------------- MODULE ContextMap_proof --------------------------
(***************************************************************************)
(* Proofs about ContextMap for every set of threads and every size of the  *)
(* table: until a PLASMA_Init meets a lock that is held, a thread finds    *)
(* its own context with an unlocked search, and the table holds it exactly *)
(* once.                                                                   *)
(***************************************************************************)
EXTENDS ContextMap, TLAPS

\* The places of a thread between pthread_mutex_lock and pthread_mutex_unlock.
Inside == {"scan", "context", "id", "inserted", "full", "rscan", "match",
           "removed", "failed"}

Mutex == \A t \in Threads : pc[t] \in Inside <=> lock = t

\* The places at which the table holds a context of the thread.
Owning == {"id", "inserted", "in", "self", "read", "have", "rscan", "match"}

\* Slot s is the one of thread t: the first one with its id, and only its.
Home(t, s) ==
  /\ context[s] = t
  /\ pc[t] # "id" => thread_id[s] = t
  /\ \A u \in Slots : u < s => thread_id[u] # t
  /\ pc[t] \in {"id", "read", "match"} => i[t] = s
  /\ pc[t] \in {"self", "rscan"} => i[t] =< s

Owns(t) ==
  /\ pc[t] \in Owning => \E s \in Slots : Home(t, s)
  /\ \A s, u \in Slots : context[s] = t /\ context[u] = t => s = u
  /\ pc[t] \notin Owning => \A s \in Slots : context[s] # t

\* What a thread has seen of the table on the way to an entry.
Seen(t) ==
  /\ pc[t] \in {"scan", "context"} =>
       \A u \in Slots : u < i[t] => context[u] # NULL
  /\ pc[t] = "context" => i[t] \in Slots /\ context[i[t]] = NULL
  /\ pc[t] \in {"have", "rscan", "match"} => self[t] = t
  /\ pc[t] \notin {"lost", "failed"}

\* Entries in use carry the id of their owner, once it is written.
Named == \A s \in Slots : context[s] # NULL =>
           pc[context[s]] = "id" \/ thread_id[s] = context[s]

IInv == TypeOK /\ Mutex /\ Named /\ \A t \in Threads : Owns(t) /\ Seen(t)

\* What PLASMA_Init does to a lock that is held ends it.
UntilClash == ~clash => IInv

LEMMA Initial == Init => IInv
<1> SUFFICES ASSUME Init PROVE IInv
  OBVIOUS
<1> USE NullAssumption, MaxAssumption
<1>1. TypeOK
  <2>1. clash \in BOOLEAN
    BY Zenon DEF Init
  <2> QED
    BY <2>1 DEF Init, TypeOK, Slots
<1>2. Mutex
  BY DEF Init, Mutex, Inside
<1>3. Named
  BY DEF Init, Named
<1>4. ASSUME NEW t \in Threads PROVE Owns(t) /\ Seen(t)
  BY DEF Init, Owns, Seen, Owning
<1> QED
  BY <1>1, <1>2, <1>3, <1>4 DEF IInv

LEMMA TypeStep == ASSUME IInv, [Next]_vars PROVE TypeOK'
<1> USE NullAssumption, MaxAssumption
<1>0. TypeOK
  BY DEF IInv
<1>1. ASSUME NEW t \in Threads, NEW l,
             l \in {"out", "insert", "scan", "context", "id", "inserted", "full",
                    "in", "self", "read", "have", "rscan", "match", "removed",
                    "failed", "lost"},
             Goto(t, l)
      PROVE  pc' \in [Threads -> {"out", "insert", "scan", "context", "id",
                    "inserted", "full", "in", "self", "read", "have", "rscan",
                    "match", "removed", "failed", "lost"}]
  BY <1>0, <1>1 DEF TypeOK, Goto
<1>2. ASSUME NEW t \in Threads, Create(t) PROVE TypeOK'
  BY <1>0, <1>1, <1>2 DEF TypeOK, Create, Slots
<1>3. ASSUME NEW t \in Threads, InsertLock(t) PROVE TypeOK'
  BY <1>0, <1>1, <1>3 DEF TypeOK, InsertLock, Lock, Slots
<1>4. ASSUME NEW t \in Threads, InsertScan(t) PROVE TypeOK'
  BY <1>0, <1>1, <1>4 DEF TypeOK, InsertScan, Search, Slots
<1>5. ASSUME NEW t \in Threads, InsertContext(t) PROVE TypeOK'
  BY <1>0, <1>1, <1>5 DEF TypeOK, InsertContext, Slots
<1>6. ASSUME NEW t \in Threads, InsertId(t) PROVE TypeOK'
  BY <1>0, <1>1, <1>6 DEF TypeOK, InsertId, Slots
<1>7. ASSUME NEW t \in Threads, Inserted(t) PROVE TypeOK'
  BY <1>0, <1>1, <1>7 DEF TypeOK, Inserted, Unlock, Slots
<1>8. ASSUME NEW t \in Threads, Refused(t) PROVE TypeOK'
  BY <1>0, <1>1, <1>8 DEF TypeOK, Refused, Unlock, Slots
<1>9. ASSUME NEW t \in Threads, BeginSelf(t) PROVE TypeOK'
  BY <1>0, <1>1, <1>9 DEF TypeOK, BeginSelf, Slots
<1>10. ASSUME NEW t \in Threads, SelfScan(t) PROVE TypeOK'
  BY <1>0, <1>1, <1>10 DEF TypeOK, SelfScan, Search, Slots
<1>11. ASSUME NEW t \in Threads, SelfRead(t) PROVE TypeOK'
  <2>1. context[i[t]] \in Threads \cup {NULL}
    BY <1>11 DEF IInv, SelfRead, Owns, Owning, Home, TypeOK
  <2>2. Goto(t, "lost") \/ Goto(t, "have")
    BY <1>11 DEF SelfRead
  <2>3. self' = [self EXCEPT ![t] = context[i[t]]]
    BY <1>11 DEF SelfRead
  <2> QED
    BY <1>0, <1>1, <1>11, <2>1, <2>2, <2>3 DEF TypeOK, SelfRead
<1>12. ASSUME NEW t \in Threads, RemoveLock(t) PROVE TypeOK'
  BY <1>0, <1>1, <1>12 DEF TypeOK, RemoveLock, Lock, Slots
<1>13. ASSUME NEW t \in Threads, RemoveScan(t) PROVE TypeOK'
  BY <1>0, <1>1, <1>13 DEF TypeOK, RemoveScan, Search, Slots
<1>14. ASSUME NEW t \in Threads, Remove(t) PROVE TypeOK'
  BY <1>0, <1>1, <1>14 DEF TypeOK, Remove, Slots
<1>15. ASSUME NEW t \in Threads, Removed(t) PROVE TypeOK'
  <2>1. Goto(t, "out") \/ Goto(t, "lost")
    BY <1>15 DEF Removed, Unlock
  <2>2. /\ lock' = NULL
        /\ UNCHANGED <<context, thread_id, i, self, clash>>
    BY <1>15 DEF Removed, Unlock
  <2> QED
    BY <1>0, <1>1, <2>1, <2>2 DEF TypeOK
<1>16. CASE UNCHANGED vars
  BY <1>0, <1>16 DEF vars, TypeOK
<1> QED
  BY <1>2, <1>3, <1>4, <1>5, <1>6, <1>7, <1>8, <1>9,
     <1>10, <1>11, <1>12, <1>13, <1>14, <1>15, <1>16
    DEF Next


\* A step of t moves only t; while the table is unchanged, the others still own
\* and have seen what they did.
LEMMA OthersStay ==
  ASSUME TypeOK, NEW t \in Threads, NEW q \in Threads, q # t,
         Owns(q), Seen(q),
         pc'[q] = pc[q], i'[q] = i[q], self'[q] = self[q],
         UNCHANGED <<context, thread_id>>
  PROVE  Owns(q)' /\ Seen(q)'
BY DEF Owns, Seen, Home

LEMMA Step ==
  ASSUME ~clash, ~clash', IInv, [Next]_vars
  PROVE  IInv'
<1> USE NullAssumption, MaxAssumption DEF IInv
<1> DEFINE Rest == /\ Mutex'
                   /\ Named'
                   /\ \A t \in Threads : Owns(t)' /\ Seen(t)'
<1>0. Slots \subseteq Int
  BY DEF Slots
<1>1. ASSUME NEW t \in Threads, Create(t) PROVE Rest
  <2>1. \A q \in Threads : q # t =>
          pc'[q] = pc[q] /\ i'[q] = i[q] /\ self'[q] = self[q]
    BY <1>1 DEF Create, Goto, TypeOK
  <2>2. Mutex'
    BY <1>1, <2>1 DEF Create, Goto, Mutex, Inside, TypeOK, Seen
  <2>3. UNCHANGED <<context, thread_id>>
    BY <1>1 DEF Create, Goto
  <2>4. Named'
    BY <1>1, <2>1, <2>3 DEF Create, Goto, Named, Owns, Owning, TypeOK
  <2>5. ASSUME NEW q \in Threads, q # t PROVE Owns(q)' /\ Seen(q)'
    BY <2>1, <2>3, <2>5, OthersStay
  <2>6. Owns(t)'
    <3>1. pc[t] \notin Owning /\ pc'[t] \notin Owning
      BY <1>1 DEF Create, Goto, Owning, TypeOK
    <3> QED
      BY <2>3, <3>1 DEF Owns
  <2>7. Seen(t)'
    BY <1>0, <1>1, <2>3
      DEF Create, Goto, Owns, Owning, Home, Seen, TypeOK, Slots
  <2> QED
    BY <2>2, <2>4, <2>5, <2>6, <2>7
<1>2. ASSUME NEW t \in Threads, InsertLock(t) PROVE Rest
  <2>1. \A q \in Threads : q # t =>
          pc'[q] = pc[q] /\ i'[q] = i[q] /\ self'[q] = self[q]
    BY <1>2 DEF InsertLock, Lock, Goto, TypeOK
  <2>2. Mutex'
    BY <1>2, <2>1 DEF InsertLock, Lock, Goto, Mutex, Inside, TypeOK, Seen
  <2>3. UNCHANGED <<context, thread_id>>
    BY <1>2 DEF InsertLock, Lock, Goto
  <2>4. Named'
    BY <1>2, <2>1, <2>3 DEF InsertLock, Lock, Goto, Named, Owns, Owning, TypeOK
  <2>5. ASSUME NEW q \in Threads, q # t PROVE Owns(q)' /\ Seen(q)'
    BY <2>1, <2>3, <2>5, OthersStay
  <2>6. Owns(t)'
    <3>1. pc[t] \notin Owning /\ pc'[t] \notin Owning
      BY <1>2 DEF InsertLock, Lock, Goto, Owning, TypeOK
    <3> QED
      BY <2>3, <3>1 DEF Owns
  <2>7. Seen(t)'
    BY <1>0, <1>2, <2>3
      DEF InsertLock, Lock, Goto, Owns, Owning, Home, Seen, TypeOK, Slots
  <2> QED
    BY <2>2, <2>4, <2>5, <2>6, <2>7
<1>3. ASSUME NEW t \in Threads, InsertScan(t) PROVE Rest
  <2>1. \A q \in Threads : q # t =>
          pc'[q] = pc[q] /\ i'[q] = i[q] /\ self'[q] = self[q]
    BY <1>3 DEF InsertScan, Search, Goto, TypeOK
  <2>2. Mutex'
    BY <1>3, <2>1 DEF InsertScan, Search, Goto, Mutex, Inside, TypeOK, Seen
  <2>3. UNCHANGED <<context, thread_id>>
    BY <1>3 DEF InsertScan, Search, Goto
  <2>4. Named'
    BY <1>3, <2>1, <2>3
      DEF InsertScan, Search, Goto, Named, Owns, Owning, TypeOK
  <2>5. ASSUME NEW q \in Threads, q # t PROVE Owns(q)' /\ Seen(q)'
    BY <2>1, <2>3, <2>5, OthersStay
  <2>6. Owns(t)'
    <3>1. pc[t] \notin Owning /\ pc'[t] \notin Owning
      BY <1>3 DEF InsertScan, Search, Goto, Owning, TypeOK
    <3> QED
      BY <2>3, <3>1 DEF Owns
  <2>7. Seen(t)'
    BY <1>0, <1>3, <2>3
      DEF InsertScan, Search, Goto, Owns, Owning, Home, Seen, TypeOK, Slots
  <2> QED
    BY <2>2, <2>4, <2>5, <2>6, <2>7
<1>4. ASSUME NEW t \in Threads, InsertContext(t) PROVE Rest
  <2>1. \A q \in Threads : q # t =>
          pc'[q] = pc[q] /\ i'[q] = i[q] /\ self'[q] = self[q]
    BY <1>4 DEF InsertContext, Goto, TypeOK
  <2>2. Mutex'
    BY <1>4, <2>1 DEF InsertContext, Goto, Mutex, Inside, TypeOK, Seen
  <2>3. i[t] \in Slots /\ lock = t
    BY <1>4 DEF InsertContext, Goto, Mutex, Inside, Owns, Owning, Home, Seen
  <2>4. Named'
    BY <1>4, <2>1, <2>3
      DEF InsertContext, Goto, Named, Owns, Owning, Home, Seen, TypeOK
  <2>5. ASSUME NEW q \in Threads, q # t PROVE Owns(q)' /\ Seen(q)'
    <3>1. pc[q] \notin Inside
      BY <2>3, <2>5 DEF Mutex
    <3>2. Owns(q)'
      BY <1>0, <1>4, <2>1, <2>3, <2>5, <3>1
        DEF InsertContext, Goto, Owns, Owning, Home, Seen, TypeOK, Inside
    <3>3. Seen(q)'
      BY <1>4, <2>1, <2>5, <3>1 DEF InsertContext, Goto, Seen, Inside
    <3> QED
      BY <3>2, <3>3
  <2>6. Owns(t)'
    <3>1. /\ context' = [context EXCEPT ![i[t]] = t]
          /\ pc[t] = "context" /\ pc'[t] = "id"
          /\ UNCHANGED <<thread_id, i>>
      BY <1>4 DEF InsertContext, Goto, TypeOK
    <3>2. \A s \in Slots : context[s] # t
      BY <3>1 DEF Owns, Owning
    <3>3. context'[i[t]] = t
      BY <2>3, <3>1 DEF TypeOK
    <3>4. ASSUME NEW u \in Slots, u < i[t] PROVE thread_id[u] # t
      <4>1. context[u] # NULL /\ context[u] # t /\ context[u] \in Threads
        BY <3>1, <3>2, <3>4 DEF Seen, TypeOK
      <4>2. pc[context[u]] # "id"
        BY <2>3, <4>1 DEF Mutex, Inside
      <4> QED
        BY <4>1, <4>2 DEF Named
    <3>5. Home(t, i[t])'
      BY <2>3, <3>1, <3>3, <3>4 DEF Home
    <3>6. \A s \in Slots : context'[s] = t => s = i[t]
      BY <3>1, <3>2 DEF TypeOK
    <3> QED
      BY <2>3, <3>1, <3>5, <3>6 DEF Owns, Owning
  <2>7. Seen(t)'
    BY <1>0, <1>4, <2>3
      DEF InsertContext, Goto, Owns, Owning, Home, Seen, TypeOK, Slots
  <2> QED
    BY <2>2, <2>4, <2>5, <2>6, <2>7
<1>5. ASSUME NEW t \in Threads, InsertId(t) PROVE Rest
  <2>1. \A q \in Threads : q # t =>
          pc'[q] = pc[q] /\ i'[q] = i[q] /\ self'[q] = self[q]
    BY <1>5 DEF InsertId, Goto, TypeOK
  <2>2. Mutex'
    BY <1>5, <2>1 DEF InsertId, Goto, Mutex, Inside, TypeOK, Seen
  <2>3. i[t] \in Slots /\ lock = t
    BY <1>5 DEF InsertId, Goto, Mutex, Inside, Owns, Owning, Home, Seen
  <2>4. Named'
    BY <1>5, <2>1, <2>3
      DEF InsertId, Goto, Named, Owns, Owning, Home, Seen, TypeOK
  <2>5. ASSUME NEW q \in Threads, q # t PROVE Owns(q)' /\ Seen(q)'
    <3>1. pc[q] \notin Inside
      BY <2>3, <2>5 DEF Mutex
    <3>2. Owns(q)'
      BY <1>0, <1>5, <2>1, <2>3, <2>5, <3>1
        DEF InsertId, Goto, Owns, Owning, Home, Seen, TypeOK, Inside
    <3>3. Seen(q)'
      BY <1>5, <2>1, <2>5, <3>1 DEF InsertId, Goto, Seen, Inside
    <3> QED
      BY <3>2, <3>3
  <2>6. Owns(t)'
    <3>1. /\ thread_id' = [thread_id EXCEPT ![i[t]] = t]
          /\ pc[t] = "id" /\ pc'[t] = "inserted"
          /\ UNCHANGED <<context, i>>
      BY <1>5 DEF InsertId, Goto, TypeOK
    <3>2. Home(t, i[t])
      BY <3>1 DEF Owns, Owning, Home
    <3>3. Home(t, i[t])'
      BY <1>0, <2>3, <3>1, <3>2 DEF Home, TypeOK
    <3> QED
      BY <2>3, <3>1, <3>3 DEF Owns, Owning
  <2>7. Seen(t)'
    BY <1>0, <1>5, <2>3
      DEF InsertId, Goto, Owns, Owning, Home, Seen, TypeOK, Slots
  <2> QED
    BY <2>2, <2>4, <2>5, <2>6, <2>7
<1>6. ASSUME NEW t \in Threads, Inserted(t) PROVE Rest
  <2>1. \A q \in Threads : q # t =>
          pc'[q] = pc[q] /\ i'[q] = i[q] /\ self'[q] = self[q]
    BY <1>6 DEF Inserted, Unlock, Goto, TypeOK
  <2>2. Mutex'
    BY <1>6, <2>1 DEF Inserted, Unlock, Goto, Mutex, Inside, TypeOK, Seen
  <2>3. UNCHANGED <<context, thread_id>>
    BY <1>6 DEF Inserted, Unlock, Goto
  <2>4. Named'
    BY <1>6, <2>1, <2>3 DEF Inserted, Unlock, Goto, Named, Owns, Owning, TypeOK
  <2>5. ASSUME NEW q \in Threads, q # t PROVE Owns(q)' /\ Seen(q)'
    BY <2>1, <2>3, <2>5, OthersStay
  <2>6. Owns(t)'
    <3>1. ASSUME NEW s \in Slots, Home(t, s) PROVE Home(t, s)'
      BY <1>0, <1>6, <2>3, <3>1 DEF Inserted, Unlock, Goto, Home, TypeOK, Slots
    <3>2. pc[t] \in Owning => \E s \in Slots : Home(t, s)
      BY DEF Owns
    <3>3. pc[t] \in Owning /\ pc'[t] \in Owning
      BY <1>0, <1>6, <3>2 DEF Inserted, Unlock, Goto, Owning, Home, Seen, Named, TypeOK, Slots
    <3> QED
      BY <2>3, <3>1, <3>2, <3>3 DEF Owns
  <2>7. Seen(t)'
    BY <1>0, <1>6, <2>3
      DEF Inserted, Unlock, Goto, Owns, Owning, Home, Seen, TypeOK, Slots
  <2> QED
    BY <2>2, <2>4, <2>5, <2>6, <2>7
<1>7. ASSUME NEW t \in Threads, Refused(t) PROVE Rest
  <2>1. \A q \in Threads : q # t =>
          pc'[q] = pc[q] /\ i'[q] = i[q] /\ self'[q] = self[q]
    BY <1>7 DEF Refused, Unlock, Goto, TypeOK
  <2>2. Mutex'
    BY <1>7, <2>1 DEF Refused, Unlock, Goto, Mutex, Inside, TypeOK, Seen
  <2>3. UNCHANGED <<context, thread_id>>
    BY <1>7 DEF Refused, Unlock, Goto
  <2>4. Named'
    BY <1>7, <2>1, <2>3 DEF Refused, Unlock, Goto, Named, Owns, Owning, TypeOK
  <2>5. ASSUME NEW q \in Threads, q # t PROVE Owns(q)' /\ Seen(q)'
    BY <2>1, <2>3, <2>5, OthersStay
  <2>6. Owns(t)'
    <3>1. pc[t] \notin Owning /\ pc'[t] \notin Owning
      BY <1>7 DEF Refused, Unlock, Goto, Owning, TypeOK
    <3> QED
      BY <2>3, <3>1 DEF Owns
  <2>7. Seen(t)'
    BY <1>0, <1>7, <2>3
      DEF Refused, Unlock, Goto, Owns, Owning, Home, Seen, TypeOK, Slots
  <2> QED
    BY <2>2, <2>4, <2>5, <2>6, <2>7
<1>8. ASSUME NEW t \in Threads, BeginSelf(t) PROVE Rest
  <2>1. \A q \in Threads : q # t =>
          pc'[q] = pc[q] /\ i'[q] = i[q] /\ self'[q] = self[q]
    BY <1>8 DEF BeginSelf, Goto, TypeOK
  <2>2. Mutex'
    BY <1>8, <2>1 DEF BeginSelf, Goto, Mutex, Inside, TypeOK, Seen
  <2>3. UNCHANGED <<context, thread_id>>
    BY <1>8 DEF BeginSelf, Goto
  <2>4. Named'
    BY <1>8, <2>1, <2>3 DEF BeginSelf, Goto, Named, Owns, Owning, TypeOK
  <2>5. ASSUME NEW q \in Threads, q # t PROVE Owns(q)' /\ Seen(q)'
    BY <2>1, <2>3, <2>5, OthersStay
  <2>6. Owns(t)'
    <3>1. ASSUME NEW s \in Slots, Home(t, s) PROVE Home(t, s)'
      BY <1>0, <1>8, <2>3, <3>1 DEF BeginSelf, Goto, Home, TypeOK, Slots
    <3>2. pc[t] \in Owning => \E s \in Slots : Home(t, s)
      BY DEF Owns
    <3>3. pc[t] \in Owning /\ pc'[t] \in Owning
      BY <1>0, <1>8, <3>2 DEF BeginSelf, Goto, Owning, Home, Seen, Named, TypeOK, Slots
    <3> QED
      BY <2>3, <3>1, <3>2, <3>3 DEF Owns
  <2>7. Seen(t)'
    BY <1>0, <1>8, <2>3
      DEF BeginSelf, Goto, Owns, Owning, Home, Seen, TypeOK, Slots
  <2> QED
    BY <2>2, <2>4, <2>5, <2>6, <2>7
<1>9. ASSUME NEW t \in Threads, SelfScan(t) PROVE Rest
  <2>1. \A q \in Threads : q # t =>
          pc'[q] = pc[q] /\ i'[q] = i[q] /\ self'[q] = self[q]
    BY <1>9 DEF SelfScan, Search, Goto, TypeOK
  <2>2. Mutex'
    BY <1>9, <2>1 DEF SelfScan, Search, Goto, Mutex, Inside, TypeOK, Seen
  <2>3. UNCHANGED <<context, thread_id>>
    BY <1>9 DEF SelfScan, Search, Goto
  <2>4. Named'
    BY <1>9, <2>1, <2>3 DEF SelfScan, Search, Goto, Named, Owns, Owning, TypeOK
  <2>5. ASSUME NEW q \in Threads, q # t PROVE Owns(q)' /\ Seen(q)'
    BY <2>1, <2>3, <2>5, OthersStay
  <2>6. Owns(t)'
    <3>1. ASSUME NEW s \in Slots, Home(t, s) PROVE Home(t, s)'
      BY <1>0, <1>9, <2>3, <3>1 DEF SelfScan, Search, Goto, Home, TypeOK, Slots
    <3>2. pc[t] \in Owning => \E s \in Slots : Home(t, s)
      BY DEF Owns
    <3>3. pc[t] \in Owning /\ pc'[t] \in Owning
      BY <1>0, <1>9, <3>2 DEF SelfScan, Search, Goto, Owning, Home, Seen, Named, TypeOK, Slots
    <3> QED
      BY <2>3, <3>1, <3>2, <3>3 DEF Owns
  <2>7. Seen(t)'
    BY <1>0, <1>9, <2>3
      DEF SelfScan, Search, Goto, Owns, Owning, Home, Seen, TypeOK, Slots
  <2> QED
    BY <2>2, <2>4, <2>5, <2>6, <2>7
<1>10. ASSUME NEW t \in Threads, SelfRead(t) PROVE Rest
  <2>1. \A q \in Threads : q # t =>
          pc'[q] = pc[q] /\ i'[q] = i[q] /\ self'[q] = self[q]
    BY <1>10 DEF SelfRead, Goto, TypeOK
  <2>2. Mutex'
    BY <1>10, <2>1 DEF SelfRead, Goto, Mutex, Inside, TypeOK, Seen
  <2>3. UNCHANGED <<context, thread_id>>
    BY <1>10 DEF SelfRead, Goto
  <2>4. Named'
    BY <1>10, <2>1, <2>3 DEF SelfRead, Goto, Named, Owns, Owning, TypeOK
  <2>5. ASSUME NEW q \in Threads, q # t PROVE Owns(q)' /\ Seen(q)'
    BY <2>1, <2>3, <2>5, OthersStay
  <2>6. Owns(t)'
    <3>1. ASSUME NEW s \in Slots, Home(t, s) PROVE Home(t, s)'
      BY <1>0, <1>10, <2>3, <3>1 DEF SelfRead, Goto, Home, TypeOK, Slots
    <3>2. pc[t] \in Owning => \E s \in Slots : Home(t, s)
      BY DEF Owns
    <3>3. pc[t] \in Owning /\ pc'[t] \in Owning
      BY <1>0, <1>10, <3>2 DEF SelfRead, Goto, Owning, Home, Seen, Named, TypeOK, Slots
    <3> QED
      BY <2>3, <3>1, <3>2, <3>3 DEF Owns
  <2>7. Seen(t)'
    BY <1>0, <1>10, <2>3
      DEF SelfRead, Goto, Owns, Owning, Home, Seen, TypeOK, Slots
  <2> QED
    BY <2>2, <2>4, <2>5, <2>6, <2>7
<1>11. ASSUME NEW t \in Threads, RemoveLock(t) PROVE Rest
  <2>1. \A q \in Threads : q # t =>
          pc'[q] = pc[q] /\ i'[q] = i[q] /\ self'[q] = self[q]
    BY <1>11 DEF RemoveLock, Lock, Goto, TypeOK
  <2>2. Mutex'
    BY <1>11, <2>1 DEF RemoveLock, Lock, Goto, Mutex, Inside, TypeOK, Seen
  <2>3. UNCHANGED <<context, thread_id>>
    BY <1>11 DEF RemoveLock, Lock, Goto
  <2>4. Named'
    BY <1>11, <2>1, <2>3 DEF RemoveLock, Lock, Goto, Named, Owns, Owning, TypeOK
  <2>5. ASSUME NEW q \in Threads, q # t PROVE Owns(q)' /\ Seen(q)'
    BY <2>1, <2>3, <2>5, OthersStay
  <2>6. Owns(t)'
    <3>1. ASSUME NEW s \in Slots, Home(t, s) PROVE Home(t, s)'
      BY <1>0, <1>11, <2>3, <3>1 DEF RemoveLock, Lock, Goto, Home, TypeOK, Slots
    <3>2. pc[t] \in Owning => \E s \in Slots : Home(t, s)
      BY DEF Owns
    <3>3. pc[t] \in Owning /\ pc'[t] \in Owning
      BY <1>0, <1>11, <3>2 DEF RemoveLock, Lock, Goto, Owning, Home, Seen, Named, TypeOK, Slots
    <3> QED
      BY <2>3, <3>1, <3>2, <3>3 DEF Owns
  <2>7. Seen(t)'
    BY <1>0, <1>11, <2>3
      DEF RemoveLock, Lock, Goto, Owns, Owning, Home, Seen, TypeOK, Slots
  <2> QED
    BY <2>2, <2>4, <2>5, <2>6, <2>7
<1>12. ASSUME NEW t \in Threads, RemoveScan(t) PROVE Rest
  <2>1. \A q \in Threads : q # t =>
          pc'[q] = pc[q] /\ i'[q] = i[q] /\ self'[q] = self[q]
    BY <1>12 DEF RemoveScan, Search, Goto, TypeOK
  <2>2. Mutex'
    BY <1>12, <2>1 DEF RemoveScan, Search, Goto, Mutex, Inside, TypeOK, Seen
  <2>3. UNCHANGED <<context, thread_id>>
    BY <1>12 DEF RemoveScan, Search, Goto
  <2>4. Named'
    BY <1>12, <2>1, <2>3
      DEF RemoveScan, Search, Goto, Named, Owns, Owning, TypeOK
  <2>5. ASSUME NEW q \in Threads, q # t PROVE Owns(q)' /\ Seen(q)'
    BY <2>1, <2>3, <2>5, OthersStay
  <2>6. Owns(t)'
    <3>1. ASSUME NEW s \in Slots, Home(t, s) PROVE Home(t, s)'
      BY <1>0, <1>12, <2>3, <3>1 DEF RemoveScan, Search, Goto, Home, TypeOK, Slots
    <3>2. pc[t] \in Owning => \E s \in Slots : Home(t, s)
      BY DEF Owns
    <3>3. pc[t] \in Owning /\ pc'[t] \in Owning
      BY <1>0, <1>12, <3>2 DEF RemoveScan, Search, Goto, Owning, Home, Seen, Named, TypeOK, Slots
    <3> QED
      BY <2>3, <3>1, <3>2, <3>3 DEF Owns
  <2>7. Seen(t)'
    BY <1>0, <1>12, <2>3
      DEF RemoveScan, Search, Goto, Owns, Owning, Home, Seen, TypeOK, Slots
  <2> QED
    BY <2>2, <2>4, <2>5, <2>6, <2>7
<1>13. ASSUME NEW t \in Threads, Remove(t) PROVE Rest
  <2>1. \A q \in Threads : q # t =>
          pc'[q] = pc[q] /\ i'[q] = i[q] /\ self'[q] = self[q]
    BY <1>13 DEF Remove, Goto, TypeOK
  <2>2. Mutex'
    BY <1>13, <2>1 DEF Remove, Goto, Mutex, Inside, TypeOK, Seen
  <2>3. i[t] \in Slots /\ lock = t
    BY <1>13 DEF Remove, Goto, Mutex, Inside, Owns, Owning, Home, Seen
  <2>4. Named'
    BY <1>13, <2>1, <2>3
      DEF Remove, Goto, Named, Owns, Owning, Home, Seen, TypeOK
  <2>5. ASSUME NEW q \in Threads, q # t PROVE Owns(q)' /\ Seen(q)'
    <3>1. pc[q] \notin Inside
      BY <2>3, <2>5 DEF Mutex
    <3>2. Owns(q)'
      BY <1>0, <1>13, <2>1, <2>3, <2>5, <3>1
        DEF Remove, Goto, Owns, Owning, Home, Seen, TypeOK, Inside
    <3>3. Seen(q)'
      BY <1>13, <2>1, <2>5, <3>1 DEF Remove, Goto, Seen, Inside
    <3> QED
      BY <3>2, <3>3
  <2>6. Owns(t)'
    <3>1. context[i[t]] = t /\ self[t] = t
      BY <1>13 DEF Remove, Owns, Owning, Home, Seen
    <3>2. context' = [context EXCEPT ![i[t]] = NULL] /\ pc'[t] = "removed"
      BY <1>13, <3>1 DEF Remove, Goto, TypeOK
    <3>3. \A s \in Slots : context'[s] # t
      BY <2>3, <3>1, <3>2 DEF Owns, TypeOK
    <3> QED
      BY <3>2, <3>3 DEF Owns, Owning
  <2>7. Seen(t)'
    BY <1>0, <1>13, <2>3
      DEF Remove, Goto, Owns, Owning, Home, Seen, TypeOK, Slots
  <2> QED
    BY <2>2, <2>4, <2>5, <2>6, <2>7
<1>14. ASSUME NEW t \in Threads, Removed(t) PROVE Rest
  <2>1. \A q \in Threads : q # t =>
          pc'[q] = pc[q] /\ i'[q] = i[q] /\ self'[q] = self[q]
    BY <1>14 DEF Removed, Unlock, Goto, TypeOK
  <2>2. Mutex'
    BY <1>14, <2>1 DEF Removed, Unlock, Goto, Mutex, Inside, TypeOK, Seen
  <2>3. UNCHANGED <<context, thread_id>>
    BY <1>14 DEF Removed, Unlock, Goto
  <2>4. Named'
    BY <1>14, <2>1, <2>3 DEF Removed, Unlock, Goto, Named, Owns, Owning, TypeOK
  <2>5. ASSUME NEW q \in Threads, q # t PROVE Owns(q)' /\ Seen(q)'
    BY <2>1, <2>3, <2>5, OthersStay
  <2>6. Owns(t)'
    <3>1. pc[t] \notin Owning /\ pc'[t] \notin Owning
      BY <1>14 DEF Removed, Unlock, Goto, Owning, TypeOK
    <3> QED
      BY <2>3, <3>1 DEF Owns
  <2>7. Seen(t)'
    BY <1>0, <1>14, <2>3
      DEF Removed, Unlock, Goto, Owns, Owning, Home, Seen, TypeOK, Slots
  <2> QED
    BY <2>2, <2>4, <2>5, <2>6, <2>7
<1>15. CASE UNCHANGED vars
  <2>1. Mutex' /\ Named'
    BY <1>15 DEF vars, Mutex, Named
  <2>2. ASSUME NEW t \in Threads PROVE Owns(t)' /\ Seen(t)'
    <3>1. UNCHANGED <<context, thread_id, pc, i, self>>
      BY <1>15 DEF vars
    <3>2. Owns(t)'
      BY <3>1 DEF Owns, Home
    <3>3. Seen(t)'
      BY <3>1 DEF Seen
    <3> QED
      BY <3>2, <3>3
  <2> QED
    BY <2>1, <2>2, TypeStep
<1> QED
  BY TypeStep, <1>1, <1>2, <1>3, <1>4, <1>5, <1>6, <1>7, <1>8, <1>9,
     <1>10, <1>11, <1>12, <1>13, <1>14, <1>15 DEF Next

LEMMA ClashStays == ASSUME clash, [Next]_vars PROVE clash'
BY DEF Next, vars, Create, InsertLock, InsertScan, InsertContext, InsertId,
       Inserted, Refused, BeginSelf, SelfScan, SelfRead, RemoveLock,
       RemoveScan, Remove, Removed, Lock, Unlock, Search

THEOREM Invariance == Spec => []UntilClash
<1>1. Init => UntilClash
  BY Initial DEF UntilClash
<1>2. UntilClash /\ [Next]_vars => UntilClash'
  BY Step, ClashStays DEF UntilClash
<1> QED
  BY <1>1, <1>2, PTL DEF Spec

\* Until a PLASMA_Init meets a lock that is held, a thread whose PLASMA_Init
\* succeeded finds its own context without the lock.
THEOREM SelfFindsHolds == Spec => []SelfFinds
<1>1. UntilClash => SelfFinds
  BY DEF UntilClash, IInv, SelfFinds, Found, Seen
<1> QED
  BY <1>1, Invariance, PTL

\* Until then the table holds the context once from PLASMA_Init to
\* PLASMA_Finalize, and not at all after.
THEOREM OneEntryHolds == Spec => []OneEntry
<1>1. UntilClash => OneEntry
  <2> SUFFICES ASSUME IInv, NEW t \in Threads
               PROVE  /\ pc[t] = "in" =>
                           \E s \in Slots :
                             /\ {u \in Slots : context[u] = t} = {s}
                             /\ thread_id[s] = t
                      /\ pc[t] = "out" => {s \in Slots : context[s] = t} = {}
    BY DEF OneEntry, UntilClash
  <2> QED
    BY DEF IInv, Owns, Owning, Home
<1> QED
  BY <1>1, Invariance, PTL
=============================================================================
