------------------------------ MODULE TaskOrder ------------------------------
(***************************************************************************)
(* What the QUARK scheduler promises to a routine that inserts tasks: two  *)
(* tasks whose data conflict run one after the other, in the order of      *)
(* their insertion, and a task runs once at most.  A task that fails       *)
(* cancels the sequence before it is over: its other tasks are skipped,    *)
(* none starts once the cancellation has returned, and none ever starts    *)
(* after a task it depends on was skipped.                                 *)
(***************************************************************************)
CONSTANT Tasks

VARIABLES order,       \* pairs <<s, t>>: t must wait for s; never changes
          member,      \* the tasks of the sequence; never changes
          fails,       \* the members that fail if they run; never changes
          state,       \* state[t]: see States
          sequence     \* "on", "ending" (a task cancels it) or "off"

given == <<order, member, fails>>
vars  == <<given, state, sequence>>

States == {"waiting", "running", "done", "skipped", "rejected"}
Over   == {"done", "skipped", "rejected"}

Free(t) == \A s \in Tasks : <<s, t>> \in order => state[s] \in Over

Become(t, new) == /\ state' = [state EXCEPT ![t] = new]
                  /\ UNCHANGED <<given, sequence>>
-----------------------------------------------------------------------------
Init == /\ order \in SUBSET (Tasks \X Tasks)
        /\ member \in SUBSET Tasks
        /\ fails \in SUBSET member
        /\ state = [t \in Tasks |-> "waiting"]
        /\ sequence = "on"

Start(t) == /\ state[t] = "waiting"
            /\ Free(t)
            /\ t \in member =>
                 /\ sequence # "off"
                 /\ \A s \in member : <<s, t>> \in order => state[s] = "done"
            /\ Become(t, "running")

Finish(t) == /\ state[t] = "running"
             /\ t \in fails => sequence = "off"
             /\ Become(t, "done")

\* A task of a cancelled sequence keeps its place, but its function is not called.
Skip(t) == /\ state[t] = "waiting"
           /\ Free(t)
           /\ t \in member /\ sequence # "on"
           /\ Become(t, "skipped")

\* A task that comes after the cancellation is not inserted.
Reject(t) == /\ state[t] = "waiting"
             /\ t \in member /\ sequence = "off"
             /\ Become(t, "rejected")

\* A task that fails cancels the sequence.
BeginCancel == /\ sequence = "on"
               /\ \E t \in fails : state[t] = "running"
               /\ sequence' = "ending"
               /\ UNCHANGED <<given, state>>

EndCancel == /\ sequence = "ending"
             /\ sequence' = "off"
             /\ UNCHANGED <<given, state>>

Next == \/ \E t \in Tasks : Start(t) \/ Finish(t) \/ Skip(t) \/ Reject(t)
        \/ BeginCancel
        \/ EndCancel

Spec == Init /\ [][Next]_vars
=============================================================================
