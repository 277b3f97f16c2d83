--------------------------- MODULE BackendRegistry ---------------------------
(***************************************************************************)
(* The global localization_backend_manager and the threads that read it,   *)
(* change copies of it and put new ones in its place                       *)
(* (src/src/shared/localization_backend.cpp 191-235).  The exchange of the *)
(* global manager is two steps: the old one is moved out, which leaves an  *)
(* object without an implementation, and then the new one is copied in.    *)
(***************************************************************************)
EXTENDS Backends

CONSTANTS
    Compiled \* the backends that are compiled in, in order

ASSUME CompiledAssumption ==
    /\ Compiled \in Seq(Names)
    /\ \A i, j \in 1 .. Len(Compiled) : Compiled[i] = Compiled[j] => i = j
ASSUME ThreadsAssumption == "nobody" \notin Threads

VARIABLES
    shared, \* the_manager
    mutex,  \* the thread that holds the_mutex, or "nobody"
    mine,   \* mine[t]: the manager object that thread t works on
    pc,     \* pc[t]: "idle", "get", "set", or "moved" and "copied" within exchange
    old,    \* old[t]: the manager that t's exchange has moved out
    last    \* history: the manager that was put in place last

vars == <<shared, mutex, mine, pc, old, last>>

MovedFrom == [names |-> <<>>, chosen |-> <<>>]

\* make_default_backend_mgr: the compiled-in backends, added one by one to an
\* empty manager, and the first of them for every category.
DefaultManager ==
    [names  |-> Compiled,
     chosen |-> [c \in Categories |-> IF Compiled = <<>> THEN -1 ELSE 0]]

Init ==
    /\ shared = DefaultManager
    /\ mutex = "nobody"
    /\ mine = [t \in Threads |-> EmptyManager]
    /\ pc = [t \in Threads |-> "idle"]
    /\ old = [t \in Threads |-> EmptyManager]
    /\ last = DefaultManager

\* A thread changes a manager of its own.
Change(t, m) ==
    /\ pc[t] = "idle"
    /\ mine' = [mine EXCEPT ![t] = m]
    /\ UNCHANGED <<shared, mutex, pc, old, last>>

Add(t, name) == Change(t, add_backend(mine[t], name))
Select(t, name, cats) == Change(t, select(mine[t], name, cats))
RemoveAll(t) == Change(t, remove_all_backends(mine[t]))

\* Faulty: the mutex is not waited for.
Enter_Unlocked(t, f) ==
    /\ pc[t] = "idle"
    /\ mutex' = t
    /\ pc' = [pc EXCEPT ![t] = f]
    /\ UNCHANGED <<shared, mine, old, last>>

\* global() and global(in) take the mutex.
Enter(t, f) ==
    /\ pc[t] = "idle"
    /\ mutex = "nobody"
    /\ mutex' = t
    /\ pc' = [pc EXCEPT ![t] = f]
    /\ UNCHANGED <<shared, mine, old, last>>

Step(t, before, after) == pc[t] = before /\ pc' = [pc EXCEPT ![t] = after]

\* global(): the result is a copy, made before the mutex is released.
CopyOut(t) ==
    /\ Step(t, "get", "idle")
    /\ mine' = [mine EXCEPT ![t] = shared]
    /\ mutex' = "nobody"
    /\ UNCHANGED <<shared, old, last>>

\* global(in): exchange moves the old manager out, ...
MoveOut(t) ==
    /\ Step(t, "set", "moved")
    /\ old' = [old EXCEPT ![t] = shared]
    /\ shared' = MovedFrom
    /\ UNCHANGED <<mutex, mine, last>>

\* ... copies the new one in, ...
CopyIn(t) ==
    /\ Step(t, "moved", "copied")
    /\ shared' = mine[t]
    /\ last' = mine[t]
    /\ UNCHANGED <<mutex, mine, old>>

\* ... and returns the old one, which the caller goes on with or drops.
Leave(t) ==
    /\ Step(t, "copied", "idle")
    /\ mutex' = "nobody"
    /\ mine' \in {mine, [mine EXCEPT ![t] = old[t]]}
    /\ old' = [old EXCEPT ![t] = EmptyManager]
    /\ UNCHANGED <<shared, last>>

Next ==
    \E t \in Threads :
        \/ \E name \in Names : Add(t, name)
        \/ \E name \in Names, cats \in SUBSET Categories : Select(t, name, cats)
        \/ RemoveAll(t)
        \/ \E f \in {"get", "set"} : Enter(t, f)
        \/ CopyOut(t) \/ MoveOut(t) \/ CopyIn(t) \/ Leave(t)

Spec == Init /\ [][Next]_vars

-----------------------------------------------------------------------------
\* Every manager that a thread can ask for a backend has valid indices: what
\* actual_backend::install looks up is never out of range, and a copy of the
\* global manager is never a copy of one that another thread has moved from.
ManagersWellFormed ==
    /\ \A t \in Threads : WellFormed(mine[t]) /\ WellFormed(old[t])
    /\ mutex = "nobody" => WellFormed(shared)

\* Whatever other threads do meanwhile, global(in) returns the manager that
\* was put in place just before: every manager is handed back exactly once.
OldIsReturned == \A t \in Threads : pc[t] = "moved" => old[t] = last
=============================================================================
