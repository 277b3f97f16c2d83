------------------------------ MODULE Backends ------------------------------
(***************************************************************************)
(* A localization_backend_manager as a value, and its operations           *)
(* (src/src/shared/localization_backend.cpp).  A copy of a manager is a    *)
(* deep copy, so that a record says all there is to say about one.         *)
(***************************************************************************)
EXTENDS Integers, Sequences

CONSTANTS
    Names,      \* the names a backend is registered under
    Categories, \* the slots of default_backends_: one for each category_t bit
    Threads     \* the threads that use managers and generators

\* names: the keys of all_backends_, in order; chosen: default_backends_, the
\* 0-based index of the backend that serves a category, or -1.
Manager == [names : Seq(Names), chosen : [Categories -> Int]]

EmptyManager == [names |-> <<>>, chosen |-> [c \in Categories |-> -1]]

Registered(m) == {m.names[i] : i \in 1 .. Len(m.names)}

\* The first of that name, or -1.
find_backend(m, name) ==
    IF name \in Registered(m)
    THEN (CHOOSE i \in 1 .. Len(m.names) :
            m.names[i] = name /\ \A j \in 1 .. i - 1 : m.names[j] # name) - 1
    ELSE -1

\* The first backend serves all categories; a second one of a name is ignored.
add_backend(m, name) ==
    [names  |-> IF find_backend(m, name) < 0 THEN Append(m.names, name) ELSE m.names,
     chosen |-> IF m.names = <<>> THEN [c \in Categories |-> 0] ELSE m.chosen]

\* Faulty: a name that is not registered is selected.
select_Unknown(m, name, cats) ==
    [m EXCEPT !.chosen = [c \in Categories |->
        IF c \in cats THEN find_backend(m, name) ELSE m.chosen[c]]]

select(m, name, cats) ==
    IF find_backend(m, name) < 0 THEN m
    ELSE [m EXCEPT !.chosen = [c \in Categories |->
                IF c \in cats THEN find_backend(m, name) ELSE m.chosen[c]]]

remove_all_backends(m) == EmptyManager

\* actual_backend::install: the backends that is asked for a category, if any.
Serving(m, c) == IF m.chosen[c] = -1 THEN {} ELSE {m.names[m.chosen[c] + 1]}

-----------------------------------------------------------------------------
\* Every index leads to a backend, there is none only while no backend is
\* registered, and no name is registered twice.
WellFormed(m) ==
    /\ m \in Manager
    /\ \A i, j \in 1 .. Len(m.names) : m.names[i] = m.names[j] => i = j
    /\ \A c \in Categories :
            IF m.names = <<>> THEN m.chosen[c] = -1 ELSE m.chosen[c] \in 0 .. Len(m.names) - 1
=============================================================================
