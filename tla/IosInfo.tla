------------------------------- MODULE IosInfo -------------------------------
(***************************************************************************)
(* Where streams keep their ios_info (src/src/shared/ios_prop.hpp): a       *)
(* pointer in a slot of the stream, to an object that is made on first use.  *)
(* The standard library copies slots and callbacks in copyfmt as they are;   *)
(* the callback has to give each stream an object of its own, and to delete  *)
(* it with the stream.  What an object holds is one value.                   *)
(***************************************************************************)
EXTENDS Naturals, FiniteSets

CONSTANTS
    Streams, Objects,
    InfoValues,        \* what an ios_info holds
    Default,       \* what a new one holds
    MaxCallbacks   \* bound on the callbacks a stream has registered

Null == "null"
Free == "free"

ASSUME InfoAssumption == Default \in InfoValues /\ Free \notin InfoValues /\ Null \notin Objects

VARIABLES
    heap,       \* [Objects -> InfoValues or Free]
    pword,      \* [Streams -> Objects or Null]
    callbacks,  \* [Streams -> how many times callback is registered]
    meant       \* [Streams -> what the stream was told: its manipulators and copies]

infoVars == <<heap, pword, callbacks, meant>>

IosInfoInit ==
    /\ heap = [o \in Objects |-> Free]
    /\ pword = [s \in Streams |-> Null]
    /\ callbacks = [s \in Streams |-> 0]
    /\ meant = [s \in Streams |-> Default]

\* The callback is registered before the object is made.
create(s) ==
    /\ pword[s] = Null
    /\ callbacks[s] < MaxCallbacks
    /\ callbacks' = [callbacks EXCEPT ![s] = @ + 1]
    /\ \E o \in Objects :
          /\ heap[o] = Free
          /\ heap' = [heap EXCEPT ![o] = Default]
          /\ pword' = [pword EXCEPT ![s] = o]
    /\ UNCHANGED meant

\* There is no memory for it: the next use registers the callback once more.
create_fails(s) ==
    /\ pword[s] = Null
    /\ callbacks[s] < MaxCallbacks
    /\ callbacks' = [callbacks EXCEPT ![s] = @ + 1]
    /\ UNCHANGED <<heap, pword, meant>>

\* A manipulator: get() finds the object there.
manipulate(s, v) ==
    /\ pword[s] # Null
    /\ heap' = [heap EXCEPT ![pword[s]] = v]
    /\ meant' = [meant EXCEPT ![s] = v]
    /\ UNCHANGED <<pword, callbacks>>

\* erase_event: the first callback deletes the object and clears the slot,
\* those after it find no object.
erased(h, s) == IF callbacks[s] = 0 \/ pword[s] = Null THEN h ELSE [h EXCEPT ![pword[s]] = Free]

\* Faulty: the object is left to both streams.
copied_Shared(h, to, from) == {[heap |-> h, slot |-> pword[from]]}

\* copyfmt_event of the stream that got the slot and the callbacks of another:
\* every callback puts a copy of the object in the slot for the one there.
copied(h, to, from) ==
    LET free == {o \in Objects : h[o] = Free}
    IN IF pword[from] = Null \/ callbacks[from] = 0 THEN {[heap |-> h, slot |-> pword[from]]}
       ELSE {[heap |-> [o \in Objects |-> IF o \in n[1] THEN h[pword[from]] ELSE h[o]], slot |-> n[2]] :
                n \in {made \in (SUBSET free) \X free :
                         made[2] \in made[1] /\ Cardinality(made[1]) = callbacks[from]}}

\* to.copyfmt(from): erase events, the arrays, copy events.  A slot that is
\* not cleared by a callback is overwritten.
copyfmt(to, from) ==
    /\ to # from
    /\ \E c \in copied(erased(heap, to), to, from) :
          /\ heap' = c.heap
          /\ pword' = [pword EXCEPT ![to] = c.slot]
    /\ callbacks' = [callbacks EXCEPT ![to] = callbacks[from]]
    /\ meant' = [meant EXCEPT ![to] = meant[from]]

\* The stream ends, and another takes its name.
destroy(s) ==
    /\ heap' = erased(heap, s)
    /\ pword' = [pword EXCEPT ![s] = Null]
    /\ callbacks' = [callbacks EXCEPT ![s] = 0]
    /\ meant' = [meant EXCEPT ![s] = Default]

IosInfoNext ==
    \E s \in Streams :
        \/ create(s) \/ create_fails(s) \/ destroy(s)
        \/ \E v \in InfoValues : manipulate(s, v)
        \/ \E t \in Streams : copyfmt(s, t)

IosInfoSpec == IosInfoInit /\ [][IosInfoNext]_infoVars

-----------------------------------------------------------------------------
\* A stream's ios_info holds what this stream was told, whatever becomes of
\* the streams it was copied from or to: no two streams share an object, and
\* none has a deleted one (the callback of ios_prop.hpp).
InfoIsOwn ==
    \A s \in Streams :
        IF pword[s] = Null THEN meant[s] = Default
        ELSE /\ heap[pword[s]] = meant[s]
             /\ \A t \in Streams \ {s} : pword[t] # pword[s]
=============================================================================
