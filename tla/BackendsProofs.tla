--------------------------- MODULE BackendsProofs ---------------------------
(***************************************************************************)
(* The backend managers, for every number of threads, backends and         *)
(* categories; one backend object of each kind, for all options, systems   *)
(* and environments; the generator, for every number of threads, every     *)
(* sequence of settings and every interleaving of the calls of generate(); *)
(* and the names of locales, for every name of tokens.                     *)
(***************************************************************************)
EXTENDS BackendRegistry, BackendObject, Generator, SequenceTheorems, WellFoundedInduction, TLAPS

\* In a manager without duplicates a registered name has one index, and
\* find_backend (localization_backend.cpp:57) returns it.
LEMMA FindBackend ==
    ASSUME NEW m, WellFormed(m), NEW name
    PROVE  /\ name \in Registered(m) => find_backend(m, name) \in 0 .. Len(m.names) - 1
           /\ name \notin Registered(m) => find_backend(m, name) = -1
<1>1. CASE name \in Registered(m)
  <2>1. PICK i \in 1 .. Len(m.names) : m.names[i] = name
    BY <1>1 DEF Registered
  <2>2. \A j \in 1 .. i - 1 : m.names[j] # name
    <3> SUFFICES ASSUME NEW j \in 1 .. i - 1, m.names[j] = name
                 PROVE  FALSE
      OBVIOUS
    <3>1. j \in 1 .. Len(m.names) /\ j # i
      BY DEF WellFormed, Manager
    <3> QED BY <2>1, <3>1 DEF WellFormed
  <2> DEFINE first == CHOOSE k \in 1 .. Len(m.names) :
                        m.names[k] = name /\ \A j \in 1 .. k - 1 : m.names[j] # name
  <2>3. first \in 1 .. Len(m.names)
    BY <2>1, <2>2
  <2>4. find_backend(m, name) = first - 1
    BY <1>1 DEF find_backend
  <2> HIDE DEF first
  <2> QED BY <1>1, <2>3, <2>4 DEF WellFormed, Manager
<1>2. CASE name \notin Registered(m)
  BY <1>2 DEF find_backend
<1> QED BY <1>1, <1>2

LEMMA EmptyWellFormed == WellFormed(EmptyManager)
  BY DEF WellFormed, EmptyManager, Manager

LEMMA DefaultWellFormed == WellFormed(DefaultManager)
  BY CompiledAssumption DEF WellFormed, DefaultManager, Manager

\* Registering a backend (localization_backend.cpp:68) keeps the indices valid
\* and the names distinct.
LEMMA AddWellFormed ==
    ASSUME NEW m, WellFormed(m), NEW name \in Names
    PROVE  WellFormed(add_backend(m, name))
<1> DEFINE d == add_backend(m, name)
<1>1. m.names \in Seq(Names) /\ m.chosen \in [Categories -> Int]
  BY DEF WellFormed, Manager
<1>2. CASE name \in Registered(m)
  <2>1. ~(find_backend(m, name) < 0) /\ m.names # <<>>
    BY <1>1, <1>2, FindBackend DEF Registered
  <2>2. d.names = m.names /\ d.chosen = m.chosen /\ d \in Manager
    BY <1>1, <2>1 DEF add_backend, Manager
  <2> QED BY <2>2 DEF WellFormed
<1>3. CASE name \notin Registered(m)
  <2>1. d = [names |-> Append(m.names, name),
             chosen |-> IF m.names = <<>> THEN [c \in Categories |-> 0] ELSE m.chosen]
    BY <1>3, FindBackend, SMTT(30) DEF add_backend
  <2>2. d \in Manager
    BY <1>1, <2>1 DEF Manager
  <2>3. ASSUME NEW i \in 1 .. Len(d.names), NEW j \in 1 .. Len(d.names),
               d.names[i] = d.names[j]
        PROVE  i = j
    <3>1. \A k \in 1 .. Len(m.names) : m.names[k] # name
      BY <1>3 DEF Registered
    <3>2. /\ Len(d.names) = Len(m.names) + 1 /\ d.names[Len(m.names) + 1] = name
          /\ \A k \in 1 .. Len(m.names) : d.names[k] = m.names[k]
      BY <1>1, <2>1
    <3>3. \A k, l \in 1 .. Len(m.names) : m.names[k] = m.names[l] => k = l
      BY DEF WellFormed
    <3>4. Len(m.names) \in Nat
      BY <1>1
    <3> HIDE DEF d
    <3>5. \A k \in 1 .. Len(d.names) : k \in 1 .. Len(m.names) \/ k = Len(m.names) + 1
      BY <3>2, <3>4
    <3> QED BY <2>3, <3>1, <3>2, <3>3, <3>5
  <2>4. ASSUME NEW c \in Categories
        PROVE  d.names # <<>> /\ d.chosen[c] \in 0 .. Len(d.names) - 1
    BY <1>1, <2>1 DEF WellFormed
  <2> HIDE DEF d
  <2>5. \A i, j \in 1 .. Len(d.names) : d.names[i] = d.names[j] => i = j
    BY <2>3
  <2>6. WellFormed(d)
    BY <2>2, <2>4, <2>5 DEF WellFormed
  <2> QED BY <2>6 DEF d
<1> QED BY <1>2, <1>3

\* Choosing a backend (localization_backend.cpp:76) too.
LEMMA SelectWellFormed ==
    ASSUME NEW m, WellFormed(m), NEW name \in Names, NEW cats
    PROVE  WellFormed(select(m, name, cats))
<1> DEFINE d == select(m, name, cats)
<1>1. m.names \in Seq(Names) /\ m.chosen \in [Categories -> Int] /\ m \in Manager
  BY DEF WellFormed, Manager
<1>2. CASE name \in Registered(m)
  <2>1. find_backend(m, name) \in 0 .. Len(m.names) - 1 /\ m.names # <<>>
    BY <1>1, <1>2, FindBackend DEF Registered
  <2> DEFINE f == [c \in Categories |->
                    IF c \in cats THEN find_backend(m, name) ELSE m.chosen[c]]
  <2>2. d = [m EXCEPT !.chosen = f]
    BY <2>1 DEF select
  <2>3. f \in [Categories -> Int]
    BY <1>1, <2>1
  <2>4. d.names = m.names /\ d.chosen = f /\ d \in Manager
    <3> HIDE DEF f, d
    <3> QED BY <1>1, <2>2, <2>3 DEF Manager
  <2> QED BY <2>1, <2>4 DEF WellFormed
<1>3. CASE name \notin Registered(m)
  BY <1>3, FindBackend DEF select
<1> QED BY <1>2, <1>3

-----------------------------------------------------------------------------
(* The mutex keeps the exchange of the global manager together. *)

TypeInv ==
    /\ mine \in [Threads -> Manager]
    /\ old \in [Threads -> Manager]
    /\ pc \in [Threads -> {"idle", "get", "set", "moved", "copied"}]

\* Only the thread that holds the mutex is within global().
Exclusive == \A t \in Threads : pc[t] # "idle" => mutex = t

\* Unless a thread has just moved it out, the global manager is the one that
\* was put in place last.
SharedIsLast ==
    (\A t \in Threads : pc[t] # "moved") => shared = last /\ WellFormed(shared)

AllWellFormed == \A t \in Threads : WellFormed(mine[t]) /\ WellFormed(old[t])

Inv == TypeInv /\ Exclusive /\ SharedIsLast /\ AllWellFormed /\ OldIsReturned

\* What changes when thread t gets to another place of global().
LEMMA StepExclusive ==
    ASSUME Inv, NEW t \in Threads, pc[t] # "idle",
           NEW after \in {"idle", "get", "set", "moved", "copied"},
           pc' = [pc EXCEPT ![t] = after], mutex' = IF after = "idle" THEN "nobody" ELSE mutex
    PROVE  /\ pc' \in [Threads -> {"idle", "get", "set", "moved", "copied"}]
           /\ pc'[t] = after /\ \A u \in Threads \ {t} : pc[u] = "idle" /\ pc'[u] = "idle"
           /\ Exclusive'
  BY DEF Inv, TypeInv, Exclusive

LEMMA ChangeInv ==
    ASSUME Inv, NEW t \in Threads, NEW m, WellFormed(m), Change(t, m)
    PROVE  Inv'
<1>1. mine' \in [Threads -> Manager] /\ \A u \in Threads : mine'[u] = m \/ mine'[u] = mine[u]
  BY DEF Change, Inv, TypeInv, WellFormed
<1>2. UNCHANGED <<shared, mutex, pc, old, last>>
  BY DEF Change
<1> QED BY <1>1, <1>2
        DEF Inv, TypeInv, Exclusive, SharedIsLast, AllWellFormed, OldIsReturned

LEMMA EnterInv ==
    ASSUME Inv, NEW t \in Threads, NEW f \in {"get", "set"}, Enter(t, f)
    PROVE  Inv'
<1>1. \A u \in Threads : pc[u] = "idle"
  BY ThreadsAssumption DEF Enter, Inv, Exclusive
<1>2. /\ pc' = [pc EXCEPT ![t] = f] /\ mutex' = t
      /\ UNCHANGED <<shared, mine, old, last>>
  BY DEF Enter
<1>3. pc' \in [Threads -> {"idle", "get", "set", "moved", "copied"}]
      /\ \A u \in Threads : pc'[u] # "moved" /\ (pc'[u] # "idle" => u = t)
  BY <1>1, <1>2 DEF Inv, TypeInv
<1> QED BY <1>1, <1>2, <1>3
        DEF Inv, TypeInv, Exclusive, SharedIsLast, AllWellFormed, OldIsReturned

LEMMA CopyOutInv ==
    ASSUME Inv, NEW t \in Threads, CopyOut(t)
    PROVE  Inv'
<1>1. /\ pc[t] = "get" /\ pc' = [pc EXCEPT ![t] = "idle"] /\ mutex' = "nobody"
      /\ mine' = [mine EXCEPT ![t] = shared] /\ UNCHANGED <<shared, old, last>>
  BY DEF CopyOut, Step
<1>2. /\ pc' \in [Threads -> {"idle", "get", "set", "moved", "copied"}]
      /\ \A u \in Threads : pc[u] # "moved" /\ pc'[u] = "idle"
      /\ Exclusive'
  BY <1>1, StepExclusive
<1>3. shared = last /\ WellFormed(shared)
  BY <1>2 DEF Inv, SharedIsLast
<1>4. /\ mine' \in [Threads -> Manager]
      /\ \A u \in Threads : mine'[u] = shared \/ mine'[u] = mine[u]
  BY <1>1, <1>3 DEF Inv, TypeInv, WellFormed
<1> QED BY <1>1, <1>2, <1>3, <1>4
        DEF Inv, TypeInv, SharedIsLast, AllWellFormed, OldIsReturned

LEMMA MoveOutInv ==
    ASSUME Inv, NEW t \in Threads, MoveOut(t)
    PROVE  Inv'
<1>1. /\ pc[t] = "set" /\ pc' = [pc EXCEPT ![t] = "moved"] /\ UNCHANGED <<mutex, mine, last>>
      /\ old' = [old EXCEPT ![t] = shared] /\ shared' = MovedFrom
  BY DEF MoveOut, Step
<1>2. /\ pc' \in [Threads -> {"idle", "get", "set", "moved", "copied"}]
      /\ pc'[t] = "moved" /\ \A u \in Threads \ {t} : pc[u] = "idle" /\ pc'[u] = "idle"
      /\ Exclusive'
  BY <1>1, StepExclusive
<1>3. shared = last /\ WellFormed(shared)
  BY <1>1, <1>2 DEF Inv, SharedIsLast
<1>4. /\ old' \in [Threads -> Manager] /\ old'[t] = shared
      /\ \A u \in Threads : old'[u] = shared \/ old'[u] = old[u]
  BY <1>1, <1>3 DEF Inv, TypeInv, WellFormed
<1> QED BY <1>1, <1>2, <1>3, <1>4
        DEF Inv, TypeInv, SharedIsLast, AllWellFormed, OldIsReturned

LEMMA CopyInInv ==
    ASSUME Inv, NEW t \in Threads, CopyIn(t)
    PROVE  Inv'
<1>1. /\ pc[t] = "moved" /\ pc' = [pc EXCEPT ![t] = "copied"] /\ UNCHANGED <<mutex, mine, old>>
      /\ shared' = mine[t] /\ last' = mine[t]
  BY DEF CopyIn, Step
<1>2. /\ pc' \in [Threads -> {"idle", "get", "set", "moved", "copied"}]
      /\ pc'[t] = "copied" /\ \A u \in Threads \ {t} : pc[u] = "idle" /\ pc'[u] = "idle"
      /\ Exclusive'
  BY <1>1, StepExclusive
<1> QED BY <1>1, <1>2 DEF Inv, TypeInv, SharedIsLast, AllWellFormed, OldIsReturned

LEMMA LeaveInv ==
    ASSUME Inv, NEW t \in Threads, Leave(t)
    PROVE  Inv'
<1>1. /\ pc[t] = "copied" /\ pc' = [pc EXCEPT ![t] = "idle"] /\ mutex' = "nobody"
      /\ UNCHANGED <<shared, last>>
      /\ old' = [old EXCEPT ![t] = EmptyManager]
      /\ mine' = mine \/ mine' = [mine EXCEPT ![t] = old[t]]
  BY DEF Leave, Step
<1>2. /\ pc' \in [Threads -> {"idle", "get", "set", "moved", "copied"}]
      /\ \A u \in Threads : pc[u] # "moved" /\ pc'[u] = "idle"
      /\ Exclusive'
  BY <1>1, StepExclusive
<1>3. /\ mine' \in [Threads -> Manager]
      /\ \A u \in Threads : mine'[u] = mine[u] \/ mine'[u] = old[t]
  BY <1>1 DEF Inv, TypeInv
<1>4. /\ old' \in [Threads -> Manager]
      /\ \A u \in Threads : old'[u] = old[u] \/ old'[u] = EmptyManager
  BY <1>1, EmptyWellFormed DEF Inv, TypeInv, WellFormed
<1> QED BY <1>1, <1>2, <1>3, <1>4, EmptyWellFormed
        DEF Inv, TypeInv, SharedIsLast, AllWellFormed, OldIsReturned

LEMMA InitInv == Init => Inv
<1> SUFFICES ASSUME Init
             PROVE  Inv
  OBVIOUS
<1>1. WellFormed(EmptyManager) /\ WellFormed(DefaultManager)
  BY EmptyWellFormed, DefaultWellFormed
<1>2. EmptyManager \in Manager
  BY <1>1 DEF WellFormed
<1> QED BY <1>1, <1>2
        DEF Init, Inv, TypeInv, Exclusive, SharedIsLast, AllWellFormed, OldIsReturned

LEMMA NextInv == Inv /\ [Next]_vars => Inv'
<1> SUFFICES ASSUME Inv, [Next]_vars
             PROVE  Inv'
  OBVIOUS
<1>1. ASSUME NEW t \in Threads, NEW name \in Names, Add(t, name)
      PROVE  Inv'
  BY <1>1, AddWellFormed, ChangeInv DEF Add, Inv, AllWellFormed
<1>2. ASSUME NEW t \in Threads, NEW name \in Names, NEW cats, Select(t, name, cats)
      PROVE  Inv'
  BY <1>2, SelectWellFormed, ChangeInv DEF Select, Inv, AllWellFormed
<1>3. ASSUME NEW t \in Threads, RemoveAll(t)
      PROVE  Inv'
  BY <1>3, EmptyWellFormed, ChangeInv DEF RemoveAll, remove_all_backends
<1>4. CASE UNCHANGED vars
  BY <1>4 DEF vars, Inv, TypeInv, Exclusive, SharedIsLast, AllWellFormed, OldIsReturned
<1> QED BY <1>1, <1>2, <1>3, <1>4, EnterInv, CopyOutInv, MoveOutInv, CopyInInv, LeaveInv DEF Next

\* However many threads read, change and replace the global backend manager, no
\* manager has an index that leads to no backend, and no thread copies a
\* manager that another one has moved out.
THEOREM ManagersAlwaysWellFormed == Spec => []ManagersWellFormed
<1>1. Inv => ManagersWellFormed
  <2> SUFFICES ASSUME Inv, mutex = "nobody"
               PROVE  WellFormed(shared)
    BY DEF Inv, AllWellFormed, ManagersWellFormed
  <2>1. \A t \in Threads : pc[t] # "moved"
    BY ThreadsAssumption DEF Inv, Exclusive
  <2> QED BY <2>1 DEF Inv, SharedIsLast
<1> QED BY <1>1, InitInv, NextInv, PTL DEF Spec

\* localization_backend_manager::global(in) returns the manager that was put in
\* place just before, whatever other threads do.
THEOREM OldIsAlwaysReturned == Spec => []OldIsReturned
<1>1. Inv => OldIsReturned
  BY DEF Inv
<1> QED BY <1>1, InitInv, NextInv, PTL DEF Spec

-----------------------------------------------------------------------------
(* A backend object and the environment. *)

\* What prepare_data (std_backend.cpp:118, posix_backend.cpp:79, win_backend.cpp:56,
\* icu_backend.cpp:63) makes of options and an environment depends on the class
\* of the object and the system alone: the object's own state does not show.
LEMMA PrepareDepends ==
    ASSUME UNCHANGED <<kind, system>>, NEW o, NEW e
    PROVE  prepare(o, e)' = prepare(o, e)
  BY DEF prepare, std_name, FirstLoadable, alt_names, fits, WinName, loadable, RealId,
         get_system_locale

\* While the data are valid they are those of the options of now, made in one of
\* the environments since, and only their locale has been installed.
ObjectInv ==
    /\ invalid_ \in BOOLEAN /\ system \in Systems /\ kind \in Kinds(system)
    /\ env \in seen
    /\ invalid_ => used = {}
    /\ ~invalid_ => /\ used \subseteq {prepared.real}
                    /\ \E e \in seen : prepared = prepare(options, e)

LEMMA ObjectInitInv == ObjectInit => ObjectInv
  BY DEF ObjectInit, ObjectInv

LEMMA ChangedInv == ObjectInv /\ Changed /\ UNCHANGED <<kind, system, env>> => ObjectInv'
  BY DEF Changed, ObjectInv, Kinds

LEMMA InstallInv ==
    ASSUME ObjectInv, install
    PROVE  ObjectInv'
<1>1. /\ prepared' = prepare_data(options, env) /\ invalid_' = FALSE
      /\ used' = used \cup {prepared'.real} /\ UNCHANGED <<kind, system, env, options, seen>>
  BY DEF install
<1>2. \A e : prepare(options, e)' = prepare(options, e)
  BY <1>1, PrepareDepends
<1>3. CASE invalid_
  <2>1. prepared' = prepare(options, env) /\ used = {} /\ env \in seen
    BY <1>1, <1>3 DEF prepare_data, ObjectInv
  <2> QED BY <1>1, <1>2, <2>1 DEF ObjectInv, Kinds
<1>4. CASE ~invalid_
  <2>1. prepared' = prepared
    BY <1>1, <1>4 DEF prepare_data
  <2> QED BY <1>1, <1>2, <1>4, <2>1 DEF ObjectInv, Kinds
<1> QED BY <1>3, <1>4

LEMMA ObjectNextInv == ObjectInv /\ [ObjectNext]_objectVars => ObjectInv'
<1> SUFFICES ASSUME ObjectInv, [ObjectNext]_objectVars
             PROVE  ObjectInv'
  OBVIOUS
<1>1. ASSUME NEW option, NEW value, set_option(option, value)
      PROVE  ObjectInv'
  BY <1>1, ChangedInv DEF set_option
<1>2. CASE newlocale_fails
  BY <1>2 DEF newlocale_fails, ObjectInv, Kinds
<1>3. ASSUME NEW e \in Environments, setenv(e)
      PROVE  ObjectInv'
  <2>1. /\ env' = e /\ seen' = seen \cup {e}
        /\ UNCHANGED <<kind, system, options, invalid_, prepared, used>>
    BY <1>3 DEF setenv, object
  <2>2. \A f : prepare(options, f)' = prepare(options, f)
    BY <2>1, PrepareDepends
  <2> QED BY <2>1, <2>2 DEF ObjectInv, Kinds
<1>4. CASE UNCHANGED objectVars
  <2>1. UNCHANGED <<kind, system, env, options, invalid_, prepared, seen, used>>
    BY <1>4 DEF objectVars, object
  <2>2. \A f : prepare(options, f)' = prepare(options, f)
    BY <2>1, PrepareDepends
  <2> QED BY <2>1, <2>2 DEF ObjectInv, Kinds
<1>5. CASE clear_options \/ clone
  BY <1>5, ChangedInv DEF clear_options, clone
<1> QED BY <1>1, <1>2, <1>3, <1>4, <1>5, InstallInv DEF ObjectNext, SetOptions

\* Whatever options are set, cleared, copied, and however preparing fails, what
\* install() makes is what a new object with these options would make.
THEOREM InstalledIsAlwaysCurrent == ObjectSpec => []InstalledIsCurrent
<1>1. ObjectInv => InstalledIsCurrent
  <2> SUFFICES ASSUME ObjectInv, ~invalid_, NEW category \in InstallCategories, NEW type \in CharTypes
               PROVE  \E e \in seen : facet(options, prepared, category, type)
                                      = facet(options, prepare(options, e), category, type)
    BY DEF InstalledIsCurrent
  <2> QED BY DEF ObjectInv
<1> QED BY <1>1, ObjectInitInv, ObjectNextInv, PTL DEF ObjectSpec

\* All that goes into one std::locale speaks for one locale, although the
\* environment that names the system's may change between two facets.
THEOREM AlwaysOneLocale == ObjectSpec => []OneLocale
<1>1. ObjectInv => OneLocale
  BY DEF ObjectInv, OneLocale
<1> QED BY <1>1, ObjectInitInv, ObjectNextInv, PTL DEF ObjectSpec

-----------------------------------------------------------------------------
\* The name that prepare_data settles on: the id itself, one for UTF-8 text that
\* goes through the wide facets, one that Windows has with a code page that fits,
\* or the classic one.
LEMMA PreparedNames ==
    ASSUME kind \in Kinds(system), NEW o, NEW e, NEW p, p = prepare(o, e)
    PROVE  /\ p.data = parse(p.real).data
           /\ \/ p.name = p.real /\ p.utf \in {"none", IF is_utf8(p.data) THEN "native" ELSE "none"}
              \/ kind = "std" /\ is_utf8(p.data) /\ p.utf = "from_wide"
              \/ /\ p.name \in {ClassicName, WinName(p.real).name} /\ p.utf = "none"
                 /\ p.name = ClassicName \/ fits(WinName(p.real), p.data.encoding)
           /\ (kind \in {"std", "posix"} /\ p.name = p.real /\ p.utf # "from_wide") =>
                 \/ loadable(p.name) \/ p.name = ClassicName
                 \/ p.name = WinName(p.real).name /\ fits(WinName(p.real), p.data.encoding)
<1> DEFINE id == RealId(o, e)
           d == parse(id).data
           std == std_name(id, d)
<1>1. /\ p.real = id /\ p.data = d
      /\ p.utf = IF kind = "std" THEN std.utf ELSE "none"
  BY DEF prepare
<1>2. CASE kind = "std"
  <2>1. p.name = std.name
    BY <1>2 DEF prepare
  <2>2. \/ std.name = id /\ std.utf = (IF is_utf8(d) THEN "native" ELSE "none") /\ loadable(id)
        \/ is_utf8(d) /\ std.utf = "from_wide"
        \/ /\ std.name \in {ClassicName, WinName(id).name} /\ std.utf = "none"
           /\ std.name = ClassicName \/ fits(WinName(id), d.encoding)
    <3>1. CASE loadable(id)
      BY <3>1 DEF std_name
    <3>2. CASE ~loadable(id) /\ is_utf8(d)
      BY <3>2 DEF std_name
    <3>3. CASE ~loadable(id) /\ ~is_utf8(d)
      BY <3>3 DEF std_name
    <3> QED BY <3>1, <3>2, <3>3
  <2> QED BY <1>1, <1>2, <2>1, <2>2
<1>3. CASE kind = "posix"
  BY <1>1, <1>3 DEF prepare
<1>4. CASE kind = "winapi"
  BY <1>1, <1>4 DEF prepare
<1>5. CASE kind = "icu"
  BY <1>1, <1>5 DEF prepare
<1> QED BY <1>2, <1>3, <1>4, <1>5 DEF Kinds

\* A locale that is loaded has the encoding that its name says, if it says one.
LEMMA CodesetOfLoaded ==
    ASSUME system \in Systems, NEW n, loadable(n), EncodingOf(n) # ascii
    PROVE  Codeset(n) = EncodingOf(n)
  BY CodesetAssumption DEF Codeset, loadable

\* Every char facet of an object that was prepared so reads the encoding of its
\* data, or that of a locale that stands for it.
LEMMA CharFacets ==
    ASSUME system \in Systems, kind \in Kinds(system), NEW o, NEW e, NEW p, p = prepare(o, e),
           kind = "winapi" => is_utf8(p.data),
           NEW category \in {"convert", "collation", "formatting", "dates", "parsing", "codepage",
                             "boundary", "message", "calendar", "information"}
    PROVE  LET f == facet(o, p, category, "char")
           IN \/ f = NotMade
              \/ f.bytes = normalize_encoding(p.data.encoding)
              \/ p.name = ClassicName
              \/ /\ normalize_encoding(p.data.encoding) = ascii
                 /\ p.name = p.real /\ f.bytes = Codeset(p.name)
              \/ p.name = WinName(p.real).name /\ fits(WinName(p.real), p.data.encoding)
<1> DEFINE f == facet(o, p, category, "char")
           bytes == normalize_encoding(p.data.encoding)
<1> SUFFICES ASSUME p.name # ClassicName,
                    ~(p.name = WinName(p.real).name /\ fits(WinName(p.real), p.data.encoding))
             PROVE  \/ f = NotMade \/ f.bytes = bytes
                    \/ bytes = ascii /\ p.name = p.real /\ f.bytes = Codeset(p.name)
  OBVIOUS
<1>1. /\ p.data = parse(p.real).data
      /\ \/ p.name = p.real /\ p.utf \in {"none", IF is_utf8(p.data) THEN "native" ELSE "none"}
         \/ kind = "std" /\ is_utf8(p.data) /\ p.utf = "from_wide"
  BY PreparedNames
<1>2. EncodingOf(p.real) = bytes /\ (p.name = p.real => EncodingOf(p.name) = bytes)
  BY <1>1 DEF EncodingOf
<1>14. (kind \in {"std", "posix"} /\ p.utf # "from_wide") =>
          p.name = p.real /\ (bytes # ascii => Codeset(p.name) = bytes)
  <2> SUFFICES ASSUME kind \in {"std", "posix"}, p.utf # "from_wide"
               PROVE  p.name = p.real /\ (bytes # ascii => Codeset(p.name) = bytes)
    OBVIOUS
  <2>1. p.name = p.real
    BY <1>1
  <2>2. loadable(p.name)
    BY <2>1, PreparedNames
  <2> QED BY <1>2, <2>1, <2>2, CodesetOfLoaded
<1> DEFINE Honoured(b) == b = bytes \/ (bytes = ascii /\ p.name = p.real /\ b = Codeset(p.name))
<1>13. (kind \in {"std", "posix"} /\ p.utf # "from_wide") => Honoured(Codeset(p.name))
  BY <1>14
<1>3. is_utf8(p.data) => bytes = utf8
  BY DEF is_utf8
<1>4. \A class, of, b : Made(class, of, b).bytes = b
  BY DEF Made
<1>5. \A class : ByName(class, p).bytes = Codeset(p.name)
  BY DEF ByName, Made
<1>6. \A class, b : Made_of(class, p, "char", b).bytes = b
  BY DEF Made_of, Made
<1>7. CASE category = "message"
  BY <1>7 DEF facet, Message
<1>8. CASE category = "calendar"
  BY <1>8 DEF facet, Calendar
<1>9. CASE category = "information"
  BY <1>2, <1>4, <1>9 DEF facet, Information
<1>10. CASE category \notin {"message", "calendar", "information"}
  <2>1. CASE kind = "std"
    <3>1. f = std_install(o, p, category, "char")
      BY <1>10, <2>1 DEF facet
    <3>2. Honoured(std_convert(p, "char").bytes)
      BY <1>1, <1>3, <1>4, <1>5, <1>13, <2>1 DEF std_convert
    <3>3. Honoured(std_collate(p, "char").bytes)
      BY <1>1, <1>3, <1>4, <1>5, <1>13, <2>1 DEF std_collate
    <3>4. Honoured(std_codecvt(p, "char").bytes)
      BY <1>1, <1>3, <1>4, <1>5, <1>13, <2>1 DEF std_codecvt
    <3>5. Honoured(std_parsing(p, "char").bytes)
      BY <1>1, <1>3, <1>4, <1>5, <1>13, <2>1 DEF std_parsing
    <3>6. Honoured(std_time_put(p, "char").bytes)
      BY <1>1, <1>3, <1>4, <1>5, <1>13, <2>1 DEF std_time_put
    <3> QED BY <1>10, <3>1, <3>2, <3>3, <3>4, <3>5, <3>6 DEF std_install
  <2>2. CASE kind = "posix"
    <3>1. f = posix_install(o, p, category, "char")
      BY <1>10, <2>2 DEF facet
    <3>2. Honoured(Codeset(p.name))
      BY <1>1, <1>13, <2>2
    <3>3. Honoured(posix_convert(p, "char").bytes)
      BY <1>4, <1>5, <3>2 DEF posix_convert, ByName
    <3> QED BY <1>6, <1>10, <3>1, <3>2, <3>3 DEF posix_install, codepage
  <2>3. CASE kind = "winapi"
    <3>1. f = winapi_install(o, p, category, "char") /\ bytes = utf8
      BY <1>3, <1>10, <2>3 DEF facet
    <3> QED BY <1>4, <1>6, <1>10, <3>1 DEF winapi_install
  <2>4. CASE kind = "icu"
    <3>1. f = icu_install(o, p, category, "char")
      BY <1>10, <2>4 DEF facet
    <3> QED BY <1>4, <1>6, <1>10, <3>1 DEF icu_install, codepage
  <2> QED BY <2>1, <2>2, <2>3, <2>4 DEF Kinds
<1> QED BY <1>7, <1>8, <1>9, <1>10

\* No char facet takes text of one encoding for text of another, whatever the
\* names, the system's locales, their encodings and the environment.
THEOREM EncodingIsAlwaysHonoured ==
    ASSUME InstallCategories \subseteq
               {"convert", "collation", "formatting", "dates", "parsing", "codepage",
                "boundary", "message", "calendar", "information"}
    PROVE  ObjectSpec => []EncodingIsHonoured
<1>1. ObjectInv => EncodingIsHonoured
  <2> SUFFICES ASSUME ObjectInv, ~invalid_, kind = "winapi" => is_utf8(prepared.data),
                      NEW category \in InstallCategories
               PROVE  LET f == facet(options, prepared, category, "char")
                      IN \/ f = NotMade
                         \/ f.bytes = normalize_encoding(prepared.data.encoding)
                         \/ prepared.name = ClassicName
                         \/ /\ normalize_encoding(prepared.data.encoding) = ascii
                            /\ prepared.name = prepared.real /\ f.bytes = Codeset(prepared.name)
                         \/ /\ prepared.name = WinName(prepared.real).name
                            /\ fits(WinName(prepared.real), prepared.data.encoding)
    BY DEF EncodingIsHonoured
  <2>1. PICK e \in seen : prepared = prepare(options, e)
    BY DEF ObjectInv
  <2> QED BY <2>1, CharFacets DEF ObjectInv
<1> QED BY <1>1, ObjectInitInv, ObjectNextInv, PTL DEF ObjectSpec

-----------------------------------------------------------------------------
(* The generator. *)

\* What is known of a locale that is stored or about to be: it was built, for
\* this id, under one of the configurations since the cache was last cleared.
MadeFor(l, id, inforce) ==
    /\ l # NoLocale
    /\ \E c \in inforce : \A s \in Installed(c) : l.facets[s] = Facet(c, id, s)

GeneratorTypeInv ==
    /\ caching_enabled \in BOOLEAN /\ built \in Nat
    /\ step \in [Threads -> {"idle", "lookup", "build", "store"}]
    /\ call = [t \in Threads |-> call[t]]
    /\ result = [t \in Threads |-> result[t]]
    /\ hit = [t \in Threads |-> hit[t]]

CacheInv ==
    /\ config \in inForce
    /\ \A i \in DOMAIN cached : MadeFor(cached[i], i, inForce)

\* What a thread within generate() relies on although it holds no lock: nothing
\* is taken out of the cache, and caching is not switched off.
ThreadInv(t) ==
    /\ step[t] \in {"lookup", "store"} => caching_enabled
    /\ hit[t] # NoLocale =>
            step[t] = "lookup" /\ IsCached(call[t].id) /\ hit[t] = cached[call[t].id]
    /\ step[t] = "store" => MadeFor(result[t], call[t].id, inForce)

GeneratorInv == GeneratorTypeInv /\ CacheInv /\ \A t \in Threads : ThreadInv(t)

LEMMA GeneratorInitInv == GeneratorInit => GeneratorInv
<1> SUFFICES ASSUME GeneratorInit
             PROVE  GeneratorInv
  OBVIOUS
<1>1. GeneratorTypeInv
  BY DEF GeneratorInit, GeneratorTypeInv
<1>2. CacheInv
  BY DEF GeneratorInit, CacheInv
<1>3. ASSUME NEW t \in Threads PROVE ThreadInv(t)
  BY DEF GeneratorInit, ThreadInv
<1> QED BY <1>1, <1>2, <1>3 DEF GeneratorInv

\* A locale that is built (generator.cpp:118) counts its objects from 1.
LEMMA BuiltIsMade ==
    ASSUME built \in Nat, NEW c \in inForce, NEW id, NEW base, NEW l,
           l.facets = Build(c, id, base).facets, l.object = built + 1
    PROVE  MadeFor(l, id, inForce)
<1>1. l # NoLocale
  <2>1. NoLocale.object = 0
    BY DEF NoLocale, OwnFacets
  <2> QED BY <2>1
<1>2. \A s \in Installed(c) : l.facets[s] = Facet(c, id, s)
  BY DEF Build, Installed
<1> QED BY <1>1, <1>2 DEF MadeFor

\* A setter runs while no thread is within generate() (the member functions that
\* are not const).
LEMMA SetterInv ==
    ASSUME GeneratorInv, Setter, UNCHANGED threads, built' = built, caching_enabled' \in BOOLEAN, CacheInv'
    PROVE  GeneratorInv'
<1>1. GeneratorTypeInv'
  BY DEF GeneratorInv, GeneratorTypeInv, threads
<1>2. ASSUME NEW t \in Threads PROVE ThreadInv(t)'
  BY DEF GeneratorInv, ThreadInv, Setter, Quiet, threads, IsCached
<1> QED BY <1>1, <1>2 DEF GeneratorInv

LEMMA ConfigureInv ==
    ASSUME GeneratorInv, NEW c, Configure(c)
    PROVE  GeneratorInv'
<1>1. /\ Setter /\ config' = c /\ inForce' = inForce \cup {c}
      /\ UNCHANGED <<caching_enabled, cached, threads, built>>
  BY DEF Configure
<1>2. CacheInv'
  BY <1>1 DEF GeneratorInv, CacheInv, MadeFor
<1> QED BY <1>1, <1>2, SetterInv DEF GeneratorInv, GeneratorTypeInv

LEMMA SettersInv == GeneratorInv /\ Setters => GeneratorInv'
<1> SUFFICES ASSUME GeneratorInv, Setters
             PROVE  GeneratorInv'
  OBVIOUS
<1>1. CASE clear_cache
  <2>1. CacheInv'
    BY <1>1 DEF clear_cache, CacheInv
  <2> QED BY <1>1, <2>1, SetterInv DEF clear_cache, GeneratorInv, GeneratorTypeInv
<1>2. ASSUME NEW v \in BOOLEAN, locale_cache_enabled(v)
      PROVE  GeneratorInv'
  <2>1. CacheInv'
    BY <1>2 DEF locale_cache_enabled, GeneratorInv, CacheInv
  <2> QED BY <1>2, <2>1, SetterInv DEF locale_cache_enabled
<1> QED BY <1>1, <1>2, ConfigureInv
        DEF Setters, SetCategories, SetCharacters, UseAnsiEncoding, add_messages_domain,
            set_default_messages_domain, add_messages_path, clear_domains, clear_paths

LEMMA GenerateInv ==
    ASSUME GeneratorInv, NEW t \in Threads, NEW id, NEW base, Generate(t, id, base)
    PROVE  GeneratorInv'
<1>1. /\ step' = [step EXCEPT ![t] = IF caching_enabled THEN "lookup" ELSE "build"]
      /\ call' = [call EXCEPT ![t] = [id |-> id, base |-> base]]
      /\ hit' = [hit EXCEPT ![t] = IF caching_enabled /\ IsCached(id) THEN cached[id] ELSE NoLocale]
      /\ UNCHANGED <<config, caching_enabled, cached, result, inForce, built>>
  BY DEF Generate, data
<1>2. GeneratorTypeInv'
  BY <1>1 DEF GeneratorInv, GeneratorTypeInv
<1>3. CacheInv'
  BY <1>1 DEF GeneratorInv, CacheInv
<1>4. ASSUME NEW u \in Threads PROVE ThreadInv(u)'
  <2>1. CASE u = t
    BY <1>1, <2>1 DEF GeneratorInv, GeneratorTypeInv, ThreadInv, IsCached
  <2>2. CASE u # t
    BY <1>1, <2>2 DEF GeneratorInv, GeneratorTypeInv, ThreadInv, IsCached
  <2> QED BY <2>1, <2>2
<1> QED BY <1>2, <1>3, <1>4 DEF GeneratorInv

\* A step of one thread that leaves the cache and the configuration alone.
LEMMA ThreadStepInv ==
    ASSUME GeneratorInv, NEW t \in Threads, GeneratorTypeInv', UNCHANGED <<data, inForce>>, ThreadInv(t)',
           \A u \in Threads \ {t} : /\ step'[u] = step[u] /\ call'[u] = call[u]
                                   /\ hit'[u] = hit[u] /\ result'[u] = result[u]
    PROVE  GeneratorInv'
<1>1. CacheInv'
  BY DEF GeneratorInv, CacheInv, data
<1>2. ASSUME NEW u \in Threads \ {t} PROVE ThreadInv(u)'
  BY DEF GeneratorInv, ThreadInv, data, IsCached
<1> QED BY <1>1, <1>2 DEF GeneratorInv

LEMMA LookupInv ==
    ASSUME GeneratorInv, NEW t \in Threads, Lookup(t)
    PROVE  GeneratorInv'
<1>1. step[t] = "lookup" /\ UNCHANGED <<data, inForce, built, config, caching_enabled, cached>>
  BY DEF Lookup, data
<1>2. CASE IsCached(call[t].id)
  <2>1. /\ step' = [step EXCEPT ![t] = "idle"] /\ call' = [call EXCEPT ![t] = NoCall]
        /\ hit' = [hit EXCEPT ![t] = NoLocale]
        /\ result' = [result EXCEPT ![t] = cached[call[t].id]]
    BY <1>2 DEF Lookup, Return
  <2>2. GeneratorTypeInv'
    BY <1>1, <2>1 DEF GeneratorInv, GeneratorTypeInv
  <2>3. ThreadInv(t)'
    BY <2>1 DEF GeneratorInv, GeneratorTypeInv, ThreadInv
  <2> QED BY <1>1, <2>1, <2>2, <2>3, ThreadStepInv DEF GeneratorInv, GeneratorTypeInv
<1>3. CASE ~IsCached(call[t].id)
  <2>1. step' = [step EXCEPT ![t] = "build"] /\ UNCHANGED <<call, result, hit>>
    BY <1>3 DEF Lookup
  <2>2. GeneratorTypeInv'
    BY <1>1, <2>1 DEF GeneratorInv, GeneratorTypeInv
  <2>3. ThreadInv(t)'
    BY <1>3, <2>1 DEF GeneratorInv, GeneratorTypeInv, ThreadInv
  <2> QED BY <1>1, <2>1, <2>2, <2>3, ThreadStepInv DEF GeneratorInv, GeneratorTypeInv
<1> QED BY <1>2, <1>3

LEMMA BuildLocaleInv ==
    ASSUME GeneratorInv, NEW t \in Threads, BuildLocale(t)
    PROVE  GeneratorInv'
<1> DEFINE b == Build(config, call[t].id, call[t].base)
           l == [root |-> b.root, facets |-> b.facets, object |-> built + 1]
<1>1. /\ step[t] = "build" /\ built' = built + 1
      /\ result' = [result EXCEPT ![t] = l]
      /\ UNCHANGED <<data, inForce, config, caching_enabled, cached>>
  BY DEF BuildLocale, data
<1>2. MadeFor(l, call[t].id, inForce)
  BY BuiltIsMade DEF GeneratorInv, GeneratorTypeInv, CacheInv
<1> HIDE DEF l
<1>3. CASE caching_enabled
  <2>1. step' = [step EXCEPT ![t] = "store"] /\ UNCHANGED <<call, hit>>
    BY <1>3 DEF BuildLocale
  <2>2. GeneratorTypeInv'
    BY <1>1, <2>1 DEF GeneratorInv, GeneratorTypeInv
  <2>3. result'[t] = l /\ step'[t] = "store" /\ hit[t] = NoLocale
    BY <1>1, <2>1 DEF GeneratorInv, GeneratorTypeInv, ThreadInv
  <2>4. ThreadInv(t)'
    BY <1>1, <1>2, <1>3, <2>1, <2>3 DEF ThreadInv
  <2> QED BY <1>1, <2>1, <2>2, <2>4, ThreadStepInv DEF GeneratorInv, GeneratorTypeInv
<1>4. CASE ~caching_enabled
  <2>1. /\ step' = [step EXCEPT ![t] = "idle"] /\ call' = [call EXCEPT ![t] = NoCall]
        /\ hit' = [hit EXCEPT ![t] = NoLocale]
    BY <1>4 DEF BuildLocale, Return
  <2>2. GeneratorTypeInv'
    <3> HIDE DEF b
    <3>1. result' = [u \in Threads |-> result'[u]]
      BY <1>1 DEF GeneratorInv, GeneratorTypeInv
    <3>2. call' = [u \in Threads |-> call'[u]] /\ hit' = [u \in Threads |-> hit'[u]]
      BY <2>1 DEF GeneratorInv, GeneratorTypeInv
    <3> QED BY <1>1, <2>1, <3>1, <3>2 DEF GeneratorInv, GeneratorTypeInv
  <2>3. ThreadInv(t)'
    BY <2>1 DEF GeneratorInv, GeneratorTypeInv, ThreadInv
  <2> QED BY <1>1, <2>1, <2>2, <2>3, ThreadStepInv DEF GeneratorInv, GeneratorTypeInv
<1> QED BY <1>3, <1>4

LEMMA BuildThrowsInv ==
    ASSUME GeneratorInv, NEW t \in Threads, BuildThrows(t)
    PROVE  GeneratorInv'
<1>1. /\ UNCHANGED <<data, inForce, built, config, caching_enabled, cached>>
      /\ step' = [step EXCEPT ![t] = "idle"] /\ call' = [call EXCEPT ![t] = NoCall]
      /\ hit' = [hit EXCEPT ![t] = NoLocale]
      /\ result' = [result EXCEPT ![t] = NoLocale]
  BY DEF BuildThrows, Return, data
<1>2. GeneratorTypeInv'
  BY <1>1 DEF GeneratorInv, GeneratorTypeInv
<1>3. ThreadInv(t)'
  BY <1>1 DEF GeneratorInv, GeneratorTypeInv, ThreadInv
<1> QED BY <1>1, <1>2, <1>3, ThreadStepInv DEF GeneratorInv, GeneratorTypeInv

\* A locale that is stored is put beside those that are (generator.cpp:137).
LEMMA StoreKeeps ==
    ASSUME NEW t \in Threads, Store(t)
    PROVE  /\ \A i \in DOMAIN cached : i \in DOMAIN cached' /\ cached'[i] = cached[i]
           /\ \A i \in DOMAIN cached' \ DOMAIN cached :
                    i = call[t].id /\ cached'[i] = result[t]
  BY DEF Store, IsCached

LEMMA StoreInv ==
    ASSUME GeneratorInv, NEW t \in Threads, Store(t)
    PROVE  GeneratorInv'
<1>1. /\ step[t] = "store" /\ UNCHANGED <<config, caching_enabled, result, inForce, built>>
      /\ step' = [step EXCEPT ![t] = "idle"] /\ call' = [call EXCEPT ![t] = NoCall]
      /\ hit' = [hit EXCEPT ![t] = NoLocale]
  BY DEF Store, Return
<1>2. GeneratorTypeInv'
  BY <1>1 DEF GeneratorInv, GeneratorTypeInv
<1>3. MadeFor(result[t], call[t].id, inForce)
  BY <1>1 DEF GeneratorInv, ThreadInv
<1>4. CacheInv'
  <2>1. ASSUME NEW i \in DOMAIN cached' PROVE MadeFor(cached'[i], i, inForce)
    BY <1>3, StoreKeeps DEF GeneratorInv, CacheInv
  <2> QED BY <1>1, <2>1 DEF GeneratorInv, CacheInv
<1>5. ASSUME NEW u \in Threads PROVE ThreadInv(u)'
  <2>1. CASE u = t
    BY <1>1, <2>1 DEF GeneratorInv, GeneratorTypeInv, ThreadInv
  <2>2. CASE u # t
    BY <1>1, <2>2, StoreKeeps DEF GeneratorInv, GeneratorTypeInv, ThreadInv, IsCached
  <2> QED BY <2>1, <2>2
<1> QED BY <1>2, <1>4, <1>5 DEF GeneratorInv

LEMMA GeneratorNextInv == GeneratorInv /\ [GeneratorNext]_generatorVars => GeneratorInv'
<1> SUFFICES ASSUME GeneratorInv, [GeneratorNext]_generatorVars
             PROVE  GeneratorInv'
  OBVIOUS
<1>1. CASE UNCHANGED generatorVars
  BY <1>1 DEF generatorVars, data, threads, GeneratorInv, GeneratorTypeInv, CacheInv, ThreadInv, IsCached
<1> QED BY <1>1, SettersInv, GenerateInv, LookupInv, BuildLocaleInv, BuildThrowsInv, StoreInv
        DEF GeneratorNext

-----------------------------------------------------------------------------
\* However many threads generate, a locale that is cached stays the one for its
\* id until clear_cache().
THEOREM CachedAlwaysStays == GeneratorSpec => CachedStays
<1> DEFINE Stays == \A i \in DOMAIN cached :
                      (i \in DOMAIN cached' /\ cached'[i] = cached[i]) \/ clear_cache
<1>1. [GeneratorNext]_generatorVars => [Stays]_generatorVars
  <2> SUFFICES ASSUME GeneratorNext, ~clear_cache
               PROVE  Stays
    OBVIOUS
  <2>1. ASSUME NEW c, Configure(c) PROVE cached' = cached
    BY <2>1 DEF Configure
  <2>2. CASE Setters
    BY <2>1, <2>2
       DEF Setters, SetCategories, SetCharacters, UseAnsiEncoding, add_messages_domain,
           set_default_messages_domain, add_messages_path, clear_domains, clear_paths,
           locale_cache_enabled
  <2>3. ASSUME NEW t \in Threads, NEW id, NEW base,
               Generate(t, id, base) \/ Lookup(t) \/ BuildLocale(t) \/ BuildThrows(t)
        PROVE  cached' = cached
    BY <2>3 DEF Generate, Lookup, BuildLocale, BuildThrows, data
  <2> QED BY <2>2, <2>3, StoreKeeps DEF GeneratorNext
<1> QED BY <1>1, PTL DEF GeneratorSpec, CachedStays

\* What is promised of the locale that a step of thread t returns.
AskedFor(t) ==
    Returned(t) => ReturnsFacetsInForce(t) /\ ReturnsHit(t) /\ ReturnsExtendedBase(t)

\* No step of another thread, and no setter, returns from a call.
LEMMA OthersDoNotReturn ==
    ASSUME GeneratorInv, NEW t \in Threads, step'[t] = step[t] \/ step'[t] # "idle"
    PROVE  AskedFor(t)
  BY DEF AskedFor, Returned

LEMMA LookupReturns ==
    ASSUME GeneratorInv, NEW t \in Threads, Lookup(t)
    PROVE  AskedFor(t)
<1>1. CASE IsCached(call[t].id)
  <2>1. result'[t] = cached[call[t].id] /\ caching_enabled
    BY <1>1 DEF Lookup, GeneratorInv, GeneratorTypeInv, ThreadInv
  <2>2. MadeFor(result'[t], call[t].id, inForce)
    BY <1>1, <2>1 DEF GeneratorInv, CacheInv, IsCached
  <2>3. ReturnsFacetsInForce(t)
    BY <2>2 DEF MadeFor, ReturnsFacetsInForce
  <2>4. ReturnsHit(t)
    BY <2>1 DEF ReturnsHit, GeneratorInv, ThreadInv
  <2> QED BY <2>1, <2>3, <2>4 DEF AskedFor, ReturnsExtendedBase
<1>2. CASE ~IsCached(call[t].id)
  BY <1>2, OthersDoNotReturn DEF Lookup, GeneratorInv, GeneratorTypeInv
<1> QED BY <1>1, <1>2

LEMMA BuildReturns ==
    ASSUME GeneratorInv, NEW t \in Threads, BuildLocale(t)
    PROVE  AskedFor(t)
<1> DEFINE b == Build(config, call[t].id, call[t].base)
           l == [root |-> b.root, facets |-> b.facets, object |-> built + 1]
<1>1. step[t] = "build" /\ hit[t] = NoLocale /\ result' = [result EXCEPT ![t] = l]
  BY DEF BuildLocale, GeneratorInv, ThreadInv
<1>2. MadeFor(l, call[t].id, inForce)
  BY BuiltIsMade DEF GeneratorInv, GeneratorTypeInv, CacheInv
<1>3. l.root = b.root /\ l.facets = b.facets
  OBVIOUS
<1> HIDE DEF l
<1>4. result'[t] = l
  BY <1>1 DEF GeneratorInv, GeneratorTypeInv
<1>5. ReturnsFacetsInForce(t)
  BY <1>2, <1>4 DEF MadeFor, ReturnsFacetsInForce
<1>6. ReturnsHit(t)
  BY <1>1 DEF ReturnsHit
<1>7. ReturnsExtendedBase(t)
  <2>1. /\ b.root = call[t].base.root
        /\ \A s \in Slots : b.facets[s] = IF s \in Installed(config)
                                         THEN Facet(config, call[t].id, s)
                                         ELSE call[t].base.facets[s]
    BY DEF Build
  <2> HIDE DEF b
  <2> QED BY <1>3, <1>4, <2>1 DEF ReturnsExtendedBase
<1> QED BY <1>5, <1>6, <1>7 DEF AskedFor

LEMMA ThrowReturns ==
    ASSUME GeneratorInv, NEW t \in Threads, BuildThrows(t)
    PROVE  AskedFor(t)
  BY DEF BuildThrows, AskedFor, Returned, GeneratorInv, GeneratorTypeInv

LEMMA StoreReturns ==
    ASSUME GeneratorInv, NEW t \in Threads, Store(t)
    PROVE  AskedFor(t)
<1>1. step[t] = "store" /\ hit[t] = NoLocale /\ caching_enabled /\ result' = result
  BY DEF Store, GeneratorInv, ThreadInv
<1>2. MadeFor(result'[t], call[t].id, inForce)
  BY <1>1 DEF GeneratorInv, ThreadInv
<1> QED BY <1>1, <1>2
        DEF MadeFor, AskedFor, ReturnsFacetsInForce, ReturnsHit, ReturnsExtendedBase

\* Whatever other threads generate at the same time and whatever the settings
\* were before, generate() returns a locale of the id it was asked for, under a
\* configuration since the last clear_cache(), and the cached one if there was
\* one when it began.
THEOREM ReturnedIsAlwaysAskedFor == GeneratorSpec => ReturnedIsAskedFor
<1> DEFINE A == \A t \in Threads :
                  Returned(t) => ReturnsFacetsInForce(t) /\ ReturnsHit(t) /\ ReturnsExtendedBase(t)
<1>1. GeneratorInv /\ [GeneratorNext]_generatorVars => [A]_generatorVars
  <2> SUFFICES ASSUME GeneratorInv, GeneratorNext, NEW t \in Threads
               PROVE  AskedFor(t)
    BY DEF AskedFor
  <2>1. ASSUME NEW c, Configure(c) PROVE step' = step
    BY <2>1 DEF Configure, threads
  <2>2. CASE Setters
    <3>1. step' = step
      BY <2>1, <2>2
         DEF Setters, SetCategories, SetCharacters, UseAnsiEncoding, add_messages_domain,
             set_default_messages_domain, add_messages_path, clear_domains, clear_paths,
             locale_cache_enabled, clear_cache, threads
    <3> QED BY <3>1, OthersDoNotReturn
  <2>3. ASSUME NEW u \in Threads, NEW id, NEW base, Generate(u, id, base)
        PROVE  AskedFor(t)
    <3>1. step'[t] = step[t] \/ step'[t] # "idle"
      BY <2>3 DEF Generate, GeneratorInv, GeneratorTypeInv
    <3> QED BY <3>1, OthersDoNotReturn
  <2>4. ASSUME NEW u \in Threads \ {t}, Lookup(u) \/ BuildLocale(u) \/ BuildThrows(u) \/ Store(u)
        PROVE  AskedFor(t)
    <3>1. step'[t] = step[t]
      BY <2>4 DEF Lookup, BuildLocale, BuildThrows, Store, Return, GeneratorInv, GeneratorTypeInv
    <3> QED BY <3>1, OthersDoNotReturn
  <2> QED BY <2>2, <2>3, <2>4, LookupReturns, BuildReturns, ThrowReturns, StoreReturns DEF GeneratorNext
<1> QED BY <1>1, GeneratorInitInv, GeneratorNextInv, PTL DEF GeneratorSpec, ReturnedIsAskedFor
-----------------------------------------------------------------------------
(* Names of locales: what is read of a name is what is written of it.      *)

\* The names of tokens.
Spellings == Seq(Tokens)

LEMMA Least ==
    ASSUME NEW S, S \subseteq Nat, S # {}
    PROVE  \E n \in S : \A m \in S : n <= m
<1>1. IsWellFoundedOn({ss \in Nat \X Nat : ss[1] < ss[2]}, Nat)
  BY NatLessThanWellFounded DEF OpToRel
<1>2. PICK n \in S : \A m \in S : ~(<<m, n>> \in {ss \in Nat \X Nat : ss[1] < ss[2]})
  BY <1>1, WFMin
<1>3. ASSUME NEW m \in S
      PROVE  n <= m
  <2>1. n \in Nat /\ m \in Nat
    OBVIOUS
  <2>2. ~(<<m, n>> \in {ss \in Nat \X Nat : ss[1] < ss[2]})
    BY <1>2, <1>3
  <2>3. ~(m < n)
    BY <2>1, <2>2
  <2> QED BY <2>1, <2>3
<1> QED BY <1>3

\* A sequence without any of the marks.
Free(s, marks) == \A i \in 1 .. Len(s) : s[i] \notin {Mark(c) : c \in marks}

\* Where Cut finds the first mark, or the end.
At(s, marks) ==
    CHOOSE i \in 1 .. Len(s) + 1 :
        /\ i = Len(s) + 1 \/ s[i] \in {Mark(c) : c \in marks}
        /\ \A j \in 1 .. i - 1 : s[j] \notin {Mark(c) : c \in marks}

LEMMA CutIs ==
    ASSUME NEW s, NEW marks
    PROVE  /\ Cut(s, marks).part = SubSeq(s, 1, At(s, marks) - 1)
           /\ Cut(s, marks).mark = (IF At(s, marks) > Len(s) THEN "end" ELSE s[At(s, marks)][1])
           /\ Cut(s, marks).rest = SubSeq(s, At(s, marks) + 1, Len(s))
  BY Zenon DEF Cut, At

LEMMA AtExists ==
    ASSUME NEW s \in Spellings, NEW marks
    PROVE  /\ At(s, marks) \in 1 .. Len(s) + 1
           /\ At(s, marks) = Len(s) + 1 \/ s[At(s, marks)] \in {Mark(c) : c \in marks}
           /\ \A j \in 1 .. At(s, marks) - 1 : s[j] \notin {Mark(c) : c \in marks}
<1> DEFINE M == {Mark(c) : c \in marks}
           T == {i \in 1 .. Len(s) + 1 : i = Len(s) + 1 \/ s[i] \in M}
<1>0. Len(s) \in Nat
  BY DEF Spellings
<1> HIDE DEF M
<1>1. T \subseteq Nat /\ T # {}
  <2>1. Len(s) + 1 \in 1 .. Len(s) + 1 /\ \A i \in 1 .. Len(s) + 1 : i \in Nat
    BY <1>0
  <2>2. Len(s) + 1 \in T
    BY <2>1, Zenon
  <2> QED BY <2>1, <2>2, Zenon
<1>2. PICK i \in T : \A m \in T : i <= m
  BY <1>1, Least, Zenon
<1>3. \A j \in 1 .. i - 1 : s[j] \notin M
  BY <1>0, <1>2
<1>4. i \in 1 .. Len(s) + 1 /\ (i = Len(s) + 1 \/ s[i] \in M)
  BY <1>2
<1>5. At(s, marks) = CHOOSE k \in 1 .. Len(s) + 1 :
          (k = Len(s) + 1 \/ s[k] \in M) /\ \A j \in 1 .. k - 1 : s[j] \notin M
  BY Zenon DEF At, M
<1>6. /\ At(s, marks) \in 1 .. Len(s) + 1
      /\ At(s, marks) = Len(s) + 1 \/ s[At(s, marks)] \in M
      /\ \A j \in 1 .. At(s, marks) - 1 : s[j] \notin M
  BY <1>3, <1>4, <1>5, Zenon
<1> QED BY <1>6, Zenon DEF M

\* The one place that fits is the one that is found.
LEMMA AtIs ==
    ASSUME NEW s \in Spellings, NEW marks, NEW i \in 1 .. Len(s) + 1,
           i = Len(s) + 1 \/ s[i] \in {Mark(c) : c \in marks},
           \A j \in 1 .. i - 1 : s[j] \notin {Mark(c) : c \in marks}
    PROVE  At(s, marks) = i
<1> DEFINE M == {Mark(c) : c \in marks}
           a == At(s, marks)
<1>1. Len(s) \in Nat
  BY DEF Spellings
<1>2. /\ a \in 1 .. Len(s) + 1
      /\ a = Len(s) + 1 \/ s[a] \in M
      /\ \A j \in 1 .. a - 1 : s[j] \notin M
  BY AtExists, Zenon
<1>3. /\ i = Len(s) + 1 \/ s[i] \in M
      /\ \A j \in 1 .. i - 1 : s[j] \notin M
  OBVIOUS
<1> HIDE DEF a, M
<1>4. ~(a < i)
  BY <1>1, <1>2, <1>3
<1>5. ~(i < a)
  BY <1>1, <1>2, <1>3
<1>6. a = i
  BY <1>1, <1>2, <1>4, <1>5
<1> QED BY <1>6 DEF a

\* A name is what Cut makes of it, put together again.
LEMMA CutSplits ==
    ASSUME NEW s \in Spellings, NEW marks, NEW c, c = Cut(s, marks)
    PROVE  /\ c.part \in Spellings /\ c.rest \in Spellings /\ Free(c.part, marks)
           /\ \/ c.mark = "end" /\ s = c.part
              \/ c.mark \in marks /\ s = c.part \o (<<Mark(c.mark)>> \o c.rest)
<1> DEFINE M == {Mark(x) : x \in marks}
           a == At(s, marks)
<1>1. /\ Len(s) \in Nat
      /\ \A i \in 1 .. Len(s) : s[i] \in Tokens
  BY DEF Spellings
<1>2. /\ a \in 1 .. Len(s) + 1
      /\ a = Len(s) + 1 \/ s[a] \in M
      /\ \A j \in 1 .. a - 1 : s[j] \notin M
  BY AtExists, Zenon
<1>3. /\ c.part = SubSeq(s, 1, a - 1)
      /\ c.mark = (IF a > Len(s) THEN "end" ELSE s[a][1])
      /\ c.rest = SubSeq(s, a + 1, Len(s))
  BY CutIs
<1> HIDE DEF a
<1>4. /\ c.part \in Spellings /\ Len(c.part) = a - 1
      /\ \A i \in 1 .. a - 1 : c.part[i] = s[i]
  <2>1. \A i \in 1 .. a - 1 : s[i] \in Tokens
    BY <1>1, <1>2
  <2>2. 1 \in Int /\ a - 1 \in Int /\ a \in Int
    BY <1>1, <1>2
  <2>3. /\ SubSeq(s, 1, a - 1) \in Seq(Tokens)
        /\ Len(SubSeq(s, 1, a - 1)) = IF 1 <= a - 1 THEN (a - 1) - 1 + 1 ELSE 0
        /\ \A i \in 1 .. (a - 1) - 1 + 1 : SubSeq(s, 1, a - 1)[i] = s[1 + i - 1]
    BY <2>1, <2>2, SubSeqProperties, SMTT(20)
  <2>4. (IF 1 <= a - 1 THEN (a - 1) - 1 + 1 ELSE 0) = a - 1 /\ (a - 1) - 1 + 1 = a - 1
    BY <1>1, <1>2
  <2>5. \A i \in 1 .. a - 1 : 1 + i - 1 = i
    BY <2>2
  <2> QED BY <1>3, <2>3, <2>4, <2>5 DEF Spellings
<1>5. c.rest \in Spellings
  <2>1. \A i \in a + 1 .. Len(s) : s[i] \in Tokens
    BY <1>1, <1>2
  <2>2. a + 1 \in Int /\ Len(s) \in Int
    BY <1>1, <1>2
  <2> QED BY <1>3, <2>1, <2>2, SubSeqProperties DEF Spellings
<1>6. Free(c.part, marks)
  BY <1>2, <1>4 DEF Free
<1>7. CASE a = Len(s) + 1
  <2>1. c.mark = "end"
    BY <1>1, <1>3, <1>7
  <2>2. SubSeq(s, 1, Len(s)) = s
    BY SubSeqFull DEF Spellings
  <2>3. a - 1 = Len(s)
    BY <1>1, <1>7
  <2> QED BY <1>3, <1>4, <1>5, <1>6, <2>1, <2>2, <2>3
<1>8. CASE a # Len(s) + 1
  <2>1. a \in 1 .. Len(s) /\ s[a] \in M
    BY <1>1, <1>2, <1>8
  <2>2. PICK x \in marks : s[a] = Mark(x)
    BY <2>1
  <2>3. c.mark = x /\ s[a] = Mark(c.mark)
    <3>1. c.mark = s[a][1]
      BY <1>1, <1>3, <2>1
    <3> QED BY <2>2, <3>1 DEF Mark
  <2>4. SubSeq(s, a, Len(s)) = <<s[a]>> \o SubSeq(s, a + 1, Len(s))
    <3>1. Len(s) \in a .. Len(s)
      BY <1>1, <2>1
    <3> QED BY <2>1, <3>1, SubSeqRecursiveFirst DEF Spellings
  <2>5. SubSeq(s, 1, a - 1) \o SubSeq(s, a, Len(s)) = SubSeq(s, 1, Len(s))
    <3>1. /\ 1 \in 1 .. Len(s) + 1 /\ a - 1 \in 1 - 1 .. Len(s) /\ Len(s) \in a - 1 .. Len(s)
          /\ (a - 1) + 1 = a
      BY <1>1, <2>1
    <3>2. SubSeq(s, 1, a - 1) \o SubSeq(s, (a - 1) + 1, Len(s)) = SubSeq(s, 1, Len(s))
      BY <3>1, ConcatAdjacentSubSeq DEF Spellings
    <3> QED BY <3>1, <3>2
  <2>6. SubSeq(s, 1, Len(s)) = s
    BY SubSeqFull DEF Spellings
  <2>7. s = c.part \o (<<Mark(c.mark)>> \o c.rest)
    BY <1>3, <2>3, <2>4, <2>5, <2>6
  <2> QED BY <1>4, <1>5, <1>6, <2>2, <2>3, <2>7
<1> QED BY <1>7, <1>8

LEMMA MarkIsToken ==
    ASSUME NEW c \in Marks
    PROVE  Mark(c) \in Tokens /\ <<Mark(c)>> \in Spellings
<1>1. Mark(c) \in Tokens
  <2>1. "mark" \in Forms
    BY DEF Forms
  <2> QED BY <2>1, Zenon DEF Mark, Tokens
<1> DEFINE x == Mark(c)
<1> HIDE DEF x
<1>2. \A y \in Tokens : <<y>> \in Seq(Tokens)
  OBVIOUS
<1> QED BY <1>1, <1>2, Zenon DEF Spellings, x

\* What is before the first mark and behind it.
LEMMA CutEnd ==
    ASSUME NEW p \in Spellings, NEW marks, Free(p, marks)
    PROVE  Cut(p, marks).part = p /\ Cut(p, marks).mark = "end"
<1>1. Len(p) \in Nat
  BY DEF Spellings
<1>2. At(p, marks) = Len(p) + 1
  <2>1. Len(p) + 1 \in 1 .. Len(p) + 1 /\ (Len(p) + 1) - 1 = Len(p)
    BY <1>1
  <2>2. \A j \in 1 .. (Len(p) + 1) - 1 : p[j] \notin {Mark(c) : c \in marks}
    BY <2>1 DEF Free
  <2> QED BY <2>1, <2>2, AtIs
<1>3. SubSeq(p, 1, Len(p)) = p
  BY SubSeqFull DEF Spellings
<1>4. (Len(p) + 1) - 1 = Len(p) /\ Len(p) + 1 > Len(p)
  BY <1>1
<1> QED BY <1>2, <1>3, <1>4, CutIs

LEMMA CutMark ==
    ASSUME NEW p \in Spellings, NEW marks, Free(p, marks), NEW m \in marks, m \in Marks, NEW r \in Spellings
    PROVE  LET c == Cut(p \o (<<Mark(m)>> \o r), marks)
           IN  c.part = p /\ c.mark = m /\ c.rest = r
<1> DEFINE q == <<Mark(m)>> \o r
           s == p \o q
           M == {Mark(c) : c \in marks}
<1>1. /\ Len(p) \in Nat /\ Len(r) \in Nat
      /\ q \in Spellings /\ Len(q) = 1 + Len(r) /\ q[1] = Mark(m)
      /\ \A i \in 1 .. Len(r) : q[1 + i] = r[i]
  <2>1. <<Mark(m)>> \in Seq(Tokens) /\ Len(<<Mark(m)>>) = 1
    BY MarkIsToken DEF Spellings
  <2>2. r \in Seq(Tokens) /\ Len(r) \in Nat /\ Len(p) \in Nat
    BY DEF Spellings
  <2>3. /\ q \in Seq(Tokens) /\ Len(q) = 1 + Len(r)
        /\ \A i \in 1 .. 1 + Len(r) : q[i] = IF i <= 1 THEN <<Mark(m)>>[i] ELSE r[i - 1]
    BY <2>1, <2>2, ConcatProperties
  <2> HIDE DEF q
  <2>4. 1 \in 1 .. 1 + Len(r) /\ \A i \in 1 .. Len(r) : 1 + i \in 1 .. 1 + Len(r) /\ ~(1 + i <= 1) /\ (1 + i) - 1 = i
    BY <2>2
  <2>5. q[1] = Mark(m)
    <3>1. 1 \in 1 .. 1 + Len(r) /\ 1 <= 1
      BY <2>2
    <3>2. <<Mark(m)>>[1] = Mark(m)
      OBVIOUS
    <3> QED BY <2>3, <3>1, <3>2, Zenon
  <2>6. \A i \in 1 .. Len(r) : q[1 + i] = r[i]
    BY <2>3, <2>4
  <2> QED BY <2>2, <2>3, <2>5, <2>6 DEF Spellings
<1> HIDE DEF q
<1>2. /\ s \in Spellings /\ Len(s) = Len(p) + 1 + Len(r)
      /\ \A i \in 1 .. Len(p) : s[i] = p[i]
      /\ s[Len(p) + 1] = Mark(m)
      /\ \A i \in 1 .. Len(r) : s[Len(p) + 1 + i] = r[i]
  <2>1. p \in Seq(Tokens) /\ q \in Seq(Tokens)
    BY <1>1 DEF Spellings
  <2>2. /\ s \in Seq(Tokens) /\ Len(s) = Len(p) + Len(q)
        /\ \A i \in 1 .. Len(p) + Len(q) : s[i] = IF i <= Len(p) THEN p[i] ELSE q[i - Len(p)]
    BY <2>1, ConcatProperties
  <2> HIDE DEF s
  <2>3. /\ \A i \in 1 .. Len(p) : i \in 1 .. Len(p) + Len(q) /\ i <= Len(p)
        /\ Len(p) + 1 \in 1 .. Len(p) + Len(q) /\ ~(Len(p) + 1 <= Len(p)) /\ (Len(p) + 1) - Len(p) = 1
        /\ \A i \in 1 .. Len(r) : /\ Len(p) + 1 + i \in 1 .. Len(p) + Len(q) /\ ~(Len(p) + 1 + i <= Len(p))
                                  /\ (Len(p) + 1 + i) - Len(p) = 1 + i
    BY <1>1
  <2>4. Len(s) = Len(p) + 1 + Len(r)
    BY <1>1, <2>2
  <2> QED BY <1>1, <2>2, <2>3, <2>4 DEF Spellings
<1> HIDE DEF s
<1>3. At(s, marks) = Len(p) + 1
  <2>1. Len(p) + 1 \in 1 .. Len(s) + 1 /\ (Len(p) + 1) - 1 = Len(p)
    BY <1>1, <1>2
  <2>2. s[Len(p) + 1] \in M
    BY <1>2
  <2>3. \A j \in 1 .. (Len(p) + 1) - 1 : s[j] \notin M
    BY <1>2, <2>1 DEF Free
  <2> QED BY <1>2, <2>1, <2>2, <2>3, AtIs
<1>4. /\ (Len(p) + 1) - 1 = Len(p) /\ ~(Len(p) + 1 > Len(s)) /\ (Len(p) + 1) + 1 = Len(p) + 2
      /\ 1 \in Int /\ Len(p) \in Int /\ Len(p) + 2 \in Int /\ Len(s) \in Int
      /\ Len(s) - (Len(p) + 2) + 1 = Len(r)
      /\ (IF Len(p) + 2 <= Len(s) THEN Len(s) - (Len(p) + 2) + 1 ELSE 0) = Len(r)
      /\ (IF 1 <= Len(p) THEN Len(p) - 1 + 1 ELSE 0) = Len(p) /\ Len(p) - 1 + 1 = Len(p)
  BY <1>1, <1>2
<1>5. SubSeq(s, 1, Len(p)) = p
  <2>1. \A i \in 1 .. Len(p) : s[i] \in Tokens
    BY <1>1, <1>2 DEF Spellings
  <2>2. /\ SubSeq(s, 1, Len(p)) \in Seq(Tokens) /\ Len(SubSeq(s, 1, Len(p))) = Len(p)
        /\ \A i \in 1 .. Len(p) : SubSeq(s, 1, Len(p))[i] = s[1 + i - 1]
    BY <1>4, <2>1, SubSeqProperties
  <2>3. \A i \in 1 .. Len(p) : 1 + i - 1 = i
    OBVIOUS
  <2>4. \A i \in 1 .. Len(p) : SubSeq(s, 1, Len(p))[i] = p[i]
    BY <1>2, <2>2, <2>3
  <2> QED BY <2>2, <2>4, SeqEqual DEF Spellings
<1>6. SubSeq(s, Len(p) + 2, Len(s)) = r
  <2>1. \A i \in Len(p) + 2 .. Len(s) : s[i] \in Tokens
    BY <1>1, <1>2 DEF Spellings
  <2> DEFINE x == SubSeq(s, Len(p) + 2, Len(s))
  <2>2. /\ x \in Seq(Tokens) /\ Len(x) = Len(r)
        /\ \A i \in 1 .. Len(r) : x[i] = s[Len(p) + 2 + i - 1]
    BY <1>4, <2>1, SubSeqProperties
  <2> HIDE DEF x
  <2>3. \A i \in 1 .. Len(r) : Len(p) + 2 + i - 1 = Len(p) + 1 + i
    BY <1>1
  <2>4. \A i \in 1 .. Len(r) : x[i] = r[i]
    BY <1>2, <2>2, <2>3
  <2>5. x = r
    BY <2>2, <2>4, SeqEqual DEF Spellings
  <2> QED BY <2>5 DEF x
<1>7. /\ Cut(s, marks).part = p
      /\ Cut(s, marks).mark = s[Len(p) + 1][1]
      /\ Cut(s, marks).rest = r
  <2>1. At(s, marks) - 1 = Len(p) /\ At(s, marks) + 1 = Len(p) + 2 /\ ~(At(s, marks) > Len(s))
    BY <1>3, <1>4
  <2>2. /\ Cut(s, marks).part = SubSeq(s, 1, At(s, marks) - 1)
        /\ Cut(s, marks).mark = (IF At(s, marks) > Len(s) THEN "end" ELSE s[At(s, marks)][1])
        /\ Cut(s, marks).rest = SubSeq(s, At(s, marks) + 1, Len(s))
    BY CutIs, Zenon
  <2> QED BY <1>3, <1>5, <1>6, <2>1, <2>2, Zenon
<1>8. s[Len(p) + 1][1] = m
  BY <1>2 DEF Mark
<1> QED BY <1>7, <1>8 DEF s, q

-----------------------------------------------------------------------------
(* The forms of words. *)

Cases == {"lower", "upper", "capital"}
Again(t, form) == IF t[2] \in Cases THEN <<t[1], form>> ELSE t

LEMMA AgainToken ==
    ASSUME NEW t \in Tokens, NEW form \in Cases
    PROVE  /\ Again(t, form) \in Tokens
           /\ Again(t, form)[1] = t[1]
           /\ Again(t, form)[2] \in Cases <=> t[2] \in Cases
           /\ Again(t, form)[2] = "digits" <=> t[2] = "digits"
           /\ Again(t, form)[2] = "mark" <=> t[2] = "mark"
           /\ \A c : Again(t, form) = Mark(c) <=> t = Mark(c)
           /\ \A other \in Cases : Again(Again(t, form), other) = Again(t, other)
<1>1. t = <<t[1], t[2]>> /\ t[1] \in DOMAIN WordLength \cup Marks /\ t[2] \in Forms
  BY DEF Tokens
<1>2. CASE t[2] \in Cases
  <2>1. Again(t, form) = <<t[1], form>>
    BY <1>2, Zenon DEF Again
  <2>2. <<t[1], form>>[1] = t[1] /\ <<t[1], form>>[2] = form /\ form \in Forms /\ form # "digits" /\ form # "mark"
    BY DEF Cases, Forms
  <2>3. t[2] # "digits" /\ t[2] # "mark"
    BY <1>2 DEF Cases
  <2>4. <<t[1], form>> \in Tokens
    BY <1>1, <2>2, Zenon DEF Tokens
  <2>5. \A c : <<t[1], form>> # Mark(c) /\ t # Mark(c)
    BY <2>2, <2>3 DEF Mark
  <2>6. \A other \in Cases : Again(<<t[1], form>>, other) = <<t[1], other>> /\ Again(t, other) = <<t[1], other>>
    BY <1>2, <2>2, Zenon DEF Again
  <2> QED BY <1>2, <2>1, <2>2, <2>3, <2>4, <2>5, <2>6, Zenon
<1>3. CASE t[2] \notin Cases
  BY <1>3, Zenon DEF Again
<1> QED BY <1>2, <1>3, Zenon

LEMMA OneIsLetters ==
    ASSUME NEW t
    PROVE  IsLetters(<<t>>) <=> t[2] \in Cases
<1>1. DOMAIN <<t>> = {1} /\ <<t>>[1] = t
  OBVIOUS
<1> QED BY <1>1, Zenon DEF IsLetters, Cases

LEMMA InFormIs ==
    ASSUME NEW s \in Spellings, NEW form \in Cases
    PROVE  /\ InForm(s, form) \in Spellings /\ Len(InForm(s, form)) = Len(s)
           /\ \A i \in 1 .. Len(s) : InForm(s, form)[i] = Again(s[i], form)
           /\ DOMAIN s = 1 .. Len(s) /\ DOMAIN InForm(s, form) = 1 .. Len(s)
<1>1. Len(s) \in Nat /\ DOMAIN s = 1 .. Len(s) /\ \A i \in 1 .. Len(s) : s[i] \in Tokens
  BY DEF Spellings
<1>2. InForm(s, form) = [i \in 1 .. Len(s) |-> Again(s[i], form)]
  <2>1. \A i : (IF IsLetters(<<s[i]>>) THEN <<s[i][1], form>> ELSE s[i]) = Again(s[i], form)
    BY OneIsLetters, Zenon DEF Again
  <2> QED BY <1>1, <2>1, Zenon DEF InForm
<1>3. \A i \in 1 .. Len(s) : Again(s[i], form) \in Tokens
  BY <1>1, AgainToken, Zenon
<1>4. [i \in 1 .. Len(s) |-> Again(s[i], form)] \in Seq(Tokens)
  BY <1>1, <1>3
<1> QED BY <1>1, <1>2, <1>4 DEF Spellings

\* The same words, in other forms.
Reformed(s, u) ==
    /\ u \in Spellings /\ Len(u) = Len(s)
    /\ \A i \in 1 .. Len(s) : \E form \in Cases : u[i] = Again(s[i], form)

LEMMA ReformedKeeps ==
    ASSUME NEW s \in Spellings, NEW u, Reformed(s, u)
    PROVE  /\ IsLetters(u) <=> IsLetters(s)
           /\ IsDigits(u) <=> IsDigits(s)
           /\ Length(u) = Length(s)
           /\ u = <<>> <=> s = <<>>
           /\ \A marks : Free(u, marks) <=> Free(s, marks)
           /\ \A i \in 1 .. Len(s), other \in Cases : Again(u[i], other) = Again(s[i], other)
<1>1. /\ Len(s) \in Nat /\ \A i \in 1 .. Len(s) : s[i] \in Tokens
      /\ u \in Spellings /\ Len(u) = Len(s) /\ DOMAIN s = 1 .. Len(s) /\ DOMAIN u = 1 .. Len(s)
  BY DEF Spellings, Reformed
<1>2. ASSUME NEW i \in 1 .. Len(s)
      PROVE  /\ u[i][1] = s[i][1]
             /\ u[i][2] \in Cases <=> s[i][2] \in Cases
             /\ u[i][2] = "digits" <=> s[i][2] = "digits"
             /\ u[i][2] = "mark" <=> s[i][2] = "mark"
             /\ \A c : u[i] = Mark(c) <=> s[i] = Mark(c)
             /\ \A other \in Cases : Again(u[i], other) = Again(s[i], other)
  <2>1. PICK form \in Cases : u[i] = Again(s[i], form)
    BY Zenon DEF Reformed
  <2>2. s[i] \in Tokens
    BY <1>1
  <2> DEFINE t == s[i]
  <2> HIDE DEF t
  <2>3. /\ Again(t, form)[1] = t[1]
        /\ Again(t, form)[2] \in Cases <=> t[2] \in Cases
        /\ Again(t, form)[2] = "digits" <=> t[2] = "digits"
        /\ Again(t, form)[2] = "mark" <=> t[2] = "mark"
        /\ \A c : Again(t, form) = Mark(c) <=> t = Mark(c)
        /\ \A other \in Cases : Again(Again(t, form), other) = Again(t, other)
    <3>1. t \in Tokens
      BY <2>2 DEF t
    <3> QED BY <3>1, AgainToken, Zenon
  <2>4. u[i] = Again(t, form) /\ s[i] = t
    BY <2>1 DEF t
  <2> QED BY <2>3, <2>4
<1>4. IsLetters(u) <=> IsLetters(s)
  BY <1>1, <1>2, Zenon DEF IsLetters, Cases
<1>5. IsDigits(u) <=> IsDigits(s)
  BY <1>1, <1>2, Zenon DEF IsDigits
<1>6. Length(u) = Length(s)
  <2>1. [i \in DOMAIN u |-> IF u[i][2] = "mark" THEN 1 ELSE WordLength[u[i][1]]]
      = [i \in DOMAIN s |-> IF s[i][2] = "mark" THEN 1 ELSE WordLength[s[i][1]]]
    BY <1>1, <1>2, Zenon
  <2> QED BY <2>1, Zenon DEF Length
<1>7. u = <<>> <=> s = <<>>
  BY <1>1 DEF Spellings
<1>8. ASSUME NEW marks
      PROVE  Free(u, marks) <=> Free(s, marks)
  BY <1>1, <1>2, Zenon DEF Free
<1> QED BY <1>2, <1>4, <1>5, <1>6, <1>7, <1>8, Zenon

LEMMA InFormReforms ==
    ASSUME NEW s \in Spellings, NEW form \in Cases
    PROVE  Reformed(s, InForm(s, form))
  BY InFormIs, Zenon DEF Reformed

LEMMA FormsKeep ==
    ASSUME NEW s \in Spellings, NEW form \in Cases
    PROVE  InForm(InForm(s, form), form) = InForm(s, form)
<1> DEFINE u == InForm(s, form)
<1>1. u \in Spellings /\ Len(u) = Len(s) /\ \A i \in 1 .. Len(s) : u[i] = Again(s[i], form)
  BY InFormIs, Zenon
<1>2. \A i \in 1 .. Len(s), other \in Cases : Again(u[i], other) = Again(s[i], other)
  BY InFormReforms, ReformedKeeps, Zenon
<1> HIDE DEF u
<1>3. /\ InForm(u, form) \in Spellings /\ Len(InForm(u, form)) = Len(u)
      /\ \A i \in 1 .. Len(u) : InForm(u, form)[i] = Again(u[i], form)
  BY <1>1, InFormIs, Zenon
<1>4. \A i \in 1 .. Len(u) : InForm(u, form)[i] = u[i]
  BY <1>1, <1>2, <1>3, Zenon
<1>5. InForm(u, form) = u
  BY <1>1, <1>3, <1>4, SeqEqual DEF Spellings
<1> QED BY <1>5, Zenon DEF u

LEMMA CapitalIs ==
    ASSUME NEW s \in Spellings, s # <<>>
    PROVE  /\ capital(s) \in Spellings /\ Len(capital(s)) = Len(s) /\ Len(s) \in Nat \ {0}
           /\ capital(s)[1] = Again(s[1], "capital")
           /\ \A i \in 2 .. Len(s) : capital(s)[i] = Again(s[i], "lower")
<1> DEFINE h == InForm(SubSeq(s, 1, 1), "capital")
           t == lower(Tail(s))
<1>1. Len(s) \in Nat \ {0} /\ \A i \in 1 .. Len(s) : s[i] \in Tokens
  BY DEF Spellings
<1>2. /\ SubSeq(s, 1, 1) \in Spellings /\ Len(SubSeq(s, 1, 1)) = 1 /\ SubSeq(s, 1, 1)[1] = s[1]
  <2>1. \A i \in 1 .. 1 : s[i] \in Tokens
    BY <1>1
  <2>2. /\ SubSeq(s, 1, 1) \in Seq(Tokens)
        /\ Len(SubSeq(s, 1, 1)) = (IF 1 <= 1 THEN 1 - 1 + 1 ELSE 0)
        /\ \A i \in 1 .. 1 - 1 + 1 : SubSeq(s, 1, 1)[i] = s[1 + i - 1]
    BY <2>1, SubSeqProperties
  <2> QED BY <2>2 DEF Spellings
<1>3. /\ Tail(s) \in Spellings /\ Len(Tail(s)) = Len(s) - 1
      /\ \A i \in 1 .. Len(s) - 1 : Tail(s)[i] = s[i + 1]
  BY HeadTailProperties DEF Spellings
<1>4. h \in Spellings /\ Len(h) = 1 /\ h[1] = Again(s[1], "capital")
  <2>1. "capital" \in Cases /\ 1 \in 1 .. 1
    BY DEF Cases
  <2> DEFINE x == SubSeq(s, 1, 1)
  <2>2. x \in Spellings /\ Len(x) = 1 /\ x[1] = s[1]
    BY <1>2
  <2> HIDE DEF x
  <2>3. /\ InForm(x, "capital") \in Spellings /\ Len(InForm(x, "capital")) = Len(x)
        /\ \A i \in 1 .. Len(x) : InForm(x, "capital")[i] = Again(x[i], "capital")
    BY <2>1, <2>2, InFormIs, Zenon
  <2>4. InForm(x, "capital") \in Spellings /\ Len(InForm(x, "capital")) = 1 /\ InForm(x, "capital")[1] = Again(s[1], "capital")
    BY <2>1, <2>2, <2>3, SMTT(30)
  <2> QED BY <2>4 DEF x
<1>5. /\ t \in Spellings /\ Len(t) = Len(s) - 1
      /\ \A i \in 1 .. Len(s) - 1 : t[i] = Again(s[i + 1], "lower")
  <2>1. "lower" \in Cases
    BY DEF Cases
  <2> DEFINE x == Tail(s)
  <2>2. x \in Spellings /\ Len(x) = Len(s) - 1 /\ \A i \in 1 .. Len(s) - 1 : x[i] = s[i + 1]
    BY <1>3
  <2> HIDE DEF x
  <2>3. /\ lower(x) \in Spellings /\ Len(lower(x)) = Len(x)
        /\ \A i \in 1 .. Len(x) : lower(x)[i] = Again(x[i], "lower")
    BY <2>1, <2>2, InFormIs, Zenon DEF lower
  <2>4. \A i \in 1 .. Len(s) - 1 : lower(x)[i] = Again(s[i + 1], "lower")
    BY <2>2, <2>3, Zenon
  <2> QED BY <2>2, <2>3, <2>4 DEF x
<1>6. capital(s) = h \o t
  BY Zenon DEF capital
<1> HIDE DEF h, t
<1>7. /\ h \o t \in Spellings /\ Len(h \o t) = 1 + (Len(s) - 1)
      /\ \A i \in 1 .. 1 + (Len(s) - 1) : (h \o t)[i] = IF i <= 1 THEN h[i] ELSE t[i - 1]
  <2>1. h \in Seq(Tokens) /\ t \in Seq(Tokens)
    BY <1>4, <1>5 DEF Spellings
  <2>2. /\ h \o t \in Seq(Tokens) /\ Len(h \o t) = Len(h) + Len(t)
        /\ \A i \in 1 .. Len(h) + Len(t) : (h \o t)[i] = IF i <= Len(h) THEN h[i] ELSE t[i - Len(h)]
    BY <2>1, ConcatProperties, Zenon
  <2> QED BY <1>4, <1>5, <2>2, Zenon DEF Spellings
<1>8. /\ 1 + (Len(s) - 1) = Len(s) /\ 1 \in 1 .. Len(s) /\ 1 <= 1
      /\ \A i \in 2 .. Len(s) : i \in 1 .. Len(s) /\ ~(i <= 1) /\ i - 1 \in 1 .. Len(s) - 1 /\ (i - 1) + 1 = i
  BY <1>1
<1>9. (h \o t)[1] = Again(s[1], "capital")
  BY <1>4, <1>7, <1>8, Zenon
<1>10. \A i \in 2 .. Len(s) : (h \o t)[i] = Again(s[i], "lower")
  BY <1>5, <1>7, <1>8, Zenon
<1> QED BY <1>1, <1>6, <1>7, <1>8, <1>9, <1>10, Zenon

LEMMA CapitalReforms ==
    ASSUME NEW s \in Spellings, s # <<>>
    PROVE  Reformed(s, capital(s))
<1>1. /\ capital(s) \in Spellings /\ Len(capital(s)) = Len(s) /\ Len(s) \in Nat \ {0}
      /\ capital(s)[1] = Again(s[1], "capital")
      /\ \A i \in 2 .. Len(s) : capital(s)[i] = Again(s[i], "lower")
  BY CapitalIs
<1>2. \A i \in 1 .. Len(s) : i = 1 \/ i \in 2 .. Len(s)
  BY <1>1
<1>3. "capital" \in Cases /\ "lower" \in Cases
  BY DEF Cases
<1> QED BY <1>1, <1>2, <1>3, Zenon DEF Reformed

LEMMA CapitalTwice ==
    ASSUME NEW s \in Spellings, s # <<>>
    PROVE  capital(capital(s)) = capital(s)
<1> DEFINE u == capital(s)
<1>1. /\ u \in Spellings /\ Len(u) = Len(s) /\ Len(s) \in Nat \ {0}
      /\ u[1] = Again(s[1], "capital")
      /\ \A i \in 2 .. Len(s) : u[i] = Again(s[i], "lower")
  BY CapitalIs, Zenon
<1>2. u # <<>> /\ \A i \in 1 .. Len(s), other \in Cases : Again(u[i], other) = Again(s[i], other)
  BY CapitalReforms, ReformedKeeps, Zenon
<1> HIDE DEF u
<1>3. /\ capital(u) \in Spellings /\ Len(capital(u)) = Len(u)
      /\ capital(u)[1] = Again(u[1], "capital")
      /\ \A i \in 2 .. Len(u) : capital(u)[i] = Again(u[i], "lower")
  BY <1>1, <1>2, CapitalIs, Zenon
<1>4. /\ \A i \in 1 .. Len(s) : i = 1 \/ i \in 2 .. Len(s)
      /\ \A i \in 2 .. Len(s) : i \in 1 .. Len(s)
      /\ 1 \in 1 .. Len(s) /\ "capital" \in Cases /\ "lower" \in Cases
  BY <1>1 DEF Cases
<1>5. \A i \in 1 .. Len(u) : capital(u)[i] = u[i]
  BY <1>1, <1>2, <1>3, <1>4, Zenon
<1>6. capital(u) = u
  BY <1>1, <1>3, <1>5, SeqEqual DEF Spellings
<1> QED BY <1>6, Zenon DEF u

LEMMA NoLength == Length(<<>>) = 0
<1> DEFINE w == [i \in DOMAIN <<>> |-> IF <<>>[i][2] = "mark" THEN 1 ELSE WordLength[<<>>[i][1]]]
           Upto(f) == f = [k \in 0 .. Len(w) |-> IF k = 0 THEN 0 ELSE f[k - 1] + w[k]]
<1>1. w = <<>> /\ Len(w) = 0
  OBVIOUS
<1> HIDE DEF w
<1>2. 0 .. Len(w) = {0}
  BY <1>1
<1>3. Upto([k \in {0} |-> 0])
  BY <1>2
<1>4. PICK f : Upto(f) /\ Total(w) = f[Len(w)]
  <2>1. Upto(CHOOSE f : Upto(f))
    BY <1>3, Zenon
  <2> QED BY <2>1, Zenon DEF Total
<1>5. f[0] = 0
  BY <1>2, <1>4
<1> QED BY <1>1, <1>4, <1>5, Zenon DEF Length, w

-----------------------------------------------------------------------------
(* What can be read from a name. *)

Data == [language : Spellings, script : Spellings, country : Spellings, encoding : Spellings, variant : Spellings]

LanguageRead(l) ==
    l = C \/ (l # <<>> /\ IsLetters(l) /\ lower(l) = l /\ l \notin {lower(C), << <<"posix", "lower">> >>})
ScriptRead(s) == s = <<>> \/ (Length(s) = 4 /\ IsLetters(s) /\ capital(s) = s)
CountryRead(c, s) ==
    c = <<>> \/ (/\ upper(c) = c
                 /\ IsLetters(c) \/ (IsDigits(c) /\ Length(c) = 3)
                 /\ s = <<>> => ~(Length(c) = 4 /\ IsLetters(c)))
EncodingRead(e) == e # <<>> /\ upper(e) = e /\ Free(e, {"@"})

Readable(d) ==
    /\ LanguageRead(d.language) /\ ScriptRead(d.script) /\ CountryRead(d.country, d.script)
    /\ EncodingRead(d.encoding) /\ lower(d.variant) = d.variant
    /\ d.language = C => d.country = <<>> /\ d.variant = <<>>

ReadsWell(a) == a.ok => a.data \in Data /\ Readable(a.data)

LEMMA Answers ==
    ASSUME NEW d, NEW ok
    PROVE  Answer(d, ok).data = d /\ Answer(d, ok).ok = ok
  BY Zenon DEF Answer

LEMMA FailsWell ==
    ASSUME NEW d
    PROVE  ReadsWell(Answer(d, FALSE))
<1>1. Answer(d, FALSE).ok = FALSE
  BY Answers, Zenon
<1> QED BY <1>1, Zenon DEF ReadsWell

LEMMA SucceedsWell ==
    ASSUME NEW d \in Data, Readable(d)
    PROVE  ReadsWell(Answer(d, TRUE))
<1>1. Answer(d, TRUE).data = d
  BY Answers, Zenon
<1> QED BY <1>1, Zenon DEF ReadsWell

LEMMA FormsOf ==
    ASSUME NEW s \in Spellings
    PROVE  /\ lower(s) \in Spellings /\ Reformed(s, lower(s)) /\ lower(lower(s)) = lower(s)
           /\ upper(s) \in Spellings /\ Reformed(s, upper(s)) /\ upper(upper(s)) = upper(s)
<1>1. "lower" \in Cases /\ "upper" \in Cases
  BY DEF Cases
<1> QED BY <1>1, InFormIs, InFormReforms, FormsKeep, Zenon DEF lower, upper

LEMMA NoWord == <<>> \in Spellings /\ lower(<<>>) = <<>>
<1>1. <<>> \in Spellings /\ Len(<<>>) = 0
  BY DEF Spellings
<1>2. Reformed(<<>>, lower(<<>>))
  BY <1>1, FormsOf
<1> QED BY <1>1, <1>2, ReformedKeeps, Zenon

LEMMA Constants ==
    /\ C \in Spellings /\ C # <<>> /\ IsLetters(C) /\ lower(C) # C
    /\ UsAscii \in Spellings /\ EncodingRead(UsAscii) /\ English # C
    /\ UsPosix[2] = Mark("_") /\ Len(UsPosix) = 3
<1>0. "c" \in DOMAIN WordLength /\ "us" \in DOMAIN WordLength /\ "ascii" \in DOMAIN WordLength
      /\ "-" \in Marks /\ "upper" \in Forms /\ "mark" \in Forms
  BY TokensAssumption DEF Forms, Marks
<1>1. <<"c", "upper">> \in Tokens /\ C \in Spellings /\ C # <<>> /\ Len(C) = 1 /\ C[1] = <<"c", "upper">>
  <2>1. <<"c", "upper">> \in Tokens
    BY <1>0, Zenon DEF Tokens
  <2>2. \A t \in Tokens : <<t>> \in Spellings /\ <<t>> # <<>> /\ Len(<<t>>) = 1 /\ <<t>>[1] = t
    BY DEF Spellings
  <2> QED BY <2>1, <2>2, Zenon DEF C
<1>2. IsLetters(C)
  BY <1>1, OneIsLetters DEF C, Cases
<1>3. lower(C) # C
  <2>1. lower(C)[1] = Again(C[1], "lower")
    <3>1. "lower" \in Cases /\ 1 \in 1 .. Len(C)
      BY <1>1 DEF Cases
    <3> QED BY <1>1, <3>1, InFormIs, Zenon DEF lower
  <2>2. Again(<<"c", "upper">>, "lower") = <<"c", "lower">>
    <3>1. <<"c", "upper">>[1] = "c" /\ <<"c", "upper">>[2] = "upper" /\ "upper" \in Cases
      BY DEF Cases
    <3> QED BY <3>1, Zenon DEF Again
  <2>3. <<"c", "lower">> # <<"c", "upper">>
    OBVIOUS
  <2> QED BY <1>1, <2>1, <2>2, <2>3
<1>4. UsAscii \in Spellings /\ EncodingRead(UsAscii)
  <2>1. /\ UsAscii \in Spellings /\ UsAscii # <<>> /\ Len(UsAscii) = 3
        /\ UsAscii[1] = <<"us", "upper">> /\ UsAscii[2] = <<"-", "mark">> /\ UsAscii[3] = <<"ascii", "upper">>
    <3>1. <<"us", "upper">> \in Tokens /\ <<"-", "mark">> \in Tokens /\ <<"ascii", "upper">> \in Tokens
      BY <1>0, Zenon DEF Tokens
    <3>2. \A t1, t2, t3 \in Tokens : /\ <<t1, t2, t3>> \in Spellings /\ <<t1, t2, t3>> # <<>> /\ Len(<<t1, t2, t3>>) = 3
                                     /\ <<t1, t2, t3>>[1] = t1 /\ <<t1, t2, t3>>[2] = t2 /\ <<t1, t2, t3>>[3] = t3
      BY DEF Spellings
    <3>3. UsAscii = << <<"us", "upper">>, <<"-", "mark">>, <<"ascii", "upper">> >>
      BY Zenon DEF UsAscii, Mark
    <3> QED BY <3>1, <3>2, <3>3, Zenon
  <2>2. /\ upper(UsAscii) \in Spellings /\ Len(upper(UsAscii)) = 3
        /\ \A i \in 1 .. 3 : upper(UsAscii)[i] = Again(UsAscii[i], "upper")
    <3>1. "upper" \in Cases
      BY DEF Cases
    <3> QED BY <2>1, <3>1, InFormIs DEF upper
  <2>3. \A i \in 1 .. 3 : i = 1 \/ i = 2 \/ i = 3
    OBVIOUS
  <2>4. \A i \in 1 .. 3 : Again(UsAscii[i], "upper") = UsAscii[i]
    <3>1. Again(<<"us", "upper">>, "upper") = <<"us", "upper">>
      BY DEF Again, Cases
    <3>2. Again(<<"-", "mark">>, "upper") = <<"-", "mark">>
      BY DEF Again, Cases
    <3>3. Again(<<"ascii", "upper">>, "upper") = <<"ascii", "upper">>
      BY DEF Again, Cases
    <3> QED BY <2>1, <2>3, <3>1, <3>2, <3>3, Zenon
  <2>5. upper(UsAscii) = UsAscii
    <3>1. \A i \in 1 .. 3 : upper(UsAscii)[i] = UsAscii[i]
      BY <2>2, <2>4, Zenon
    <3> QED BY <2>1, <2>2, <3>1, SeqEqual DEF Spellings
  <2>6. Free(UsAscii, {"@"})
    <3>1. \A i \in 1 .. 3 : UsAscii[i] # <<"@", "mark">>
      BY <2>1, <2>3
    <3> QED BY <2>1, <3>1, Zenon DEF Free, Mark
  <2> QED BY <2>1, <2>5, <2>6 DEF EncodingRead
<1>5. English # C
  BY DEF English, C
<1>6. UsPosix[2] = Mark("_") /\ Len(UsPosix) = 3
  BY DEF UsPosix, Mark
<1> QED BY <1>1, <1>2, <1>3, <1>4, <1>5, <1>6

\* Nothing but the language and the encoding is there in the beginning.
LEMMA DefaultIs ==
    /\ Default \in Data /\ Default.language = C /\ Default.script = <<>> /\ Default.country = <<>>
    /\ Default.encoding = UsAscii /\ Default.variant = <<>> /\ Readable(Default)
<1>1. C \in Spellings /\ UsAscii \in Spellings /\ <<>> \in Spellings
  BY Constants, NoWord
<1>2. /\ Default \in Data /\ Default.language = C /\ Default.script = <<>> /\ Default.country = <<>>
      /\ Default.encoding = UsAscii /\ Default.variant = <<>>
  BY <1>1 DEF Default, Data
<1> QED BY <1>2, NoWord, Constants, Zenon DEF Readable, LanguageRead, ScriptRead, CountryRead

\* Letters and digits are no marks.
LEMMA NoMarks ==
    ASSUME NEW s \in Spellings, IsLetters(s) \/ IsDigits(s)
    PROVE  (\A marks : Free(s, marks)) /\ s # UsPosix
<1>1. DOMAIN s = 1 .. Len(s) /\ Len(s) \in Nat
  BY DEF Spellings
<1>2. \A i \in 1 .. Len(s) : s[i][2] # "mark"
  BY <1>1 DEF IsLetters, IsDigits
<1>3. \A c : Mark(c)[2] = "mark"
  BY DEF Mark
<1>4. \A marks : Free(s, marks)
  BY <1>2, <1>3, Zenon DEF Free
<1>5. s # UsPosix
  <2> SUFFICES ASSUME s = UsPosix
               PROVE  FALSE
    OBVIOUS
  <2>1. Len(s) = 3 /\ s[2] = Mark("_")
    BY Constants, Zenon
  <2>2. 2 \in 1 .. Len(s)
    <3>1. \A k : k = 3 => 2 \in 1 .. k
      OBVIOUS
    <3> QED BY <2>1, <3>1, Zenon
  <2> QED BY <1>2, <1>3, <2>1, <2>2
<1> QED BY <1>4, <1>5

LEMMA VariantReads ==
    ASSUME NEW d \in Data, Readable(d), NEW x \in Spellings
    PROVE  ReadsWell(parse_from_variant(d, x))
<1> DEFINE y == lower(x)
           w == [d EXCEPT !.variant = y]
<1>1. y \in Spellings /\ lower(y) = y
  BY FormsOf, Zenon
<1> HIDE DEF y
<1>2. /\ w \in Data /\ w.language = d.language /\ w.script = d.script /\ w.country = d.country
      /\ w.encoding = d.encoding /\ w.variant = y
  BY <1>1 DEF Data
<1>3. parse_from_variant(d, x) = IF d.language = C \/ x = <<>> THEN Answer(d, FALSE) ELSE Answer(w, TRUE)
  BY Zenon DEF parse_from_variant, y
<1> HIDE DEF w
<1>4. CASE d.language = C \/ x = <<>>
  BY <1>3, <1>4, FailsWell, Zenon
<1>5. CASE ~(d.language = C \/ x = <<>>)
  <2>1. Readable(w)
    BY <1>1, <1>2, <1>5, Zenon DEF Readable
  <2> QED BY <1>2, <1>3, <1>5, <2>1, SucceedsWell, Zenon
<1> QED BY <1>4, <1>5

LEMMA EncodingReads ==
    ASSUME NEW d \in Data, Readable(d), NEW x \in Spellings
    PROVE  ReadsWell(parse_from_encoding(d, x))
<1> DEFINE t == Cut(x, {"@"})
           y == upper(t.part)
           w == [d EXCEPT !.encoding = y]
<1>1. t.part \in Spellings /\ t.rest \in Spellings /\ Free(t.part, {"@"})
  BY CutSplits, Zenon
<1> HIDE DEF t
<1>2. y \in Spellings /\ upper(y) = y /\ Reformed(t.part, y)
  BY <1>1, FormsOf, Zenon
<1> HIDE DEF y
<1>3. /\ w \in Data /\ w.language = d.language /\ w.script = d.script /\ w.country = d.country
      /\ w.variant = d.variant /\ w.encoding = y
  BY <1>2 DEF Data
<1>4. parse_from_encoding(d, x) =
          CASE t.part = <<>> -> Answer(d, FALSE)
            [] t.part # <<>> /\ t.mark = "end" -> Answer(w, TRUE)
            [] OTHER -> parse_from_variant(w, t.rest)
  BY Zenon DEF parse_from_encoding, t, y
<1> HIDE DEF w
<1>5. CASE t.part = <<>>
  <2>1. parse_from_encoding(d, x) = Answer(d, FALSE)
    BY <1>4, <1>5, Zenon
  <2> QED BY <2>1, FailsWell, Zenon
<1>6. CASE t.part # <<>>
  <2>1. EncodingRead(y)
    BY <1>1, <1>2, <1>6, ReformedKeeps, Zenon DEF EncodingRead
  <2>2. Readable(w)
    BY <1>3, <2>1, Zenon DEF Readable
  <2>3. parse_from_encoding(d, x) = Answer(w, TRUE) \/ parse_from_encoding(d, x) = parse_from_variant(w, t.rest)
    BY <1>4, <1>6, Zenon
  <2> QED BY <1>1, <1>3, <2>2, <2>3, SucceedsWell, VariantReads, Zenon
<1> QED BY <1>5, <1>6

\* What may follow a part that an encoding may follow.
Closes(t) == t.mark \in {"end", ".", "@"} /\ t.rest \in Spellings

LEMMA OnwardsReads ==
    ASSUME NEW d \in Data, Readable(d), NEW t, Closes(t)
    PROVE  ReadsWell(Onwards(d, t))
<1>0. t.rest \in Spellings
  BY Zenon DEF Closes
<1>1. CASE t.mark = "end"
  <2>1. Onwards(d, t) = Answer(d, TRUE)
    BY <1>1, Zenon DEF Onwards
  <2> QED BY <2>1, SucceedsWell, Zenon
<1>2. CASE t.mark = "."
  <2>1. Onwards(d, t) = parse_from_encoding(d, t.rest)
    BY <1>2, Zenon DEF Onwards
  <2> QED BY <1>0, <2>1, EncodingReads, Zenon
<1>3. CASE t.mark = "@"
  <2>1. Onwards(d, t) = parse_from_variant(d, t.rest)
    BY <1>3, Zenon DEF Onwards
  <2> QED BY <1>0, <2>1, VariantReads, Zenon
<1> QED BY <1>1, <1>2, <1>3, Zenon DEF Closes

IsScript(p) == Length(p) = 4 /\ IsLetters(p)

\* A country of letters is one part.
LEMMA OnePart ==
    ASSUME NEW x \in Spellings, IsLetters(Cut(x, {"@", "."}).part)
    PROVE  Cut(x, Marks).part = Cut(x, {"@", "."}).part
<1> DEFINE t == Cut(x, {"@", "."})
           p == t.part
           m == t.mark
           r == t.rest
<1>1. /\ p \in Spellings /\ r \in Spellings
      /\ \/ m = "end" /\ x = p
         \/ m \in {"@", "."} /\ x = p \o (<<Mark(m)>> \o r)
  BY CutSplits, Zenon
<1>2. IsLetters(p)
  OBVIOUS
<1> HIDE DEF t, m, p, r
<1>3. Free(p, Marks)
  BY <1>1, <1>2, NoMarks, Zenon
<1>4. CASE m = "end" /\ x = p
  BY <1>1, <1>3, <1>4, CutEnd, Zenon DEF t, p
<1>5. CASE m \in {"@", "."} /\ x = p \o (<<Mark(m)>> \o r)
  <2>1. m \in Marks
    BY <1>5 DEF Marks
  <2>2. Cut(p \o (<<Mark(m)>> \o r), Marks).part = p
    BY <1>1, <1>3, <2>1, CutMark, SMT, ZenonT(30)
  <2> QED BY <1>5, <2>2, Zenon DEF p, t
<1> QED BY <1>1, <1>4, <1>5

LEMMA CountryReads ==
    ASSUME NEW d \in Data, Readable(d), d.country = <<>>, d.variant = <<>>, NEW x \in Spellings,
           d.script = <<>> => ~IsScript(Cut(x, Marks).part)
    PROVE  ReadsWell(parse_from_country(d, x))
<1> DEFINE t == Cut(x, {"@", "."})
           land == upper(t.part)
           w1 == [d EXCEPT !.language = C, !.country = <<>>]
           w2 == [d EXCEPT !.country = land]
           known == IsLetters(land) \/ (IsDigits(land) /\ Length(land) = 3)
           posix == d.language = English /\ land = UsPosix
<1>1. t.part \in Spellings /\ Closes(t)
  <2>1. t.part \in Spellings /\ t.rest \in Spellings /\ (t.mark = "end" \/ t.mark \in {"@", "."})
    BY CutSplits, ZenonT(40)
  <2> HIDE DEF t
  <2> QED BY <2>1, Zenon DEF Closes
<1>2. d.script = <<>> => ~IsLetters(t.part) \/ ~(Length(t.part) = 4)
  <2> SUFFICES ASSUME d.script = <<>>, IsLetters(t.part)
               PROVE  ~(Length(t.part) = 4)
    OBVIOUS
  <2>1. Cut(x, Marks).part = t.part
    BY OnePart, Zenon
  <2> QED BY <2>1, Zenon DEF IsScript
<1> HIDE DEF t
<1>3. land \in Spellings /\ upper(land) = land /\ Reformed(t.part, land)
  BY <1>1, FormsOf, Zenon
<1>4. d.script = <<>> => ~(Length(land) = 4 /\ IsLetters(land))
  BY <1>1, <1>2, <1>3, ReformedKeeps, Zenon
<1> HIDE DEF land
<1>5. C \in Spellings /\ <<>> \in Spellings
  BY Constants, NoWord
<1>6. /\ w1 \in Data /\ w1.language = C /\ w1.script = d.script /\ w1.country = <<>>
      /\ w1.variant = d.variant /\ w1.encoding = d.encoding
  BY <1>5 DEF Data
<1>7. /\ w2 \in Data /\ w2.language = d.language /\ w2.script = d.script /\ w2.country = land
      /\ w2.variant = d.variant /\ w2.encoding = d.encoding
  BY <1>3 DEF Data
<1>8. parse_from_country(d, x) =
          CASE d.language = C \/ land = <<>> -> Answer(d, FALSE)
            [] d.language # C /\ posix -> Onwards(w1, t)
            [] d.language # C /\ land # <<>> /\ known -> Onwards(w2, t)
            [] OTHER -> Answer(d, FALSE)
  BY Zenon DEF parse_from_country, t, land
<1> HIDE DEF w1, w2
<1>9. known => land # UsPosix
  BY <1>3, NoMarks, Zenon
<1>10. UsPosix # <<>> /\ English # C
  BY Constants DEF UsPosix
<1> HIDE DEF known
<1>11. CASE d.language = C \/ land = <<>>
  <2>1. parse_from_country(d, x) = Answer(d, FALSE)
    BY <1>8, <1>10, <1>11, Zenon
  <2> QED BY <2>1, FailsWell, Zenon
<1>12. CASE d.language # C /\ land # <<>> /\ posix
  <2>1. parse_from_country(d, x) = Onwards(w1, t)
    BY <1>8, <1>9, <1>12, Zenon
  <2>2. Readable(w1)
    BY <1>6, Zenon DEF Readable, LanguageRead, CountryRead
  <2> QED BY <1>1, <1>6, <2>1, <2>2, OnwardsReads, Zenon
<1>13. CASE d.language # C /\ land # <<>> /\ ~posix /\ known
  <2>1. parse_from_country(d, x) = Onwards(w2, t)
    BY <1>8, <1>13, Zenon
  <2>2. Readable(w2)
    BY <1>3, <1>4, <1>7, <1>13, Zenon DEF Readable, CountryRead, known
  <2> QED BY <1>1, <1>7, <2>1, <2>2, OnwardsReads, Zenon
<1>14. CASE d.language # C /\ land # <<>> /\ ~posix /\ ~known
  <2>1. parse_from_country(d, x) = Answer(d, FALSE)
    BY <1>8, <1>14, Zenon
  <2> QED BY <2>1, FailsWell, Zenon
<1> QED BY <1>11, <1>12, <1>13, <1>14, Zenon

LEMMA ScriptReads ==
    ASSUME NEW d \in Data, Readable(d), d.script = <<>>, d.country = <<>>, d.variant = <<>>, NEW x \in Spellings
    PROVE  ReadsWell(parse_from_script(d, x))
<1> DEFINE t == Cut(x, Marks)
           y == capital(t.part)
           w == [d EXCEPT !.script = y]
<1>1. t.part \in Spellings /\ t.rest \in Spellings /\ (t.mark = "end" \/ t.mark \in Marks)
  BY CutSplits, Zenon
<1>2. parse_from_script(d, x) =
          CASE ~IsScript(t.part) -> parse_from_country(d, x)
            [] IsScript(t.part) /\ t.mark \in {"-", "_"} -> parse_from_country(w, t.rest)
            [] OTHER -> Onwards(w, t)
  BY Zenon DEF parse_from_script, IsScript, Marks
<1>3. CASE ~IsScript(t.part)
  <2>1. parse_from_script(d, x) = parse_from_country(d, x)
    BY <1>2, <1>3, Zenon
  <2> QED BY <1>3, <2>1, CountryReads, Zenon
<1> HIDE DEF t
<1>4. CASE IsScript(t.part)
  <2>1. t.part # <<>>
    <3> SUFFICES ASSUME t.part = <<>>
                 PROVE  FALSE
      OBVIOUS
    <3>1. Length(<<>>) = 4
      BY <1>4, Zenon DEF IsScript
    <3> QED BY <3>1, NoLength
  <2>2. Reformed(t.part, y) /\ y \in Spellings /\ capital(y) = y
    BY <1>1, <2>1, CapitalIs, CapitalReforms, CapitalTwice, Zenon
  <2> HIDE DEF y
  <2>3. y # <<>> /\ IsLetters(y) /\ Length(y) = 4
    BY <1>1, <1>4, <2>1, <2>2, ReformedKeeps, Zenon DEF IsScript
  <2>4. /\ w \in Data /\ w.language = d.language /\ w.script = y /\ w.country = d.country
        /\ w.variant = d.variant /\ w.encoding = d.encoding
    BY <2>2 DEF Data
  <2> HIDE DEF w
  <2>5. Readable(w)
    BY <2>2, <2>3, <2>4, Zenon DEF Readable, ScriptRead, CountryRead
  <2>6. CASE t.mark \in {"-", "_"}
    <3>1. parse_from_script(d, x) = parse_from_country(w, t.rest)
      BY <1>2, <1>4, <2>6, Zenon
    <3> QED BY <1>1, <2>3, <2>4, <2>5, <3>1, CountryReads, Zenon
  <2>7. CASE t.mark \notin {"-", "_"}
    <3>1. parse_from_script(d, x) = Onwards(w, t)
      BY <1>2, <1>4, <2>7, Zenon
    <3>2. Closes(t)
      BY <1>1, <2>7, Zenon DEF Marks, Closes
    <3> QED BY <1>1, <2>4, <2>5, <3>1, <3>2, OnwardsReads, Zenon
  <2> QED BY <2>6, <2>7
<1> QED BY <1>3, <1>4

\* parse (locale_data.cpp 70-74) gives only data of this kind.
LEMMA ParseReads ==
    ASSUME NEW x \in Spellings
    PROVE  ReadsWell(parse(x))
<1> DEFINE t == Cut(x, Marks)
           y == lower(t.part)
           still == y \in {lower(C), << <<"posix", "lower">> >>}
           w == IF still THEN Default ELSE [Default EXCEPT !.language = y]
<1>1. t.part \in Spellings /\ t.rest \in Spellings /\ (t.mark = "end" \/ t.mark \in Marks)
  BY CutSplits, Zenon
<1>2. parse(x) =
          CASE t.part = <<>> \/ ~IsLetters(t.part) -> Answer(Default, FALSE)
            [] t.part # <<>> /\ IsLetters(t.part) /\ t.mark \in {"-", "_"} -> parse_from_script(w, t.rest)
            [] OTHER -> Onwards(w, t)
  BY Zenon DEF parse, parse_from_lang, Marks
<1> HIDE DEF t
<1>3. y \in Spellings /\ lower(y) = y /\ Reformed(t.part, y)
  BY <1>1, FormsOf, Zenon
<1> HIDE DEF y
<1>4. CASE t.part = <<>> \/ ~IsLetters(t.part)
  <2>1. parse(x) = Answer(Default, FALSE)
    BY <1>2, <1>4, Zenon
  <2> QED BY <2>1, FailsWell, Zenon
<1>5. CASE t.part # <<>> /\ IsLetters(t.part)
  <2>1. y # <<>> /\ IsLetters(y)
    BY <1>1, <1>3, <1>5, ReformedKeeps, Zenon
  <2>2. /\ w \in Data /\ w.script = <<>> /\ w.country = <<>> /\ w.variant = <<>> /\ w.encoding = UsAscii
        /\ IF still THEN w.language = C ELSE w.language = y
    <3>1. CASE still
      BY <3>1, DefaultIs, Zenon
    <3>2. CASE ~still
      <4>1. w = [Default EXCEPT !.language = y]
        BY <3>2, Zenon
      <4> HIDE DEF w, still
      <4>2. /\ w \in Data /\ w.script = <<>> /\ w.country = <<>> /\ w.variant = <<>> /\ w.encoding = UsAscii
            /\ w.language = y
        BY <1>3, <4>1, DefaultIs DEF Data
      <4> QED BY <3>2, <4>2, Zenon DEF still
    <3> QED BY <3>1, <3>2
  <2>3. LanguageRead(w.language)
    BY <1>3, <2>1, <2>2, Zenon DEF LanguageRead
  <2> HIDE DEF w
  <2>4. Readable(w)
    BY <2>2, <2>3, Constants, NoWord, Zenon DEF Readable, ScriptRead, CountryRead
  <2>5. CASE t.mark \in {"-", "_"}
    <3>1. parse(x) = parse_from_script(w, t.rest)
      BY <1>2, <1>5, <2>5, Zenon
    <3> QED BY <1>1, <2>2, <2>4, <3>1, ScriptReads, Zenon
  <2>6. CASE t.mark \notin {"-", "_"}
    <3>1. parse(x) = Onwards(w, t)
      BY <1>2, <1>5, <2>6, Zenon
    <3>2. Closes(t)
      BY <1>1, <2>6, Zenon DEF Marks, Closes
    <3> QED BY <1>1, <2>2, <2>4, <3>1, <3>2, OnwardsReads, Zenon
  <2> QED BY <2>5, <2>6
<1> QED BY <1>4, <1>5

-----------------------------------------------------------------------------
(* What to_string writes of it is read as it was. *)

EncodingKept(e) == IF are_encodings_equal(e, UsAscii) THEN UsAscii ELSE e
EncodingPart(d) == IF are_encodings_equal(d.encoding, UsAscii) THEN <<>> ELSE Led(".", d.encoding)
Closing(d) == EncodingPart(d) \o Led("@", d.variant)

\* The parts of w, and behind them those of d.
Closed(a, w, d) ==
    /\ a.ok
    /\ a.data \in Data
    /\ a.data.language = w.language /\ a.data.script = w.script /\ a.data.country = w.country
    /\ a.data.encoding = EncodingKept(d.encoding) /\ a.data.variant = d.variant

\* Nothing but the encoding and the variant of d is left to read.
Open(w, d) ==
    /\ w \in Data /\ w.encoding = UsAscii /\ w.variant = <<>>
    /\ w.language = C => d.variant = <<>>

LEMMA LedIs ==
    ASSUME NEW m \in Marks, NEW s \in Spellings
    PROVE  /\ Led(m, s) \in Spellings
           /\ s = <<>> => Led(m, s) = <<>>
           /\ s # <<>> => Led(m, s) = <<Mark(m)>> \o s
<1>1. <<Mark(m)>> \in Seq(Tokens)
  BY MarkIsToken DEF Spellings
<1>2. <<Mark(m)>> \o s \in Spellings
  BY <1>1, ConcatProperties DEF Spellings
<1> QED BY <1>2, NoWord, Zenon DEF Led

LEMMA Concat ==
    ASSUME NEW r \in Spellings, NEW s \in Spellings
    PROVE  r \o s \in Spellings /\ r \o <<>> = r /\ <<>> \o r = r
<1>1. r \o s \in Spellings
  BY ConcatProperties DEF Spellings
<1>2. r \o <<>> = r /\ <<>> \o r = r
  BY ConcatEmptySeq DEF Spellings
<1> QED BY <1>1, <1>2

LEMMA Associates ==
    ASSUME NEW r \in Spellings, NEW s \in Spellings, NEW t \in Spellings
    PROVE  (r \o s) \o t = r \o (s \o t)
  BY ConcatAssociative DEF Spellings

\* What follows a part p begins with one of the marks, if there is any of it.
LEMMA CutWhole ==
    ASSUME NEW p \in Spellings, NEW marks, Free(p, marks)
    PROVE  Cut(p \o <<>>, marks).part = p /\ Cut(p \o <<>>, marks).mark = "end"
<1>1. p \o <<>> = p
  BY Concat, NoWord, Zenon
<1> QED BY <1>1, CutEnd, Zenon

LEMMA CutLed ==
    ASSUME NEW p \in Spellings, NEW marks, Free(p, marks), NEW m \in Marks, m \in marks,
           NEW s \in Spellings, NEW r \in Spellings, s # <<>>
    PROVE  LET t == Cut(p \o (Led(m, s) \o r), marks)
           IN  t.part = p /\ t.mark = m /\ t.rest = s \o r
<1>1. Led(m, s) \o r = <<Mark(m)>> \o (s \o r)
  <2>1. Led(m, s) = <<Mark(m)>> \o s /\ <<Mark(m)>> \in Spellings
    BY LedIs, MarkIsToken, Zenon
  <2> DEFINE a == <<Mark(m)>>
  <2> HIDE DEF a
  <2>2. (a \o s) \o r = a \o (s \o r)
    <3>1. a \in Spellings
      BY <2>1 DEF a
    <3> QED BY <3>1, Associates, Zenon
  <2> QED BY <2>1, <2>2, Zenon DEF a
<1> DEFINE q == s \o r
<1>2. q \in Spellings
  BY Concat, Zenon
<1> HIDE DEF q
<1>3. LET t == Cut(p \o (<<Mark(m)>> \o q), marks)
      IN  t.part = p /\ t.mark = m /\ t.rest = q
  BY <1>2, CutMark, SMT, ZenonT(30)
<1> QED BY <1>1, <1>3, Zenon DEF q

LEMMA ClosingIs ==
    ASSUME NEW d \in Data
    PROVE  Closing(d) \in Spellings /\ EncodingPart(d) \in Spellings /\ Led("@", d.variant) \in Spellings
<1>1. "@" \in Marks /\ "." \in Marks
  BY DEF Marks
<1>2. d.encoding \in Spellings /\ d.variant \in Spellings
  BY DEF Data
<1>3. EncodingPart(d) \in Spellings /\ Led("@", d.variant) \in Spellings
  BY <1>1, <1>2, LedIs, NoWord, Zenon DEF EncodingPart
<1> QED BY <1>3, Concat, Zenon DEF Closing

LEMMA VariantWrites ==
    ASSUME NEW d \in Data, Readable(d), NEW w \in Data, w.language = C => d.variant = <<>>,
           w.encoding = EncodingKept(d.encoding), d.variant # <<>>
    PROVE  Closed(parse_from_variant(w, d.variant), w, d)
<1> DEFINE v == d.variant
           u == [w EXCEPT !.variant = v]
<1>1. v \in Spellings /\ v # <<>> /\ lower(v) = v /\ w.language # C
  BY Zenon DEF Readable, Data
<1> HIDE DEF v
<1>2. /\ u \in Data /\ u.language = w.language /\ u.script = w.script /\ u.country = w.country
      /\ u.encoding = w.encoding /\ u.variant = v
  BY <1>1 DEF Data
<1> HIDE DEF u
<1>3. parse_from_variant(w, v) = Answer(u, TRUE)
  BY <1>1, Zenon DEF parse_from_variant, u
<1>4. Answer(u, TRUE).ok /\ Answer(u, TRUE).data = u
  BY Answers, Zenon
<1>5. Closed(Answer(u, TRUE), w, d)
  BY <1>2, <1>4, Zenon DEF Closed, v
<1> QED BY <1>3, <1>5, Zenon DEF v

LEMMA EncodingWrites ==
    ASSUME NEW d \in Data, Readable(d), NEW w, Open(w, d), ~are_encodings_equal(d.encoding, UsAscii)
    PROVE  Closed(parse_from_encoding(w, d.encoding \o Led("@", d.variant)), w, d)
<1> DEFINE e == d.encoding
           u == [w EXCEPT !.encoding = e]
           x == e \o Led("@", d.variant)
           t == Cut(x, {"@"})
<1>1. e \in Spellings /\ e # <<>> /\ upper(e) = e /\ Free(e, {"@"}) /\ d.variant \in Spellings /\ e = EncodingKept(e)
  BY Zenon DEF Readable, Data, EncodingRead, EncodingKept
<1> DEFINE at == {"@"}
<1>2. "@" \in Marks /\ "@" \in at
  BY DEF Marks
<1> HIDE DEF e, at
<1>3. t.part = e /\ IF d.variant = <<>> THEN t.mark = "end" ELSE t.mark = "@" /\ t.rest = d.variant
  <2>1. CASE d.variant = <<>>
    <3>1. Led("@", d.variant) = <<>>
      BY <1>1, <1>2, <2>1, LedIs, Zenon
    <3>2. Cut(e \o <<>>, at).part = e /\ Cut(e \o <<>>, at).mark = "end"
      <4>1. Free(e, at)
        BY <1>1 DEF at
      <4> QED BY <1>1, <4>1, CutWhole, Zenon
    <3> QED BY <2>1, <3>1, <3>2, Zenon DEF at
  <2>2. CASE d.variant # <<>>
    <3>1. Led("@", d.variant) \o <<>> = Led("@", d.variant) /\ d.variant \o <<>> = d.variant
      BY <1>1, ClosingIs, Concat, NoWord, Zenon
    <3> DEFINE v == d.variant
               none == <<>>
    <3>2. none \in Spellings /\ v \in Spellings /\ v # <<>> /\ Free(e, at)
      BY <1>1, <2>2, NoWord DEF at
    <3> HIDE DEF v, none
    <3>3. LET c == Cut(e \o (Led("@", v) \o none), at)
          IN  c.part = e /\ c.mark = "@" /\ c.rest = v \o none
      BY <1>1, <1>2, <3>2, CutLed, SMT, ZenonT(30)
    <3> QED BY <2>2, <3>1, <3>3, Zenon DEF v, none, at
  <2> QED BY <2>1, <2>2
<1> HIDE DEF t
<1>4. /\ u \in Data /\ u.language = w.language /\ u.script = w.script /\ u.country = w.country
      /\ u.encoding = e /\ u.variant = w.variant /\ w.variant = <<>>
  BY <1>1 DEF Data, Open
<1>5. parse_from_encoding(w, x) =
          CASE t.part = <<>> -> Answer(w, FALSE)
            [] t.part # <<>> /\ t.mark = "end" -> Answer([w EXCEPT !.encoding = upper(t.part)], TRUE)
            [] OTHER -> parse_from_variant([w EXCEPT !.encoding = upper(t.part)], t.rest)
  BY Zenon DEF parse_from_encoding, t
<1> HIDE DEF x
<1>6. [w EXCEPT !.encoding = upper(t.part)] = u
  BY <1>1, <1>3, Zenon
<1> HIDE DEF u
<1>7. u.encoding = EncodingKept(d.encoding)
  BY <1>1, <1>4, Zenon DEF e
<1>8. CASE d.variant = <<>>
  <2>1. parse_from_encoding(w, x) = Answer(u, TRUE)
    BY <1>1, <1>3, <1>5, <1>6, <1>8, Zenon
  <2>2. Answer(u, TRUE).ok /\ Answer(u, TRUE).data = u
    BY Answers, Zenon
  <2>3. Closed(Answer(u, TRUE), w, d)
    BY <1>4, <1>7, <1>8, <2>2, Zenon DEF Closed
  <2> QED BY <2>1, <2>3, Zenon DEF x, e
<1>9. CASE d.variant # <<>>
  <2>1. t.mark # "end" /\ t.rest = d.variant
    <3>1. "@" # "end"
      OBVIOUS
    <3> QED BY <1>3, <1>9, <3>1, Zenon
  <2>2. parse_from_encoding(w, x) = parse_from_variant(u, d.variant)
    BY <1>1, <1>3, <1>5, <1>6, <2>1, Zenon
  <2>3. u.language = C => d.variant = <<>>
    BY <1>4, Zenon DEF Open
  <2>4. Closed(parse_from_variant(u, d.variant), u, d)
    BY <1>4, <1>7, <1>9, <2>3, VariantWrites, Zenon
  <2>5. Closed(parse_from_variant(u, d.variant), w, d)
    BY <1>4, <2>4, Zenon DEF Closed
  <2> QED BY <2>2, <2>5, Zenon DEF x, e
<1> QED BY <1>8, <1>9

LEMMA OnwardsWrites ==
    ASSUME NEW d \in Data, Readable(d), NEW w, Open(w, d), NEW p \in Spellings, NEW marks, Free(p, marks),
           "." \in marks, "@" \in marks
    PROVE  LET t == Cut(p \o Closing(d), marks)
           IN  t.part = p /\ t.mark \in {"end", ".", "@"} /\ Closed(Onwards(w, t), w, d)
<1> DEFINE t == Cut(p \o Closing(d), marks)
           e == d.encoding
           v == d.variant
           V == Led("@", v)
           none == <<>>
<1>1. e \in Spellings /\ e # <<>> /\ v \in Spellings /\ V \in Spellings /\ none \in Spellings
  BY NoWord, ClosingIs, Zenon DEF Readable, Data, EncodingRead
<1>2. "@" \in Marks /\ "." \in Marks /\ "@" # "end" /\ "." # "end" /\ "." # "@"
  BY DEF Marks
<1>3. CASE are_encodings_equal(e, UsAscii)
  <2>1. EncodingPart(d) = none /\ EncodingKept(e) = UsAscii
    BY <1>3, Zenon DEF EncodingPart, EncodingKept
  <2>2. CASE v = <<>>
    <3>1. Closing(d) = none
      <4>1. V = none /\ none \o none = none
        BY <1>1, <1>2, <2>2, LedIs, Concat, Zenon
      <4> QED BY <2>1, <4>1, Zenon DEF Closing
    <3>2. t.part = p /\ t.mark = "end"
      <4>1. Cut(p \o <<>>, marks).part = p /\ Cut(p \o <<>>, marks).mark = "end"
        BY CutWhole, Zenon
      <4> QED BY <3>1, <4>1, Zenon
    <3> HIDE DEF t
    <3>3. Onwards(w, t) = Answer(w, TRUE)
      BY <3>2, Zenon DEF Onwards
    <3>4. Answer(w, TRUE).ok /\ Answer(w, TRUE).data = w
      BY Answers, Zenon
    <3>5. Closed(Answer(w, TRUE), w, d)
      BY <2>1, <2>2, <3>4, Zenon DEF Closed, Open
    <3> QED BY <3>2, <3>3, <3>5, Zenon DEF t
  <2>3. CASE v # <<>>
    <3>1. Closing(d) = V \o none
      <4>1. none \o V = V /\ V \o none = V
        BY <1>1, Concat, Zenon
      <4> QED BY <2>1, <4>1, Zenon DEF Closing
    <3> HIDE DEF none, v
    <3>2. t.part = p /\ t.mark = "@" /\ t.rest = v
      <4>1. LET c == Cut(p \o (Led("@", v) \o none), marks)
            IN  c.part = p /\ c.mark = "@" /\ c.rest = v \o none
        BY <1>1, <1>2, <2>3, CutLed, SMT, ZenonT(30)
      <4>2. v \o none = v
        BY <1>1, Concat, Zenon DEF none
      <4> QED BY <3>1, <4>1, <4>2, Zenon
    <3> HIDE DEF t
    <3>3. Onwards(w, t) = parse_from_variant(w, v)
      BY <1>2, <3>2, Zenon DEF Onwards
    <3>4. Closed(parse_from_variant(w, d.variant), w, d)
      <4>1. w \in Data /\ (w.language = C => d.variant = <<>>) /\ w.encoding = EncodingKept(d.encoding)
        BY <2>1, Zenon DEF Open
      <4> QED BY <2>3, <4>1, VariantWrites, Zenon DEF v
    <3> QED BY <3>2, <3>3, <3>4, Zenon DEF t, v
  <2> QED BY <2>2, <2>3
<1>4. CASE ~are_encodings_equal(e, UsAscii)
  <2>1. Closing(d) = Led(".", e) \o V
    BY <1>4, Zenon DEF Closing, EncodingPart
  <2> HIDE DEF e, V
  <2>2. t.part = p /\ t.mark = "." /\ t.rest = e \o V
    <3>1. LET c == Cut(p \o (Led(".", e) \o V), marks)
          IN  c.part = p /\ c.mark = "." /\ c.rest = e \o V
      BY <1>1, <1>2, CutLed, SMT, ZenonT(30)
    <3> QED BY <2>1, <3>1, Zenon
  <2> HIDE DEF t
  <2>3. Onwards(w, t) = parse_from_encoding(w, e \o V)
    BY <1>2, <2>2, Zenon DEF Onwards
  <2>4. Closed(parse_from_encoding(w, e \o V), w, d)
    BY <1>4, EncodingWrites, Zenon DEF e, V
  <2> QED BY <2>2, <2>3, <2>4, Zenon DEF t
<1> QED BY <1>3, <1>4

LEMMA CountryWrites ==
    ASSUME NEW d \in Data, Readable(d), NEW w, Open(w, d), w.language = d.language, d.country # <<>>
    PROVE  LET a == parse_from_country(w, d.country \o Closing(d))
           IN  /\ Closed(a, [w EXCEPT !.country = d.country], d)
               /\ [w EXCEPT !.country = d.country] \in Data
               /\ [w EXCEPT !.country = d.country].language = w.language
               /\ [w EXCEPT !.country = d.country].script = w.script
               /\ [w EXCEPT !.country = d.country].country = d.country
<1> DEFINE c == d.country
           u == [w EXCEPT !.country = c]
           x == c \o Closing(d)
           t == Cut(x, {"@", "."})
           known == IsLetters(c) \/ (IsDigits(c) /\ Length(c) = 3)
<1>1. c \in Spellings /\ c # <<>> /\ upper(c) = c /\ known /\ w.language # C /\ w \in Data
  BY Zenon DEF Readable, CountryRead, Data, Open
<1>2. c # UsPosix /\ \A marks : Free(c, marks)
  BY <1>1, NoMarks, Zenon
<1>3. /\ u \in Data /\ u.language = w.language /\ u.script = w.script /\ u.country = c
      /\ u.encoding = w.encoding /\ u.variant = w.variant
  <2> HIDE DEF c
  <2> QED BY <1>1 DEF Data
<1>4. Open(u, d)
  <2> HIDE DEF u
  <2> QED BY <1>3, Zenon DEF Open
<1>5. t.part = c /\ Closed(Onwards(u, t), u, d)
  <2> DEFINE marks == {"@", "."}
  <2>1. "@" \in marks /\ "." \in marks /\ Free(c, marks)
    BY <1>2
  <2> HIDE DEF c, u, marks
  <2>2. LET k == Cut(c \o Closing(d), marks)
        IN  k.part = c /\ k.mark \in {"end", ".", "@"} /\ Closed(Onwards(u, k), u, d)
    BY <1>1, <1>4, <2>1, OnwardsWrites, Zenon
  <2> QED BY <2>2, Zenon DEF marks
<1>6. parse_from_country(w, x) =
          CASE w.language = C \/ upper(t.part) = <<>> -> Answer(w, FALSE)
            [] w.language # C /\ w.language = English /\ upper(t.part) = UsPosix ->
                  Onwards([w EXCEPT !.language = C, !.country = <<>>], t)
            [] /\ w.language # C /\ upper(t.part) # <<>>
               /\ IsLetters(upper(t.part)) \/ (IsDigits(upper(t.part)) /\ Length(upper(t.part)) = 3) ->
                  Onwards([w EXCEPT !.country = upper(t.part)], t)
            [] OTHER -> Answer(w, FALSE)
  BY Zenon DEF parse_from_country
<1> HIDE DEF t, x, c
<1>7. upper(t.part) = c
  BY <1>1, <1>5, Zenon
<1>8. [w EXCEPT !.country = upper(t.part)] = u
  BY <1>7, Zenon
<1> HIDE DEF u, known
<1>9. parse_from_country(w, x) = Onwards(u, t)
  BY <1>1, <1>2, <1>6, <1>7, <1>8, Zenon DEF known
<1> QED BY <1>3, <1>5, <1>9, Zenon DEF x, c, u

\* What is read is d again, but for what its encoding is called.
ReadAgain(a, d) ==
    /\ a.ok
    /\ a.data \in Data
    /\ a.data.language = d.language /\ a.data.script = d.script /\ a.data.country = d.country
    /\ a.data.encoding = EncodingKept(d.encoding) /\ a.data.variant = d.variant

\* Only the language of d has been read.
Begun(w, d) == Open(w, d) /\ w.language = d.language /\ w.script = <<>> /\ w.country = <<>>

LEMMA Underscore ==
    /\ "_" \in Marks /\ "." \in Marks /\ "@" \in Marks /\ "_" \in {"-", "_"} /\ "_" # "end"
    /\ {"-", "_"} \cap {"end", ".", "@"} = {}
  BY DEF Marks

LEMMA CutUnderscore ==
    ASSUME NEW p \in Spellings, Free(p, Marks), NEW s \in Spellings, s # <<>>, NEW r \in Spellings
    PROVE  LET t == Cut(p \o (Led("_", s) \o r), Marks)
           IN  t.part = p /\ t.mark = "_" /\ t.rest = s \o r
<1> DEFINE m == "_"
           marks == Marks
<1>1. m \in Marks /\ m \in marks /\ Free(p, marks)
  BY Underscore
<1> HIDE DEF m, marks
<1>2. LET t == Cut(p \o (Led(m, s) \o r), marks)
      IN  t.part = p /\ t.mark = m /\ t.rest = s \o r
  BY <1>1, CutLed, SMT, ZenonT(30)
<1> QED BY <1>2, Zenon DEF m, marks

LEMMA CountryAfterLanguage ==
    ASSUME NEW d \in Data, Readable(d), NEW w, Begun(w, d), d.script = <<>>, d.country # <<>>
    PROVE  ReadAgain(parse_from_script(w, d.country \o Closing(d)), d)
<1> DEFINE c == d.country
           x == c \o Closing(d)
           t == Cut(x, Marks)
           u == [w EXCEPT !.country = c]
<1>1. c \in Spellings /\ ~IsScript(c) /\ (IsLetters(c) \/ IsDigits(c)) /\ Open(w, d) /\ w.language = d.language
  BY Zenon DEF Readable, CountryRead, IsScript, Begun, Data
<1>2. t.part = c
  <2>1. Free(c, Marks)
    BY <1>1, NoMarks, Zenon
  <2> HIDE DEF c
  <2>2. LET k == Cut(c \o Closing(d), Marks)
        IN  k.part = c /\ k.mark \in {"end", ".", "@"} /\ Closed(Onwards(w, k), w, d)
    BY <1>1, <2>1, Underscore, OnwardsWrites, Zenon
  <2> QED BY <2>2, Zenon
<1>3. parse_from_script(w, x) =
          CASE ~IsScript(t.part) -> parse_from_country(w, x)
            [] IsScript(t.part) /\ t.mark \in {"-", "_"} ->
                  parse_from_country([w EXCEPT !.script = capital(t.part)], t.rest)
            [] OTHER -> Onwards([w EXCEPT !.script = capital(t.part)], t)
  BY Zenon DEF parse_from_script, IsScript, Marks
<1> HIDE DEF t
<1>4. parse_from_script(w, x) = parse_from_country(w, x)
  BY <1>1, <1>2, <1>3, Zenon
<1>5. /\ Closed(parse_from_country(w, x), u, d)
      /\ u.language = w.language /\ u.script = w.script /\ u.country = c
  BY <1>1, CountryWrites, Zenon
<1> HIDE DEF x, u
<1>6. ReadAgain(parse_from_country(w, x), d)
  BY <1>5, Zenon DEF ReadAgain, Closed, Begun, c
<1> QED BY <1>4, <1>6, Zenon DEF x, c

LEMMA ScriptWrites ==
    ASSUME NEW d \in Data, Readable(d), NEW w, Begun(w, d), d.script # <<>>
    PROVE  ReadAgain(parse_from_script(w, d.script \o (Led("_", d.country) \o Closing(d))), d)
<1> DEFINE s == d.script
           c == d.country
           R == Led("_", c) \o Closing(d)
           x == s \o R
           t == Cut(x, Marks)
           u == [w EXCEPT !.script = s]
<1>1. s \in Spellings /\ s # <<>> /\ IsScript(s) /\ capital(s) = s /\ c \in Spellings
  BY Zenon DEF Readable, ScriptRead, IsScript, Data
<1>2. Free(s, Marks)
  BY <1>1, NoMarks, Zenon DEF IsScript
<1>3. /\ u \in Data /\ u.language = w.language /\ u.script = s /\ u.country = w.country
      /\ u.encoding = w.encoding /\ u.variant = w.variant
  <2> HIDE DEF s
  <2> QED BY <1>1 DEF Data, Begun, Open
<1> HIDE DEF u
<1>4. Open(u, d) /\ u.language = d.language /\ u.country = <<>>
  BY <1>3, Zenon DEF Open, Begun
<1>5. parse_from_script(w, x) =
          CASE ~IsScript(t.part) -> parse_from_country(w, x)
            [] IsScript(t.part) /\ t.mark \in {"-", "_"} ->
                  parse_from_country([w EXCEPT !.script = capital(t.part)], t.rest)
            [] OTHER -> Onwards([w EXCEPT !.script = capital(t.part)], t)
  BY Zenon DEF parse_from_script, IsScript, Marks
<1> HIDE DEF s, c
<1>6. t.part = s => [w EXCEPT !.script = capital(t.part)] = u
  BY <1>1, Zenon DEF u
<1>7. CASE c = <<>>
  <2>1. R = Closing(d)
    <3>1. Led("_", c) = <<>>
      BY <1>1, <1>7, Underscore, LedIs, Zenon
    <3> QED BY <3>1, ClosingIs, Concat, Zenon
  <2>2. LET k == Cut(s \o Closing(d), Marks)
        IN  k.part = s /\ k.mark \in {"end", ".", "@"} /\ Closed(Onwards(u, k), u, d)
    BY <1>1, <1>2, <1>4, Underscore, OnwardsWrites, Zenon
  <2>3. t.part = s /\ t.mark \in {"end", ".", "@"} /\ Closed(Onwards(u, t), u, d)
    BY <2>1, <2>2, Zenon
  <2> HIDE DEF t
  <2>4. parse_from_script(w, x) = Onwards(u, t)
    <3>1. t.mark \notin {"-", "_"}
      BY <2>3, Underscore
    <3> QED BY <1>1, <1>5, <1>6, <2>3, <3>1, Zenon
  <2>5. ReadAgain(Onwards(u, t), d)
    BY <1>3, <1>4, <1>7, <2>3, Zenon DEF ReadAgain, Closed, s, c
  <2> QED BY <2>4, <2>5, Zenon DEF x, s, c
<1>8. CASE c # <<>>
  <2>1. t.part = s /\ t.mark = "_" /\ t.rest = c \o Closing(d)
    <3>1. LET k == Cut(s \o (Led("_", c) \o Closing(d)), Marks)
          IN  k.part = s /\ k.mark = "_" /\ k.rest = c \o Closing(d)
      BY <1>1, <1>2, <1>8, ClosingIs, CutUnderscore, SMT, ZenonT(60)
    <3> QED BY <3>1, Zenon
  <2> HIDE DEF t
  <2>2. parse_from_script(w, x) = parse_from_country(u, c \o Closing(d))
    <3>1. t.mark \in {"-", "_"}
      BY <2>1, Underscore
    <3> QED BY <1>1, <1>5, <1>6, <2>1, <3>1, Zenon
  <2> DEFINE y == [u EXCEPT !.country = c]
  <2>3. /\ Closed(parse_from_country(u, c \o Closing(d)), y, d)
        /\ y.language = u.language /\ y.script = u.script /\ y.country = c
    BY <1>4, <1>8, CountryWrites, Zenon DEF c
  <2> HIDE DEF y
  <2>4. ReadAgain(parse_from_country(u, c \o Closing(d)), d)
    BY <1>3, <1>4, <2>3, Zenon DEF ReadAgain, Closed, s, c
  <2> QED BY <2>2, <2>4, Zenon DEF x, s, c
<1> QED BY <1>7, <1>8

\* The name in the order in which parse takes it apart.
LEMMA Written ==
    ASSUME NEW d \in Data
    PROVE  to_string(d) = d.language \o (Led("_", d.script) \o (Led("_", d.country) \o Closing(d)))
<1> DEFINE l == d.language
           s == Led("_", d.script)
           c == Led("_", d.country)
           e == EncodingPart(d)
           v == Led("@", d.variant)
<1>1. l \in Spellings /\ s \in Spellings /\ c \in Spellings /\ e \in Spellings /\ v \in Spellings
  <2>1. d.language \in Spellings /\ d.script \in Spellings /\ d.country \in Spellings
    BY DEF Data
  <2> QED BY <2>1, Underscore, LedIs, ClosingIs, Zenon
<1>2. to_string(d) = (((l \o s) \o c) \o e) \o v /\ Closing(d) = e \o v
  BY Zenon DEF to_string, EncodingPart, Closing
<1> HIDE DEF l, s, c, e, v
<1>3. e \o v \in Spellings /\ l \o s \in Spellings /\ (l \o s) \o c \in Spellings /\ c \o (e \o v) \in Spellings
  BY <1>1, Concat, Zenon
<1> DEFINE ev == e \o v
           ls == l \o s
           lsc == ls \o c
           cev == c \o ev
<1> HIDE DEF lsc, ls, ev, cev
<1>4. (lsc \o e) \o v = lsc \o (e \o v)
  <2>1. lsc \in Spellings /\ e \in Spellings /\ v \in Spellings
    BY <1>1, <1>3 DEF lsc, ls
  <2> QED BY <2>1, Associates, SMT, ZenonT(30)
<1>5. (ls \o c) \o ev = ls \o (c \o ev)
  <2>1. ls \in Spellings /\ c \in Spellings /\ ev \in Spellings
    BY <1>1, <1>3 DEF ls, ev
  <2> QED BY <2>1, Associates, SMT, ZenonT(30)
<1>6. (l \o s) \o cev = l \o (s \o cev)
  <2>1. l \in Spellings /\ s \in Spellings /\ cev \in Spellings
    BY <1>1, <1>3 DEF cev, ev
  <2> QED BY <2>1, Associates, SMT, ZenonT(30)
<1>7. to_string(d) = l \o (s \o (c \o Closing(d)))
  BY <1>2, <1>4, <1>5, <1>6, Zenon DEF lsc, ls, ev, cev
<1> QED BY <1>7, Zenon DEF l, s, c

LEMMA ParseWrites ==
    ASSUME NEW d \in Data, Readable(d)
    PROVE  ReadAgain(parse(to_string(d)), d)
<1> DEFINE l == d.language
           s == d.script
           c == d.country
           x == to_string(d)
           t == Cut(x, Marks)
           still == lower(l) \in {lower(C), << <<"posix", "lower">> >>}
           w == IF still THEN Default ELSE [Default EXCEPT !.language = lower(l)]
<1>1. /\ l \in Spellings /\ l # <<>> /\ IsLetters(l) /\ s \in Spellings /\ c \in Spellings
      /\ l = C \/ (lower(l) = l /\ ~still)
  BY Constants, Zenon DEF Readable, LanguageRead, Data
<1>2. Free(l, Marks)
  BY <1>1, NoMarks, Zenon
<1>3. Begun(w, d)
  <2>1. CASE l = C
    <3>1. w = Default
      BY <2>1, Zenon
    <3>2. d.variant = <<>>
      BY <2>1, Zenon DEF Readable
    <3> QED BY <2>1, <3>1, <3>2, DefaultIs, Zenon DEF Begun, Open
  <2>2. CASE l # C
    <3>1. w = [Default EXCEPT !.language = l]
      BY <1>1, <2>2, Zenon
    <3> HIDE DEF w, l
    <3>2. /\ w \in Data /\ w.language = l /\ w.script = <<>> /\ w.country = <<>> /\ w.variant = <<>>
          /\ w.encoding = UsAscii
      BY <1>1, <3>1, DefaultIs DEF Data
    <3> QED BY <2>2, <3>2, Zenon DEF Begun, Open, l
  <2> QED BY <2>1, <2>2
<1>4. parse(x) =
          CASE t.part = <<>> \/ ~IsLetters(t.part) -> Answer(Default, FALSE)
            [] t.part # <<>> /\ IsLetters(t.part) /\ t.mark \in {"-", "_"} ->
                  parse_from_script(IF lower(t.part) \in {lower(C), << <<"posix", "lower">> >>} THEN Default
                                    ELSE [Default EXCEPT !.language = lower(t.part)], t.rest)
            [] OTHER ->
                  Onwards(IF lower(t.part) \in {lower(C), << <<"posix", "lower">> >>} THEN Default
                          ELSE [Default EXCEPT !.language = lower(t.part)], t)
  BY Zenon DEF parse, parse_from_lang, Marks
<1>5. x = l \o (Led("_", s) \o (Led("_", c) \o Closing(d)))
  BY Written, Zenon
<1> DEFINE R == Led("_", s) \o (Led("_", c) \o Closing(d))
<1> HIDE DEF l, s, c, x
<1>6. t.part = l => parse(x) = IF t.mark \in {"-", "_"} THEN parse_from_script(w, t.rest) ELSE Onwards(w, t)
  <2> HIDE DEF t
  <2> QED BY <1>1, <1>4, Zenon
<1> HIDE DEF w
<1>7. Open(w, d) /\ w.language = d.language /\ w.script = <<>> /\ w.country = <<>>
  BY <1>3, Zenon DEF Begun
<1>8. /\ s = <<>> => Led("_", s) = <<>>
      /\ c = <<>> => Led("_", c) = <<>>
      /\ Led("_", c) \o Closing(d) \in Spellings /\ Closing(d) \in Spellings
  BY <1>1, Underscore, LedIs, ClosingIs, Concat, Zenon
<1>9. CASE s # <<>>
  <2> DEFINE r == Led("_", c) \o Closing(d)
  <2>1. r \in Spellings
    BY <1>8
  <2> HIDE DEF r
  <2>2. LET k == Cut(l \o (Led("_", s) \o r), Marks)
        IN  k.part = l /\ k.mark = "_" /\ k.rest = s \o r
    <3> HIDE DEF t
    <3> QED BY <1>1, <1>2, <1>9, <2>1, CutUnderscore, SMT, ZenonT(60)
  <2>3. t.part = l /\ t.mark = "_" /\ t.rest = s \o r
    BY <1>5, <2>2, Zenon DEF r
  <2> HIDE DEF t
  <2>4. parse(x) = parse_from_script(w, s \o r)
    BY <1>6, <2>3, Underscore, Zenon
  <2>5. ReadAgain(parse_from_script(w, s \o r), d)
    BY <1>3, <1>9, ScriptWrites, Zenon DEF r, s, c
  <2> QED BY <2>4, <2>5, Zenon DEF x
<1>10. CASE s = <<>> /\ c # <<>>
  <2>1. x = l \o (Led("_", c) \o Closing(d))
    <3>1. <<>> \o (Led("_", c) \o Closing(d)) = Led("_", c) \o Closing(d)
      BY <1>8, Concat, Zenon
    <3> QED BY <1>5, <1>8, <1>10, <3>1, Zenon
  <2>2. LET k == Cut(l \o (Led("_", c) \o Closing(d)), Marks)
        IN  k.part = l /\ k.mark = "_" /\ k.rest = c \o Closing(d)
    <3> HIDE DEF t
    <3> DEFINE r == Closing(d)
    <3>1. r \in Spellings /\ l \in Spellings /\ c \in Spellings /\ c # <<>> /\ Free(l, Marks)
      BY <1>1, <1>2, <1>8, <1>10
    <3> HIDE DEF r
    <3>2. LET k == Cut(l \o (Led("_", c) \o r), Marks)
          IN  k.part = l /\ k.mark = "_" /\ k.rest = c \o r
      BY <3>1, CutUnderscore, SMT, ZenonT(60)
    <3> QED BY <3>2, Zenon DEF r
  <2>3. t.part = l /\ t.mark = "_" /\ t.rest = c \o Closing(d)
    BY <2>1, <2>2, Zenon
  <2> HIDE DEF t
  <2>4. parse(x) = parse_from_script(w, c \o Closing(d))
    BY <1>6, <2>3, Underscore, Zenon
  <2>5. ReadAgain(parse_from_script(w, c \o Closing(d)), d)
    BY <1>3, <1>10, CountryAfterLanguage, Zenon DEF s, c
  <2> QED BY <2>4, <2>5, Zenon DEF x
<1>11. CASE s = <<>> /\ c = <<>>
  <2>1. x = l \o Closing(d)
    <3>1. <<>> \o Closing(d) = Closing(d)
      BY <1>8, Concat, Zenon
    <3> QED BY <1>5, <1>8, <1>11, <3>1, Zenon
  <2>2. LET k == Cut(l \o Closing(d), Marks)
        IN  k.part = l /\ k.mark \in {"end", ".", "@"} /\ Closed(Onwards(w, k), w, d)
    BY <1>1, <1>2, <1>7, Underscore, OnwardsWrites, Zenon
  <2>3. t.part = l /\ t.mark \in {"end", ".", "@"} /\ Closed(Onwards(w, t), w, d)
    BY <2>1, <2>2, Zenon
  <2> HIDE DEF t
  <2>4. t.mark \notin {"-", "_"}
    BY <2>3, Underscore
  <2>5. parse(x) = Onwards(w, t)
    BY <1>6, <2>3, <2>4, Zenon
  <2>6. ReadAgain(Onwards(w, t), d)
    BY <1>7, <1>11, <2>3, Zenon DEF ReadAgain, Closed, s, c
  <2> QED BY <2>5, <2>6, Zenon DEF x
<1> QED BY <1>9, <1>10, <1>11

\* A name that was read is kept by its data, for every name of tokens.
LEMMA Keeps ==
    ASSUME spelled \in Spellings
    PROVE  NameIsKept
<1> DEFINE p == parse(spelled)
           d == p.data
           q == parse(to_string(d))
<1> SUFFICES ASSUME p.ok
             PROVE  q.ok /\ Same(d, q.data)
  BY Zenon DEF NameIsKept
<1>1. d \in Data /\ Readable(d)
  BY ParseReads, Zenon DEF ReadsWell
<1> HIDE DEF p, d
<1>2. ReadAgain(q, d)
  BY <1>1, ParseWrites, Zenon
<1> HIDE DEF q
<1> DEFINE g == q.data
           u == [d EXCEPT !.encoding = g.encoding]
<1>3. /\ q.ok /\ g \in Data
      /\ g.language = d.language /\ g.script = d.script /\ g.country = d.country
      /\ g.encoding = EncodingKept(d.encoding) /\ g.variant = d.variant
  BY <1>2, Zenon DEF ReadAgain
<1>4. are_encodings_equal(d.encoding, EncodingKept(d.encoding))
  BY Zenon DEF EncodingKept, are_encodings_equal
<1> HIDE DEF g
<1>5. u = g
  BY <1>1, <1>3 DEF Data
<1>6. are_encodings_equal(d.encoding, g.encoding)
  BY <1>3, <1>4, Zenon
<1> QED BY <1>3, <1>5, <1>6, Zenon DEF Same, g

\* Whatever name of tokens a user gives, the data that parse reads of it are
\* written by to_string as a name that parse reads as the same data.
THEOREM NameIsAlwaysKept == NamesSpec => []NameIsKept
<1> DEFINE Spelled == spelled \in Spellings
<1>1. NamesInit => Spelled
  BY TokensAssumption DEF NamesInit, Spellings
<1>2. Spelled /\ [NamesNext]_nameVars => Spelled'
  <2> SUFFICES ASSUME Spelled, [NamesNext]_nameVars
               PROVE  Spelled'
    OBVIOUS
  <2>1. ASSUME NEW p \in Pieces, AddPiece(p)
        PROVE  Spelled'
    BY <2>1, TokensAssumption, ConcatProperties DEF AddPiece, Spellings
  <2>2. CASE UNCHANGED nameVars
    BY <2>2 DEF nameVars
  <2> QED BY <2>1, <2>2 DEF NamesNext
<1>3. Spelled => NameIsKept
  BY Keeps
<1> QED BY <1>1, <1>2, <1>3, PTL DEF NamesSpec
=============================================================================
