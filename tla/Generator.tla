------------------------------ MODULE Generator ------------------------------
(***************************************************************************)
(* One boost::locale::generator and the threads that call its generate()   *)
(* (src/src/shared/generator.cpp).  The const member functions may run in  *)
(* several threads at once; the setters, which are not const, run while no *)
(* generate() does.  A locale is a value: what locale it was built from    *)
(* first, and the facet in each of its slots.                              *)
(***************************************************************************)
EXTENDS Backends

CONSTANTS
    LocaleIds,        \* locale names
    Bases,            \* locales that generate() may extend: the classic one, the user's own
    Manager0,         \* the backend manager the generator was given, a well-formed one
    PerCharacter,     \* the Categories with a facet for each character type
    Characters,       \* the character types
    Domains, Paths,   \* message domains and search paths
    CategorySets, CharacterSets, \* the values passed to categories(), characters()
    AnsiValues,       \* and use_ansi_encoding()
    MaxPaths, MaxBuilt, MaxChanges \* bounds: the paths added, the locales built, the setters called

\* The facets a locale can have: one for each character type, or one.
Slots == (PerCharacter \X Characters) \cup ((Categories \ PerCharacter) \X {"nochar"})

VARIABLES
    config,          \* cats, chars, ansi, domains and paths of generator::data
    caching_enabled,
    cached,          \* cached: a function of the ids that are cached
    step,            \* step[t]: "idle", or the next step of t's generate(): "lookup", "build", "store"
    call,            \* call[t]: the arguments of t's generate()
    result,          \* result[t]: the local variable, then what t's last call returned
    inForce,         \* history: the configurations since the cache was last cleared
    hit,             \* history: hit[t]: what was cached for t's id when its call began
    built,           \* history: the number of locales built
    changes          \* history: the number of calls of setters

data == <<config, caching_enabled, cached>>
threads == <<step, call, result, hit>>
generatorVars == <<data, threads, inForce, built, changes>>

\* A locale that no backend has put a facet into.
OwnFacets(r) ==
    [root |-> r, object |-> 0,
     facets |-> [s \in Slots |->
        [by |-> {}, id |-> "", ansi |-> FALSE, domains |-> <<>>, paths |-> <<>>]]]

NoLocale == OwnFacets("none")
NoCall == [id |-> "", base |-> NoLocale]

GeneratorInit ==
    /\ config = [cats |-> Categories, chars |-> Characters, ansi |-> FALSE,
                 domains |-> <<>>, paths |-> <<>>]
    /\ caching_enabled = FALSE
    /\ cached = <<>>
    /\ step = [t \in Threads |-> "idle"]
    /\ call = [t \in Threads |-> NoCall]
    /\ result = [t \in Threads |-> NoLocale]
    /\ inForce = {config}
    /\ hit = [t \in Threads |-> NoLocale]
    /\ built = 0
    /\ changes = 0

-----------------------------------------------------------------------------
(* The setters. *)

Quiet == \A t \in Threads : step[t] = "idle"

Setter ==
    /\ Quiet
    /\ changes < MaxChanges
    /\ changes' = changes + 1

Configure(c) ==
    /\ Setter
    /\ config' = c
    /\ inForce' = inForce \cup {c}
    /\ UNCHANGED <<caching_enabled, cached, threads, built>>

SetCategories(cats) == Configure([config EXCEPT !.cats = cats])
SetCharacters(chars) == Configure([config EXCEPT !.chars = chars])
UseAnsiEncoding(v) == Configure([config EXCEPT !.ansi = v])

Listed(d) == \E i \in 1 .. Len(config.domains) : config.domains[i] = d

Without(ds, d) == SelectSeq(ds, LAMBDA e : e # d)

add_messages_domain(d) ==
    Configure(IF Listed(d) THEN config ELSE [config EXCEPT !.domains = Append(@, d)])

set_default_messages_domain(d) ==
    Configure([config EXCEPT !.domains = <<d>> \o Without(@, d)])

clear_domains == Configure([config EXCEPT !.domains = <<>>])

add_messages_path(p) ==
    /\ Len(config.paths) < MaxPaths
    /\ Configure([config EXCEPT !.paths = Append(@, p)])

clear_paths == Configure([config EXCEPT !.paths = <<>>])

locale_cache_enabled(v) ==
    /\ Setter
    /\ caching_enabled' = v
    /\ UNCHANGED <<config, cached, threads, inForce, built>>

clear_cache ==
    /\ Setter
    /\ cached' = <<>>
    /\ inForce' = {config}
    /\ UNCHANGED <<config, caching_enabled, threads, built>>

-----------------------------------------------------------------------------
(* generate(base, id), in thread t. *)

\* The facet that the backend of that slot's category makes of these options.
Facet(c, id, s) ==
    [by |-> Serving(Manager0, s[1]), id |-> id,
     ansi |-> c.ansi, domains |-> c.domains, paths |-> c.paths]

Installed(c) ==
    {s \in Slots : /\ s[1] \in c.cats
                   /\ s[1] \in PerCharacter => s[2] \in c.chars
                   /\ Serving(Manager0, s[1]) # {}}

Build(c, id, base) ==
    [root |-> base.root,
     facets |-> [s \in Slots |-> IF s \in Installed(c) THEN Facet(c, id, s) ELSE base.facets[s]]]

IsCached(id) == id \in DOMAIN cached

Generate(t, id, base) ==
    /\ step[t] = "idle"
    /\ step' = [step EXCEPT ![t] = IF caching_enabled THEN "lookup" ELSE "build"]
    /\ call' = [call EXCEPT ![t] = [id |-> id, base |-> base]]
    /\ hit' = [hit EXCEPT ![t] = IF caching_enabled /\ IsCached(id) THEN cached[id] ELSE NoLocale]
    /\ UNCHANGED <<data, result, inForce, built, changes>>

Return(t) ==
    /\ step' = [step EXCEPT ![t] = "idle"]
    /\ call' = [call EXCEPT ![t] = NoCall]
    /\ hit' = [hit EXCEPT ![t] = NoLocale]

\* Faulty: what is cached is not used.
Lookup_Misses(t) ==
    /\ step[t] = "lookup"
    /\ step' = [step EXCEPT ![t] = "build"]
    /\ UNCHANGED <<data, call, result, hit, inForce, built, changes>>

\* The first critical section.
Lookup(t) ==
    /\ step[t] = "lookup"
    /\ IF IsCached(call[t].id)
       THEN /\ result' = [result EXCEPT ![t] = cached[call[t].id]]
            /\ Return(t)
       ELSE /\ step' = [step EXCEPT ![t] = "build"]
            /\ UNCHANGED <<call, result, hit>>
    /\ UNCHANGED <<data, inForce, built, changes>>

\* A backend of t's own is created, gets the options and installs the facets.
BuildLocale(t) ==
    /\ step[t] = "build"
    /\ built < MaxBuilt
    /\ built' = built + 1
    /\ LET l == Build(config, call[t].id, call[t].base)
       IN  result' = [result EXCEPT ![t] =
                        [root |-> l.root, facets |-> l.facets, object |-> built + 1]]
    /\ IF caching_enabled
       THEN step' = [step EXCEPT ![t] = "store"] /\ UNCHANGED <<call, hit>>
       ELSE Return(t)
    /\ UNCHANGED <<data, inForce, changes>>

\* A backend cannot make the locale, and its exception leaves generate().
BuildThrows(t) ==
    /\ step[t] = "build"
    /\ result' = [result EXCEPT ![t] = NoLocale]
    /\ Return(t)
    /\ UNCHANGED <<data, inForce, built, changes>>

\* Faulty: the locale built last is the one that is cached.
Store_Last(t) ==
    /\ step[t] = "store"
    /\ cached' = [i \in DOMAIN cached \cup {call[t].id} |->
                    IF i = call[t].id THEN result[t] ELSE cached[i]]
    /\ Return(t)
    /\ UNCHANGED <<config, caching_enabled, result, inForce, built, changes>>

\* The second critical section: a locale that another thread has stored stays,
\* and this thread returns the one it has built.
Store(t) ==
    /\ step[t] = "store"
    /\ cached' = IF IsCached(call[t].id) THEN cached
                 ELSE [i \in DOMAIN cached \cup {call[t].id} |->
                            IF i = call[t].id THEN result[t] ELSE cached[i]]
    /\ Return(t)
    /\ UNCHANGED <<config, caching_enabled, result, inForce, built, changes>>

Setters ==
    \/ \E cats \in CategorySets : SetCategories(cats)
    \/ \E chars \in CharacterSets : SetCharacters(chars)
    \/ \E v \in AnsiValues : UseAnsiEncoding(v)
    \/ \E v \in BOOLEAN : locale_cache_enabled(v)
    \/ \E d \in Domains : add_messages_domain(d) \/ set_default_messages_domain(d)
    \/ \E p \in Paths : add_messages_path(p)
    \/ clear_domains \/ clear_paths \/ clear_cache

\* The base is the classic locale, one of the user's, or one generated before.
Offered(t) == {OwnFacets(b) : b \in Bases} \cup ({result[t]} \ {NoLocale})

GeneratorNext ==
    \/ Setters
    \/ \E t \in Threads :
        \/ \E id \in LocaleIds, base \in Offered(t) : Generate(t, id, base)
        \/ Lookup(t) \/ BuildLocale(t) \/ BuildThrows(t) \/ Store(t)

GeneratorSpec == GeneratorInit /\ [][GeneratorNext]_generatorVars

-----------------------------------------------------------------------------
\* A locale that is cached stays the one for its id, whatever threads build the
\* same locale at the same time, until the cache is cleared.
CachedStays ==
    [][\A i \in DOMAIN cached :
          (i \in DOMAIN cached' /\ cached'[i] = cached[i]) \/ clear_cache]_generatorVars

\* The facets a call installs are those of its own id, and of a configuration
\* in force since the cache was last cleared: a locale built before is never
\* handed out again, nor one of another id or of half-changed options.
ReturnsFacetsInForce(t) ==
    \E c \in inForce : \A s \in Installed(c) : result'[t].facets[s] = Facet(c, call[t].id, s)

\* Once a locale is cached, every call for its id that begins later returns
\* that very object.
ReturnsHit(t) == hit[t] # NoLocale => result'[t] = hit[t]

\* With caching off a call returns the base it was given, with the facets that
\* are configured now and with the base's facet in every other slot.
ReturnsExtendedBase(t) ==
    ~caching_enabled =>
        /\ result'[t].root = call[t].base.root
        /\ \A s \in Slots : result'[t].facets[s] =
              IF s \in Installed(config) THEN Facet(config, call[t].id, s)
              ELSE call[t].base.facets[s]

Returned(t) == step'[t] = "idle" /\ step[t] # "idle" /\ result'[t] # NoLocale

\* Whatever other threads generate and whatever was configured before, a call
\* that returns a locale returns the one it was asked for.
ReturnedIsAskedFor ==
    [][\A t \in Threads :
          Returned(t) => ReturnsFacetsInForce(t) /\ ReturnsHit(t) /\ ReturnsExtendedBase(t)]_generatorVars
=============================================================================
