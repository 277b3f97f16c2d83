------------------------------ MODULE MCBackends ------------------------------
(* Four instances, one of which is chosen in the beginning (part): the       *)
(* global manager and its threads, a generator and its threads, one backend  *)
(* object, and locale names.                                                 *)
EXTENDS BackendRegistry, Generator, BackendObject, TLC

VARIABLE part

MCNames == {"icu", "std"}
MCCompiled == <<"icu", "std">>
Symmetry == Permutations(Threads)

\* Tokens.
l(w) == <<w, "lower">>
u(w) == <<w, "upper">>
n(w) == <<w, "digits">>
m(c) == <<c, "mark">>

MCWordLength ==
    [c |-> 1, en |-> 2, us |-> 2, de |-> 2, latn |-> 4, posix |-> 5, ascii |-> 5, utf |-> 3, euro |-> 4,
     iso |-> 3, windows |-> 7, english |-> 7] @@ ("8" :> 1) @@ ("1" :> 1) @@ ("419" :> 3) @@ ("2" :> 1) @@ ("8859" :> 4) @@ ("1252" :> 4)

en == <<l("en")>>
en_US == <<l("en"), m("_"), u("us")>>
English_ == << <<"english", "capital">> >>
WithUTF8(s) == s \o <<m("."), u("utf"), m("-"), n("8")>>
WithUtf8(s) == s \o <<m("."), l("utf"), n("8")>>
Latin1(s) == s \o <<m("."), u("iso"), n("8859"), m("-"), n("1")>>
C_ == <<u("c")>>

MCStarts == {<<>>, en, <<u("en")>>, C_, <<l("posix")>>, <<l("en"), n("8")>>}
MCPieces ==
    {<<m("_"), u("us")>>, <<m("-"), l("us")>>, <<m("_"), l("latn")>>, <<m("-"), u("euro")>>, <<m("_"), l("posix")>>,
     <<m("_"), n("419")>>, <<m("_"), n("8")>>, <<m(".")>>, <<m(".")>> \o <<l("us"), m("_"), l("ascii")>>,
     <<m("."), l("utf"), n("8")>>, <<m("@"), u("euro")>>, <<m("@")>>, <<u("us")>>}

Latin2(s) == s \o <<m("."), u("iso"), n("8859"), m("-"), n("2")>>
MCIds == {<<>>, en_US, WithUTF8(en_US), Latin1(en_US), Latin2(en), WithUTF8(<<l("de")>>)}
MCEnvironments ==
    {[LC_ALL |-> <<>>, LC_CTYPE |-> <<>>, LANG |-> WithUTF8(en_US)],
     [LC_ALL |-> WithUtf8(en), LC_CTYPE |-> Latin1(en), LANG |-> C_],
     [LC_ALL |-> <<>>, LC_CTYPE |-> <<>>, LANG |-> <<>>]}
\* What the names without an encoding stand for.
Loads(names, bare) ==
    [s \in {C_} \cup names |-> IF s # C_ /\ EncodingOf(s) = ascii THEN bare ELSE EncodingOf(s)]
iso1 == normalize_encoding(iso("1"))
MCSystems ==
    {[windows |-> FALSE, loads |-> s] :
        s \in {Loads({}, ascii), Loads({WithUTF8(en_US), Latin1(en_US)}, ascii),
               Loads({WithUtf8(en_US), en, WithUtf8(C_)}, utf8),
               Loads({en_US, Latin1(en), WithUTF8(C_)}, iso1), Loads({en_US}, utf8)}}
    \cup {[windows |-> TRUE, loads |-> s] :
        s \in {Loads({}, ascii), Loads({English_}, <<l("windows"), n("1252")>>),
               Loads({WithUTF8(en_US)}, ascii)}}

\* Windows knows English, with the code page 1252.
MCWindowsName(id) ==
    IF Len(id) > 0 /\ id[1] = l("en") THEN [name |-> English_, codepage |-> <<n("1252")>>]
    ELSE [name |-> <<>>, codepage |-> <<>>]
MCCodepages == <<l("windows"), n("1252")>> :> <<n("1252")>> @@ <<l("iso"), n("8859"), n("2")>> :> <<n("28592")>>

\* A message facet for char and an information facet, from two backends.
MCManager0 ==
    [names |-> <<"icu", "std">>, chosen |-> [c \in {"message", "information"} |-> IF c = "message" THEN 1 ELSE 0]]
MCCategorySets == {{"information"}}
MCCharacterSets == {{"char"}}

MCInstallCategories ==
    {"convert", "collation", "formatting", "dates", "parsing", "codepage", "boundary", "message",
     "calendar", "information"}

namesVars == <<spelled, pieces>>

StillNames == spelled = <<>> /\ pieces = 0
StillObject ==
    /\ kind = "icu" /\ system = [windows |-> FALSE, loads |-> Loads({}, ascii)]
    /\ env = [LC_ALL |-> <<>>, LC_CTYPE |-> <<>>, LANG |-> <<>>]
    /\ ObjectInit

MCInit ==
    /\ Init /\ GeneratorInit
    /\ \/ part \in {"manager", "generator"} /\ StillNames /\ StillObject
       \/ part = "object" /\ StillNames /\ ObjectInit
       \/ part = "names" /\ NamesInit /\ StillObject
MCNext ==
    /\ UNCHANGED part
    /\ \/ part = "manager" /\ Next /\ UNCHANGED <<namesVars, objectVars, generatorVars>>
       \/ part = "generator" /\ GeneratorNext /\ UNCHANGED <<vars, namesVars, objectVars>>
       \/ part = "object" /\ ObjectNext /\ UNCHANGED <<vars, namesVars, generatorVars>>
       \/ part = "names" /\ NamesNext /\ UNCHANGED <<vars, objectVars, generatorVars>>
MCSpec == MCInit /\ [][MCNext]_<<part, vars, namesVars, objectVars, generatorVars>>
=============================================================================
