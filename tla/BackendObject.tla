---------------------------- MODULE BackendObject ----------------------------
(***************************************************************************)
(* One localization_backend object of the std, posix, winapi or ICU kind   *)
(* (src/src/std/std_backend.cpp, posix/posix_backend.cpp,                  *)
(* win32/win_backend.cpp, icu/icu_backend.cpp): it is given options, it    *)
(* prepares its data when it is first asked to install a facet, and it     *)
(* keeps them until an option changes.  The environment that names the     *)
(* system's locale may change at any time.                                 *)
(***************************************************************************)
EXTENDS LocaleNames

CONSTANTS
    Ids,          \* the values of the option "locale"; <<>> is the system's
    Environments, \* the values of LC_ALL, LC_CTYPE and LANG
    Systems,      \* records [windows, loads]: the build, and for each name that the C
                  \* and C++ libraries load a locale by, that of the classic one among
                  \* them, the normalized encoding of its texts
    UserDefault,  \* the language and country of a Windows user
    WindowsName(_), \* external: [name, codepage], Windows' name for a locale and the
                  \* number of its code page; name = <<>> for none
    Codepages,    \* the code page of each normalized encoding that has one
    InstallCategories, CharTypes \* what is installed

ClassicName == C
Utf8Upper == << <<"utf", "upper">>, Mark("-"), <<"8", "digits">> >>
Windows1252 == << <<"windows", "lower">>, Mark("-"), <<"1252", "digits">> >>

VARIABLES
    kind, system, env, \* the class of the object, the system and its environment
    options,           \* locale_id_, paths_, domains_ and use_ansi_encoding_
    invalid_,
    prepared,          \* real_id_ (in_use_id_), data_, name_ (lc_) and utf_mode_
    seen,              \* history: the environments since the options last changed
    used               \* history: the ids of the locales installed since then

object == <<options, invalid_, prepared>>
objectVars == <<kind, system, env, object, seen, used>>

NoOptions == [locale |-> <<>>, paths |-> <<>>, domains |-> <<>>, ansi |-> FALSE]
Unprepared == [real |-> <<>>, data |-> Default, name |-> <<>>, utf |-> "none"]

Kinds(s) == IF s.windows THEN {"std", "winapi", "icu"} ELSE {"std", "posix", "icu"}

ObjectInit ==
    /\ system \in Systems /\ kind \in Kinds(system)
    /\ env \in Environments
    /\ options = NoOptions
    /\ invalid_ = TRUE
    /\ prepared = Unprepared
    /\ seen = {env} /\ used = {}

-----------------------------------------------------------------------------
(* The options. *)

Changed == invalid_' = TRUE /\ seen' = {env} /\ used' = {}

\* Faulty: the data stay as they are.
set_option_Keeps(option, value) ==
    /\ options' = [options EXCEPT ![option] = value]
    /\ seen' = {env} /\ used' = {}
    /\ UNCHANGED <<kind, system, env, invalid_, prepared>>

set_option(option, value) ==
    /\ options' = [options EXCEPT ![option] = value]
    /\ Changed
    /\ UNCHANGED <<kind, system, env, prepared>>

\* The posix and winapi backends do not know use_ansi_encoding.
SetOptions ==
    \/ \E id \in Ids : set_option("locale", id)
    \/ options.paths = <<>> /\ set_option("paths", Append(options.paths, "path"))
    \/ options.domains = <<>> /\ set_option("domains", Append(options.domains, "domain"))
    \/ kind \in {"std", "icu"} /\ \E v \in BOOLEAN : set_option("ansi", v)

clear_options ==
    /\ options' = NoOptions
    /\ Changed
    /\ UNCHANGED <<kind, system, env, prepared>>

\* The copy has the options but not the data.
clone ==
    /\ prepared' = Unprepared
    /\ Changed
    /\ UNCHANGED <<kind, system, env, options>>

-----------------------------------------------------------------------------
(* prepare_data *)

FirstSet(a, b) == IF a # <<>> THEN a ELSE b

get_system_locale(e, use_utf8_on_windows) ==
    FirstSet(e.LC_ALL, FirstSet(e.LC_CTYPE, FirstSet(e.LANG,
        IF ~system.windows THEN ClassicName
        ELSE UserDefault \o Led(".", IF use_utf8_on_windows THEN Utf8Upper ELSE Windows1252))))

RealId(o, e) ==
    FirstSet(o.locale, get_system_locale(e, kind \in {"posix", "winapi"} \/ ~o.ansi))

loadable(n) == n \in DOMAIN system.loads
\* nl_langinfo_l(CODESET, ...) of a locale that is loaded.
Codeset(n) == system.loads[n]
WinName(id) == IF system.windows THEN WindowsName(id) ELSE [name |-> <<>>, codepage |-> <<>>]

iso(number) == << <<"iso", "lower">>, <<"8859", "digits">>, <<number, "digits">> >>

\* The locale that Windows has in mind is one of this encoding, or of a superset.
fits(w, encoding) ==
    LET e == normalize_encoding(encoding)
    IN \/ e = w.codepage
       \/ e \in DOMAIN Codepages /\ Codepages[e] = w.codepage
       \/ w.codepage = << <<"1252", "digits">> >> /\ e = iso("1")
       \/ w.codepage = << <<"1255", "digits">> >> /\ e = iso("8")

\* The names under which a UTF-8 locale may be known, in the order they are tried.
alt_names(id, d) ==
    (IF WinName(id).name = <<>> THEN <<>> ELSE <<WinName(id).name>>) \o
    <<to_string(with_encoding(d, Utf8Upper)), to_string(with_encoding(d, utf8)),
      to_string(with_encoding(d, <<>>)),
      C \o Led(".", Utf8Upper), C \o Led(".", utf8), ClassicName>>

FirstLoadable(names) ==
    names[CHOOSE i \in DOMAIN names :
            loadable(names[i]) /\ \A j \in 1 .. i - 1 : ~loadable(names[j])]

\* Faulty: the code page is not looked at.
std_name_AnyCodepage(id, d) ==
    CASE loadable(id) -> [name |-> id, utf |-> IF is_utf8(d) THEN "native" ELSE "none"]
      [] OTHER -> [name |-> FirstLoadable(alt_names(id, d)),
                   utf |-> IF is_utf8(d) THEN "from_wide" ELSE "none"]

\* The locale of the standard library that stands for an id, and how UTF-8 is
\* treated in it.
std_name(id, d) ==
    CASE loadable(id) -> [name |-> id, utf |-> IF is_utf8(d) THEN "native" ELSE "none"]
      [] ~loadable(id) /\ is_utf8(d) ->
            [name |-> FirstLoadable(alt_names(id, d)), utf |-> "from_wide"]
      [] OTHER ->
            [name |-> IF /\ WinName(id).name # <<>> /\ loadable(WinName(id).name)
                         /\ fits(WinName(id), d.encoding)
                      THEN WinName(id).name ELSE ClassicName,
             utf |-> "none"]

prepare(o, e) ==
    LET id == RealId(o, e)
        d == parse(id).data
        std == std_name(id, d)
    IN [real |-> id, data |-> d,
        name |-> CASE kind = "std" -> std.name
                   [] kind = "posix" -> IF loadable(id) THEN id ELSE ClassicName
                   [] kind = "winapi" ->
                        IF is_utf8(d) /\ WinName(id).name # <<>> THEN id ELSE ClassicName
                   [] kind = "icu" -> id,
        utf |-> IF kind = "std" THEN std.utf ELSE "none"]

\* Faulty: the data are prepared for every facet.
prepare_data_Always(o, e) == prepare(o, e)

prepare_data(o, e) == IF invalid_ THEN prepare(o, e) ELSE prepared

-----------------------------------------------------------------------------
(* install: a facet is described by its class, the locale it speaks for and  *)
(* the encoding of the char texts it reads and writes.                       *)

EncodingOf(id) == normalize_encoding(parse(id).data.encoding)
ascii == normalize_encoding(UsAscii)

\* A locale whose name says an encoding has it.
ASSUME CodesetAssumption ==
    \A s \in Systems : \A n \in DOMAIN s.loads :
        EncodingOf(n) # ascii => s.loads[n] = EncodingOf(n)

Made(class, of, bytes) == [class |-> class, of |-> of, bytes |-> bytes]
NotMade == [class |-> "none"]
ByName(class, p) == Made(class, p.name, Codeset(p.name))

std_convert(p, type) ==
    CASE type = "char8_t" \/ (type = "char" /\ p.utf # "none") ->
            Made("utf8_converter", p.name, utf8)
      [] (type = "char" /\ p.utf = "none") \/ type = "wchar_t" -> ByName("std_converter", p)

\* One collates UTF-8 through the wide facet when there is none for char.
std_collate(p, type) ==
    CASE type = "char" /\ p.utf = "from_wide" -> Made("utf8_collator_from_wide", p.name, utf8)
      [] (type = "char" /\ p.utf # "from_wide") \/ type = "wchar_t" -> ByName("collate_byname", p)
      [] type = "char8_t" -> NotMade

std_codecvt(p, type) ==
    CASE type = "char8_t" -> NotMade
      [] type # "char8_t" /\ (p.utf = "from_wide" \/ (system.windows /\ p.utf # "none")) ->
            Made("utf8_codecvt", p.name, utf8)
      [] OTHER -> ByName("codecvt_byname", p)

\* With UTF-8 the punctuation always comes from the wide facets, which may
\* hold a character that is no single char.
std_parsing(p, type) ==
    CASE type = "char" /\ p.utf # "none" -> Made("utf8_numpunct_from_wide", p.name, utf8)
      [] (type = "char" /\ p.utf = "none") \/ type = "wchar_t" -> ByName("numpunct_byname", p)
      [] type = "char8_t" -> NotMade

std_time_put(p, type) ==
    IF type = "char" /\ p.utf = "from_wide" THEN Made("utf8_time_put_from_wide", p.name, utf8)
    ELSE ByName("time_put_from_base", p)

posix_convert(p, type) ==
    CASE type = "char8_t" \/ (type = "char" /\ Codeset(p.name) = utf8) ->
            Made("utf8_converter", p.name, utf8)
      [] OTHER -> ByName("std_converter", p)

\* The other facets of a backend that are made of its locale, for the types
\* that have one.
Made_of(class, p, type, bytes) ==
    IF type = "char8_t" THEN NotMade ELSE Made(class, p.name, bytes)

\* The facets made of the name of the locale alone, or of its options.
Message(o, p) == [class |-> "message_facet", data |-> p.data, domains |-> o.domains,
                  paths |-> o.paths, bytes |-> normalize_encoding(p.data.encoding)]
Information(p) == Made("simple_info", p.real, EncodingOf(p.real))
Calendar(p) == [class |-> "gregorian_calendar", country |-> p.data.country,
                bytes |-> normalize_encoding(p.data.encoding)]

codepage(bytes, p, type) ==
    Made_of(IF bytes = utf8 THEN "utf8_codecvt" ELSE "code_converter", p, type, bytes)

\* The facets of a category: formatting brings one for dates.
std_install(o, p, category, type) ==
    CASE category = "convert" -> std_convert(p, type)
      [] category = "collation" -> std_collate(p, type)
      [] category \in {"formatting", "parsing"} -> std_parsing(p, type)
      [] category = "dates" -> IF type = "char8_t" THEN NotMade ELSE std_time_put(p, type)
      [] category = "codepage" -> std_codecvt(p, type)
      [] category = "boundary" -> NotMade

posix_install(o, p, category, type) ==
    CASE category = "convert" -> posix_convert(p, type)
      [] category \in {"collation", "formatting", "dates", "parsing"} ->
            Made_of(category, p, type, Codeset(p.name))
      [] category = "codepage" -> codepage(Codeset(p.name), p, type)
      [] category = "boundary" -> NotMade

winapi_install(o, p, category, type) ==
    LET classic == Made_of("classic", p, type, Codeset(ClassicName))
    IN CASE category = "convert" -> Made("utf8_converter", p.name, utf8)
         [] category = "collation" ->
               IF p.name = ClassicName THEN classic ELSE Made("utf_collator", p.name, utf8)
         [] category \in {"formatting", "dates", "parsing"} ->
               IF p.name = ClassicName THEN classic ELSE Made_of(category, p, type, utf8)
         [] category = "codepage" -> Made_of("utf8_codecvt", p, type, utf8)
         [] category = "boundary" -> NotMade

icu_install(o, p, category, type) ==
    LET bytes == normalize_encoding(p.data.encoding)
    IN CASE category = "codepage" -> codepage(bytes, p, type)
         [] category \in {"formatting", "dates", "parsing"} -> Made_of(category, p, type, bytes)
         [] category \in {"convert", "collation", "boundary"} -> Made(category, p.name, bytes)

facet(o, p, category, type) ==
    CASE category = "message" -> Message(o, p)
      [] category = "calendar" -> Calendar(p)
      [] category = "information" -> Information(p)
      [] category \notin {"message", "calendar", "information"} ->
            CASE kind = "std" -> std_install(o, p, category, type)
              [] kind = "posix" -> posix_install(o, p, category, type)
              [] kind = "winapi" -> winapi_install(o, p, category, type)
              [] kind = "icu" -> icu_install(o, p, category, type)

\* install() adds facet(options, prepared', category, type) to the locale it
\* is given, whatever the category and the type.
install ==
    /\ prepared' = prepare_data(options, env)
    /\ invalid_' = FALSE
    /\ used' = used \cup {prepared'.real}
    /\ UNCHANGED <<kind, system, env, options, seen>>

\* The C library has no memory for a locale: the exception leaves lc_ empty.
newlocale_fails ==
    /\ kind = "posix" /\ invalid_
    /\ prepared' = [prepare(options, env) EXCEPT !.name = <<>>]
    /\ UNCHANGED <<kind, system, env, options, invalid_, seen, used>>

\* The program changes an environment variable.
setenv(e) ==
    /\ env' = e
    /\ seen' = seen \cup {e}
    /\ UNCHANGED <<kind, system, object, used>>

ObjectNext ==
    \/ SetOptions \/ clear_options \/ clone \/ newlocale_fails \/ install
    \/ \E e \in Environments : setenv(e)

ObjectSpec == ObjectInit /\ [][ObjectNext]_objectVars

-----------------------------------------------------------------------------
\* A facet is always the one that a new backend with the options of now would
\* install: whatever was prepared before an option changed, before the object
\* was copied, or before preparing failed, is never used.
InstalledIsCurrent ==
    \A category \in InstallCategories, type \in CharTypes :
        ~invalid_ => \E e \in seen :
            facet(options, prepared, category, type) = facet(options, prepare(options, e), category, type)

\* The facets that are installed between two changes of the options, and that
\* go into one std::locale, all speak for one locale, whatever the environment.
OneLocale == \A a, b \in used : a = b

\* The std backend's locale speaks the language, script, country and variant of
\* a UTF-8 id if the system has such a locale, and else it is a classic one.
SameTongue(n, d) ==
    LET q == parse(n) IN q.ok /\ [q.data EXCEPT !.encoding = d.encoding] = d
Known(id) == {n \in DOMAIN system.loads :
                n = WinName(id).name \/ SameTongue(n, parse(id).data)}
UsableAsUtf8(n) == EncodingOf(n) \in {utf8, ascii}
TongueIsSpoken ==
    (kind = "std" /\ ~invalid_ /\ is_utf8(prepared.data) /\ parse(prepared.real).ok) =>
        LET known == {n \in Known(prepared.real) : UsableAsUtf8(n)}
        IN IF known = {} THEN parse(prepared.name).data.language = C ELSE prepared.name \in known

\* No facet for char takes text of one encoding for text of another: it reads
\* the encoding that the id says, or the locale is the classic one, to which all
\* bytes above 127 are alike.  An id that says none means US-ASCII, and gets the
\* encoding that the system has for that very id.  (The winapi backend is for
\* UTF-8 alone.)
EncodingIsHonoured ==
    (~invalid_ /\ (kind = "winapi" => is_utf8(prepared.data))) =>
        \A category \in InstallCategories :
            LET f == facet(options, prepared, category, "char")
            IN \/ f = NotMade
               \/ f.bytes = normalize_encoding(prepared.data.encoding)
               \/ prepared.name = ClassicName
               \/ /\ normalize_encoding(prepared.data.encoding) = ascii
                  /\ prepared.name = prepared.real /\ f.bytes = Codeset(prepared.name)
               \/ /\ prepared.name = WinName(prepared.real).name
                  /\ fits(WinName(prepared.real), prepared.data.encoding)

\* The locale that the backend chooses for a name stands for it.
NameSpeaks == TongueIsSpoken /\ EncodingIsHonoured
=============================================================================
