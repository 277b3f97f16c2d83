------------------------------ MODULE Messages ------------------------------
(***************************************************************************)
(* Message catalogs: a facet mo_message loads one catalog for each domain, *)
(* file by file, and then answers basic_message (src/src/shared/           *)
(* message.cpp, src/include/boost/locale/message.hpp).                     *)
(*                                                                         *)
(* A string is a sequence of codes.  What a code means depends on the      *)
(* encoding of the string, which the string does not tell: Tables gives    *)
(* the character of every code above ASCII.  One code is one character:    *)
(* how many bytes it takes is abstracted.                                  *)
(***************************************************************************)
EXTENDS PluralForms, Bitwise, FiniteSets

CONSTANTS
    Normal,      \* [name of an encoding -> its normalized name]
    Tables,      \* [normalized name -> [codes above ASCII -> characters]]
    Setups,      \* what a facet may be created from: [info, the messages_info;
                 \* files, [<<path, folder, domain>> -> file] of the files that
                 \* exist; header, the plural expression of the catalogs]
    Messages     \* the basic_message objects that are translated

VARIABLES
    phase,    \* "off" (no facet), "loading", "ready", "thrown", "asked"
    info, files, header,
    at,       \* position of the constructor's loops: domain, catalog path
    domain_data, locale_encoding_, key_encoding_, key_conversion_required_,
    stream,   \* the domain id in the ios_info of a stream
    last      \* the last message asked for, and the answer

facet == <<info, files, header, at, domain_data, locale_encoding_, key_encoding_,
           key_conversion_required_>>
vars == <<phase, facet, stream, last>>

NUL == 0
EOT == 4
NULL == <<-1>>  \* the null pointer: no string

-----------------------------------------------------------------------------
(* encodings *)

are_encodings_equal(l, r) == Normal[l] = Normal[r]

\* normalized "wide": a string of wide characters, whose codes are characters.
HasChar(enc, code) == code < 127 \/ code \in DOMAIN Tables[Normal[enc]]
CharOf(enc, code) == IF code < 127 THEN code ELSE Tables[Normal[enc]][code]
HasCode(enc, char) == \E b \in DOMAIN Tables[Normal[enc]] \cup {char} :
                            HasChar(enc, b) /\ CharOf(enc, b) = char
CodeOf(enc, char) == IF char < 127 THEN char
                     ELSE CHOOSE b \in DOMAIN Tables[Normal[enc]] : CharOf(enc, b) = char

\* A code, or a character, that has no counterpart is skipped.
Decode(enc, s) ==
    LET d[i \in 0 .. Len(s)] ==
          IF i = 0 THEN <<>>
          ELSE IF HasChar(enc, s[i]) THEN Append(d[i - 1], CharOf(enc, s[i])) ELSE d[i - 1]
    IN d[Len(s)]
Encode(enc, s) ==
    LET e[i \in 0 .. Len(s)] ==
          IF i = 0 THEN <<>>
          ELSE IF HasCode(enc, s[i]) THEN Append(e[i - 1], CodeOf(enc, s[i])) ELSE e[i - 1]
    IN e[Len(s)]

\* conv::between with method skip.
between(s, to, from) == Encode(to, Decode(from, s))

is_us_ascii_char(c) == 0 < c /\ c < 127
is_us_ascii_string(s) == \A i \in DOMAIN s : is_us_ascii_char(s[i])

\* What a reader of a C string sees of the codes from its start.
CString(s) ==
    IF \E i \in DOMAIN s : s[i] = NUL
    THEN SubSeq(s, 1, (CHOOSE i \in DOMAIN s : s[i] = NUL
                           /\ \A j \in 1 .. i - 1 : s[j] # NUL) - 1)
    ELSE s

-----------------------------------------------------------------------------
(* where catalogs are searched for *)

\* A domain is named "name" or "name/encoding".
Domain(n) == [name |-> n[1], encoding |-> IF Len(n) = 1 THEN "UTF-8" ELSE n[2]]

\* install_message_facet, create_messages_facet: the messages_info of a locale.
messages_info(data, domains, paths, wide) ==
    [language |-> data.language, country |-> data.country, variant |-> data.variant,
     encoding |-> data.encoding, domains |-> [i \in DOMAIN domains |-> Domain(domains[i])], paths |-> paths,
     wide |-> wide]

\* A folder is <<language, country, variant>>, "" for a part it leaves out.
get_lang_folders(inf) ==
    LET folders ==
          <<[on |-> inf.variant # "" /\ inf.country # "",
             name |-> <<inf.language, inf.country, inf.variant>>],
            [on |-> inf.variant # "", name |-> <<inf.language, "", inf.variant>>],
            [on |-> inf.country # "", name |-> <<inf.language, inf.country, "">>],
            [on |-> TRUE, name |-> <<inf.language, "", "">>]>>
        used == SelectSeq(folders, LAMBDA f : f.on)
    IN IF inf.language = "" THEN <<>> ELSE [i \in DOMAIN used |-> used[i].name]

\* <<path, folder>>: all search paths for a folder before the next folder.
get_catalog_paths(inf) ==
    LET folders == get_lang_folders(inf)
        n == Len(inf.paths)
    IN [k \in 1 .. Len(folders) * n |->
            <<inf.paths[1 + ((k - 1) % n)], folders[(k - 1) \div n + 1]>>]

-----------------------------------------------------------------------------
(* mo_file: [valid, entries, charset, plural, hash]; the header is entries[1], *)
(* whose key is empty.  hash is the table of the file, of indices into         *)
(* entries and 0; it may be missing, <<>>.  Precondition: its size is not 2.   *)

\* pj_winberger_hash: 32 bit state, whose upper four bits are folded away.
update_state(value, c) ==
    LET w == (value % 2^24) * 16 + c
        high == (value \div 2^24 + w \div 2^28) % 16
    IN (w % 2^28) ^^ (high * 16)

Hash(s) ==
    LET state[i \in 0 .. Len(s)] == IF i = 0 THEN 0 ELSE update_state(state[i - 1], s[i])
    IN state[Len(s)]

\* What the hash of a key is taken of, and what key_equals compares it with.
FullKey(context, key) == IF context = NULL THEN key ELSE context \o <<EOT>> \o key

mo_key(mo, idx) == CString(mo.entries[idx].key)

key_equals(real_key, context, key) == real_key = FullKey(context, key)

\* Open addressing: from the hash on in equal steps, to the key, to a free
\* place or back to the start.
find(mo, context, key) ==
    LET size == Len(mo.hash)
        hkey == Hash(FullKey(context, key))
        incr == 1 + (IF size = 1 THEN hkey ELSE hkey % (size - 2))
        idx(k) == mo.hash[1 + (((hkey % size) + k * incr) % size)]
        Ends(k) == \/ idx(k) = 0
                   \/ key_equals(mo_key(mo, idx(k)), context, key)
        back == CHOOSE k \in 1 .. size : (k * incr) % size = 0
                                         /\ \A j \in 1 .. k - 1 : (j * incr) % size # 0
        seen == {k \in 0 .. back - 1 : Ends(k)}
    IN IF size = 0 \/ seen = {} THEN <<>>
       ELSE LET k == CHOOSE j \in seen : \A m \in seen : j <= m
            IN IF idx(k) = 0 THEN <<>> ELSE mo.entries[idx(k)].value

-----------------------------------------------------------------------------
(* the facet's answers *)

NoCatalog == [k \in {} |-> <<>>]

\* Which of the two representations holds the catalog of a domain.
NoDomain == [direct |-> FALSE, mo |-> <<>>, catalog |-> NoCatalog, plural_form |-> Null]

\* message_key of a catalog's key: its context is what precedes the first EOT.
message_key(s) ==
    IF \E i \in DOMAIN s : s[i] = EOT
    THEN LET p == CHOOSE i \in DOMAIN s : s[i] = EOT /\ \A j \in 1 .. i - 1 : s[j] # EOT
         IN [context |-> SubSeq(s, 1, p - 1), key |-> SubSeq(s, p + 1, Len(s))]
    ELSE [context |-> <<>>, key |-> s]

\* message_key of a request: no context is an empty one.
request_key(context, id) ==
    [context |-> IF context = NULL THEN <<>> ELSE context, key |-> id]

get_string(d, context, id) ==
    IF d \notin 0 .. Len(domain_data) - 1 THEN <<>>
    ELSE LET data == domain_data[d + 1]
             k == request_key(context, id)
         IN IF data.direct THEN find(data.mo, context, id)
            ELSE IF k \in DOMAIN data.catalog THEN data.catalog[k] ELSE <<>>

\* get(domain, context, id)
get(d, context, id) ==
    LET result == get_string(d, context, id)
    IN IF result = <<>> THEN NULL ELSE CString(result)

\* What is left of a list of forms behind its i-th NUL; NULL if it has fewer.
Behind(forms, i) ==
    LET nuls == {j \in DOMAIN forms : forms[j] = NUL}
    IN IF i <= 0 THEN forms
       ELSE IF Cardinality(nuls) < i THEN NULL
       ELSE SubSeq(forms, 1 + CHOOSE j \in nuls : Cardinality({m \in nuls : m <= j}) = i,
                   Len(forms))

plural_index(d, n) ==
    IF domain_data[d + 1].plural_form = Null THEN IF n = 1 THEN 0 ELSE 1
    ELSE Eval(domain_data[d + 1].plural_form, n)

\* get(domain, context, id, n)
get_plural(d, context, id, n) ==
    LET result == get_string(d, context, id)
    IN IF result = <<>> THEN NULL
       ELSE LET form == Behind(result, plural_index(d, n))
            IN IF form \in {NULL, <<>>} THEN NULL ELSE CString(form)

\* Index of a domain, of the last one of that name; -1 if there is none.
domain(name) ==
    LET named == {d \in 1 .. Len(info.domains) : info.domains[d].name = name}
    IN IF named = {} THEN -1 ELSE (CHOOSE d \in named : \A e \in named : e <= d) - 1

\* convert: wide characters are never converted.
runtime_conversion(msg) ==
    IF ~key_conversion_required_ \/ is_us_ascii_string(msg) THEN msg
    ELSE between(msg, locale_encoding_, key_encoding_)

-----------------------------------------------------------------------------
(* basic_message: [id, context, plural, n, copied]; one that copied its       *)
(* strings can not tell an empty context or plural from none.                 *)

PointerOf(m, s) == IF m.copied /\ s = <<>> THEN NULL ELSE s

\* string_cast_traits: without a facet only ASCII is left of a narrow string.
string_cast(msg, wide) == IF wide THEN msg ELSE SelectSeq(msg, is_us_ascii_char)

\* basic_message::write: the translation, or the source text.
write(m, d) ==
    LET context == PointerOf(m, m.context)
        plural == PointerOf(m, m.plural)
        translated == IF phase = "off" THEN NULL
                      ELSE IF plural = NULL THEN get(d, context, m.id)
                      ELSE get_plural(d, context, m.id, m.n)
        msg == IF plural # NULL /\ m.n # 1 THEN plural ELSE m.id
    IN IF m.id = <<>> THEN <<>>
       ELSE IF translated # NULL THEN translated
       ELSE IF phase = "off" THEN string_cast(msg, m.wide)
       ELSE runtime_conversion(msg)

-----------------------------------------------------------------------------
(* loading *)

Init ==
    /\ phase = "off"
    /\ info = [wide |-> FALSE, domains |-> <<>>]
    /\ files = NoCatalog
    /\ header = <<>>
    /\ at = <<1, 1>>
    /\ domain_data = <<>>
    /\ locale_encoding_ = "" /\ key_encoding_ = "" /\ key_conversion_required_ = FALSE
    /\ stream = 0
    /\ last = <<>>

\* The constructor starts with empty domains.
Create(s) ==
    /\ phase' = "loading"
    /\ info' = s.info /\ files' = s.files /\ header' = s.header
    /\ domain_data' = [d \in DOMAIN s.info.domains |-> NoDomain]
    /\ UNCHANGED <<at, locale_encoding_, key_encoding_, key_conversion_required_, stream, last>>

\* Faulty: keys in another encoding than the file's are not looked for.
mo_useable_directly_AnyKeys(mo, locale, keys, wide) ==
    /\ ~wide
    /\ mo.hash # <<>>
    /\ are_encodings_equal(mo.charset, locale)

mo_useable_directly(mo, locale, keys, wide) ==
    /\ ~wide
    /\ mo.hash # <<>>
    /\ are_encodings_equal(mo.charset, locale)
    /\ \/ are_encodings_equal(mo.charset, keys)
       \/ \A i \in DOMAIN mo.entries : is_us_ascii_string(mo_key(mo, i))

\* utf_encoder stops at what it can not convert, narrow_converter skips it.
Convertible(mo, wide) ==
    wide => \A i \in DOMAIN mo.entries : \A s \in {mo_key(mo, i), mo.entries[i].value} :
                \A j \in DOMAIN s : HasChar(mo.charset, s[j])

\* The converted catalog, entry by entry; a later one replaces an equal key.
ConvertedCatalog(mo, locale, keys) ==
    LET catalog[i \in 0 .. Len(mo.entries)] ==
          IF i = 0 THEN NoCatalog
          ELSE message_key(between(mo_key(mo, i), keys, mo.charset))
                  :> between(mo.entries[i].value, locale, mo.charset) @@ catalog[i - 1]
    IN catalog[Len(mo.entries)]

domain_data_of(mo, locale, keys, wide) ==
    LET direct == mo_useable_directly(mo, locale, keys, wide)
    IN [direct |-> direct,
        mo |-> IF direct THEN mo ELSE <<>>,
        catalog |-> IF direct THEN NoCatalog
                    ELSE ConvertedCatalog(mo, IF wide THEN "wide" ELSE locale,
                                          IF wide THEN "wide" ELSE keys),
        plural_form |-> IF mo.plural = <<>> THEN Null ELSE compile(mo.plural)]

NextDomain == at' = <<at[1] + 1, 1>>
NextPath == at' = <<at[1], at[2] + 1>>

\* Faulty: a file that can not be used is passed over like one that does not exist.
Throw_PassesOver == NextPath /\ UNCHANGED <<phase, domain_data>>
\* An exception of load_file leaves the constructor.
Throw == phase' = "thrown" /\ UNCHANGED <<at, domain_data>>

\* load_file for the next path of a domain.  The members for convert() are set
\* before it is known whether the file exists; a file that is empty is none.
load_file ==
    LET dom == info.domains[at[1]]
        path == get_catalog_paths(info)[at[2]]
        name == <<path[1], path[2], dom.name>>
        mo == [files[name] EXCEPT !.plural = IF @ THEN header ELSE <<>>]
    IN /\ phase = "loading"
       /\ at[1] <= Len(info.domains)
       /\ at[2] <= Len(get_catalog_paths(info))
       /\ locale_encoding_' = info.encoding
       /\ key_encoding_' = dom.encoding
       /\ key_conversion_required_' =
             (~info.wide /\ ~are_encodings_equal(info.encoding, dom.encoding))
       /\ IF name \notin DOMAIN files
          THEN NextPath /\ UNCHANGED <<phase, domain_data>>
          ELSE IF ~mo.valid \/ mo.charset = "" \/ ~Convertible(mo, info.wide)
          THEN Throw
          ELSE /\ domain_data' = [domain_data EXCEPT ![at[1]] =
                     domain_data_of(mo, info.encoding, dom.encoding, info.wide)]
               /\ NextDomain
               /\ UNCHANGED phase
       /\ UNCHANGED <<info, files, header, stream, last>>

\* No path of the domain held a catalog.
GiveUpDomain ==
    /\ phase = "loading"
    /\ at[1] <= Len(info.domains)
    /\ at[2] > Len(get_catalog_paths(info))
    /\ NextDomain
    /\ UNCHANGED <<phase, info, files, header, domain_data, locale_encoding_, key_encoding_,
                   key_conversion_required_, stream, last>>

Constructed ==
    /\ phase = "loading"
    /\ at[1] > Len(info.domains)
    /\ phase' = "ready"
    /\ UNCHANGED <<facet, stream, last>>

Load == load_file \/ GiveUpDomain \/ Constructed

-----------------------------------------------------------------------------
(* translating; a program's strings are in the encoding of the domain's keys *)

KeyEncoding(d) == IF info.wide THEN "wide"
                  ELSE IF d \in DOMAIN info.domains THEN info.domains[d].encoding
                  ELSE "UTF-8"

InSource(m, d) ==
    LET s(x) == IF x = NULL THEN NULL ELSE Encode(KeyEncoding(d), x)
    IN [id |-> s(m.id), context |-> s(m.context), plural |-> s(m.plural), n |-> m.n,
        copied |-> m.copied, wide |-> info.wide]

Answer(m, d, id) ==
    /\ phase \in {"off", "ready"}
    /\ last = <<>>
    /\ last' = [message |-> m, domain |-> d, answer |-> write(InSource(m, d), id)]
    /\ UNCHANGED <<phase, facet, stream>>

\* str(loc): the first domain.
Str(m) == Answer(m, 1, 0)

\* str(loc, name); without a facet the name is not looked at.
StrIn(m, d) ==
    /\ d \in DOMAIN info.domains
    /\ Answer(m, d, IF phase = "off" THEN 0 ELSE domain(info.domains[d].name))

\* as::domain(name) on a stream; it throws if the locale has no facet.
SetDomain(d) ==
    /\ phase = "ready" /\ last = <<>>
    /\ d \in DOMAIN info.domains
    /\ stream' = domain(info.domains[d].name)
    /\ UNCHANGED <<phase, facet, last>>

\* operator<<: the domain of the stream.
Write(m) == Answer(m, stream + 1, stream)

\* The answer is used up.
Done == last # <<>> /\ last' = <<>> /\ UNCHANGED <<phase, facet, stream>>

Next ==
    \/ /\ phase = "off" /\ last = <<>>
       /\ \E s \in Setups : Create(s)
    \/ Load
    \/ \E m \in Messages : Str(m) \/ Write(m)
    \/ \E m \in Messages, d \in 1 .. 2 : StrIn(m, d)
    \/ \E d \in 1 .. 2 : SetDomain(d)
    \/ Done

Spec == Init /\ [][Next]_vars

-----------------------------------------------------------------------------
\* The catalog of a domain by the rules: the most specific folder that has
\* one (a variant outweighs a country), of these the first search path.
Best(d) ==
    LET has == {k \in DOMAIN files : k[3] = info.domains[d].name}
        rank(k) == (IF k[2][3] # "" THEN 2 ELSE 0) + (IF k[2][2] # "" THEN 1 ELSE 0)
        pos(k) == CHOOSE i \in DOMAIN info.paths : info.paths[i] = k[1]
        atLeast(k, l) == rank(l) < rank(k) \/ (rank(l) = rank(k) /\ pos(k) <= pos(l))
    IN {k \in has : \A l \in has : atLeast(k, l)}

\* What that catalog has for a message, in characters: all forms of it.
Entries(m, d) ==
    UNION {{Decode(files[k].charset, e.value) : e \in
              {e \in ToSet(files[k].entries) :
                 Decode(files[k].charset, CString(e.key))
                    = FullKey(PointerOf(m, m.context), m.id)}} : k \in Best(d)}

\* The form for the message's count: English rules where the catalog has none.
\* An empty form is a translation unless it is the last one of its entry.
Form(m, d, entry) ==
    LET e == IF \E k \in Best(d) : files[k].plural THEN compile(header) ELSE Null
        i == IF PointerOf(m, m.plural) = NULL THEN 0
             ELSE IF e = Null THEN IF m.n = 1 THEN 0 ELSE 1
             ELSE Eval(e, m.n)
        form == Behind(entry, i)
    IN IF form \in {NULL, <<>>} THEN {} ELSE {CString(form)}

Shown(m, d) == UNION {Form(m, d, entry) : entry \in Entries(m, d)}

ShownIn(chars) == IF info.wide THEN chars ELSE Encode(info.encoding, chars)

\* A message that the most specific catalog of its domain has is shown as
\* translated there, in the right form and in the locale's encoding, whether
\* the catalog is used as it is (and searched by its hash table) or converted.
\* A message without translation is shown as in the source, in the encoding of
\* the locale, where all domains have keys in one encoding.
OneKeyEncoding ==
    \A d, e \in DOMAIN info.domains :
        are_encodings_equal(info.domains[d].encoding, info.domains[e].encoding)

Source(m) == IF PointerOf(m, m.plural) # NULL /\ m.n # 1 THEN m.plural ELSE m.id

TranslationIsShown ==
    last # <<>> /\ phase = "ready" =>
        LET shown == Shown(last.message, last.domain)
        IN  /\ \A t \in shown : last.answer = ShownIn(t)
            /\ shown = {} /\ OneKeyEncoding => last.answer = ShownIn(Source(last.message))

\* A facet serves all of its domains or there is none: once it is constructed,
\* each domain has its most specific catalog, and an exception means that the
\* most specific catalog of some domain can not be used.  A file that can not
\* be used is never passed over for one in a less specific folder, and one that
\* a better catalog hides does no harm.
Usable(mo) ==
    /\ mo.valid
    /\ mo.charset # ""
    /\ info.wide => \A e \in ToSet(mo.entries) : \A c \in ToSet(CString(e.key) \o e.value) :
                       HasChar(mo.charset, c)

Unusable(d) == \E k \in Best(d) : ~Usable(files[k])

AllDomainsOrNone ==
    /\ phase = "ready" =>
          \A d \in DOMAIN info.domains :
              /\ ~Unusable(d)
              /\ domain_data[d] = NoDomain <=> Best(d) = {}
    /\ phase = "thrown" => \E d \in DOMAIN info.domains : Unusable(d)
=============================================================================
