------------------------------ MODULE Formatting ------------------------------
(***************************************************************************)
(* Numbers, dates and format items on streams: the manipulators            *)
(* (formatting.hpp), basic_format (format.hpp, format.cpp) and the num_put  *)
(* and num_get facets of the backends (util/numeric.hpp, icu/numeric.cpp,   *)
(* icu/formatter.cpp), whose ICU formatters are shared through a facet of  *)
(* the locale (icu/formatters_cache.cpp).                                   *)
(*                                                                         *)
(* Every thread has a stream of its own; their locales may be the same.    *)
(* A text is the record of what decides it, and TextLength long.            *)
(***************************************************************************)
EXTENDS Integers, Sequences

F == INSTANCE FormatStrings WITH Keys <- {}, Words <- {}, QuotedTexts <- {}, Literals <- {},
                                 MaxPieces <- 0, MaxFlags <- 0, Directives <- {},
                                 tree <- <<>>, language <- "none"

CONSTANTS
    Threads,
    Locales,        \* [Threads -> those of its stream: records [backend, language,
                    \* encoding, cache]; encoding "": no info facet]
    Manipulators,   \* [Threads -> functions of the fields of a stream that are set]
    Values,         \* what is written: [kind]
    Formats,        \* [Threads -> records [text, message, params]]
    NotSimple,      \* languages whose DateFormats are no SimpleDateFormats
    Uncreatable,    \* number formats ICU can not create
    GlobalZone, GlobalBackend,
    Inputs,         \* [Threads -> the texts of its input stream]
    Targets,        \* [Threads -> the types of variables that are read]
    Numbers,        \* the numbers ICU finds in a text
    BaseParams,     \* parameters kept in an array, the others in a vector
    MaxText,        \* how much of the input is looked at
    MaxOps          \* bound on the operations of a thread

VARIABLES
    ios,    \* [Threads -> the state of the thread's stream]
    cache,  \* [slot -> [formatters_cache -> [numbers, date]]]
    todo,   \* [Threads -> pieces of a format that are left to write]
    bound,  \* [Threads -> its parameters]
    start,  \* [Threads -> the stream when the format was begun]
    item,   \* [Threads -> the format_parser of the item at work, or None]
    job,    \* [Threads -> a number that is put or got, or None]
    last,   \* [Threads -> what was written last, and what was asked for]
    input,  \* [Threads -> what is left in the input stream]
    ops     \* [Threads -> operations so far]

vars == <<ios, cache, todo, bound, start, item, job, last, input, ops>>

\* Functions of one argument, and one function over another: TLC's, defined here
\* so that proofs can expand them.
d :> e == [x \in {d} |-> e]
f @@ g == [x \in DOMAIN f \cup DOMAIN g |-> IF x \in DOMAIN f THEN f[x] ELSE g[x]]

None == <<>>
Unset == [set |-> FALSE]
TextLength == 2
INTEGER_DIGITS == 1  \* getMaximumIntegerDigits() of a scientific format

-----------------------------------------------------------------------------
(* the manipulators of namespace as *)

display(d) == "display" :> d
currency(c) == "currency" :> c
date_style(l) == "date" :> l
time_style(l) == "time" :> l
ftime(format) == ("pattern" :> format) @@ ("display" :> "strftime")
time_zone(id) == "zone" :> id
gmt == time_zone("GMT")
local_time == time_zone(GlobalZone)

InfoFields == {"display", "currency", "date", "time", "zone", "pattern"}
ios_info == [display |-> "posix", currency |-> "default", date |-> "default", time |-> "default",
             zone |-> GlobalZone, pattern |-> ""]

NewStream(loc) ==
    [loc |-> loc, base |-> "dec", float |-> "none", adjust |-> "none", width |-> 0, precision |-> 6,
     good |-> TRUE] @@ ios_info

StreamFields == {"loc", "base", "float", "adjust", "width", "precision", "good"} \cup InfoFields
Floats == {"none", "fixed", "scientific"}
DateDisplays == {"date", "time", "datetime", "strftime"}
Displays == {"posix", "number", "currency", "percent", "spellout", "ordinal"} \cup DateDisplays

\* What may be set in a stream: m is a function of some of its fields.
Settable(m) ==
    /\ DOMAIN m \subseteq StreamFields \ {"loc", "good"}
    /\ "float" \in DOMAIN m => m["float"] \in Floats
    /\ "display" \in DOMAIN m => m["display"] \in Displays

ASSUME ManipulatorsAssumption ==
    \A t \in Threads : \A m \in Manipulators[t] : Settable(m)
ASSUME ReadingAssumption ==
    /\ Numbers \subseteq Int
    /\ \A t \in Threads : Inputs[t] \subseteq Seq(STRING)
    /\ \A t \in Threads : Targets[t] \subseteq
            {"unsigned_short", "unsigned_int", "long", "unsigned_long", "double"}

-----------------------------------------------------------------------------
(* the flags of a format item *)

NoEffect == [f \in {} |-> 0]
Short == [s \in {"s", "m", "l", "f"} |-> CASE s = "s" -> "short" [] s = "m" -> "medium"
                                           [] s = "l" -> "long"  [] s = "f" -> "full"]
try_to_int == [s \in {"0", "1", "2", "3", "4"} |->
                 CASE s = "0" -> 0 [] s = "1" -> 1 [] s = "2" -> 2 [] s = "3" -> 3 [] s = "4" -> 4]

Word(s) == IF Len(s) = 1 THEN s[1] ELSE ""

\* set_one_flag, the keys that only set fields of the stream.
set_one_flag(key, value) ==
    LET base == IF value \in {"hex", "oct"} THEN "base" :> value
                ELSE CASE value = "sci" -> "float" :> "scientific"
                       [] value = "fix" -> "float" :> "fixed"
                       [] OTHER -> NoEffect
        money == CASE value = "iso" -> currency("iso") [] value = "nat" -> currency("national")
                   [] OTHER -> NoEffect
        dated == IF value \in DOMAIN Short THEN date_style(Short[value]) ELSE NoEffect
        timed == IF value \in DOMAIN Short THEN time_style(Short[value]) ELSE NoEffect
        number(field) == IF value \in DOMAIN try_to_int THEN field :> try_to_int[value] ELSE NoEffect
    IN CASE key = "num" -> base @@ display("number")
         [] key = "cur" -> money @@ display("currency")
         [] key = "per" -> display("percent")
         [] key = "date" -> dated @@ display("date")
         [] key = "time" -> timed @@ display("time")
         [] key = "dt" -> dated @@ timed @@ display("datetime")
         [] key = "spell" -> display("spellout")
         [] key = "ord" -> display("ordinal")
         [] key \in {"left", "right"} -> "adjust" :> key
         [] key = "gmt" -> gmt
         [] key = "local" -> local_time
         [] key = "tz" -> time_zone(value)
         [] key = "w" -> number("width")
         [] key = "p" -> number("precision")
         [] OTHER -> NoEffect

\* set_flag_with_str, for a value in quotes.
set_flag_with_str(key, value) == IF key = "ftime" THEN ftime(value) ELSE NoEffect

Effect(f) == IF f.quoted THEN set_flag_with_str(Word(f.key), Word(f.value))
             ELSE set_one_flag(Word(f.key), Word(f.value))

\* The locale that the flag "locale" generates: it has a cache of its own.
generated(lang, encoding) ==
    [backend |-> GlobalBackend, language |-> lang, encoding |-> encoding, cache |-> <<"item", lang>>]

sets_locale(f) == Word(f.key) = "locale" /\ ~f.quoted

\* What a flag sets; saved is the locale that the format was begun with.
flag_effect(f, saved) ==
    IF sets_locale(f) THEN "loc" :> generated(Word(f.value), saved.encoding) ELSE Effect(f)

\* format_parser: the position is "none" until a flag gives it.
format_parser(i) ==
    [saved |-> i, position |-> -1, restore_locale |-> FALSE, saved_locale |-> i.loc,
     own |-> NoEffect, written |-> FALSE]

\* Faulty: only the fields of the standard stream are restored.
restore_Flags(i, d) ==
    [f \in DOMAIN i |->
        CASE f = "width" -> 0
          [] f \in {"base", "float", "adjust"} -> d.saved[f]
          [] f = "loc" /\ d.restore_locale -> d.saved_locale
          [] OTHER -> i[f]]

\* The precision is not restored, though it was saved.
restore(i, d) ==
    [f \in DOMAIN i |->
        CASE f = "width" -> 0
          [] f \in InfoFields \cup {"base", "float", "adjust"} -> d.saved[f]
          [] f = "loc" /\ d.restore_locale -> d.saved_locale
          [] OTHER -> i[f]]

\* basic_format::add, get
add(params, p) == IF Len(params.base) >= BaseParams
                  THEN [params EXCEPT !.ext = Append(@, p)] ELSE [params EXCEPT !.base = Append(@, p)]
get(params, id) ==
    CASE id \notin 0 .. Len(params.base) + Len(params.ext) - 1 -> [kind |-> "none"]
      [] id \in BaseParams .. Len(params.base) + Len(params.ext) - 1 -> params.ext[id - BaseParams + 1]
      [] OTHER -> params.base[id + 1]

Bind(ps) == LET b[n \in 0 .. Len(ps)] ==
                  IF n = 0 THEN [base |-> <<>>, ext |-> <<>>] ELSE add(b[n - 1], ps[n])
            IN b[Len(ps)]

\* basic_format::write: a message is translated by the stream's locale first.
FormatText(f, i) == IF f.message = None THEN f.text ELSE f.message[i.loc.language]

-----------------------------------------------------------------------------
(* locales *)

\* install_formatting_facets, install_parsing_facets of ICU: a cache that the
\* base has is kept.
install_formatting_facets(base, lang, encoding) ==
    [backend |-> "icu", language |-> lang, encoding |-> encoding,
     cache |-> IF base.cache = None THEN <<"own", lang>> ELSE base.cache]

\* The other backends' facets.
create_formatting(base, backend, lang, encoding) ==
    [base EXCEPT !.backend = backend, !.language = lang, !.encoding = encoding]

Classic == [backend |-> "none", language |-> "C", encoding |-> "", cache |-> None]

-----------------------------------------------------------------------------
(* texts *)

padding(i) == LET n == IF i.width > TextLength THEN i.width - TextLength ELSE 0
              IN IF i.adjust = "left" THEN [left |-> 0, right |-> n] ELSE [left |-> n, right |-> 0]

\* std::num_put and money_put, with the punctuation of a locale.
Plain(i, lang) == [how |-> "plain", base |-> i.base, float |-> i.float, precision |-> i.precision,
                   language |-> lang]

use_parent(i, v) ==
    \/ i.display = "posix"
    \/ v.kind = "int" /\ i.display = "number" /\ i.base # "dec"

\* base_num_format::do_real_put: all backends but ICU.
do_real_put(i) ==
    LET time(format) == [how |-> "time", format |-> format, zone |-> i.zone, language |-> i.loc.language]
    IN CASE i.display = "posix" -> Plain(i, "C")
         [] i.display = "date" -> time("x")
         [] i.display = "time" -> time("X")
         [] i.display = "datetime" -> time("c")
         [] i.display = "strftime" -> time(i.pattern)
         [] i.display = "currency" ->
                [how |-> "money", intl |-> i.currency = "iso", language |-> i.loc.language]
         [] OTHER -> Plain(i, i.loc.language)

\* do_format_currency of posix and winapi (but for "C") looks at no width.
ignores_width(i) ==
    i.display = "currency" /\ (i.loc.backend = "posix" \/ (i.loc.backend = "winapi" /\ i.loc.language # "C"))

-----------------------------------------------------------------------------
(* ICU: formatters_cache and formatter::create *)

\* Faulty: the formatters of a cache are shared by all threads.
slot_Shared(t) == "any"
\* thread_specific_ptr
slot(t) == t

num_fmt_type(i) ==
    CASE i.display = "number" -> IF i.float = "scientific" THEN "sci" ELSE "number"
      [] i.display = "currency" -> IF i.currency = "iso" THEN "curr_iso" ELSE "curr_nat"
      [] i.display = "percent" -> "percent"
      [] i.display = "spellout" -> "spell"
      [] i.display = "ordinal" -> "ordinal"

\* create_number_format: digits as the language has them.
NewNumberFormat == [set |-> TRUE, max |-> 3, min |-> 0]

set_fraction_digits(nf, how, precision) ==
    LET p == precision + (IF how = "scientific" THEN INTEGER_DIGITS ELSE 0)
    IN [nf EXCEPT !.max = p, !.min = IF how \in {"scientific", "fixed"} THEN p ELSE 0]

length(flag) == IF flag = "default" THEN "medium" ELSE flag

\* date_format, time_format, date_time_format of the cache of a language;
\* strftime patterns are made with the locale of the facet.
date_pattern(i, lang) ==
    CASE i.display = "date" -> <<lang, "date", length(i.date)>>
      [] i.display = "time" -> <<lang, "time", length(i.time)>>
      [] i.display = "datetime" -> <<lang, "datetime", length(i.date), length(i.time)>>
      [] i.display = "strftime" -> <<i.loc.language, "strftime", i.pattern>>

NewCache == [numbers |-> [type \in {} |-> Unset], date |-> Unset]

\* What formatter::create leaves in the cache, and the formatter it returns.
create_formatter(i, c) ==
    LET lang == i.loc.cache[2]
        type == num_fmt_type(i)
        found == IF type \in DOMAIN c.numbers THEN c.numbers[type] ELSE NewNumberFormat
        nf == IF i.display \in {"number", "percent"}
              THEN set_fraction_digits(found, i.float, i.precision) ELSE found
        pattern == date_pattern(i, lang)
        set == [set |-> TRUE, pattern |-> pattern, zone |-> i.zone]
    IN IF i.display \notin DateDisplays
       THEN [cache |-> [c EXCEPT !.numbers = (type :> nf) @@ @], formatter |-> [type |-> type]]
       ELSE IF lang \in NotSimple \/ (i.display = "strftime" /\ i.pattern = "")
       THEN [cache |-> c, formatter |-> [type |-> "own_date",
                             pattern |-> date_pattern(i, i.loc.language), zone |-> i.zone]]
       ELSE [cache |-> [c EXCEPT !.date = set], formatter |-> [type |-> "date"]]

\* What a formatter writes: what its ICU object is set to by then.
format(f, c, lang) ==
    CASE f.type = "own_date" -> [how |-> "date", pattern |-> f.pattern, zone |-> f.zone]
      [] f.type = "date" -> [how |-> "date", pattern |-> c.date.pattern, zone |-> c.date.zone]
      [] OTHER -> [how |-> "number", type |-> f.type, max |-> c.numbers[f.type].max,
                   min |-> c.numbers[f.type].min, language |-> lang]

-----------------------------------------------------------------------------
(* ICU: parsing *)

\* The types a text is parsed to, and those of the variables: scaled down.
limits(type) ==
    CASE type = "int32" -> -8 .. 7 [] type = "int64" -> -32 .. 31 [] type = "uint64" -> 0 .. 63
      [] type = "double" -> -64 .. 63
      [] type = "unsigned_short" -> 0 .. 3 [] type = "unsigned_int" -> 0 .. 15
      [] type = "long" -> -32 .. 31 [] type = "unsigned_long" -> 0 .. 63

icu_format_type(target) ==
    CASE target = "unsigned_short" -> "int32"
      [] target \in {"unsigned_int", "long"} -> "int64"
      [] target = "unsigned_long" -> "uint64"
      [] target = "double" -> "double"

Top(type) == CHOOSE m \in limits(type) : \A n \in limits(type) : n <= m
Bottom(type) == CHOOSE m \in limits(type) : \A n \in limits(type) : m <= n

\* number_format::get_value: an unsigned number is got as a signed one, or
\* from its decimal digits.
get_value(type, x) ==
    IF type = "uint64" THEN IF x \in limits("int64") THEN x >= 0 ELSE x \in limits("uint64")
    ELSE x \in limits(type)

\* date_format::do_parse: min() of double is the least positive number.
date_in_limits(type, x) == x <= Top(type) /\ x >= (IF type = "double" THEN 1 ELSE Bottom(type))

is_losless_castable(target, v) ==
    /\ v >= 0 \/ target \in {"long", "double"}
    /\ target \in {"unsigned_short", "unsigned_int"} => v <= Top(target)

Blanks == {" ", "\n"}
first_not_blank(s) ==
    CHOOSE q \in 1 .. Len(s) + 1 : /\ q = Len(s) + 1 \/ s[q] \notin Blanks
                                   /\ \A r \in 1 .. q - 1 : s[r] \in Blanks

\* The text that is parsed: behind blanks, to the end of the line.
parsed_text(s) ==
    LET p == first_not_blank(s)
        q == F!UpTo(s, p, {"\n"})
    IN SubSeq(s, p, IF q - p > MaxText THEN p + MaxText - 1 ELSE q - 1)

-----------------------------------------------------------------------------
Init ==
    /\ ios \in [Threads -> {NewStream(l) : l \in UNION {Locales[t] : t \in Threads}}]
    /\ \A t \in Threads : ios[t].loc \in Locales[t]
    /\ cache = [k \in {slot(t) : t \in Threads} |-> <<>>]
    /\ todo = [t \in Threads |-> None]
    /\ bound = [t \in Threads |-> Bind(<<>>)]
    /\ start = [t \in Threads |-> None]
    /\ item = [t \in Threads |-> None]
    /\ job = [t \in Threads |-> None]
    /\ last = [t \in Threads |-> None]
    /\ input \in [Threads -> UNION {Inputs[t] : t \in Threads}]
    /\ \A t \in Threads : input[t] \in Inputs[t]
    /\ ops = [t \in Threads |-> 0]

Idle(t) == todo[t] = None /\ item[t] = None /\ job[t] = None
Begins(t) == Idle(t) /\ ops[t] < MaxOps /\ ops' = [ops EXCEPT ![t] = @ + 1]

Manipulate(t, m) ==
    /\ Begins(t)
    /\ ios' = [ios EXCEPT ![t] = m @@ @]
    /\ UNCHANGED <<cache, todo, bound, start, item, job, last, input>>

\* The numbers of a stream that the standard library has to write, as asked.
Asked(i, v) ==
    LET digits == i.precision + (IF i.float = "scientific" THEN INTEGER_DIGITS ELSE 0)
        own == i.display \in {"number", "percent"}
    IN IF i.loc.backend = "none" THEN Plain(i, "C")
       ELSE IF i.loc.backend # "icu" THEN do_real_put(i)
       ELSE IF use_parent(i, v) THEN Plain(i, "C")
       ELSE IF i.display \in DateDisplays
       THEN [how |-> "date", pattern |-> date_pattern(i, i.loc.language), zone |-> i.zone]
       ELSE [how |-> "number", type |-> num_fmt_type(i),
             max |-> IF own THEN digits ELSE NewNumberFormat.max,
             min |-> IF own /\ i.float # "none" THEN digits ELSE 0,
             language |-> i.loc.language]

\* What a stream writes of a value: the text with its padding.
Padded(i, text) == [text |-> text, padding |-> padding(i)]

\* os << v.  A stream that has failed writes nothing.
Put(t, v, asked) ==
    /\ job' = [job EXCEPT ![t] = IF ios[t].good THEN [op |-> "put", value |-> v, asked |-> asked,
                                                      formatter |-> None] ELSE None]
    /\ UNCHANGED last

PutValue(t, v) ==
    /\ Begins(t)
    /\ Put(t, v, Padded(ios[t], Asked(ios[t], v)))
    /\ UNCHANGED <<ios, cache, todo, bound, start, item, input>>

Finish(t, i, text) ==
    /\ last' = [last EXCEPT ![t] = [asked |-> job[t].asked, got |-> text]]
    /\ job' = [job EXCEPT ![t] = None]
    /\ ios' = [ios EXCEPT ![t] = i]

\* Facets that write at once.
PutPlain(t) ==
    LET i == ios[t] IN
    /\ job[t] # None /\ job[t].op = "put" /\ job[t].formatter = None
    /\ i.loc.backend # "icu" \/ use_parent(i, job[t].value)
    /\ IF i.loc.backend \notin {"none", "icu"} /\ ignores_width(i)
       THEN Finish(t, i, [text |-> do_real_put(i), padding |-> [left |-> 0, right |-> 0]])
       ELSE Finish(t, [i EXCEPT !.width = 0],
                   Padded(i, IF i.loc.backend = "none" \/ i.loc.backend = "icu" THEN Plain(i, "C")
                             ELSE do_real_put(i)))
    /\ UNCHANGED <<cache, todo, bound, start, item, input, ops>>

CacheOf(t) == LET c == cache[slot(t)] IN
              IF ios[t].loc.cache \in DOMAIN c THEN c[ios[t].loc.cache] ELSE NewCache

\* formatter::create; an exception of it is the stream's bad bit.
Create(t) ==
    LET i == ios[t]
        made == create_formatter(i, CacheOf(t))
        used == IF i.display \in DateDisplays THEN "date" ELSE num_fmt_type(i)
    IN /\ job[t] # None /\ job[t].formatter = None
       /\ i.loc.backend = "icu" /\ ~use_parent(i, job[t].value)
       /\ IF used \in Uncreatable
          THEN /\ ios' = [ios EXCEPT ![t].good = FALSE]
               /\ job' = [job EXCEPT ![t] = None]
               /\ UNCHANGED cache
          ELSE /\ cache' = [cache EXCEPT ![slot(t)] = (i.loc.cache :> made.cache) @@ @]
               /\ job' = [job EXCEPT ![t].formatter = made.formatter]
               /\ UNCHANGED ios
       /\ UNCHANGED <<todo, bound, start, item, last, input, ops>>

\* do_real_put of ICU, behind create.
Format(t) ==
    /\ job[t] # None /\ job[t].op = "put" /\ job[t].formatter # None
    /\ Finish(t, [ios[t] EXCEPT !.width = 0],
              Padded(ios[t], format(job[t].formatter, CacheOf(t), ios[t].loc.cache[2])))
    /\ UNCHANGED <<cache, todo, bound, start, item, input, ops>>

\* is >> x with ICU.
Get(t, target) ==
    /\ Begins(t)
    /\ ios[t].good /\ ios[t].loc.backend = "icu"
    /\ ~use_parent(ios[t], [kind |-> IF target = "double" THEN "float" ELSE "int"])
    /\ job' = [job EXCEPT ![t] = [op |-> "get", target |-> target, formatter |-> None,
                                  value |-> [kind |-> IF target = "double" THEN "float" ELSE "int"]]]
    /\ UNCHANGED <<ios, cache, todo, bound, start, item, last, input>>

\* Faulty: what was read ahead stays read.
unread_Nothing(s, tmp, n) == SubSeq(s, first_not_blank(s) + Len(tmp), Len(s))
\* What was read ahead behind the parsed n characters is put back.
unread(s, tmp, n) == SubSeq(s, first_not_blank(s) + n, Len(s))

\* do_real_get, behind create: the parser takes n characters for the number x.
Parse(t) ==
    LET s == input[t]
        tmp == parsed_text(s)
        target == job[t].target
        type == icu_format_type(target)
    IN /\ job[t] # None /\ job[t].op = "get" /\ job[t].formatter # None
       /\ \E n \in 0 .. Len(tmp), x \in Numbers :
             LET date == job[t].formatter.type \in {"date", "own_date"}
                 parsed == IF n = 0 \/ ~(IF date THEN date_in_limits(type, x) ELSE get_value(type, x))
                           THEN 0 ELSE n
                 fail == parsed = 0 \/ ~is_losless_castable(target, x)
                 rest == unread(s, tmp, parsed)
             IN /\ input' = [input EXCEPT ![t] = rest]
                /\ last' = [last EXCEPT ![t] =
                      [target |-> target, date |-> date, before |-> s, n |-> n, x |-> x,
                       fail |-> fail, eof |-> rest = <<>>]]
                /\ ios' = [ios EXCEPT ![t].good = ~fail]
       /\ job' = [job EXCEPT ![t] = None]
       /\ UNCHANGED <<cache, todo, bound, start, item, ops>>

\* os << format: the text is read piece by piece.
Write(t, f) ==
    /\ Begins(t)
    /\ todo' = [todo EXCEPT ![t] = F!format_output(FormatText(f, ios[t]))]
    /\ bound' = [bound EXCEPT ![t] = Bind(f.params)]
    /\ start' = [start EXCEPT ![t] = ios[t]]
    /\ UNCHANGED <<ios, cache, item, job, last, input>>

\* A character is padded as well.
WriteText(t) ==
    /\ todo[t] # None /\ item[t] = None
    /\ "text" \in DOMAIN Head(todo[t])
    /\ ios' = [ios EXCEPT ![t].width = IF ios[t].good THEN 0 ELSE @]
    /\ todo' = [todo EXCEPT ![t] = Tail(@)]
    /\ UNCHANGED <<cache, bound, start, item, job, last, input, ops>>

BeginItem(t) ==
    /\ todo[t] # None /\ item[t] = None
    /\ "flags" \in DOMAIN Head(todo[t])
    /\ item' = [item EXCEPT ![t] = format_parser(ios[t])]
    /\ UNCHANGED <<ios, cache, todo, bound, start, job, last, input, ops>>

\* An exception leaves format_output, by way of the guard's destructor.
Unwind(t) ==
    /\ ios' = [ios EXCEPT ![t] = restore(@, item[t])]
    /\ item' = [item EXCEPT ![t] = None]
    /\ todo' = [todo EXCEPT ![t] = None]
    /\ job' = [job EXCEPT ![t] = None]

\* What a flag makes of its format_parser: the position, if it gives one, and
\* the locale to go back to.
flag_parsed(d, f, effect, saved) ==
    [saved |-> d.saved,
     position |-> IF ~f.quoted /\ Word(f.key) \in DOMAIN try_to_int \ {"0"}
                  THEN try_to_int[Word(f.key)] - 1 ELSE d.position,
     restore_locale |-> d.restore_locale \/ sets_locale(f), saved_locale |-> saved,
     own |-> effect @@ d.own, written |-> d.written]

\* The pieces that are left when the first of them has one flag less.
flag_read(pieces) == <<[pieces[1] EXCEPT !.flags = Tail(@)]>> \o Tail(pieces)

\* The next flag of the item.
SetFlag(t) ==
    LET f == Head(Head(todo[t]).flags)
        saved == IF item[t].restore_locale THEN item[t].saved_locale ELSE ios[t].loc
        effect == flag_effect(f, saved)
    IN /\ item[t] # None /\ ~item[t].written
       /\ Head(todo[t]).flags # <<>>
       /\ IF sets_locale(f) /\ saved.encoding = ""
          THEN Unwind(t) /\ UNCHANGED cache
          ELSE /\ ios' = [ios EXCEPT ![t] = effect @@ @]
               /\ item' = [item EXCEPT ![t] = flag_parsed(@, f, effect, saved)]
               /\ cache' = IF sets_locale(f)
                           THEN [cache EXCEPT ![slot(t)] = (effect.loc.cache :> NewCache) @@ @] ELSE cache
               /\ todo' = [todo EXCEPT ![t] = flag_read(@)]
               /\ UNCHANGED job
       /\ UNCHANGED <<bound, start, last, input, ops>>

\* Behind the flags: the parameter of the position, if there is one.
ShowParameter(t) ==
    LET v == get(bound[t], item[t].position)
        asked == item[t].own @@ ("precision" :> ios[t].precision) @@ ("width" :> item[t].saved.width) @@ start[t]
    IN /\ item[t] # None /\ ~item[t].written /\ job[t] = None
       /\ Head(todo[t]).flags = <<>> /\ Head(todo[t]).shown
       /\ IF v.kind = "throws" THEN Unwind(t) /\ UNCHANGED last
          ELSE /\ item' = [item EXCEPT ![t].written = TRUE]
               /\ IF v.kind \in {"int", "float"}
                  THEN Put(t, v, Padded(asked, Asked(asked, v))) /\ UNCHANGED ios
                  ELSE /\ ios' = [ios EXCEPT ![t].width = IF ios[t].good THEN 0 ELSE @]
                       /\ UNCHANGED <<job, last>>
               /\ UNCHANGED todo
       /\ UNCHANGED <<cache, bound, start, input, ops>>

\* The end of the item: the guard restores the stream.
EndItem(t) ==
    /\ item[t] # None /\ job[t] = None
    /\ Head(todo[t]).flags = <<>>
    /\ item[t].written \/ ~Head(todo[t]).shown
    /\ ios' = [ios EXCEPT ![t] = restore(@, item[t])]
    /\ item' = [item EXCEPT ![t] = None]
    /\ todo' = [todo EXCEPT ![t] = Tail(@)]
    /\ UNCHANGED <<cache, bound, start, job, last, input, ops>>

Steps(t) ==
    \/ PutPlain(t) \/ Create(t) \/ Format(t) \/ Parse(t)
    \/ WriteText(t) \/ BeginItem(t) \/ SetFlag(t) \/ ShowParameter(t) \/ EndItem(t)

Next ==
    \E t \in Threads :
        \/ \E m \in Manipulators[t] : Manipulate(t, m)
        \/ \E v \in Values : PutValue(t, v)
        \/ \E target \in Targets[t] : Get(t, target)
        \/ \E f \in Formats[t] : Write(t, f)
        \/ Steps(t)

Spec == Init /\ [][Next]_vars

-----------------------------------------------------------------------------
\* A number or a date is written as the manipulators of its stream and the
\* flags of its own item say, and in the language of the locale: whatever
\* other threads, streams and items have set in the formatters they share
\* (formatters_cache), and whatever the items before it changed.  The width is
\* used, and used up, but for money with posix and winapi.
ShownAsAsked ==
    \A t \in Threads :
        last[t] # None /\ "asked" \in DOMAIN last[t] =>
            /\ last[t].got.text = last[t].asked.text
            /\ last[t].got.text.how # "money" => last[t].got = last[t].asked

\* When an item of a format is done, or left because a flag or its parameter
\* threw, the stream is as it was before the format, but for the width and the
\* precision (format_parser, format_guard).
StreamIsRestored ==
    [][\A t \in Threads :
          item[t] # None /\ item'[t] = None =>
              \A f \in DOMAIN ios[t] \ {"width", "precision", "good"} : ios'[t][f] = start[t][f]]_vars

\* What a stream is read from has lost the blanks and the number, and nothing
\* if there was no number, though a line was read ahead.
NothingIsLost ==
    \A t \in Threads :
        last[t] # None /\ "before" \in DOMAIN last[t] =>
            LET p == first_not_blank(last[t].before)
                s == last[t].before
            IN input[t] \in {SubSeq(s, p, Len(s)), SubSeq(s, p + last[t].n, Len(s))}
               /\ (~last[t].fail => input[t] = SubSeq(s, p + last[t].n, Len(s)))
               /\ last[t].eof = (input[t] = <<>>)

\* A number is read if and only if the variable can hold it.
ReadIfItFits ==
    \A t \in Threads :
        last[t] # None /\ "before" \in DOMAIN last[t] =>
            (~last[t].date \/ last[t].target # "double" =>
                last[t].fail = (last[t].n = 0 \/ last[t].x \notin limits(last[t].target)))

\* Reading from a stream takes what it reads and tells whether it did.
ReadingIsExact == NothingIsLost /\ ReadIfItFits

\* The same for dates that are read as double.
DateIsReadIfItFits ==
    \A t \in Threads :
        last[t] # None /\ "before" \in DOMAIN last[t] /\ last[t].date =>
            last[t].fail = (last[t].n = 0 \/ last[t].x \notin limits(last[t].target))
=============================================================================
