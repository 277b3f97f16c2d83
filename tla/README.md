# Boost.Locale in TLA+

Specifications of the parts of Boost.Locale that keep state or compute
something intricate, model-checked with TLC and, for what matters most, proved
with TLAPS. Paths such as `gregorian.cpp:506` are files of the library
(`src/src/...` or `src/include/boost/locale/...`); `PROJECT.json` maps every
definition to its lines.

    tlc -config Dates.cfg MCDateTime               # a run
    tlapm DateTimeProofs.tla                       # the proofs of a module

## 1. The system

Boost.Locale puts facets into a `std::locale`. A **generator** collects options
and, for a locale id, asks a **backend manager** for a backend of each category
(collation, conversion, formatting, messages, codecvt, boundaries, calendar),
which **installs** its facets one by one. Programs then use those facets
through streams and free functions: `date_time`, `translate`, `format`,
`boundary::segment_index`, `conv::to_utf`, or a `basic_filebuf`, which calls
the codecvt facet. There are no threads in the library; its users call
generators and the global manager from several.

| component | files | state | operations | what makes it correct | what is hard |
|---|---|---|---|---|---|
| Gregorian calendar | `util/gregorian.cpp` | an instant, two sets of fields (shown and updated), `normalized_`, the zone | set_value, normalize, get_value, adjust_value (move, roll), difference, set_time, set_timezone | the shown fields are those of the instant; set, then get; moving and rolling come back; limits bracket values | month and week arithmetic at the ends of years, negative values, pending fields |
| date_time | `shared/date_time.cpp` | a calendar object | constructors, `=`, set, `+= -= <<= >>=`, time | a call leaves nothing pending, or throws and shows what it showed or what one of its elements normalized | an exception half way through a period set |
| UTF coding | `utf.hpp` | none | decode, decode_valid, encode, widths | accepts exactly the well-formed sequences; encoding inverts decoding | overlong forms, ends of buffers |
| generic codecvt | `generic_codecvt.hpp` | `mbstate_t`, kept by the caller | do_in, do_length, do_out, do_unshift | the result depends on the text, not on its division into calls | a pair of surrogates split between two calls |
| base converters | `util/codecvt_converter.cpp`, `shared/iconv_codecvt.cpp` | a table of a charset | to_unicode, from_unicode | a character is found and given back, byte by byte | collisions in the table, a character of two bytes |
| character encodings | `encoding/*`, `icu/uconv.hpp`, `encoding_utf.hpp` | a converter's buffer and shift state | convert with skip or stop | nothing lost or repeated; all builds agree | full buffers, malformed text, NULs |
| backend manager | `shared/localization_backend.cpp` | the backends and the index that serves each category; one global manager | add, select, remove, create, global | an index always leads to a backend | two threads at the global manager |
| generator | `shared/generator.cpp` | options, cache | setters, generate, clear_cache | a locale has the configured facets; what is cached stays | threads that miss the cache together |
| backends (std, posix, winapi, ICU) | `*/*_backend.cpp`, `util/locale_data.cpp`, `util/default_locale.cpp` | options, data prepared on first use | set_option, clear_options, clone, install | what is installed was prepared from the options of now | exceptions and changes between preparing and installing; fallback names |
| message catalogs | `shared/message.cpp`, `shared/mo_lambda.cpp`, `message.hpp` | catalogs per domain, a plural expression for each | loading, get by domain, context and plural, translate | the most specific catalog wins; a plural form that exists | two representations, three encodings, expressions from outside the program |
| boundary analysis | `boundary/index.hpp`, `icu/boundary.cpp` | an index of break points; iterators with two positions | map, find, `++`, `--`, rule masks | iterators visit each selected segment once, both ways | full_select, both ends, offsets in a converted text |
| formatting | `format.hpp`, `shared/format.cpp`, `shared/ios_prop.hpp`, `formatting.hpp` | parser position; stream properties | parse, imbue, restore, manipulators | a stream is as it was before the format | restore paths, ownership of the properties |
| ICU formatters | `icu/formatter.cpp`, `icu/formatters_cache.cpp`, `icu/numeric.cpp` | formatters per thread, cached | create from stream flags, format, parse | what is written is what this stream asks for | formatters shared by streams, reading ahead |
| collation, case conversion, numbers of std, posix and winapi, facet ids | see `PROJECT.json` | none or little | calls of the C library, ICU or Windows | | |

They interact by calls alone: generator -> manager (`create`) -> backends
(`install`); `date_time` -> calendar; `basic_filebuf` -> codecvt -> UTF coding or
a base converter -> iconv; `translate` -> catalogs -> character encodings;
`basic_format` -> flags of a stream -> `num_put` -> formatters. What is shared
between threads is the global manager (under a mutex), a generator's cache (under
another), and the facets of a locale, which are constant but for ICU's formatters,
of which every thread has its own.

## 2. What is modelled

### Gregorian, CalendarWalk, CalendarLaws, DateTime, Dates

`Gregorian` has the class `gregorian_calendar` as operators on a record of its
members, each named after its function. `std::tm` is a record with the full year
in place of `tm_year`. A function that throws is split in two: `CanNormalize(c)`
and `normalize(c)`, `CanShow(c, t)` and `from_time(c, t)`. `set_value` of a mark
that first normalizes, and `adjust_value`, are composed of the same parts in the
same order. Reading always looks at `tm`, setting at `upd`, as in the code.

The C library is external. `gmtime` is written from the definition of the
Gregorian calendar (400-year eras that start on 1 March) and not from
`gregorian.cpp`'s tables, so that `NormalizeIsExact` compares two independent
computations. The system zone is a constant offset, so DST changes
are out. C's division, which truncates, is `CDiv`.

`CalendarWalk` walks one calendar a day at a time and states what the fields and
week numbers of each day must be; `CalendarLaws` states what reading, setting,
rolling, moving and measuring differences must give there. A walk's length is a
bound; it need not be more than a few years, because the calendar repeats and its week arithmetic depends on
the weekday of 1 January, the first day of the week, and whether the year is a
leap year.

`DateTime` is one object and its owner's calls. Assigning a period set is
`BeginSet`, one `SetValue` for every element, and `EndSet` with the final
normalize, because an exception may fall between any two of them. In a Windows
build (`Windows = TRUE`) instants before 1970 throw `date_time_error`. Then the
object keeps the elements set so far, and the next call starts from there.
`set(f, v)` is a set of one. Adding or rolling a set is a sequence of `MoveBy` or
`RollBy`, which each normalize. An empty period set only normalizes. `asked`, `stages` (the
object before the call and after each element of it), `threw` and `calls` are history.

`Dates` composes the two: `part` says whether a behaviour is a date_time or a walking
calendar. The laws speak of the instants that `normalize` computes, which the
builds compute alike; the run is of a Windows build, in which `CanNormalize` would
refuse some of them (a year 1969 that is set). The amounts, years and distances of
the laws are constants, which may be any that stay, from every walk's start, behind
the first year that the code's tables count from (`StepsAssumption`,
`YearsAssumption`, `DeltasAssumption`, `WalksAssumption`).

### Utf, UtfFeed, CodecvtIn, CodecvtOut, Transcoder

`Utf` has `decode`, `decode_valid` and `encode` of the three `utf_traits`; a decoding is a
record of the code point, `illegal` or `incomplete`, and the units read. `UtfFeed` grows
all sequences of units, one at a time, to check them.

`CodecvtIn` is `do_in` and `do_length` with one action per iteration and per exit
of the loop; the caller, a `basic_filebuf`, hands over any part of the unread
text with any room, and keeps the `mbstate_t`. `CodecvtOut` is `do_out` and
`do_unshift` in the same way. A text carries the size of the character type: 2
is the specialisation for UTF-16 and 4 that for UTF-32, whose code is the same
but for the surrogates. The base converter (`to_unicode`, `from_unicode`) is a
constant with its contract as an assumption (`ToUnicodeAssumption`).

`Transcoder` is the abstract specification of both: the output grows towards the
conversion of the whole text, and in the end the text is accepted or rejected.
It knows of no calls, pieces or states. Both detailed modules are checked to
implement it (`InTranscodes`, `OutTranscodes`), liveness included, and proved to
implement its `Safety`.

### Converters, IconvLoop, BaseConverters

`Converters` has the implementations of `to_utf`, `from_utf` and `between`: iconv,
ICU (`uconv.hpp`, `uconv_converter.hpp`), the Windows API (`wconv_converter.hpp`, with its
validation before and its NULs inside the text) and `utf_to_utf`, and the order
in which `codepage.cpp` chooses among them. A converter is a step, from the rest of
a text to the units it writes and consumes, and `Follow` applies it to a whole
text with `skip` or `stop`. The texts are those that `UtfFeed` lets grow.

`IconvLoop` opens up the iconv step: `real_convert` is one call of iconv after
another, into a buffer of `Room` units, until the input is consumed and the final
call has written the shift back. Iconv itself is a contract: it converts as much as
fits, stops at EILSEQ, EINVAL or E2BIG, and counts irreversible conversions.

`BaseConverters` fills and searches the hash table of `simple_converter_impl`, one byte at
a time (`Probe` is where the loop that walks the places from the code point's own ends),
and has the queries by which `mb2_iconv_converter` finds out how many bytes
a character has. `CharacterByCharacter` is what `CodecvtIn` assumes of its base
converter, here checked of two that the library has.

`MCEncoding` composes the three with a small code page of single and double bytes.

### Backends, BackendRegistry, Generator, BackendObject, LocaleNames

`Backends` is a manager as a value: the names of its backends and the index that
serves each category. `BackendRegistry` is the global manager and threads that
copy it, change copies and put them in place. `global(in)` is four steps, since
`exchange` first moves the old manager out, which leaves the global object
without an implementation (`MovedFrom`), and then copies the new one in.

`Generator` is a generator and the threads in `generate()`: the lookup and the
store are the two critical sections, and the build between them holds no lock.
A facet is a record of the backend that made it and the options it got. Setters
are not `const`, so that the model lets them run only while no `generate()` does,
as the standard library asks for its containers; that is a rule for the user that
the code does not enforce. `inForce`, `hit`, `built` and `changes` are history.

`BackendObject` is one object of a backend's class: options are set and cleared, it
is copied, the environment changes, and `install` prepares the data if `invalid_`
says so. What is prepared (the id in use, its parts, the name the C library loads,
the kind of UTF-8 support) is computed as each of the four classes does, and
`facet` says which facet it then installs, with which name and encoding. `system.loads`
gives the names that the C library knows and for each the encoding that `nl_langinfo(CODESET)`
names: of a name that says an encoding it is that one (`CodesetAssumption`), of one that says
none it is the system's choice: in the run UTF-8, ISO-8859-1 or, on Windows, its code page 1252.
`newlocale` may fail in the middle of preparing, which throws. `seen` and `used` are
history: the environments and locales since the options changed.

`LocaleNames` is the parser and the writer of names, `util::locale_data`. A name is a
sequence of tokens, a word and how it is written, so that the parser's tests of
length, letters and digits are kept and characters are not.

`MCBackends` has four parts, one for each of these; they share the run and no state.

### BoundaryIndex, Cursor

`BoundaryIndex` builds the index from the break points ICU returns (`map_direct`), and
for a converted text carries each back to the source by counting characters
(`do_map`, `cut`). Iterators keep positions as in the code: `seg` has a pair of
indices, a mask, `full_select` and the current value, `point` one index. All member
functions of both index classes are actions; what is not `const` invalidates
iterators. `Cursor` is the abstract specification: an iterator stands at an item
of a sequence or past the end, moves by one, and is placed by `find`. The sequences
of selected segments and points are defined from the text's break points, not from the
iterators, and the refinements (`SegmentsAreWalked`, `PointsAreWalked`) map one
onto the other.

### Messages, PluralForms, PluralGrammar

`Messages` is a `mo_message` facet from its constructor on. Loading is a step per file
looked for, domain by domain, folder by folder, path by path; a file that is broken, names
no encoding or, for wide characters, has bytes that are no text of it, throws; a plural expression that can not
be read leaves the English rule. A file is its entries, charset and hash table; a loaded domain
is either that file, searched with the PJW hash, or a converted catalog. `Str`,
`StrIn` and `Write` are a `basic_message` shown in its three ways, with the conversion
of the key to the catalog's encoding and of an untranslated text to the locale's.

`PluralForms` is the tokenizer, recursive descent parser and evaluator of plural
expressions. `PluralGrammar` grows expression trees, prints them by C's precedences and gives
them C's value, which is none where C has undefined behaviour.

### Formatting, FormatStrings, IosInfo

In `Formatting` each thread has a stream with a locale, whose ICU formatters it
takes from the locale's `formatters_cache` (`slot`: one cache per locale and thread).
A manipulator, a plain value, or a format is written. An item of a format
is `BeginItem` (which keeps the stream's state), one `SetFlag` per flag, `ShowParameter`,
and `EndItem` or, when a flag or a parameter throws, `Unwind`. A written text is the
record of all that decides it (which formatter, with which digits, pattern, zone,
width). Every step of `put`, getting a formatter and setting it and using it, is an
action, so that streams may come between. Reading is `Parse`: skip blanks, read
a line, parse, put back, test the range.

`FormatStrings` grows meanings (pieces of a format, directives of `strftime`), writes
them down and reads them back with the parser of `format_output` and the converter of
strftime patterns for ICU. `IosInfo` is `ios_prop` for streams that are created, copied
with `copyfmt` and destroyed, object by object.

## 3. The runs

    tlc -config <run>.cfg <module>

| run | module | what it shows | bounds, and why they are enough |
|---|---|---|---|
| `Dates` | `MCDateTime` | the calendar's weeks, sets, rolls, moves and differences on each day; pending fields, failures and period sets of a `date_time` | walks: 2000 (leap, century) with every first day of the week, 2005 (common), all four zones around the leap day; moves by -13..30 pass every range of month, week and day; distances around a month, a year and a day, of both signs, from every day of a month, so that from the last ones some end in months that are too short. Object: two calls, sets of up to three elements of every mark, in any order and repeated; one instant on 2 January 1970, from where calls fail, one on 31 January of a leap year |
| `Encoding` | `MCEncoding` | the coder accepts exactly the table of well-formed UTF-8; all converters agree and give texts back; iconv's buffer does not show, conversions end; single-character converters | up to four bytes or three words from the bounds of each row of `utf.hpp`; texts of up to four units through a buffer of four, smaller than any shifted pair of characters; every table of four bytes over six values, in five places, so that places collide |
| `CodecvtIn`, `CodecvtOut` | `MCCodecvtIn`, `MCCodecvtOut` | independence of buffers, the state, progress | texts with characters of one to four bytes, pairs, U+10000 (whose high surrogate has a zero byte), and each error; every division, every room up to 3 units or 4 bytes |
| `Backends` | `MCBackends` | the global manager between two threads; a generator between two threads and all setters; a backend object through all changes; names of locales | two names, categories and threads: indices 0, 1 and -1, one thread in each half of the exchange; two ids, two locales built, three setter calls: enough to build an id twice, change an option in between and clear the cache; six ids, one of them without an encoding, three environments, eight systems that load all, some or none of the names and that give a name without an encoding UTF-8 or ISO-8859-1; names of up to five pieces, one for each part of a name |
| `Boundary` | `MCBoundary` | iterators visit what is selected, from wherever they start | up to three break points with every choice of two rules: a segment that is selected, not selected, or selected by the rule of its neighbour; converted texts with characters of two and four bytes, of a surrogate pair, and an invalid one |
| `Messages` | `MCMessages` | the catalog, form and encoding of what is shown; catalogs that can not be used; expressions | two domains, two paths, four folders, any two files, one of which may be broken or not decodable; three encodings that disagree on two letters; hash tables of 7 and 11 places, in which keys collide; expressions of up to two operators, both those that join left and those of different levels, for n = 0, 1 and 3 |
| `Formatting` | `MCFormatting` | shared formatters, restored streams, reading, ownership of properties, both string languages | two threads with one locale in common, two operations each, so that each formatter is used again by other settings; formats with every kind of flag, one that fails in a flag and one in a parameter; three streams and five objects: a chain of copies; three pieces with two flags |

`CHECK_DEADLOCK FALSE` stands where the system may stop: the user of an object may
make no further call (and bounds end the runs), a decided stream or a
finished conversion has nothing left to do. `Boundary` always has a next call.

**Fairness.** The codecvt runs: `WF` of the loop's actions, as a call that
runs, returns; `SF` of `FullCall` (and of `Close`): a caller that always
comes back does so, again and again, with all the rest of the text and with
room for at least a character. `std::basic_filebuf` refills its buffers in that
way, and a caller that offers no room for ever makes no progress with any codecvt. What the
caller asked `do_length` about it converts next (`AnnouncedCall`), which is how
`basic_filebuf` uses it; it only keeps the model from stopping there.
`ConversionEnds` assumes `WF` of the loop in `real_convert`: sequential code that keeps running. All
other properties need no fairness.

**Violations.** Four runs show that something the library says of itself does
not hold; `PROJECT.json` "findings" quotes it.

| run | |
|---|---|
| `FindRollAssertion` | `BOOST_ASSERT(value >= 0 && value < range)`, `gregorian.cpp:552`, fails when a week of the previous year or month is rolled |
| `FindEpoch` | a date at or before 1970 that is read into a double sets failbit: the lower limit is `min()`, the smallest positive double (`icu/formatter.cpp:194`) |
| `FindSkip` | after an unconvertible character of two bytes iconv's loop goes on with its second byte (`iconv_converter.hpp:71`) |
| `FindNul` | after a NUL the Windows converter looks for the character '0' (`wconv_converter.hpp:126`) |

Every property of a passing run has a mutant, a definition changed as a plausible
bug would (the operators marked "Faulty"), that violates it.

**Seen while modelling.** Behaviour that the definitions reproduce, and that no run is
about; where it matters a property excludes it by name.

* A month that is too short for the day counts in a difference once it is over
  (`gregorian.cpp:572`): from 31 January to 1 March it is one month, although moving by one
  month leads to 3 March; from 31 January to 28 February it is none, nor is it from
  31 March back to 2 March. `DifferenceFits` allows just that (`Overrun`).
* A period set that throws half way shows what a mark before had normalized
  (`date_time.cpp:176`), no longer what it showed when it began; `ThrowShowsPart` allows just that.
* Rolling the month of 31 January changes the day too (`gregorian.cpp:559`), though a roll is to
  leave other fields (`date_time_facet.hpp:112`).
* `week_of_month` takes the day of the month from 1, where the week arithmetic
  expects 0 (`gregorian.cpp:443` and 425).
* The difference of two dates in different zones counts local fields (`gregorian.cpp:615`).
* A roll adds in `int` (`gregorian.cpp:554`): amounts near its limits overflow.
* With the cache on, the base of a call is ignored when its id is cached: the code
  and `test_generator.cpp:457-466` agree on it, although `generator.hpp:184` reads otherwise.
* `convert()` uses the encodings of the last loaded domain (`message.cpp:484`): an
  untranslated text of another domain with keys in another encoding is
  garbled. `TranslationIsShown` asks for `OneKeyEncoding` there.
* A plural form without text is shown as an empty text, but as the source text if it is the
  last form of its message (`message.cpp:436-442`).
* `do_unshift` looks at one byte of the two that `do_out` stored, which is 0 for
  0xD800 (`generic_codecvt.hpp:171`).
* The break point after an invalid last byte of a converted text is not found again, so
  that the last segment ends before it (`icu/boundary.cpp:171`); a converted text with
  invalid units in the end has break points past its last segment, and `--` from `end()`
  then shows segments that are shifted by as many.
* A locale generated on top of one of another language keeps that one's
  `formatters_cache` (`icu/numeric.cpp:303`); the runs build on the classic locale.
* After an item of a format the precision is not restored (`format.cpp:53`);
  `StreamIsRestored` excludes it, and the width, which writing uses up.
* `util.hpp:174` says that a null converter always fails; it passes ASCII (`util.hpp:114-124`).

## 4. The proofs

All theorems hold for every value of the constants that satisfies the named
assumptions; a theorem with an `ASSUME` of its own says under which further
hypothesis it holds. `PROJECT.json` lists them with the property of a run that each
one states. Every invariant below was first checked by TLC on the run of its module.

* `GregorianProofs` is about the operators. `gmtime` of any instant has every field in
  its range (a 400-year era, a year of it, a month of it: each a step of linear
  arithmetic over quotients), every operation on a calendar gives a calendar again,
  and a roll never divides by zero. Since the year 1, where C's truncating division
  agrees with the calendar, the code's tables are exact: `TimegmInvertsGmtime`, and
  `GmtimeInvertsTimegm` for every date that exists, by way of "one date for every day"
  (`OneYear`, `OneDate`: the days of a year, and of a month in it, lie between those
  of its neighbours). `TimegmCarries` and `TimegmAddsDays` say what a month or a day
  out of range means; `WeekNumberNamesFourthDay` says what `get_week_number` counts.
* `DateTimeProofs`, the object: `Inv` is the types and `Shows(cal)`: the shown fields are those
  of the instant in the zone, and nothing pending means that `upd` equals `tm`. It is
  preserved by each `set_value` because one only writes `upd`, after a normalize or not,
  and by each final normalize whether it succeeds or throws. From it:
  `FieldsAlwaysDescribeTime`, `SuccessAlwaysNormalizes`, and with
  `Late(cal)` added `NeverGetsBeforeEpoch`.
* `DateTimeProofs`, failures: `ThrowAlwaysShowsPart`, of every call that throws, in the middle of
  a period set or not, also when calls before have thrown and left fields pending. `Staged` says that
  `stages` holds one calendar more than elements were asked for and ends in the present
  one; `PartInv` that what is shown now is what the call began with or what was pending
  when one of its relative marks normalized it. A step that throws leaves what is
  shown, as `from_time` and `normalize` test before they write.
* `DateTimeProofs`, the walk: `WalkInv` adds that nothing is pending and that the year is at
  least 1, which a day more keeps, and without which the code's division would be the
  wrong one. Hence for walks of any length that start within the calendar's limits
  (`WalksStartInLimits`): `NormalizeIsAlwaysExact`, `MonthsAlwaysCarry`, and
  `WeeksAreAlwaysCounted`, the longest argument: the number of a week is that of its fourth
  day, which moves by 7 when the week turns, and the last weeks of years and months
  are placed by the lengths of years and months. `MovingDaysIsExact` holds from any date.
* `DateTimeProofs`, the laws: `WritesAreAlwaysRead`, `RollsAlwaysStayInField` and
  `DifferencesAlwaysFit`, on every day of walks of any length, for every amount, year, distance, zone
  and first day of the week. The invariant is `Roomy`: the calendar is `Settled` (it shows its
  instant, nothing pending) and each amount and distance stays within the tables; a day
  more keeps it because a later instant is shown in no earlier year (`LaterYear`). The rest is
  about one settled calendar. Setting (`SetIsGot`): a mark that names a field writes a date
  that exists, which `GmtimeInvertsTimegm` reads again; a mark that counts days or weeks moves
  the day, and the fourth day of the week that it lands in is counted. Moving (`MovesBack`): even
  periods add their length, a month or year out and back writes the fields it started from.
  Rolling: `Wraps` says that the remainder of a roll is the value congruent to the sum, so that
  rolling back finds it again (`RollsBack`), in a year or month of the same length
  (`SameMaximum`); that other fields stay (`RollKeeps`) is read off what the set has written.
  Measuring (`DifferencesAreCounted`), on all days: a period more than the count that `difference`
  guesses from the fields passes the other end, and a period less stays before it or ends in
  a month that is too short for the day and over (`YearsBracket`, `MonthsBracket`, `DaysBracket`).
  For moving by years shows just that year, also from 29 February (`YearReached`), and moving by
  months that month or, where it is too short, a later one (`MonthReached`). What the one
  correction of `get_diff` makes of it is then the number of periods (`GetDiffFits`).
* `DateTimeProofs`, period sets: `AskedIsAlwaysGot`. `AskedInv` says what is pending after each element
  (`Held`), if the object had nothing pending when the assignment began: a clock, the clock fields
  asked for, the date fields asked for until a mark that counts days or weeks normalizes, and that
  the last element, if it is such a mark, moved a settled calendar. The final
  normalize shows the clock whatever the date is (`ClockIsShown`), the date if it exists, and
  the last mark by `SetIsGot`. It assumes `InYears`, that the object shows no year before 1, for
  which the code's tables do not count; a Windows build never gets there
  (`AskedIsGotSinceEpoch`).
* `CodecvtInProofs`: `Inv` adds to `PendingIsOtherHalf` the types. The step that
  matters is `InPair`: the character that gives the second half is the one that
  gave the first, though the piece may have other ends, by `ToUnicodeAssumption`:
  a decoding that is not incomplete stays when more bytes follow.
  Theorem `PendingLowIsOtherHalf`. `LengthAlwaysPredictsIn`: both loops take turns from
  place to place by one function (`Turn`), and a run ends where no turn is left, so that
  two runs from one place end in one place; "one place" is said without recursion by
  the sets of places that turns neither enter nor leave (`SameRun`). `ReadingTranscodes`: what is
  written and the conversion of the rest are together the conversion of the whole
  (`WriteInv`), so that each return of `do_in` is a step of `Transcoder` or none.
* `CodecvtOutProofs`: `PendingHighIsLastRead`, by an invariant that includes it for
  the copy inside a call and the one kept between calls, and `WritingTranscodes`, as for
  reading. It is under `EndsAreSeen`, because `do_unshift` looks at one byte of the state: on a
  little-endian machine a text that ends in U+D800, U+D900, U+DA00 or U+DB00 is accepted
  although half a pair is lost.
* `BackendsProofs`, the global manager: `Inv` is the types, `Exclusive` (who is in the middle of a
  call holds the mutex), `SharedIsLast` (the global manager is the last that was put
  in place, or is moved from while one thread is between its two steps), and the
  well-formedness of all managers. Theorems `ManagersAlwaysWellFormed` and
  `OldIsAlwaysReturned`.
* `BackendsProofs`, the objects of backends: `ObjectInv` says that data which are not `invalid_`
  were prepared from the options of now in an environment since they changed, and
  that only their locale was installed since. From it `InstalledIsAlwaysCurrent`,
  `AlwaysOneLocale` and, by the cases of the four classes, `EncodingIsAlwaysHonoured`: for an id that
  names an encoding it rests on `CodesetAssumption`; for one that names none it says that a posix
  facet writes the encoding that the system gives to the name.
* `BackendsProofs`, the generator: `GeneratorInv` says of each cached locale and of each thread
  between its two critical sections which configuration in force its locale was made of.
  Theorems `CachedAlwaysStays` and `ReturnedIsAlwaysAskedFor`, for any number of threads.
* `BackendsProofs`, the names: `NameIsAlwaysKept`. What the parser gives is `Readable`: a language
  and each part after it are words of the kinds the parser takes in that place, and a
  part is there only if the ones that name it are. What is written from such data has the
  same tokens in the same places, so that each branch of the parser reads back its own.
* `FormattingProofs`: `InfoIsAlwaysOwn` (with `CallbackIsRegistered`: who has an object has the
  callback that copies and deletes it), `StreamIsAlwaysRestored` (what an item keeps is the
  stream of when the format began, until it is put back), `ReadingIsAlwaysExact` (at each
  step of a reading what was taken is blanks and a number) and `AlwaysShownAsAsked`. The last
  one says of every formatter between its being fetched and its use which settings
  it has, and that no other stream of the thread comes between; it assumes `OwnCaches`, that a
  locale's cache was filled for its own language, because a locale made from one of another
  language keeps that one's cache (section 3).
* `BoundaryProofs`: `Standing`, the inductive invariant, puts both iterators at break points that
  their rules select, with the values of these. From it `SegmentsAreAlwaysWalked` and
  `PointsAreAlwaysWalked`, the two refinements of `Cursor`, one step per member function, and
  `TextIsAlwaysKept`. They assume `TextsAreOrdered`: the offsets of an index grow and the last is
  the end of the text. `DirectTextsAreOrdered` proves it of each text that ICU reads in place; of a
  converted one it holds unless the text ends in invalid units (section 3).
* `EncodingProofs`: `DecodeIsAlwaysExact`: for every text of units, by the rows of the table of
  well-formed sequences (`One` to `Four`), what a lead byte and its trailing bytes make of
  each code point, and back. `EnteredIsAlwaysFound`: the bytes of one code point lie in the table
  with no free place between them and the code point's own (`TableInv`), and a free place is
  left, because the table has more places than bytes.
* `EncodingProofs`, iconv's loop: `BufferNeverShows`, for every room of the buffer. `LoopInv` says that
  what is appended and the reading of what is left of the text are together the reading
  of the whole text. One call of iconv keeps that whatever it stops at, by downward induction
  on the position in the text (`CallWorks`), and skipping one unit of a character that cannot be
  written changes nothing of what is still read (`SkipOne`). It rests on `IconvAssumption`, the
  contract of iconv: a character has an encoding in every shift state or in none, it
  fits into the buffer, and a unit inside a character of UTF is none by itself.

Assumed: the C library as `gmtime`, `localtime` and `mktime` describe it; that
`nl_langinfo(CODESET)` of a locale whose name says an encoding is that one (`CodesetAssumption`);
integers without bounds; the contract of a base converter; that `the_mutex` excludes. TLC evaluates
the ASSUMEs on each run's constants.

Only model-checked:

* The agreement of the converters (`BuildDoesNotShow`, `TextSurvives`): each conversion is a recursive
  function over the text, and there are eight steps of a conversion to compare; not written yet.
  `CharacterByItself`, the second half of `CharacterByCharacter`.
* `TongueIsSpoken`, the half of `NameSpeaks` that depends on which locales a system has.
* `Messages`, `PluralForms` and `PluralGrammar`: they use recursive operators and bitwise ones, about
  which the provers can show nothing.
* `StringsAreRead` of `FormatStrings`: its parser is a recursive function over a string.
* All liveness: `ConversionEnds`, and the liveness in `InTranscodes` and `OutTranscodes`.

## 5. Not modelled

* Collation, case conversion, normalization, and what the C library and Windows
  write for a number or a date: calls of a library that keep nothing here. Which
  facet a backend installs for them, with which encoding, is in `BackendObject`.
* What ICU writes and parses: a text is abstracted to the settings that decide it.
* ICU, iconv, the Windows API and the C library themselves; each is a contract in
  the module that calls it.
* `uconv_converter`, the single-character converter that asks ICU; the code is a call.
* The bytes of a catalog file (byte order, offsets, sizes): a file is its entries.
* The territory table behind `first_day_of_week`; `get_option`, era, DST changes; copying
  between calendars of different classes; comparing and swapping date_times.
* Integer widths, where values stay far from the limits: dates, and `gregorian.cpp:554`.
  Limits of parsed numbers are modelled, on small widths.
* Memory exhaustion: an exception of the copy in `localization_backend.cpp:234` would leave
  the global manager without backends.
* Comparison of segments with strings, `segment`'s conversions, `format`'s and
  `message`'s overloads for character types: the same code for each type.
* Facet ids, the build, documentation, examples and tests.

## 6. Plan

The components are in place; what is left is to prove more about `Converters`: that a step of one
build is a step of the other, from which the whole would follow by the induction that only
TLC makes.
