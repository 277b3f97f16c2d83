----------------------------- MODULE LocaleNames -----------------------------
(***************************************************************************)
(* The names of locales and what util::locale_data makes of them           *)
(* (src/src/util/locale_data.cpp).  A name is a sequence of tokens         *)
(* <<word, form>>: a word in "lower", "upper" or "capital" letters, a word *)
(* of "digits", or a delimiter, whose form is "mark".                      *)
(***************************************************************************)
EXTENDS Naturals, Sequences

CONSTANTS
    WordLength, \* the length of every word
    Pieces,     \* the tokens that a name grows by
    Starts,     \* the names it grows from
    MaxPieces   \* bound: the pieces of a name

Marks == {"-", "_", ".", "@"}
Forms == {"lower", "upper", "capital", "digits", "mark"}
Tokens == (DOMAIN WordLength \cup Marks) \X Forms
ASSUME TokensAssumption ==
    {"c", "us", "ascii"} \subseteq DOMAIN WordLength /\ Starts \cup Pieces \subseteq Seq(Tokens)

Mark(c) == <<c, "mark">>
IsLetters(s) == \A i \in DOMAIN s : s[i][2] \in {"lower", "upper", "capital"}
IsDigits(s) == \A i \in DOMAIN s : s[i][2] = "digits"

Total(lengths) ==
    LET upTo[k \in 0 .. Len(lengths)] == IF k = 0 THEN 0 ELSE upTo[k - 1] + lengths[k]
    IN  upTo[Len(lengths)]
Length(s) == Total([i \in DOMAIN s |-> IF s[i][2] = "mark" THEN 1 ELSE WordLength[s[i][1]]])

InForm(s, form) ==
    [i \in DOMAIN s |-> IF IsLetters(<<s[i]>>) THEN <<s[i][1], form>> ELSE s[i]]
lower(s) == InForm(s, "lower")
upper(s) == InForm(s, "upper")
capital(s) == InForm(SubSeq(s, 1, 1), "capital") \o lower(Tail(s))

\* The letters and digits that are left of an encoding's name.
normalize_encoding(s) == SelectSeq(lower(s), LAMBDA t : t[2] # "mark")
are_encodings_equal(a, b) == normalize_encoding(a) = normalize_encoding(b)

C == << <<"c", "upper">> >>
English == << <<"en", "lower">> >>
UsPosix == << <<"us", "upper">>, Mark("_"), <<"posix", "upper">> >>
UsAscii == << <<"us", "upper">>, Mark("-"), <<"ascii", "upper">> >>
utf8 == << <<"utf", "lower">>, <<"8", "digits">> >>

Default == [language |-> C, script |-> <<>>, country |-> <<>>, encoding |-> UsAscii,
            variant |-> <<>>]
is_utf8(d) == normalize_encoding(d.encoding) = utf8

-----------------------------------------------------------------------------
(* parse: each part gets the data so far and the rest of the name, and     *)
(* answers with the data, which are kept on failure, and whether it is ok. *)

Answer(d, ok) == [data |-> d, ok |-> ok]

\* What comes before the first of the marks, the mark, and what comes after it.
Cut(s, marks) ==
    LET at == CHOOSE i \in 1 .. Len(s) + 1 :
                /\ i = Len(s) + 1 \/ s[i] \in {Mark(c) : c \in marks}
                /\ \A j \in 1 .. i - 1 : s[j] \notin {Mark(c) : c \in marks}
    IN [part |-> SubSeq(s, 1, at - 1),
        mark |-> IF at > Len(s) THEN "end" ELSE s[at][1],
        rest |-> SubSeq(s, at + 1, Len(s))]

parse_from_variant(d, s) ==
    IF d.language = C \/ s = <<>> THEN Answer(d, FALSE)
    ELSE Answer([d EXCEPT !.variant = lower(s)], TRUE)

parse_from_encoding(d, s) ==
    LET c == Cut(s, {"@"})
        e == [d EXCEPT !.encoding = upper(c.part)]
    IN CASE c.part = <<>> -> Answer(d, FALSE)
         [] c.part # <<>> /\ c.mark = "end" -> Answer(e, TRUE)
         [] OTHER -> parse_from_variant(e, c.rest)

\* Where the name goes on after a part that may be followed by an encoding.
Onwards(d, c) ==
    CASE c.mark = "end" -> Answer(d, TRUE)
      [] c.mark = "." -> parse_from_encoding(d, c.rest)
      [] c.mark = "@" -> parse_from_variant(d, c.rest)

parse_from_country(d, s) ==
    LET c == Cut(s, {"@", "."})
        land == upper(c.part)
        posix == d.language = English /\ land = UsPosix
    IN CASE d.language = C \/ land = <<>> -> Answer(d, FALSE)
         [] d.language # C /\ posix ->
               Onwards([d EXCEPT !.language = C, !.country = <<>>], c)
         [] d.language # C /\ land # <<>> /\ (IsLetters(land) \/ (IsDigits(land) /\ Length(land) = 3)) ->
               Onwards([d EXCEPT !.country = land], c)
         [] OTHER -> Answer(d, FALSE)

parse_from_script(d, s) ==
    LET c == Cut(s, {"-", "_", "@", "."})
        isScript == Length(c.part) = 4 /\ IsLetters(c.part)
        e == [d EXCEPT !.script = capital(c.part)]
    IN CASE ~isScript -> parse_from_country(d, s)
         [] isScript /\ c.mark \in {"-", "_"} -> parse_from_country(e, c.rest)
         [] OTHER -> Onwards(e, c)

parse_from_lang(d, s) ==
    LET c == Cut(s, {"-", "_", "@", "."})
        l == lower(c.part)
        e == IF l \in {lower(C), << <<"posix", "lower">> >>} THEN d ELSE [d EXCEPT !.language = l]
    IN CASE c.part = <<>> \/ ~IsLetters(c.part) -> Answer(d, FALSE)
         [] c.part # <<>> /\ IsLetters(c.part) /\ c.mark \in {"-", "_"} -> parse_from_script(e, c.rest)
         [] OTHER -> Onwards(e, c)

parse(s) == parse_from_lang(Default, s)

Led(mark, s) == IF s = <<>> THEN <<>> ELSE <<Mark(mark)>> \o s

\* Faulty: the script is left out, as the comment in locale_data.hpp does.
to_string_NoScript(d) ==
    d.language \o Led("_", d.country)
    \o (IF are_encodings_equal(d.encoding, UsAscii) THEN <<>> ELSE Led(".", d.encoding))
    \o Led("@", d.variant)

to_string(d) ==
    d.language \o Led("_", d.script) \o Led("_", d.country)
    \o (IF are_encodings_equal(d.encoding, UsAscii) THEN <<>> ELSE Led(".", d.encoding))
    \o Led("@", d.variant)

\* locale_data::encoding, which sets it, as a name tried by a backend does.
with_encoding(d, e) == [d EXCEPT !.encoding = e]

-----------------------------------------------------------------------------
(* The names, piece by piece. *)

VARIABLES spelled, pieces

nameVars == <<spelled, pieces>>

NamesInit == spelled \in Starts /\ pieces = 0

AddPiece(p) ==
    /\ pieces < MaxPieces
    /\ spelled' = spelled \o p
    /\ pieces' = pieces + 1

NamesNext == \E p \in Pieces : AddPiece(p)

NamesSpec == NamesInit /\ [][NamesNext]_nameVars

-----------------------------------------------------------------------------
Same(d, e) ==
    /\ are_encodings_equal(d.encoding, e.encoding)
    /\ [d EXCEPT !.encoding = e.encoding] = e

\* A backend that does not know a locale by the name the user gave tries the
\* names that to_string writes of what was read (std_backend.cpp 147-151): they
\* must say the same, or another locale would be loaded in its place.
NameIsKept ==
    LET p == parse(spelled) IN p.ok =>
        LET q == parse(to_string(p.data)) IN q.ok /\ Same(p.data, q.data)
=============================================================================
