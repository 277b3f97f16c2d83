------------------------------ MODULE Converters ------------------------------
(***************************************************************************)
(* to_utf, from_utf and between (src/src/encoding/): converting a whole    *)
(* text by iconv, by ICU or by the Windows API, and utf_to_utf.  A result  *)
(* is the units written, or conversion_error.  wchar_t is UTF-16 in the    *)
(* Windows converters.  The texts are those that UtfFeed lets arrive.      *)
(***************************************************************************)
EXTENDS UtfFeed, SequencesExt

CONSTANTS
    PageReads(_),  \* the code page: the first character of some bytes, as decode gives it
    PageWrites(_), \* ... and the bytes of a code point, <<>> if it has none
    IsDBCSLeadByteEx(_), \* bytes that start a character of two
    Checked        \* the code page takes MB_ERR_INVALID_CHARS and tells of substitutions

Done(units) == [thrown |-> FALSE, units |-> units]
Thrown == [thrown |-> TRUE, units |-> <<>>]
Then(r, f(_)) == IF r.thrown THEN r ELSE f(r.units)

Good(units, len) == [units |-> units, len |-> len, bad |-> FALSE]
Bad(len) == [units |-> <<>>, len |-> len, bad |-> TRUE]

\* steps[i]: what a converter makes of the text's rest from i on, Good or Bad.
Follow(steps, how) ==
    LET after[i \in 1 .. Len(steps) + 1] ==
            IF i = Len(steps) + 1 THEN Done(<<>>)
            ELSE IF (steps[i].bad /\ how = "stop") \/ after[i + steps[i].len].thrown THEN Thrown
            ELSE Done(steps[i].units \o after[i + steps[i].len].units)
    IN  after[1]

\* Converts s from the left.
Convert(Step(_), s, how) == Follow([i \in DOMAIN s |-> Step(SubSeq(s, i, Len(s)))], how)

\* One character: what was read, or failing that the units to skip.
Write(d, Units(_), skipped) == IF d.cp >= 0 THEN Good(Units(d.cp), d.len) ELSE Bad(skipped)

\* ... which has units of its own, or is skipped.
WriteIfAny(d, Units(_), skipped, unwritable) ==
    CASE d.cp < 0 -> Bad(skipped)
      [] d.cp >= 0 /\ Units(d.cp) = <<>> -> Bad(unwritable)
      [] OTHER -> Good(Units(d.cp), d.len)

\* A code page, or UTF-8.
Reads(cs, s) == IF cs = "UTF-8" THEN decode8(s) ELSE PageReads(s)
Writes(cs, u) == IF cs = "UTF-8" THEN encode8(u) ELSE PageWrites(u)

-----------------------------------------------------------------------------
(* utf_to_utf *)

decode(size, s) == CASE size = 1 -> decode8(s) [] size = 2 -> decode16(s) [] size = 4 -> decode32(s)
encode(size, u) == CASE size = 1 -> encode8(u) [] size = 2 -> encode16(u) [] size = 4 -> <<u>>

\* The units decode has taken when it fails: also the one that is not the trail
\* unit it expected.
Taken8(s) ==
    LET n == trail_length8(s[1])
        wrong == {i \in 2 .. n + 1 : i <= Len(s) /\ ~is_trail8(s[i])}
    IN  CASE n < 0 -> 1
          [] n >= 0 /\ wrong # {} -> CHOOSE i \in wrong : \A j \in wrong : i <= j
          [] OTHER -> IF n + 1 <= Len(s) THEN n + 1 ELSE Len(s)
TakenByFailure(size, s) ==
    CASE size = 1 -> Taken8(s)
      [] size = 2 -> IF is_first_surrogate(s[1]) /\ Len(s) > 1 THEN 2 ELSE 1
      [] size = 4 -> 1

utf_to_utf(in, out, s, how) ==
    LET Units(u) == encode(out, u)
        Step(t) == Write(decode(in, t), Units, TakenByFailure(in, t))
    IN  Convert(Step, s, how)

-----------------------------------------------------------------------------
(* ICU, whose strings are UTF-16. *)

\* A converter of ICU, told to skip or to stop: a malformed beginning is one unit.
ucnv_toUChars(cs, s, how) ==
    LET Step(t) == Write(Reads(cs, t), encode16, 1) IN Convert(Step, s, how)
ucnv_fromUChars(cs, u, how) ==
    LET Units(c) == Writes(cs, c)
        Step(t) == LET d == decode16(t) IN WriteIfAny(d, Units, 1, d.len)
    IN  Convert(Step, u, how)

\* Faulty: a lone high surrogate is appended.
icu_checked16_Lone(s, how) ==
    LET Step(t) ==
            CASE is_first_surrogate(t[1]) ->
                    IF Len(t) > 1 /\ is_second_surrogate(t[2]) THEN Good(<<t[1], t[2]>>, 2)
                    ELSE Good(<<t[1]>>, 1)
              [] is_second_surrogate(t[1]) -> Bad(1)
              [] OTHER -> Good(<<t[1]>>, 1)
    IN  Convert(Step, s, how)

\* icu_std_converter<2>::icu_checked: a high surrogate takes the next unit with
\* it, whatever that is.
icu_checked16(s, how) ==
    LET Step(t) ==
            CASE is_first_surrogate(t[1]) ->
                    IF Len(t) = 1 THEN Bad(1)
                    ELSE IF is_second_surrogate(t[2]) THEN Good(<<t[1], t[2]>>, 2) ELSE Bad(2)
              [] is_second_surrogate(t[1]) -> Bad(1)
              [] OTHER -> Good(<<t[1]>>, 1)
    IN  Convert(Step, s, how)

\* icu_std_converter<4>::icu_checked: all at once if all are valid.
icu_checked32(s, how) ==
    IF \A i \in DOMAIN s : is_valid_codepoint(s[i]) THEN Done(FlattenSeq([i \in DOMAIN s |-> encode16(s[i])]))
    ELSE IF how = "stop" THEN Thrown
    ELSE Done(FlattenSeq([i \in DOMAIN s |-> IF is_valid_codepoint(s[i]) THEN encode16(s[i]) ELSE <<>>]))

icu_checked(size, s, how) ==
    CASE size = 1 -> ucnv_toUChars("UTF-8", s, how)
      [] size = 2 -> icu_checked16(s, how)
      [] size = 4 -> icu_checked32(s, how)

\* icu_std_converter::std, of a string that is well-formed.
std_string(size, u) ==
    CASE size = 1 -> ucnv_fromUChars("UTF-8", u, "skip")
      [] size = 2 -> Done(u)
      [] size = 4 -> utf_to_utf(2, 4, u, "skip")

uconv_to_utf(size, cs, s, how) ==
    LET Std(u) == std_string(size, u) IN Then(ucnv_toUChars(cs, s, how), Std)
uconv_from_utf(size, cs, s, how) ==
    LET Std(u) == ucnv_fromUChars(cs, u, how) IN Then(icu_checked(size, s, how), Std)
uconv_between(to, from, s, how) ==
    LET Std(u) == ucnv_fromUChars(to, u, how) IN Then(ucnv_toUChars(from, s, how), Std)

-----------------------------------------------------------------------------
(* The Windows API *)

\* With MB_ERR_INVALID_CHARS it fails on what it cannot read.
MultiByteToWideChar(s) ==
    LET Read(d) == IF d.cp < 0 /\ ~Checked THEN Decoded(65533, 1) ELSE d
        Step(t) == Write(Read(PageReads(t)), encode16, 1)
    IN  Convert(Step, s, "stop")

\* Two bytes that are no character are skipped together, and a lead byte at the
\* end is left out.
multibyte_to_wide_one_by_one(s) ==
    LET Step(t) == LET len == IF IsDBCSLeadByteEx(t[1]) THEN 2 ELSE 1
                   IN  IF len > Len(t) THEN Good(<<>>, 1)
                       ELSE Good(MultiByteToWideChar(SubSeq(t, 1, len)).units, len)
    IN  Convert(Step, s, "skip")

Retried(all, s, how) == IF all.thrown /\ how = "skip" THEN multibyte_to_wide_one_by_one(s) ELSE all

\* Faulty: the policy is not looked at.
multibyte_to_wide_Skips(s, how) == Retried(MultiByteToWideChar(s), s, "skip")

multibyte_to_wide(s, how) == Retried(MultiByteToWideChar(s), s, how)

\* The bytes with a substitute for each character that has none: NUL where the
\* code page tells of it, and the code removes the substitutes again.
WideCharToMultiByte(u) ==
    LET Substituted(step) == IF step.bad THEN Good(IF Checked THEN <<0>> ELSE <<63>>, step.len) ELSE step
        Step(t) == LET d == decode16(t) IN Substituted(WriteIfAny(d, PageWrites, 1, d.len))
    IN  Convert(Step, u, "skip").units
Substitutes(u) == Checked /\ ucnv_fromUChars("page", u, "stop").thrown

wide_to_multibyte_non_zero(u, how) ==
    LET Kept(bytes_, substitutes) ==
            IF substitutes /\ how = "stop" THEN Thrown
            ELSE Done(SelectSeq(bytes_, LAMBDA b : b # 0 \/ ~substitutes))
    IN  Kept(WideCharToMultiByte(u), Substitutes(u))

\* The text is cut at its first NUL, and then at each digit 0, and a NUL is
\* written for every cut.
wide_to_multibyte(u, how) ==
    LET Cut(b, mark) == SelectInSubSeq(u, b, Len(u), LAMBDA c : c = mark)
        Piece(b, e) == wide_to_multibyte_non_zero(SubSeq(u, b, IF e = 0 THEN Len(u) ELSE e - 1), how)
        Then0(piece, rest) == IF piece.thrown \/ rest.thrown THEN Thrown
                              ELSE Done(piece.units \o <<0>> \o rest.units)
        after[i \in 0 .. Len(u)] ==
            LET e == Cut(i + 1, IF i = 0 THEN 0 ELSE 48)
            IN  IF e = 0 THEN Piece(i + 1, e) ELSE Then0(Piece(i + 1, e), after[e])
    IN  after[0]

validate_utf16(s) == ~utf_to_utf(2, 2, s, "stop").thrown

clean_invalid_utf16(s) ==
    LET after[i \in 1 .. Len(s) + 1] ==
            CASE i > Len(s) -> <<>>
              [] i <= Len(s) /\ is_first_surrogate(s[i]) ->
                    IF i = Len(s) THEN <<>>
                    ELSE (IF is_second_surrogate(s[i + 1]) THEN <<s[i], s[i + 1]>> ELSE <<>>) \o after[i + 2]
              [] i <= Len(s) /\ is_second_surrogate(s[i]) -> after[i + 1]
              [] OTHER -> <<s[i]>> \o after[i + 1]
    IN  after[1]

wconv_between(to, from, s, how) ==
    LET Narrow(u) == IF to = "UTF-8" THEN utf_to_utf(2, 1, u, how) ELSE wide_to_multibyte(u, how)
    IN  IF to = "UTF-8" /\ from = "UTF-8" THEN utf_to_utf(1, 1, s, how)
        ELSE Then(IF from = "UTF-8" THEN utf_to_utf(1, 2, s, how) ELSE multibyte_to_wide(s, how), Narrow)

wconv_to_utf(size, cs, s, how) ==
    LET Wide(u) == IF size = 2 THEN Done(u) ELSE utf_to_utf(2, size, u, how)
    IN  CASE size = 1 -> wconv_between("UTF-8", cs, s, how)
          [] size # 1 /\ cs = "UTF-8" -> utf_to_utf(1, size, s, how)
          [] OTHER -> Then(multibyte_to_wide(s, how), Wide)

wconv_from_utf(size, cs, s, how) ==
    LET Narrow(u) == wide_to_multibyte(u, how)
        Cleaned(valid) == IF valid THEN Done(s) ELSE IF how = "stop" THEN Thrown ELSE Done(clean_invalid_utf16(s))
    IN  CASE size = 1 -> wconv_between(cs, "UTF-8", s, how)
          [] size # 1 /\ cs = "UTF-8" -> utf_to_utf(size, 1, s, how)
          [] OTHER -> Then(IF size = 2 THEN Cleaned(validate_utf16(s)) ELSE utf_to_utf(size, 2, s, how), Narrow)

-----------------------------------------------------------------------------
(* iconv, as IconvLoop shows its use: what iconv cannot read or write is      *)
(* skipped unit by unit.                                                     *)
Iconv(Read(_), Units(_), s, how) ==
    LET Step(t) == WriteIfAny(Read(t), Units, 1, 1) IN Convert(Step, s, how)
iconv_to_utf(size, cs, s, how) ==
    LET Read(t) == Reads(cs, t)  Units(u) == encode(size, u) IN Iconv(Read, Units, s, how)
iconv_from_utf(size, cs, s, how) ==
    LET Read(t) == decode(size, t)  Units(u) == Writes(cs, u) IN Iconv(Read, Units, s, how)

-----------------------------------------------------------------------------
(* codepage.cpp: the first converter that is compiled in and knows the        *)
(* charset is used.                                                          *)
Order == <<"IConv", "ICU", "WinAPI">>
Chosen(opens) == SelectSeq(Order, LAMBDA c : c \in opens)

to_utf(opens, size, cs, s, how) ==
    CASE Chosen(opens)[1] = "IConv" -> iconv_to_utf(size, cs, s, how)
      [] Chosen(opens)[1] = "ICU" -> uconv_to_utf(size, cs, s, how)
      [] OTHER -> wconv_to_utf(size, cs, s, how)
from_utf(opens, size, cs, s, how) ==
    CASE Chosen(opens)[1] = "IConv" -> iconv_from_utf(size, cs, s, how)
      [] Chosen(opens)[1] = "ICU" -> uconv_from_utf(size, cs, s, how)
      [] OTHER -> wconv_from_utf(size, cs, s, how)

-----------------------------------------------------------------------------
Some == {{"IConv"}, {"ICU"}, {"WinAPI"}}
Charsets == {"page", "UTF-8"}
Sizes == {1, 2, 4}
AsAll(Results) == Cardinality(Results) = 1

\* The text that from_utf is given has no NUL: see KeepsNul.
NoNul == \A i \in DOMAIN words : words[i] # 0

\* Which of the converters a program is built with does not show.  All of them
\* throw conversion_error on the same texts, and write the same otherwise; when
\* they skip, ICU and the Windows API leave out the same units of a malformed
\* UTF-16 or UTF-32 text.
BuildDoesNotShow ==
    /\ NoNul => \A size \in {2, 4}, cs \in Charsets, how \in {"stop", "skip"} :
          LET alike == IF how = "skip" /\ utf_to_utf(size, 4, words, "stop").thrown
                       THEN Some \ {{"IConv"}} ELSE Some
          IN  AsAll({from_utf(o, size, cs, words, how) : o \in alike})
    /\ Len(bytes) <= 3 => \A size \in Sizes, cs \in Charsets :
          AsAll({to_utf(o, size, cs, bytes, "stop") : o \in Some})

\* What comes from a code page or UTF-8 and is no error goes back to it
\* unchanged, whatever UTF it is kept in, also through another converter; and
\* so does what goes straight from UTF-8 to the code page.
TextSurvives ==
    Len(bytes) <= 3 /\ (\A i \in DOMAIN bytes : bytes[i] # 0) =>
        LET ComesBack(there, Back(_, _)) == ~there.thrown => \A p \in Some : Back(p, there.units) = Done(bytes)
            Direct(p, u) == wconv_between("page", "UTF-8", u, "stop")
            there == uconv_between("UTF-8", "page", bytes, "stop")
        IN  /\ \A size \in Sizes, cs \in Charsets, o \in Some :
                  LET Back(p, u) == from_utf(p, size, cs, u, "stop")
                  IN  ComesBack(to_utf(o, size, cs, bytes, "stop"), Back)
            /\ there = wconv_between("UTF-8", "page", bytes, "stop")
            /\ ComesBack(there, Direct)

\* test_with_0 (test_encoding.cpp:267): a text with NULs is converted to the
\* same text with NULs.
KeepsNul ==
    ~utf_to_utf(2, 4, words, "stop").thrown /\ ~ucnv_fromUChars("page", words, "stop").thrown =>
        from_utf({"WinAPI"}, 2, "page", words, "stop") = ucnv_fromUChars("page", words, "stop")
=============================================================================
