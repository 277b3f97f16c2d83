---------------------------- MODULE FormatStrings ----------------------------
(***************************************************************************)
(* Two small languages: the format strings of basic_format                 *)
(* (src/include/boost/locale/format.hpp) and the strftime patterns that are *)
(* rewritten for ICU (src/src/icu/formatter.cpp).  A string is a sequence  *)
(* of characters; those that mean nothing in either language stand for any *)
(* of their kind.                                                          *)
(***************************************************************************)
EXTENDS Naturals, Sequences, FiniteSets

NUL == "\\0"
At(s, p) == IF p \in DOMAIN s THEN s[p] ELSE NUL

\* The first place from p on, or the end, with a character of a set.
UpTo(s, p, stops) ==
    CHOOSE q \in p .. Len(s) + 1 :
        /\ q = Len(s) + 1 \/ s[q] \in stops
        /\ \A r \in p .. q - 1 : s[r] \notin stops

-----------------------------------------------------------------------------
(* basic_format::format_output.  A piece is a character to be written, or an *)
(* item: its flags [key, value, quoted], and whether a parameter is shown.   *)

Text(c) == [text |-> c]
Item(itemflags, shown) == [flags |-> itemflags, shown |-> shown]
Flag(key, value, quoted) == [key |-> key, value |-> value, quoted |-> quoted]

\* Faulty: a doubled quote ends the value.
quoted_value_Single(s, p) ==
    LET q == UpTo(s, p, {"'"}) IN [value |-> SubSeq(s, p, q - 1), next |-> q + 1]

\* The value behind an opening quote; two quotes are one, one ends it.
quoted_value(s, p) ==
    LET from[q \in p .. Len(s) + 2] ==
          CASE q > Len(s) -> [value |-> <<>>, next |-> Len(s) + 1]
            [] q <= Len(s) /\ At(s, q) = "'" /\ At(s, q + 1) # "'" -> [value |-> <<>>, next |-> q + 1]
            [] OTHER -> LET rest == from[IF s[q] = "'" THEN q + 2 ELSE q + 1]
                        IN [value |-> <<s[q]>> \o rest.value, next |-> rest.next]
    IN from[p]

\* One key, and its value, from p on.
read_flag(s, p) ==
    LET k == UpTo(s, p, {",", "=", "}"})
        key == SubSeq(s, p, k - 1)
        v == UpTo(s, k + 1, {",", "}"})
        q == quoted_value(s, k + 2)
    IN IF At(s, k) # "=" THEN [flag |-> Flag(key, <<>>, FALSE), next |-> k]
       ELSE IF At(s, k + 1) = "'" THEN [flag |-> Flag(key, q.value, TRUE), next |-> q.next]
       ELSE [flag |-> Flag(key, SubSeq(s, k + 1, v - 1), FALSE), next |-> v]

\* The flags from p on; a parameter is shown if the item ends in a bracket.
read_item(s, p) ==
    LET from[q \in p .. Len(s) + 2] ==
          IF q > Len(s) THEN [item |-> Item(<<>>, FALSE), next |-> q]
          ELSE LET f == read_flag(s, q)
                   rest == from[f.next + 1]
               IN CASE At(s, f.next) = "," ->
                         [item |-> Item(<<f.flag>> \o rest.item.flags, rest.item.shown),
                          next |-> rest.next]
                    [] At(s, f.next) = "}" -> [item |-> Item(<<f.flag>>, TRUE), next |-> f.next + 1]
                    [] OTHER -> [item |-> Item(<<f.flag>>, FALSE), next |-> f.next]
    IN from[p]

format_output(s) ==
    LET from[p \in 1 .. Len(s) + 2] ==
          IF p > Len(s) THEN <<>>
          ELSE IF s[p] = At(s, p + 1) /\ s[p] \in {"{", "}"} THEN <<Text(s[p])>> \o from[p + 2]
          ELSE IF s[p] # "{" THEN <<Text(s[p])>> \o from[p + 1]
          ELSE LET i == read_item(s, p + 1) IN <<i.item>> \o from[i.next]
    IN from[1]

-----------------------------------------------------------------------------
(* strftime_to_icu.  Characters of a pattern are strings; a run of letters  *)
(* that ICU takes for a field is one string.                                *)

Fields == {"dd", "yyyy", "MM", "yy"}
\* Letters stand for fields in an ICU pattern, other characters do not.
Letters == {"x", "C"}

\* %c stands for a pattern of the locale, here one with quoted text.
strftime_symbol_to_icu(c) ==
    CASE c = "d" -> <<"dd">>
      [] c = "D" -> <<"MM", "/", "dd", "/", "yy">>
      [] c = "Y" -> <<"yyyy">>
      [] c = "c" -> <<"yyyy", "'", "x", "'", "dd">>
      [] c = "%" -> <<"%">>
      [] OTHER -> <<>>

close(escaped) == IF escaped THEN <<"'">> ELSE <<>>

strftime_to_icu(s) ==
    LET from[p \in 1 .. Len(s) + 4, escaped \in BOOLEAN] ==
          LET q == IF At(s, p + 1) \in {"E", "O"} THEN p + 2 ELSE p + 1
          IN IF p > Len(s) THEN close(escaped)
             ELSE IF s[p] = "%"
             THEN close(escaped) \o strftime_symbol_to_icu(At(s, q)) \o from[q + 1, FALSE]
             ELSE IF s[p] = "'" THEN <<"'", "'">> \o from[p + 1, escaped]
             ELSE (IF escaped THEN <<>> ELSE <<"'">>) \o <<s[p]>> \o from[p + 1, TRUE]
    IN from[1, FALSE]

-----------------------------------------------------------------------------
(* What the strings mean, written the other way round: the text that has a  *)
(* given meaning.                                                           *)

CONSTANTS
    Keys,        \* of flags
    Words,       \* values without quotes
    QuotedTexts, \* values in quotes
    Literals,    \* characters of the text around the items
    MaxPieces, MaxFlags,
    Directives   \* pieces of a strftime pattern: <<"text", c>>, <<"field", symbol>>

VARIABLES
    tree,      \* a sequence of pieces, or of directives
    language   \* what it is a tree of: "format", "strftime"

UnparseFlag(f) ==
    IF f.quoted
    THEN LET doubled[i \in 0 .. Len(f.value)] ==
               IF i = 0 THEN <<>>
               ELSE doubled[i - 1] \o (IF f.value[i] = "'" THEN <<"'", "'">> ELSE <<f.value[i]>>)
         IN f.key \o <<"=", "'">> \o doubled[Len(f.value)] \o <<"'">>
    ELSE f.key \o (IF f.value = <<>> THEN <<>> ELSE <<"=">> \o f.value)

Unparse(pieces) ==
    LET joined(fs) == LET j[i \in 1 .. Len(fs)] ==
                            IF i = 1 THEN UnparseFlag(fs[1])
                            ELSE j[i - 1] \o <<",">> \o UnparseFlag(fs[i])
                      IN j[Len(fs)]
        of(piece) == IF "flags" \in DOMAIN piece THEN <<"{">> \o joined(piece.flags) \o <<"}">>
                     ELSE IF piece.text \in {"{", "}"} THEN <<piece.text, piece.text>>
                     ELSE <<piece.text>>
        all[i \in 0 .. Len(pieces)] == IF i = 0 THEN <<>> ELSE all[i - 1] \o of(pieces[i])
    IN all[Len(pieces)]

\* A strftime pattern, with and without modifiers.
UnparseDirectives(ds, modifier) ==
    LET of(d) == IF d[1] = "text" THEN <<d[2]>> ELSE <<"%">> \o modifier \o <<d[2]>>
        all[i \in 0 .. Len(ds)] == IF i = 0 THEN <<>> ELSE all[i - 1] \o of(ds[i])
    IN all[Len(ds)]

\* How ICU reads a pattern: two quotes are one, one begins and ends text.
ReadPattern(s) ==
    LET from[p \in 1 .. Len(s) + 2, inside \in BOOLEAN] ==
          IF p > Len(s) THEN <<>>
          ELSE IF s[p] = "'" /\ At(s, p + 1) = "'" THEN <<<<"text", "'">>>> \o from[p + 2, inside]
          ELSE IF s[p] = "'" THEN from[p + 1, ~inside]
          ELSE <<<<IF ~inside /\ s[p] \in Fields \cup Letters THEN "field" ELSE "text", s[p]>>>>
               \o from[p + 1, inside]
    IN from[1, FALSE]

Meaning(ds) ==
    LET of(d) == IF d[1] = "text" THEN <<d>> ELSE ReadPattern(strftime_symbol_to_icu(d[2]))
        all[i \in 0 .. Len(ds)] == IF i = 0 THEN <<>> ELSE all[i - 1] \o of(ds[i])
    IN all[Len(ds)]

FlagSet == {Flag(k, v, FALSE) : k \in Keys, v \in Words \cup {<<>>}}
           \cup {Flag(k, v, TRUE) : k \in Keys, v \in QuotedTexts}

StringsInit == tree = <<>> /\ language \in {"format", "strftime"}

AddText == /\ language = "format" /\ Len(tree) < MaxPieces
           /\ \E c \in Literals : tree' = Append(tree, Text(c))
           /\ UNCHANGED language
AddItem == /\ language = "format" /\ Len(tree) < MaxPieces
           /\ \E f \in FlagSet : tree' = Append(tree, Item(<<f>>, TRUE))
           /\ UNCHANGED language
AddFlag == /\ language = "format" /\ tree # <<>> /\ "flags" \in DOMAIN tree[Len(tree)]
           /\ Len(tree[Len(tree)].flags) < MaxFlags
           /\ \E f \in FlagSet : tree' = [tree EXCEPT ![Len(tree)].flags = Append(@, f)]
           /\ UNCHANGED language
AddDirective == /\ language = "strftime" /\ Len(tree) < MaxPieces + 2
                /\ \E d \in Directives : tree' = Append(tree, d)
                /\ UNCHANGED language

StringsNext == AddText \/ AddItem \/ AddFlag \/ AddDirective

-----------------------------------------------------------------------------
\* A format string is taken for the text and the items it is made of, whatever
\* brackets, quotes and separators stand next to each other (format.hpp).
FormatIsRead ==
    language = "format" => format_output(Unparse(tree)) = tree

\* The pattern that ICU gets shows the text and the fields of the strftime
\* pattern, with modifiers or without, though ICU takes letters for fields
\* and has its own rules for quotes (formatter.cpp).
StrftimeIsKept ==
    language = "strftime" =>
        \A modifier \in {<<>>, <<"E">>, <<"O">>} :
            ReadPattern(strftime_to_icu(UnparseDirectives(tree, modifier))) = Meaning(tree)

\* What a program writes in either language is what the library reads.
StringsAreRead == FormatIsRead /\ StrftimeIsKept
=============================================================================
