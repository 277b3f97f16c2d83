---------------------------- MODULE BaseConverters ----------------------------
(***************************************************************************)
(* The converters of one character that generic_codecvt is given: the      *)
(* tables of simple_converter_impl, as its constructor fills them, and     *)
(* mb2_iconv_converter, which asks iconv about one or two bytes.  A text   *)
(* is the bytes in [begin, end); begin moves by len.                       *)
(***************************************************************************)
EXTENDS Utf

CONSTANTS
    Tables,    \* what to_utf makes of the bytes from 1 on: sequences of code points or illegal
    hash_table_size, \* more than the bytes of a table: 1024 for 255 in the code
    Code(_, _),  \* iconv (external): what the beginning of some bytes is in a charset
    Chars(_, _)  \* ... and the bytes of a code point, <<>> if none

ASSUME TablesAssumption ==
    hash_table_size \in Nat /\ \A t \in Tables : t \in Seq(Nat \cup {illegal}) /\ Len(t) < hash_table_size

VARIABLES
    to_unicode_tbl,
    from_unicode_tbl, \* [0 .. hash_table_size - 1 -> bytes], 0 where nothing is
    i                 \* the next byte to enter

tableVars == <<to_unicode_tbl, from_unicode_tbl, i>>

TableInit ==
    /\ to_unicode_tbl \in Tables
    /\ from_unicode_tbl = [pos \in 0 .. hash_table_size - 1 |-> 0]
    /\ i = 1

\* The first place from pos on, around the end, that is one where the search stops.
Probe(pos, stops) ==
    LET Nth(n) == (pos + n) % hash_table_size
    IN  Nth(CHOOSE n \in 0 .. hash_table_size - 1 :
               Nth(n) \in stops /\ \A m \in 0 .. n - 1 : Nth(m) \notin stops)

Illegal(c) == to_unicode_tbl[c] = illegal

Free == {p \in 0 .. hash_table_size - 1 : from_unicode_tbl[p] = 0}

Place(c) == Probe(to_unicode_tbl[c] % hash_table_size, Free)

\* One byte of the loop that fills the hash table.
Enter ==
    /\ i <= Len(to_unicode_tbl)
    /\ from_unicode_tbl' = IF Illegal(i) THEN from_unicode_tbl ELSE [from_unicode_tbl EXCEPT ![Place(i)] = i]
    /\ i' = i + 1
    /\ UNCHANGED to_unicode_tbl

TableNext == Enter

TableSpec == TableInit /\ [][TableNext]_tableVars

-----------------------------------------------------------------------------
(* simple_converter_impl *)

CodeOf(c) == IF c = 0 THEN 0 ELSE to_unicode_tbl[c]

simple_to_unicode(s) == IF s = <<>> THEN Failed(incomplete) ELSE Decoded(CodeOf(s[1]), 1)

simple_from_unicode(u) ==
    IF u = 0 THEN <<0>>
    ELSE LET found == {p \in 0 .. hash_table_size - 1 :
                          from_unicode_tbl[p] # 0 /\ to_unicode_tbl[from_unicode_tbl[p]] = u}
             pos == Probe(u % hash_table_size, Free \cup found)
         IN  IF from_unicode_tbl[pos] = 0 THEN <<>> ELSE <<from_unicode_tbl[pos]>>

-----------------------------------------------------------------------------
(* mb2_iconv_converter *)

\* What iconv makes of all of some bytes: their code points, or <<>>.
call_iconv(cs, s) ==
    LET after[k \in 0 .. Len(s)] ==
            LET d == Code(cs, SubSeq(s, k + 1, Len(s)))
                rest == after[k + d.len]
            IN  IF k = Len(s) THEN [ok |-> TRUE, cps |-> <<>>]
                ELSE IF d.cp < 0 \/ ~rest.ok THEN [ok |-> FALSE, cps |-> <<>>]
                ELSE [ok |-> TRUE, cps |-> <<d.cp>> \o rest.cps]
    IN  after[0].cps

\* Into a buffer of two code points: one, and the one of the final NUL.
OneAndNul(cps) == Len(cps) = 2 /\ cps[2] = 0

first_byte_table(cs, c) ==
    IF OneAndNul(call_iconv(cs, <<c, 0>>)) THEN call_iconv(cs, <<c, 0>>)[1]
    ELSE IF Code(cs, <<c>>).cp = incomplete THEN incomplete ELSE illegal

\* Faulty: one byte that starts two is not waited for.
mb2_to_unicode_Eager(cs, s) ==
    IF s = <<>> THEN Failed(incomplete)
    ELSE LET index == first_byte_table(cs, s[1])
             cps == IF Len(s) > 1 THEN call_iconv(cs, <<s[1], s[2], 0>>) ELSE <<>>
         IN  CASE index >= 0 -> Decoded(index, 1)
               [] index = incomplete /\ OneAndNul(cps) -> Decoded(cps[1], 2)
               [] OTHER -> Failed(illegal)

mb2_to_unicode(cs, s) ==
    IF s = <<>> THEN Failed(incomplete)
    ELSE LET index == first_byte_table(cs, s[1])
             cps == call_iconv(cs, <<s[1], s[2], 0>>)
         IN  CASE index = illegal -> Failed(illegal)
               [] index >= 0 -> Decoded(index, 1)
               [] index = incomplete /\ Len(s) = 1 -> Failed(incomplete)
               [] OTHER -> IF OneAndNul(cps) THEN Decoded(cps[1], 2) ELSE Failed(illegal)

\* The bytes and a NUL have to fit into three bytes.
mb2_from_unicode(cs, u) ==
    IF u = 0 THEN <<0>> ELSE IF Len(Chars(cs, u)) > 2 THEN <<>> ELSE Chars(cs, u)

-----------------------------------------------------------------------------
\* Every byte that is entered is found under its code point again, or another
\* byte of the same code point, though code points share places in the table,
\* and no code point is taken for another one that has none.
EnteredIsFound ==
    LET Entered == {c \in 1 .. i - 1 : ~Illegal(c)}
    IN  \A u \in 1 .. 2 * hash_table_size :
            LET b == simple_from_unicode(u)
            IN  IF \E c \in Entered : to_unicode_tbl[c] = u
                THEN b # <<>> /\ simple_to_unicode(b) = Decoded(u, 1)
                ELSE b = <<>>

TwoBytes(cs, s) == LET d == Code(cs, s) IN d.cp >= 0 => d.len <= 2

\* A verdict on the first bytes of a text other than incomplete stands when more
\* of it is seen, and a code point that iconv reads from one or two bytes is read
\* by itself and goes back to them.
CharacterByItself(cs, s) ==
    LET all == mb2_to_unicode(cs, s)
        c == Code(cs, s)
    IN  /\ \A n \in 0 .. Len(s) :
              LET seen == mb2_to_unicode(cs, SubSeq(s, 1, n)) IN seen.cp # incomplete => seen = all
        /\ c.cp >= 0 /\ c.len <= 2 =>
              all = c /\ mb2_from_unicode(cs, c.cp) = SubSeq(s, 1, c.len)
=============================================================================
