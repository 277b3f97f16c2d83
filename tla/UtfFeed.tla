------------------------------- MODULE UtfFeed -------------------------------
(***************************************************************************)
(* A text that arrives one code unit at a time, and what decode says of    *)
(* the units seen so far.  The converters give decode whatever part of a   *)
(* text their buffer holds, and call again when it says incomplete.        *)
(***************************************************************************)
EXTENDS Utf

CONSTANTS Bytes, \* the UTF-8 units that arrive
          Words  \* the UTF-16 units that arrive

ASSUME UnitsAssumption == Bytes \subseteq 0 .. 255 /\ Words \subseteq Units16

VARIABLES bytes, words

vars == <<bytes, words>>

Init == bytes = <<>> /\ words = <<>>

Byte(b) ==
    /\ Len(bytes) < 4 /\ words = <<>>
    /\ bytes' = Append(bytes, b)
    /\ UNCHANGED words

Word(w) ==
    /\ Len(words) < 3 /\ bytes = <<>>
    /\ words' = Append(words, w)
    /\ UNCHANGED bytes

Next == (\E b \in Bytes : Byte(b)) \/ (\E w \in Words : Word(w))

Spec == Init /\ [][Next]_vars

-----------------------------------------------------------------------------
\* The well-formed UTF-8 sequences, by the ranges of their units (table 3-7 of
\* the Unicode standard, which utf.hpp's decode computes by other means).
Table ==
    { <<0 .. 127>>,
      <<194 .. 223, 128 .. 191>>,
      <<{224}, 160 .. 191, 128 .. 191>>,
      <<225 .. 236, 128 .. 191, 128 .. 191>>,
      <<{237}, 128 .. 159, 128 .. 191>>,
      <<238 .. 239, 128 .. 191, 128 .. 191>>,
      <<{240}, 144 .. 191, 128 .. 191, 128 .. 191>>,
      <<241 .. 243, 128 .. 191, 128 .. 191, 128 .. 191>>,
      <<{244}, 128 .. 143, 128 .. 191, 128 .. 191>> }

Starts(s, row) == Len(s) >= Len(row) /\ \A i \in DOMAIN row : s[i] \in row[i]

\* decode accepts exactly the texts that start with a well-formed sequence, and
\* takes exactly the units of that sequence.
DecodeAcceptsTheTable ==
    LET d == decode8(bytes)
    IN  /\ (d.cp >= 0) <=> (\E row \in Table : Starts(bytes, row))
        /\ \A row \in Table : Starts(bytes, row) => d.len = Len(row)

\* A code point has one encoding: decoding and encoding again gives the units
\* that were read, in both encodings, decode_valid agrees, and the
\* other encoding carries the same code point.
Taken(s, d) == SubSeq(s, 1, d.len)
DecodeEncodeRoundTrip ==
    LET d == decode8(bytes)
        e == decode16(words)
    IN  /\ d.cp >= 0 =>
              /\ encode8(d.cp) = Taken(bytes, d)
              /\ width8(d.cp) = d.len
              /\ decode_valid8(bytes) = d
              /\ decode16(encode16(d.cp)) = Decoded(d.cp, width16(d.cp))
              /\ decode32(<<d.cp>>) = decode_valid32(<<d.cp>>)
        /\ e.cp >= 0 =>
              /\ decode_valid16(words) = e
              /\ encode16(e.cp) = Taken(words, e)
              /\ decode8(encode8(e.cp)) = Decoded(e.cp, width8(e.cp))

\* A verdict other than incomplete stands however the text goes on, so the
\* point where a buffer is cut cannot change what a text decodes to.
Stands(Decode(_), s) ==
    s # <<>> => LET d == Decode(SubSeq(s, 1, Len(s) - 1)) IN d.cp # incomplete => Decode(s) = d
VerdictIsFinal == Stands(decode8, bytes) /\ Stands(decode16, words)

\* decode is exact: on every text and wherever a buffer cuts it.
DecodeIsExact == DecodeAcceptsTheTable /\ DecodeEncodeRoundTrip /\ VerdictIsFinal
=============================================================================
