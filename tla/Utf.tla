--------------------------------- MODULE Utf ---------------------------------
(***************************************************************************)
(* utf_traits of src/include/boost/locale/utf.hpp: decoding and encoding   *)
(* one code point in UTF-8, UTF-16 and UTF-32.  A text is a sequence of    *)
(* code units; decoding the range [p, e) is decoding the sequence s of the *)
(* units in it, and gives the code point and the units it took.            *)
(***************************************************************************)
EXTENDS Integers, Sequences

\* 0xFFFFFFFF and 0xFFFFFFFE: two values no code unit or code point has.
illegal == -1
incomplete == -2

CodePoints == {v \in Nat : v <= 1114111}

\* The values of a uint16_t.
Units16 == {u \in Nat : u <= 65535}

is_valid_codepoint(v) == v \in CodePoints /\ ~(55296 <= v /\ v <= 57343)

Decoded(cp, len) == [cp |-> cp, len |-> len]
Failed(why) == Decoded(why, 0)

-----------------------------------------------------------------------------
(* UTF-8 *)

trail_length8(c) ==
    CASE c < 128 -> 0
      [] c \in 194 .. 223 -> 1
      [] c \in 224 .. 239 -> 2
      [] c \in 240 .. 244 -> 3
      [] OTHER -> -1

is_trail8(c) == c \in 128 .. 191

width8(u) ==
    IF u <= 127 THEN 1 ELSE IF u <= 2047 THEN 2 ELSE IF u <= 65535 THEN 3 ELSE 4

\* The bits of a sequence of n + 1 units whose first one has n trailing units.
Push(c, unit) == 64 * c + (unit % 64)
Bits8(s, n) ==
    LET bits[k \in 1 .. n + 1] == IF k = 1 THEN (IF n = 0 THEN s[1] ELSE s[1] % (2 ^ (6 - n))) ELSE Push(bits[k - 1], s[k])
    IN  bits[n + 1]

Accepted8(u, len) == IF is_valid_codepoint(u) /\ width8(u) = len THEN Decoded(u, len) ELSE Failed(illegal)
Trailed8(s, n) ==
    IF n < 0 \/ (\E i \in 2 .. n + 1 : i <= Len(s) /\ ~is_trail8(s[i])) THEN Failed(illegal)
    ELSE IF Len(s) < n + 1 THEN Failed(incomplete) ELSE Accepted8(Bits8(s, n), n + 1)

\* Faulty: a text that ends too early is illegal.
decode8_Eager(s) ==
    CASE s = <<>> -> Failed(incomplete)
      [] s # <<>> /\ Len(s) < trail_length8(s[1]) + 1 -> Failed(illegal)
      [] OTHER -> Trailed8(s, trail_length8(s[1]))

decode8(s) == IF s = <<>> THEN Failed(incomplete) ELSE Trailed8(s, trail_length8(s[1]))

\* decode_valid: no check, for text that is known to be valid.
decode_valid8(s) ==
    LET n == CASE s[1] < 192 -> 0 [] s[1] \in 192 .. 223 -> 1
               [] s[1] \in 224 .. 239 -> 2 [] OTHER -> 3
    IN  Decoded(Bits8(s, n), n + 1)

Trail(bits) == 128 + (bits % 64)

encode8(u) ==
    CASE width8(u) = 1 -> <<u>>
      [] width8(u) = 2 -> <<192 + u \div 64, Trail(u)>>
      [] width8(u) = 3 -> <<224 + u \div 4096, Trail(u \div 64), Trail(u)>>
      [] width8(u) = 4 -> <<240 + u \div 262144, Trail(u \div 4096),
                            Trail(u \div 64), Trail(u)>>

-----------------------------------------------------------------------------
(* UTF-16 *)

is_first_surrogate(x) == x \in 55296 .. 56319
is_second_surrogate(x) == x \in 56320 .. 57343
combine_surrogate(w1, w2) == 1024 * (w1 % 1024) + (w2 % 1024) + 65536

HighSurrogate(u) == 55296 + (u - 65536) \div 1024
LowSurrogate(u) == 56320 + ((u - 65536) % 1024)

width16(u) == IF u >= 65536 THEN 2 ELSE 1

decode16(s) ==
    CASE s = <<>> -> Failed(incomplete)
      [] s # <<>> /\ is_second_surrogate(s[1]) -> Failed(illegal)
      [] s # <<>> /\ is_first_surrogate(s[1]) ->
            IF Len(s) = 1 THEN Failed(incomplete)
            ELSE IF ~is_second_surrogate(s[2]) THEN Failed(illegal)
            ELSE Decoded(combine_surrogate(s[1], s[2]), 2)
      [] OTHER -> Decoded(s[1], 1)

decode_valid16(s) ==
    IF is_first_surrogate(s[1]) THEN Decoded(combine_surrogate(s[1], s[2]), 2) ELSE Decoded(s[1], 1)

encode16(u) ==
    IF u <= 65535 THEN <<u>> ELSE <<HighSurrogate(u), LowSurrogate(u)>>

-----------------------------------------------------------------------------
(* UTF-32 *)

decode32(s) ==
    CASE s = <<>> -> Failed(incomplete)
      [] s # <<>> /\ ~is_valid_codepoint(s[1]) -> Failed(illegal)
      [] OTHER -> Decoded(s[1], 1)
decode_valid32(s) == Decoded(s[1], 1)
=============================================================================
