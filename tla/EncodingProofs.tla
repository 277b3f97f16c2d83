---------------------------- MODULE EncodingProofs ----------------------------
(***************************************************************************)
(* decode and encode of utf.hpp, for every text of UTF-8 and of UTF-16     *)
(* units, the hash table of simple_converter_impl, for every table, and    *)
(* the loop around iconv, for every text and every size of the buffer.     *)
(***************************************************************************)
EXTENDS UtfFeed, BaseConverters, IconvLoop, SequenceTheorems, FiniteSetTheorems, WellFoundedInduction, TLAPS

\* c is a number from a to b.
Within(c, a, b) == c \in Int /\ a <= c /\ c <= b
USE DEF Within

\* The units of a text.
LEMMA Units ==
    ASSUME NEW m \in Nat, NEW s \in Seq(0 .. m)
    PROVE  /\ Len(s) \in Nat /\ (s = <<>> <=> Len(s) = 0)
           /\ \A k \in 1 .. Len(s) : Within(s[k], 0, m)
<1>1. \A c : c \in 0 .. m <=> Within(c, 0, m)
  OBVIOUS
<1>2. Len(s) \in Nat /\ (s = <<>> <=> Len(s) = 0)
  BY EmptySeq
<1> DEFINE S == 0 .. m
<1> HIDE DEF S
<1>3. \A k \in 1 .. Len(s) : s[k] \in S
  BY ElementOfSeq DEF S
<1> QED BY <1>1, <1>2, <1>3 DEF S

-----------------------------------------------------------------------------
(* The bits of a UTF-8 sequence *)

Lead(s, n) == IF n = 0 THEN s[1] ELSE s[1] % (2 ^ (6 - n))

Bits(s, n) ==
    CASE n = 0 -> Lead(s, n)
      [] n = 1 -> Push(Lead(s, n), s[2])
      [] n = 2 -> Push(Push(Lead(s, n), s[2]), s[3])
      [] n = 3 -> Push(Push(Push(Lead(s, n), s[2]), s[3]), s[4])

\* The function of the loop exists, and ends in the bits.
LEMMA Bits8IsBits ==
    ASSUME NEW s, NEW n \in 0 .. 3
    PROVE  Bits8(s, n) = Bits(s, n)
<1> DEFINE b1 == Lead(s, n)
           b2 == Push(b1, s[2])
           b3 == Push(b2, s[3])
           b4 == Push(b3, s[4])
           P(g) == g = [k \in 1 .. n + 1 |-> IF k = 1 THEN Lead(s, n) ELSE Push(g[k - 1], s[k])]
           f == CHOOSE g : P(g)
           w == [k \in 1 .. n + 1 |-> IF k = 1 THEN b1 ELSE IF k = 2 THEN b2 ELSE IF k = 3 THEN b3 ELSE b4]
<1>1. P(w)
  <2>1. \A k \in 1 .. n + 1 : w[k] = IF k = 1 THEN Lead(s, n) ELSE Push(w[k - 1], s[k])
    <3> SUFFICES ASSUME NEW k \in 1 .. n + 1
                 PROVE  w[k] = IF k = 1 THEN b1 ELSE Push(w[k - 1], s[k])
      OBVIOUS
    <3>1. k \in {1, 2, 3, 4} /\ (k # 1 => k - 1 \in 1 .. n + 1)
      OBVIOUS
    <3>2. w[k] = IF k = 1 THEN b1 ELSE IF k = 2 THEN b2 ELSE IF k = 3 THEN b3 ELSE b4
      OBVIOUS
    <3>3. k # 1 => w[k - 1] = IF k = 2 THEN b1 ELSE IF k = 3 THEN b2 ELSE b3
      <4> HIDE DEF b1, b2, b3, b4
      <4> QED BY <3>1
    <3> HIDE DEF w, b1
    <3> QED BY <3>1, <3>2, <3>3
  <2> QED BY <2>1
<1>2. P(f)
  <2> HIDE DEF P, w
  <2> QED BY <1>1, Zenon
<1>3. Bits8(s, n) = f[n + 1]
  BY Zenon DEF Bits8, Lead
<1> HIDE DEF f
<1>4. \A k \in 1 .. n + 1 : f[k] = IF k = 1 THEN b1 ELSE Push(f[k - 1], s[k])
  <2> HIDE DEF b1
  <2> QED BY <1>2, Zenon DEF b1
<1> HIDE DEF P, w, b1
<1>5. f[1] = b1
  BY <1>4
<1>6. n >= 1 => f[2] = b2
  BY <1>4, <1>5
<1> HIDE DEF b2
<1>7. n >= 2 => f[3] = b3
  BY <1>4, <1>6
<1> HIDE DEF b3
<1>8. n >= 3 => f[4] = b4
  BY <1>4, <1>7
<1>9. n = 0 \/ n = 1 \/ n = 2 \/ n = 3
  OBVIOUS
<1> HIDE DEF b4
<1>10. f[n + 1] = CASE n = 0 -> b1 [] n = 1 -> b2 [] n = 2 -> b3 [] n = 3 -> b4
  BY <1>5, <1>6, <1>7, <1>8, <1>9
<1> QED BY <1>3, <1>10, Zenon DEF Bits, b1, b2, b3, b4

LEMMA PushTrail ==
    ASSUME NEW c \in Int, NEW u, Within(u, 128, 191)
    PROVE  Push(c, u) = 64 * c + (u - 128) /\ Push(c, u) \in Int
<1>1. u % 64 = u - 128
  OBVIOUS
<1> QED BY <1>1 DEF Push

LEMMA LeadOf ==
    ASSUME NEW s, Within(s[1], 0, 255)
    PROVE  /\ Lead(s, 0) = s[1]
           /\ Within(s[1], 194, 223) => Lead(s, 1) = s[1] - 192
           /\ Within(s[1], 224, 239) => Lead(s, 2) = s[1] - 224
           /\ Within(s[1], 240, 244) => Lead(s, 3) = s[1] - 240
<1>1. 2 ^ (6 - 1) = 32 /\ 2 ^ (6 - 2) = 16 /\ 2 ^ (6 - 3) = 8
  OBVIOUS
<1>2. /\ Within(s[1], 194, 223) => s[1] % 32 = s[1] - 192
      /\ Within(s[1], 224, 239) => s[1] % 16 = s[1] - 224
      /\ Within(s[1], 240, 244) => s[1] % 8 = s[1] - 240
  OBVIOUS
<1> QED BY <1>1, <1>2 DEF Lead

-----------------------------------------------------------------------------
(* The well-formed sequences and their code points *)

T(c) == Within(c, 128, 191)

One(s) == s # <<>> /\ Within(s[1], 0, 127)
Two(s) == Len(s) >= 2 /\ Within(s[1], 194, 223) /\ T(s[2])
Three(s) ==
    /\ Len(s) >= 3 /\ Within(s[1], 224, 239) /\ T(s[2]) /\ T(s[3])
    /\ s[1] = 224 => s[2] >= 160
    /\ s[1] = 237 => s[2] <= 159
Four(s) ==
    /\ Len(s) >= 4 /\ Within(s[1], 240, 244) /\ T(s[2]) /\ T(s[3]) /\ T(s[4])
    /\ s[1] = 240 => s[2] >= 144
    /\ s[1] = 244 => s[2] <= 143
WellFormed(s) == One(s) \/ Two(s) \/ Three(s) \/ Four(s)

Value2(s) == 64 * (s[1] - 192) + (s[2] - 128)
Value3(s) == 64 * (64 * (s[1] - 224) + (s[2] - 128)) + (s[3] - 128)
Value4(s) == 64 * (64 * (64 * (s[1] - 240) + (s[2] - 128)) + (s[3] - 128)) + (s[4] - 128)

LEMMA BitsAre ==
    ASSUME NEW s, Within(s[1], 0, 255)
    PROVE  /\ Bits8(s, 0) = s[1]
           /\ Within(s[1], 194, 223) /\ T(s[2]) => Bits8(s, 1) = Value2(s)
           /\ Within(s[1], 224, 239) /\ T(s[2]) /\ T(s[3]) => Bits8(s, 2) = Value3(s)
           /\ Within(s[1], 240, 244) /\ T(s[2]) /\ T(s[3]) /\ T(s[4]) => Bits8(s, 3) = Value4(s)
<1>1. /\ Bits8(s, 0) = Lead(s, 0)
      /\ Bits8(s, 1) = Push(Lead(s, 1), s[2])
      /\ Bits8(s, 2) = Push(Push(Lead(s, 2), s[2]), s[3])
      /\ Bits8(s, 3) = Push(Push(Push(Lead(s, 3), s[2]), s[3]), s[4])
  BY Bits8IsBits DEF Bits
<1>2. Bits8(s, 0) = s[1]
  BY <1>1, LeadOf
<1>3. ASSUME Within(s[1], 194, 223), T(s[2])
      PROVE  Bits8(s, 1) = Value2(s)
  <2>1. Lead(s, 1) = s[1] - 192 /\ Lead(s, 1) \in Int
    BY <1>3, LeadOf
  <2>2. Push(Lead(s, 1), s[2]) = 64 * Lead(s, 1) + (s[2] - 128)
    BY <1>3, <2>1, PushTrail DEF T
  <2> QED BY <1>1, <2>1, <2>2 DEF Value2
<1>4. ASSUME Within(s[1], 224, 239), T(s[2]), T(s[3])
      PROVE  Bits8(s, 2) = Value3(s)
  <2> DEFINE p == Push(Lead(s, 2), s[2])
  <2>1. Lead(s, 2) = s[1] - 224 /\ Lead(s, 2) \in Int
    BY <1>4, LeadOf
  <2>2. p = 64 * Lead(s, 2) + (s[2] - 128) /\ p \in Int
    <3>1. Within(s[2], 128, 191)
      BY <1>4 DEF T
    <3> DEFINE l == Lead(s, 2)
               v == s[2]
    <3> HIDE DEF l, v
    <3>2. Push(l, v) = 64 * l + (v - 128) /\ Push(l, v) \in Int
      BY <2>1, <3>1, PushTrail DEF l, v
    <3> QED BY <3>2 DEF l, v
  <2> HIDE DEF p
  <2>3. Push(p, s[3]) = 64 * p + (s[3] - 128)
    BY <1>4, <2>2, PushTrail DEF T
  <2>4. Bits8(s, 2) = Push(p, s[3])
    BY <1>1 DEF p
  <2> QED BY <2>1, <2>2, <2>3, <2>4 DEF Value3
<1>5. ASSUME Within(s[1], 240, 244), T(s[2]), T(s[3]), T(s[4])
      PROVE  Bits8(s, 3) = Value4(s)
  <2> DEFINE p == Push(Lead(s, 3), s[2])
             q == Push(p, s[3])
  <2>1. Lead(s, 3) = s[1] - 240 /\ Lead(s, 3) \in Int
    BY <1>5, LeadOf
  <2>2. p = 64 * Lead(s, 3) + (s[2] - 128) /\ p \in Int
    <3>1. Within(s[2], 128, 191)
      BY <1>5 DEF T
    <3> DEFINE l == Lead(s, 3)
               v == s[2]
    <3> HIDE DEF l, v
    <3>2. Push(l, v) = 64 * l + (v - 128) /\ Push(l, v) \in Int
      BY <2>1, <3>1, PushTrail DEF l, v
    <3> QED BY <3>2 DEF l, v
  <2>3. Bits8(s, 3) = Push(q, s[4])
    BY <1>1
  <2> HIDE DEF p
  <2>4. q = 64 * p + (s[3] - 128) /\ q \in Int
    BY <1>5, <2>2, PushTrail DEF T
  <2> HIDE DEF q
  <2>5. Push(q, s[4]) = 64 * q + (s[4] - 128)
    BY <1>5, <2>4, PushTrail DEF T
  <2> QED BY <2>1, <2>2, <2>3, <2>4, <2>5 DEF Value4
<1> QED BY <1>2, <1>3, <1>4, <1>5

LEMMA TrailLengths ==
    ASSUME NEW c, Within(c, 0, 255)
    PROVE  /\ Within(c, 0, 127) => trail_length8(c) = 0
           /\ Within(c, 194, 223) => trail_length8(c) = 1
           /\ Within(c, 224, 239) => trail_length8(c) = 2
           /\ Within(c, 240, 244) => trail_length8(c) = 3
           /\ Within(c, 128, 193) \/ Within(c, 245, 255) => trail_length8(c) = -1
<1>1. CASE c < 128
  BY <1>1 DEF trail_length8
<1>2. CASE 128 <= c /\ c <= 193
  BY <1>2 DEF trail_length8
<1>3. CASE 194 <= c /\ c <= 223
  BY <1>3 DEF trail_length8
<1>4. CASE 224 <= c /\ c <= 239
  BY <1>4 DEF trail_length8
<1>5. CASE 240 <= c /\ c <= 244
  BY <1>5 DEF trail_length8
<1>6. CASE 245 <= c
  BY <1>6 DEF trail_length8
<1> QED BY <1>1, <1>2, <1>3, <1>4, <1>5, <1>6

\* The width and validity of the code points that the sequences give.
LEMMA Widths ==
    ASSUME NEW u \in Nat
    PROVE  /\ u <= 127 => width8(u) = 1
           /\ 128 <= u /\ u <= 2047 => width8(u) = 2
           /\ 2048 <= u /\ u <= 65535 => width8(u) = 3
           /\ 65536 <= u => width8(u) = 4
           /\ is_valid_codepoint(u) <=> (u <= 1114111 /\ ~(55296 <= u /\ u <= 57343))
<1>1. /\ u <= 127 => width8(u) = 1
      /\ 128 <= u /\ u <= 2047 => width8(u) = 2
      /\ 2048 <= u /\ u <= 65535 => width8(u) = 3
      /\ 65536 <= u => width8(u) = 4
  BY SMTT(30) DEF width8
<1>2. is_valid_codepoint(u) <=> (u <= 1114111 /\ ~(55296 <= u /\ u <= 57343))
  BY SMTT(30) DEF is_valid_codepoint, CodePoints
<1> QED BY <1>1, <1>2

-----------------------------------------------------------------------------
(* decode *)

LEMMA Verdicts ==
    ASSUME NEW c, NEW l
    PROVE  /\ Decoded(c, l).cp = c /\ Decoded(c, l).len = l
           /\ Failed(illegal).cp < 0 /\ Failed(incomplete).cp < 0
           /\ Failed(illegal).cp # incomplete /\ Failed(incomplete).cp = incomplete
  BY DEF Decoded, Failed, illegal, incomplete

\* A unit among the trailing ones at hand that cannot be one of them.
Wrong(s, n) ==
    \/ (n >= 1 /\ Len(s) >= 2 /\ ~T(s[2]))
    \/ (n >= 2 /\ Len(s) >= 3 /\ ~T(s[3]))
    \/ (n >= 3 /\ Len(s) >= 4 /\ ~T(s[4]))

LEMMA IsTrail ==
    ASSUME NEW c
    PROVE  is_trail8(c) <=> T(c)
  BY DEF is_trail8, T

LEMMA Trailed8Is ==
    ASSUME NEW s \in Seq(0 .. 255), NEW n \in 0 .. 3
    PROVE  /\ Wrong(s, n) => Trailed8(s, n) = Failed(illegal)
           /\ ~Wrong(s, n) /\ Len(s) < n + 1 => Trailed8(s, n) = Failed(incomplete)
           /\ ~Wrong(s, n) /\ Len(s) >= n + 1 => Trailed8(s, n) = Accepted8(Bits8(s, n), n + 1)
<1> DEFINE bad == \E k \in 2 .. n + 1 : k <= Len(s) /\ ~is_trail8(s[k])
<1>1. bad <=> Wrong(s, n)
  <2>1. ASSUME NEW k \in 2 .. n + 1, k <= Len(s), ~is_trail8(s[k])
        PROVE  Wrong(s, n)
    <3>1. k = 2 \/ k = 3 \/ k = 4
      OBVIOUS
    <3>2. ~T(s[k])
      BY <2>1, IsTrail
    <3> QED BY <2>1, <3>1, <3>2 DEF Wrong
  <2>2. ASSUME Wrong(s, n)
        PROVE  bad
    <3>1. /\ n >= 1 => 2 \in 2 .. n + 1
          /\ n >= 2 => 3 \in 2 .. n + 1
          /\ n >= 3 => 4 \in 2 .. n + 1
      OBVIOUS
    <3> QED BY <2>2, <3>1, IsTrail DEF Wrong
  <2> QED BY <2>1, <2>2
<1>2. Trailed8(s, n) =
        IF n < 0 \/ bad THEN Failed(illegal)
        ELSE IF Len(s) < n + 1 THEN Failed(incomplete) ELSE Accepted8(Bits8(s, n), n + 1)
  BY DEF Trailed8
<1>3. ~(n < 0) /\ (Len(s) < n + 1 <=> ~(Len(s) >= n + 1))
  OBVIOUS
<1> HIDE DEF bad
<1> QED BY <1>1, <1>2, <1>3, Zenon

LEMMA Value2Range ==
    ASSUME NEW a, Within(a, 194, 223), NEW b, Within(b, 128, 191)
    PROVE  LET v == 64 * (a - 192) + (b - 128) IN v \in Nat /\ 128 <= v /\ v <= 2047
  BY SMTT(30)

LEMMA Value3Range ==
    ASSUME NEW a, Within(a, 224, 239), NEW b, Within(b, 128, 191), NEW c, Within(c, 128, 191)
    PROVE  LET v == 64 * (64 * (a - 224) + (b - 128)) + (c - 128)
           IN  /\ v \in Nat /\ v <= 65535
               /\ 2048 <= v <=> (a = 224 => b >= 160)
               /\ (55296 <= v /\ v <= 57343) <=> (a = 237 /\ b >= 160)
  BY SMTT(30)

LEMMA Value4Range ==
    ASSUME NEW a, Within(a, 240, 244), NEW b, Within(b, 128, 191), NEW c, Within(c, 128, 191), NEW d, Within(d, 128, 191)
    PROVE  LET v == 64 * (64 * (64 * (a - 240) + (b - 128)) + (c - 128)) + (d - 128)
           IN  /\ v \in Nat
               /\ 65536 <= v <=> (a = 240 => b >= 144)
               /\ v <= 1114111 <=> (a = 244 => b <= 143)
               /\ 65536 <= v => 57343 < v
  BY SMTT(30)

\* decode gives the code point of a well-formed sequence, and fails otherwise.
LEMMA Decode8Is ==
    ASSUME NEW s \in Seq(0 .. 255)
    PROVE  /\ One(s) => decode8(s) = Decoded(s[1], 1)
           /\ Two(s) => decode8(s) = Decoded(Value2(s), 2)
           /\ Three(s) => decode8(s) = Decoded(Value3(s), 3)
           /\ Four(s) => decode8(s) = Decoded(Value4(s), 4)
           /\ ~WellFormed(s) => decode8(s) = Failed(illegal) \/ decode8(s) = Failed(incomplete)
<1>1. CASE s = <<>>
  <2>1. Len(s) = 0 /\ decode8(s) = Failed(incomplete)
    BY <1>1 DEF decode8
  <2> QED BY <1>1, <2>1, Verdicts DEF WellFormed, One, Two, Three, Four
<1>2. CASE s # <<>> /\ Within(s[1], 0, 127)
  <2>1. Within(s[1], 0, 255) /\ Len(s) >= 1 /\ trail_length8(s[1]) = 0
    BY <1>2, TrailLengths
  <2>2. decode8(s) = Trailed8(s, 0)
    BY <1>2, <2>1, Zenon DEF decode8
  <2>3. ~Wrong(s, 0) /\ Len(s) >= 0 + 1
    BY <2>1 DEF Wrong
  <2>4. decode8(s) = Accepted8(s[1], 1)
    BY <2>1, <2>2, <2>3, Trailed8Is, BitsAre
  <2>5. is_valid_codepoint(s[1]) /\ width8(s[1]) = 1
    BY <1>2, Widths
  <2>6. decode8(s) = Decoded(s[1], 1)
    BY <2>4, <2>5, Zenon DEF Accepted8
  <2> QED BY <1>2, <2>6 DEF WellFormed, One, Two, Three, Four
<1>3. CASE s # <<>> /\ Within(s[1], 194, 223)
  <2>1. Within(s[1], 0, 255) /\ Len(s) \in Nat /\ Len(s) >= 1 /\ trail_length8(s[1]) = 1
    BY <1>3, TrailLengths
  <2>2. decode8(s) = Trailed8(s, 1)
    BY <1>3, <2>1, Zenon DEF decode8
  <2>3. ~One(s) /\ ~Three(s) /\ ~Four(s)
    BY <1>3 DEF One, Three, Four
  <2>4. CASE Two(s)
    <3>1. ~Wrong(s, 1) /\ Len(s) >= 1 + 1 /\ T(s[2])
      BY <2>4 DEF Wrong, Two
    <3>2. decode8(s) = Accepted8(Value2(s), 2)
      BY <1>3, <2>1, <2>2, <3>1, Trailed8Is, BitsAre
    <3>3. Value2(s) \in Nat /\ 128 <= Value2(s) /\ Value2(s) <= 2047
      BY <1>3, <3>1, Value2Range, SMTT(30) DEF T, Value2
    <3>4. is_valid_codepoint(Value2(s)) /\ width8(Value2(s)) = 2
      BY <3>3, Widths
    <3>5. decode8(s) = Decoded(Value2(s), 2)
      BY <3>2, <3>4, Zenon DEF Accepted8
    <3> QED BY <2>3, <2>4, <3>5 DEF WellFormed
  <2>5. CASE ~Two(s)
    <3>1. Wrong(s, 1) \/ (~Wrong(s, 1) /\ Len(s) < 1 + 1)
      BY <1>3, <2>1, <2>5 DEF Wrong, Two
    <3>2. decode8(s) = Failed(illegal) \/ decode8(s) = Failed(incomplete)
      BY <2>2, <3>1, Trailed8Is
    <3> QED BY <2>3, <2>5, <3>2, Verdicts DEF WellFormed
  <2> QED BY <2>4, <2>5
<1>4. CASE s # <<>> /\ Within(s[1], 224, 239)
  <2>1. Within(s[1], 0, 255) /\ Len(s) \in Nat /\ Len(s) >= 1 /\ trail_length8(s[1]) = 2
    BY <1>4, TrailLengths
  <2>2. decode8(s) = Trailed8(s, 2)
    BY <1>4, <2>1, Zenon DEF decode8
  <2>3. ~One(s) /\ ~Two(s) /\ ~Four(s)
    BY <1>4 DEF One, Two, Four
  <2>4. CASE ~Wrong(s, 2) /\ Len(s) >= 2 + 1
    <3>1. T(s[2]) /\ T(s[3])
      BY <2>4 DEF Wrong
    <3>2. decode8(s) = Accepted8(Value3(s), 3)
      BY <1>4, <2>1, <2>2, <2>4, <3>1, Trailed8Is, BitsAre
    <3>3. /\ Value3(s) \in Nat /\ Value3(s) <= 65535
          /\ 2048 <= Value3(s) <=> (s[1] = 224 => s[2] >= 160)
          /\ (55296 <= Value3(s) /\ Value3(s) <= 57343) <=> (s[1] = 237 /\ s[2] >= 160)
      <4> DEFINE a == s[1]
                 b == s[2]
                 c == s[3]
      <4>1. Within(a, 224, 239) /\ Within(b, 128, 191) /\ Within(c, 128, 191)
        BY <1>4, <3>1 DEF T
      <4> HIDE DEF a, b, c
      <4> DEFINE v == 64 * (64 * (a - 224) + (b - 128)) + (c - 128)
      <4>2. /\ v \in Nat /\ v <= 65535
            /\ 2048 <= v <=> (a = 224 => b >= 160)
            /\ (55296 <= v /\ v <= 57343) <=> (a = 237 /\ b >= 160)
        BY <4>1, Value3Range
      <4>3. v = Value3(s)
        BY DEF Value3, a, b, c
      <4> HIDE DEF v
      <4> QED BY <4>2, <4>3 DEF a, b
    <3>4. Three(s) <=> is_valid_codepoint(Value3(s)) /\ width8(Value3(s)) = 3
      <4> DEFINE v == Value3(s)
      <4>1. v \in Nat /\ v <= 65535
        BY <3>3
      <4>2. is_valid_codepoint(v) <=> ~(s[1] = 237 /\ s[2] >= 160)
        <5> HIDE DEF v
        <5>1. is_valid_codepoint(v) <=> ~(55296 <= v /\ v <= 57343)
          BY <4>1, Widths, SMTT(10)
        <5> QED BY <3>3, <5>1 DEF v
      <4>3. width8(v) = 3 <=> 2048 <= v
        <5> HIDE DEF v
        <5>1. CASE v <= 127
          BY <4>1, <5>1, Widths
        <5>2. CASE 128 <= v /\ v <= 2047
          BY <4>1, <5>2, Widths
        <5>3. CASE 2048 <= v
          BY <4>1, <5>3, Widths
        <5> QED BY <4>1, <5>1, <5>2, <5>3
      <4>4. Three(s) <=> (s[1] = 224 => s[2] >= 160) /\ ~(s[1] = 237 /\ s[2] >= 160)
        <5>1. s[2] >= 160 <=> ~(s[2] <= 159)
          BY <3>1 DEF T
        <5> QED BY <1>4, <2>4, <3>1, <5>1 DEF Three
      <4> QED BY <3>3, <4>2, <4>3, <4>4
    <3>5. Three(s) => decode8(s) = Decoded(Value3(s), 3)
      BY <3>2, <3>4, Zenon DEF Accepted8
    <3>6. ~Three(s) => decode8(s) = Failed(illegal)
      BY <3>2, <3>4, Zenon DEF Accepted8
    <3> QED BY <2>3, <3>5, <3>6, Verdicts DEF WellFormed
  <2>5. CASE ~(~Wrong(s, 2) /\ Len(s) >= 2 + 1)
    <3>1. Wrong(s, 2) \/ (~Wrong(s, 2) /\ Len(s) < 2 + 1)
      BY <2>1, <2>5
    <3>2. decode8(s) = Failed(illegal) \/ decode8(s) = Failed(incomplete)
      BY <2>2, <3>1, Trailed8Is
    <3>3. ~Three(s)
      BY <2>5 DEF Three, Wrong
    <3> QED BY <2>3, <3>2, <3>3, Verdicts DEF WellFormed
  <2> QED BY <2>4, <2>5
<1>5. CASE s # <<>> /\ Within(s[1], 240, 244)
  <2>1. Within(s[1], 0, 255) /\ Len(s) \in Nat /\ Len(s) >= 1 /\ trail_length8(s[1]) = 3
    BY <1>5, TrailLengths
  <2>2. decode8(s) = Trailed8(s, 3)
    BY <1>5, <2>1, Zenon DEF decode8
  <2>3. ~One(s) /\ ~Two(s) /\ ~Three(s)
    BY <1>5 DEF One, Two, Three
  <2>4. CASE ~Wrong(s, 3) /\ Len(s) >= 3 + 1
    <3>1. T(s[2]) /\ T(s[3]) /\ T(s[4])
      BY <2>4 DEF Wrong
    <3>2. decode8(s) = Accepted8(Value4(s), 4)
      BY <1>5, <2>1, <2>2, <2>4, <3>1, Trailed8Is, BitsAre
    <3>3. /\ Value4(s) \in Nat
          /\ 65536 <= Value4(s) <=> (s[1] = 240 => s[2] >= 144)
          /\ Value4(s) <= 1114111 <=> (s[1] = 244 => s[2] <= 143)
          /\ 65536 <= Value4(s) => 57343 < Value4(s)
      <4> DEFINE a == s[1]
                 b == s[2]
                 c == s[3]
                 d == s[4]
      <4>1. Within(a, 240, 244) /\ Within(b, 128, 191) /\ Within(c, 128, 191) /\ Within(d, 128, 191)
        BY <1>5, <3>1 DEF T
      <4> HIDE DEF a, b, c, d
      <4> DEFINE v == 64 * (64 * (64 * (a - 240) + (b - 128)) + (c - 128)) + (d - 128)
      <4>2. /\ v \in Nat
            /\ 65536 <= v <=> (a = 240 => b >= 144)
            /\ v <= 1114111 <=> (a = 244 => b <= 143)
            /\ 65536 <= v => 57343 < v
        BY <4>1, Value4Range
      <4>3. v = Value4(s)
        BY DEF Value4, a, b, c, d
      <4> HIDE DEF v
      <4> QED BY <4>2, <4>3 DEF a, b
    <3>4. Four(s) <=> is_valid_codepoint(Value4(s)) /\ width8(Value4(s)) = 4
      <4> DEFINE v == Value4(s)
      <4>1. v \in Nat
        BY <3>3
      <4>2. width8(v) = 4 <=> 65536 <= v
        <5> HIDE DEF v
        <5>1. CASE v <= 127
          BY <4>1, <5>1, Widths
        <5>2. CASE 128 <= v /\ v <= 2047
          BY <4>1, <5>2, Widths
        <5>3. CASE 2048 <= v /\ v <= 65535
          BY <4>1, <5>3, Widths
        <5>4. CASE 65536 <= v
          BY <4>1, <5>4, Widths
        <5> QED BY <4>1, <5>1, <5>2, <5>3, <5>4
      <4>3. 65536 <= v => (is_valid_codepoint(v) <=> v <= 1114111)
        BY <3>3, Widths, SMTT(10)
      <4>4. Four(s) <=> (s[1] = 240 => s[2] >= 144) /\ (s[1] = 244 => s[2] <= 143)
        BY <1>5, <2>4, <3>1 DEF Four
      <4> QED BY <3>3, <4>2, <4>3, <4>4
    <3>5. Four(s) => decode8(s) = Decoded(Value4(s), 4)
      BY <3>2, <3>4, Zenon DEF Accepted8
    <3>6. ~Four(s) => decode8(s) = Failed(illegal)
      BY <3>2, <3>4, Zenon DEF Accepted8
    <3> QED BY <2>3, <3>5, <3>6, Verdicts DEF WellFormed
  <2>5. CASE ~(~Wrong(s, 3) /\ Len(s) >= 3 + 1)
    <3>1. Wrong(s, 3) \/ (~Wrong(s, 3) /\ Len(s) < 3 + 1)
      BY <2>1, <2>5
    <3>2. decode8(s) = Failed(illegal) \/ decode8(s) = Failed(incomplete)
      BY <2>2, <3>1, Trailed8Is
    <3>3. ~Four(s)
      BY <2>5 DEF Four, Wrong
    <3> QED BY <2>3, <3>2, <3>3, Verdicts DEF WellFormed
  <2> QED BY <2>4, <2>5
<1>6. CASE s # <<>> /\ (Within(s[1], 128, 193) \/ Within(s[1], 245, 255))
  <2>1. Within(s[1], 0, 255) /\ trail_length8(s[1]) = -1
    BY <1>6, TrailLengths
  <2>2. decode8(s) = Failed(illegal)
    <3>1. decode8(s) = Trailed8(s, -1)
      BY <1>6, <2>1, Zenon DEF decode8
    <3>2. -1 < 0
      OBVIOUS
    <3> QED BY <3>1, <3>2, Zenon DEF Trailed8
  <2>3. ~WellFormed(s)
    BY <1>6 DEF WellFormed, One, Two, Three, Four
  <2> QED BY <2>2, <2>3, Verdicts DEF WellFormed
<1>7. s # <<>> => Within(s[1], 0, 255)
  <2>1. 255 \in Nat
    OBVIOUS
  <2>2. Len(s) \in Nat /\ (s = <<>> <=> Len(s) = 0) /\ \A k \in 1 .. Len(s) : Within(s[k], 0, 255)
    BY <2>1, Units
  <2> QED BY <2>2
<1> QED BY <1>1, <1>2, <1>3, <1>4, <1>5, <1>6, <1>7

LEMMA SmallValue ==
    ASSUME NEW u, Within(u, 0, 127)
    PROVE  u \in Nat /\ is_valid_codepoint(u)
  BY Widths

\* The code points of the well-formed sequences.
LEMMA ValuesAre ==
    ASSUME NEW s
    PROVE  /\ One(s) => Within(s[1], 0, 127)
           /\ Two(s) => Within(Value2(s), 128, 2047)
           /\ Three(s) => Within(Value3(s), 2048, 65535) /\ is_valid_codepoint(Value3(s))
           /\ Four(s) => Within(Value4(s), 65536, 1114111)
<1> DEFINE a == s[1]
           b == s[2]
           c == s[3]
           d == s[4]
           v2 == 64 * (a - 192) + (b - 128)
           v3 == 64 * (64 * (a - 224) + (b - 128)) + (c - 128)
           v4 == 64 * (64 * (64 * (a - 240) + (b - 128)) + (c - 128)) + (d - 128)
<1>1. v2 = Value2(s) /\ v3 = Value3(s) /\ v4 = Value4(s)
  BY DEF Value2, Value3, Value4
<1>2. One(s) => Within(a, 0, 127)
  BY DEF One
<1>3. Two(s) => Within(a, 194, 223) /\ Within(b, 128, 191)
  BY DEF Two, T
<1>4. Three(s) =>
        /\ Within(a, 224, 239) /\ Within(b, 128, 191) /\ Within(c, 128, 191)
        /\ a = 224 => b >= 160
        /\ a = 237 => b <= 159
  BY DEF Three, T
<1>5. Four(s) =>
        /\ Within(a, 240, 244) /\ Within(b, 128, 191) /\ Within(c, 128, 191) /\ Within(d, 128, 191)
        /\ a = 240 => b >= 144
        /\ a = 244 => b <= 143
  BY DEF Four, T
<1> HIDE DEF a, b, c, d
<1>6. Two(s) => Within(v2, 128, 2047)
  BY <1>3, Value2Range
<1>7. Three(s) => Within(v3, 2048, 65535) /\ is_valid_codepoint(v3)
  <2> SUFFICES ASSUME Three(s)
               PROVE  Within(v3, 2048, 65535) /\ is_valid_codepoint(v3)
    OBVIOUS
  <2>1. /\ v3 \in Nat /\ v3 <= 65535 /\ 2048 <= v3
        /\ ~(55296 <= v3 /\ v3 <= 57343)
    BY <1>4, Value3Range
  <2> HIDE DEF v3
  <2> QED BY <2>1, Widths
<1>8. Four(s) => Within(v4, 65536, 1114111)
  BY <1>5, Value4Range
<1> QED
  <2> HIDE DEF v2, v3, v4
  <2> QED BY <1>1, <1>2, <1>6, <1>7, <1>8 DEF a

-----------------------------------------------------------------------------
(* The table *)

LEMMA InRange ==
    ASSUME NEW a \in Int, NEW b \in Int, NEW c
    PROVE  c \in a .. b <=> Within(c, a, b)
  OBVIOUS

LEMMA StartsAre ==
    ASSUME NEW s, NEW A, NEW B, NEW C, NEW D, Len(s) \in Nat
    PROVE  /\ Starts(s, <<A>>) <=> (Len(s) >= 1 /\ s[1] \in A)
           /\ Starts(s, <<A, B>>) <=> (Len(s) >= 2 /\ s[1] \in A /\ s[2] \in B)
           /\ Starts(s, <<A, B, C>>) <=> (Len(s) >= 3 /\ s[1] \in A /\ s[2] \in B /\ s[3] \in C)
           /\ Starts(s, <<A, B, C, D>>) <=>
                 (Len(s) >= 4 /\ s[1] \in A /\ s[2] \in B /\ s[3] \in C /\ s[4] \in D)
<1>1. Starts(s, <<A>>) <=> (Len(s) >= 1 /\ s[1] \in A)
  BY DEF Starts
<1>2. Starts(s, <<A, B>>) <=> (Len(s) >= 2 /\ s[1] \in A /\ s[2] \in B)
  BY DEF Starts
<1>3. Starts(s, <<A, B, C>>) <=> (Len(s) >= 3 /\ s[1] \in A /\ s[2] \in B /\ s[3] \in C)
  BY DEF Starts
<1>4. Starts(s, <<A, B, C, D>>) <=>
        (Len(s) >= 4 /\ s[1] \in A /\ s[2] \in B /\ s[3] \in C /\ s[4] \in D)
  BY DEF Starts
<1> QED BY <1>1, <1>2, <1>3, <1>4

\* The rows of the table are the well-formed sequences of each length.
LEMMA RowsAre ==
    ASSUME NEW s \in Seq(0 .. 255)
    PROVE  /\ \A row \in Table : Starts(s, row) =>
                 \/ One(s) /\ Len(row) = 1
                 \/ Two(s) /\ Len(row) = 2
                 \/ Three(s) /\ Len(row) = 3
                 \/ Four(s) /\ Len(row) = 4
           /\ WellFormed(s) => \E row \in Table : Starts(s, row)
<1>1. Len(s) \in Nat /\ (s = <<>> <=> Len(s) = 0)
  BY EmptySeq
<1> DEFINE A == 0 .. 127
           B == 194 .. 223
           C == 128 .. 191
           D == 160 .. 191
           E == 225 .. 236
           F == 128 .. 159
           G == 238 .. 239
           H == 144 .. 191
           I == 241 .. 243
           J == 128 .. 143
           K224 == {224}
           K237 == {237}
           K240 == {240}
           K244 == {244}
           r1 == <<A>>
           r2 == <<B, C>>
           r3 == <<K224, D, C>>
           r4 == <<E, C, C>>
           r5 == <<K237, F, C>>
           r6 == <<G, C, C>>
           r7 == <<K240, H, C, C>>
           r8 == <<I, C, C, C>>
           r9 == <<K244, J, C, C>>
<1>2. Table = {r1, r2, r3, r4, r5, r6, r7, r8, r9}
  BY Zenon DEF Table
<1>rA. \A c : c \in A <=> Within(c, 0, 127)
  BY 0 \in Int, 127 \in Int, InRange, SMTT(30), ZenonT(60)
<1>rB. \A c : c \in B <=> Within(c, 194, 223)
  BY 194 \in Int, 223 \in Int, InRange, SMTT(30), ZenonT(60)
<1>rC. \A c : c \in C <=> Within(c, 128, 191)
  BY 128 \in Int, 191 \in Int, InRange, SMTT(30), ZenonT(60)
<1>rD. \A c : c \in D <=> Within(c, 160, 191)
  BY 160 \in Int, 191 \in Int, InRange, SMTT(30), ZenonT(60)
<1>rE. \A c : c \in E <=> Within(c, 225, 236)
  BY 225 \in Int, 236 \in Int, InRange, SMTT(30), ZenonT(60)
<1>rF. \A c : c \in F <=> Within(c, 128, 159)
  BY 128 \in Int, 159 \in Int, InRange, SMTT(30), ZenonT(60)
<1>rG. \A c : c \in G <=> Within(c, 238, 239)
  BY 238 \in Int, 239 \in Int, InRange, SMTT(30), ZenonT(60)
<1>rH. \A c : c \in H <=> Within(c, 144, 191)
  BY 144 \in Int, 191 \in Int, InRange, SMTT(30), ZenonT(60)
<1>rI. \A c : c \in I <=> Within(c, 241, 243)
  BY 241 \in Int, 243 \in Int, InRange, SMTT(30), ZenonT(60)
<1>rJ. \A c : c \in J <=> Within(c, 128, 143)
  BY 128 \in Int, 143 \in Int, InRange, SMTT(30)
<1>rK. \A c : /\ (c \in K224 <=> c = 224) /\ (c \in K237 <=> c = 237)
             /\ (c \in K240 <=> c = 240) /\ (c \in K244 <=> c = 244)
  OBVIOUS
<1> HIDE DEF A, B, C, D, E, F, G, H, I, J, K224, K237, K240, K244
<1>3. /\ Len(r1) = 1 /\ Len(r2) = 2
      /\ Len(r3) = 3 /\ Len(r4) = 3 /\ Len(r5) = 3 /\ Len(r6) = 3
      /\ Len(r7) = 4 /\ Len(r8) = 4 /\ Len(r9) = 4
  OBVIOUS
<1>4. Starts(s, r1) <=> One(s)
  <2>1. Starts(s, r1) <=> (Len(s) >= 1 /\ s[1] \in A)
    BY <1>1, StartsAre
  <2> QED BY <1>1, <1>rA, <2>1 DEF One
<1>5. Starts(s, r2) <=> Two(s)
  <2>1. Starts(s, r2) <=> (Len(s) >= 2 /\ s[1] \in B /\ s[2] \in C)
    BY <1>1, StartsAre
  <2> QED BY <1>rB, <1>rC, <2>1 DEF Two, T
<1>6. (Starts(s, r3) \/ Starts(s, r4) \/ Starts(s, r5) \/ Starts(s, r6)) <=> Three(s)
  <2> DEFINE a == s[1]
             b == s[2]
             c == s[3]
  <2>1. Starts(s, r3) <=> (Len(s) >= 3 /\ a \in K224 /\ b \in D /\ c \in C)
    BY <1>1, StartsAre
  <2>2. Starts(s, r4) <=> (Len(s) >= 3 /\ a \in E /\ b \in C /\ c \in C)
    BY <1>1, StartsAre
  <2>3. Starts(s, r5) <=> (Len(s) >= 3 /\ a \in K237 /\ b \in F /\ c \in C)
    BY <1>1, StartsAre
  <2>4. Starts(s, r6) <=> (Len(s) >= 3 /\ a \in G /\ b \in C /\ c \in C)
    BY <1>1, StartsAre
  <2>5. Three(s) <=>
          /\ Len(s) >= 3 /\ Within(a, 224, 239) /\ T(b) /\ T(c)
          /\ a = 224 => b >= 160
          /\ a = 237 => b <= 159
    BY DEF Three
  <2> HIDE DEF a, b, c, r3, r4, r5, r6
  <2> QED BY <2>1, <2>2, <2>3, <2>4, <2>5, <1>rC, <1>rD, <1>rE, <1>rF, <1>rG, <1>rK, SMTT(30) DEF T
<1>7. (Starts(s, r7) \/ Starts(s, r8) \/ Starts(s, r9)) <=> Four(s)
  <2> DEFINE a == s[1]
             b == s[2]
             c == s[3]
             d == s[4]
  <2>1. Starts(s, r7) <=> (Len(s) >= 4 /\ a \in K240 /\ b \in H /\ c \in C /\ d \in C)
    BY <1>1, StartsAre
  <2>2. Starts(s, r8) <=> (Len(s) >= 4 /\ a \in I /\ b \in C /\ c \in C /\ d \in C)
    BY <1>1, StartsAre
  <2>3. Starts(s, r9) <=> (Len(s) >= 4 /\ a \in K244 /\ b \in J /\ c \in C /\ d \in C)
    BY <1>1, StartsAre
  <2>4. Four(s) <=>
          /\ Len(s) >= 4 /\ Within(a, 240, 244) /\ T(b) /\ T(c) /\ T(d)
          /\ a = 240 => b >= 144
          /\ a = 244 => b <= 143
    BY DEF Four
  <2> HIDE DEF a, b, c, d, r7, r8, r9
  <2> QED BY <2>1, <2>2, <2>3, <2>4, <1>rC, <1>rH, <1>rI, <1>rJ, <1>rK, SMTT(30) DEF T
<1> HIDE DEF r1, r2, r3, r4, r5, r6, r7, r8, r9
<1>8. WellFormed(s) => \E row \in Table : Starts(s, row)
  BY <1>2, <1>4, <1>5, <1>6, <1>7, Zenon DEF WellFormed
<1>9. ASSUME NEW row \in Table, Starts(s, row)
      PROVE  \/ One(s) /\ Len(row) = 1
             \/ Two(s) /\ Len(row) = 2
             \/ Three(s) /\ Len(row) = 3
             \/ Four(s) /\ Len(row) = 4
  <2>1. row \in {r1, r2, r3, r4, r5, r6, r7, r8, r9}
    BY <1>2, <1>9, Zenon
  <2> QED BY <1>3, <1>4, <1>5, <1>6, <1>7, <1>9, <2>1
<1> QED BY <1>8, <1>9

\* decode accepts the sequences of the table.
LEMMA AcceptsTheTable ==
    ASSUME NEW s \in Seq(0 .. 255)
    PROVE  /\ (decode8(s).cp >= 0) <=> (\E row \in Table : Starts(s, row))
           /\ \A row \in Table : Starts(s, row) => decode8(s).len = Len(row)
<1>1. /\ One(s) => decode8(s).cp = s[1] /\ decode8(s).len = 1
      /\ Two(s) => decode8(s).cp = Value2(s) /\ decode8(s).len = 2
      /\ Three(s) => decode8(s).cp = Value3(s) /\ decode8(s).len = 3
      /\ Four(s) => decode8(s).cp = Value4(s) /\ decode8(s).len = 4
  <2>1. /\ One(s) => decode8(s) = Decoded(s[1], 1)
        /\ Two(s) => decode8(s) = Decoded(Value2(s), 2)
        /\ Three(s) => decode8(s) = Decoded(Value3(s), 3)
        /\ Four(s) => decode8(s) = Decoded(Value4(s), 4)
    BY Decode8Is
  <2> DEFINE d == decode8(s)
             v2 == Value2(s)
             v3 == Value3(s)
             v4 == Value4(s)
  <2> HIDE DEF d, v2, v3, v4
  <2>2. /\ One(s) => d.cp = s[1] /\ d.len = 1
        /\ Two(s) => d.cp = v2 /\ d.len = 2
        /\ Three(s) => d.cp = v3 /\ d.len = 3
        /\ Four(s) => d.cp = v4 /\ d.len = 4
    BY <2>1 DEF d, v2, v3, v4, Decoded
  <2> QED BY <2>2 DEF d, v2, v3, v4
<1>2. WellFormed(s) => decode8(s).cp \in Int /\ decode8(s).cp >= 0
  <2> DEFINE cp == decode8(s).cp
             v1 == s[1]
             v2 == Value2(s)
             v3 == Value3(s)
             v4 == Value4(s)
  <2>1. /\ One(s) => Within(v1, 0, 127)
        /\ Two(s) => Within(v2, 128, 2047)
        /\ Three(s) => Within(v3, 2048, 65535)
        /\ Four(s) => Within(v4, 65536, 1114111)
    BY ValuesAre
  <2>2. /\ One(s) => cp = v1
        /\ Two(s) => cp = v2
        /\ Three(s) => cp = v3
        /\ Four(s) => cp = v4
    BY <1>1, Zenon
  <2> HIDE DEF cp, v1, v2, v3, v4
  <2>3. WellFormed(s) => cp \in Int /\ cp >= 0
    BY <2>1, <2>2 DEF WellFormed
  <2> QED BY <2>3 DEF cp
<1>3. ~WellFormed(s) => ~(decode8(s).cp >= 0)
  <2>1. ~WellFormed(s) => decode8(s) = Failed(illegal) \/ decode8(s) = Failed(incomplete)
    BY Decode8Is
  <2> QED BY <2>1 DEF Failed, Decoded, illegal, incomplete
<1> QED BY <1>1, <1>2, <1>3, RowsAre DEF WellFormed

-----------------------------------------------------------------------------
(* encode *)

LEMMA Digits ==
    ASSUME NEW x \in Int, NEW low, Within(low, 0, 63)
    PROVE  (64 * x + low) \div 64 = x /\ (64 * x + low) % 64 = low
  OBVIOUS

LEMMA TrailOf ==
    ASSUME NEW x \in Int, NEW b, Within(b, 128, 191)
    PROVE  /\ 64 * x + (b - 128) \in Int
           /\ Trail(64 * x + (b - 128)) = b
           /\ (64 * x + (b - 128)) \div 64 = x
<1>1. Within(b - 128, 0, 63)
  OBVIOUS
<1> QED BY <1>1, Digits DEF Trail

\* What encode writes for each width.
LEMMA Encode8Is ==
    ASSUME NEW u \in Nat
    PROVE  /\ u <= 127 => encode8(u) = <<u>>
           /\ 128 <= u /\ u <= 2047 => encode8(u) = <<192 + u \div 64, Trail(u)>>
           /\ 2048 <= u /\ u <= 65535 =>
                encode8(u) = <<224 + u \div 4096, Trail(u \div 64), Trail(u)>>
           /\ 65536 <= u =>
                encode8(u) = <<240 + u \div 262144, Trail(u \div 4096), Trail(u \div 64), Trail(u)>>
<1> DEFINE w == width8(u)
           e1 == <<u>>
           e2 == <<192 + u \div 64, Trail(u)>>
           e3 == <<224 + u \div 4096, Trail(u \div 64), Trail(u)>>
           e4 == <<240 + u \div 262144, Trail(u \div 4096), Trail(u \div 64), Trail(u)>>
<1>1. encode8(u) = CASE w = 1 -> e1 [] w = 2 -> e2 [] w = 3 -> e3 [] w = 4 -> e4
  BY SMTT(20) DEF encode8
<1>2. /\ u <= 127 => w = 1
      /\ 128 <= u /\ u <= 2047 => w = 2
      /\ 2048 <= u /\ u <= 65535 => w = 3
      /\ 65536 <= u => w = 4
  BY Widths, SMTT(10)
<1> HIDE DEF w, e1, e2, e3, e4
<1>3. /\ w = 1 => encode8(u) = e1
      /\ w = 2 => encode8(u) = e2
      /\ w = 3 => encode8(u) = e3
      /\ w = 4 => encode8(u) = e4
  BY <1>1, SMTT(10)
<1>4. /\ u <= 127 => encode8(u) = e1
      /\ 128 <= u /\ u <= 2047 => encode8(u) = e2
      /\ 2048 <= u /\ u <= 65535 => encode8(u) = e3
      /\ 65536 <= u => encode8(u) = e4
  BY <1>2, <1>3, SMTT(10)
<1> QED BY <1>4, SMTT(10) DEF e1, e2, e3, e4

LEMMA Shifts ==
    ASSUME NEW u \in Nat
    PROVE  /\ u \div 4096 = (u \div 64) \div 64
           /\ u \div 262144 = (u \div 4096) \div 64
<1>1. u \div 4096 = (u \div 64) \div 64
  BY SMTT(30)
<1>2. u \div 262144 = (u \div 4096) \div 64
  BY SMTT(30)
<1> QED BY <1>1, <1>2

\* Encoding what a well-formed sequence gives writes the sequence again.
LEMMA EncodesTheSequence ==
    ASSUME NEW s
    PROVE  /\ One(s) => encode8(s[1]) = <<s[1]>>
           /\ Two(s) => encode8(Value2(s)) = <<s[1], s[2]>>
           /\ Three(s) => encode8(Value3(s)) = <<s[1], s[2], s[3]>>
           /\ Four(s) => encode8(Value4(s)) = <<s[1], s[2], s[3], s[4]>>
<1> DEFINE a == s[1]
           b == s[2]
           c == s[3]
           d == s[4]
           x2 == a - 192
           v2 == 64 * x2 + (b - 128)
           x3 == a - 224
           y3 == 64 * x3 + (b - 128)
           v3 == 64 * y3 + (c - 128)
           x4 == a - 240
           y4 == 64 * x4 + (b - 128)
           z4 == 64 * y4 + (c - 128)
           v4 == 64 * z4 + (d - 128)
<1>1. v2 = Value2(s) /\ v3 = Value3(s) /\ v4 = Value4(s)
  BY DEF Value2, Value3, Value4
<1>2. /\ One(s) => Within(a, 0, 127)
      /\ Two(s) => Within(Value2(s), 128, 2047)
      /\ Three(s) => Within(Value3(s), 2048, 65535)
      /\ Four(s) => Within(Value4(s), 65536, 1114111)
  BY ValuesAre
<1>3. /\ Two(s) => a \in Int /\ T(b)
      /\ Three(s) => a \in Int /\ T(b) /\ T(c)
      /\ Four(s) => a \in Int /\ T(b) /\ T(c) /\ T(d)
  BY DEF Two, Three, Four
<1> HIDE DEF a, b, c, d
<1>4. One(s) => encode8(a) = <<a>>
  <2>1. One(s) => a \in Nat /\ a <= 127
    BY <1>2
  <2> QED BY <2>1, Encode8Is, SMTT(10)
<1>5. ASSUME Two(s) PROVE encode8(v2) = <<a, b>>
  <2>1. x2 \in Int /\ a = 192 + x2
    BY <1>3, <1>5
  <2> HIDE DEF x2
  <2>2. Trail(v2) = b /\ v2 \div 64 = x2
    BY <1>3, <1>5, <2>1, TrailOf, ZenonT(60) DEF T
  <2>3. v2 \in Nat /\ 128 <= v2 /\ v2 <= 2047
    <3> HIDE DEF v2
    <3> QED BY <1>1, <1>2, <1>5
  <2> HIDE DEF v2
  <2>4. encode8(v2) = <<192 + v2 \div 64, Trail(v2)>>
    BY <2>3, Encode8Is, SMTT(10)
  <2> QED BY <2>1, <2>2, <2>4
<1>6. ASSUME Three(s) PROVE encode8(v3) = <<a, b, c>>
  <2>1. x3 \in Int /\ a = 224 + x3
    BY <1>3, <1>6
  <2> HIDE DEF x3
  <2>2. y3 \in Int /\ Trail(y3) = b /\ y3 \div 64 = x3
    BY <1>3, <1>6, <2>1, TrailOf, ZenonT(60) DEF T
  <2> HIDE DEF y3
  <2>3. Trail(v3) = c /\ v3 \div 64 = y3
    BY <1>3, <1>6, <2>2, TrailOf, ZenonT(60) DEF T
  <2>4. v3 \in Nat /\ 2048 <= v3 /\ v3 <= 65535
    <3> HIDE DEF v3
    <3> QED BY <1>1, <1>2, <1>6
  <2> HIDE DEF v3
  <2>5. encode8(v3) = <<224 + v3 \div 4096, Trail(v3 \div 64), Trail(v3)>>
    BY <2>4, Encode8Is, SMTT(10)
  <2>6. v3 \div 4096 = (v3 \div 64) \div 64
    BY <2>4, Shifts, SMTT(10)
  <2> QED BY <2>1, <2>2, <2>3, <2>5, <2>6, SMTT(10)
<1>7. ASSUME Four(s) PROVE encode8(v4) = <<a, b, c, d>>
  <2>1. x4 \in Int /\ a = 240 + x4
    BY <1>3, <1>7
  <2> HIDE DEF x4
  <2>2. y4 \in Int /\ Trail(y4) = b /\ y4 \div 64 = x4
    BY <1>3, <1>7, <2>1, TrailOf, ZenonT(60) DEF T
  <2> HIDE DEF y4
  <2>3. z4 \in Int /\ Trail(z4) = c /\ z4 \div 64 = y4
    BY <1>3, <1>7, <2>2, TrailOf, ZenonT(60) DEF T
  <2> HIDE DEF z4
  <2>4. Trail(v4) = d /\ v4 \div 64 = z4
    BY <1>3, <1>7, <2>3, TrailOf, ZenonT(60) DEF T
  <2>5. v4 \in Nat /\ 65536 <= v4
    <3> HIDE DEF v4
    <3> QED BY <1>1, <1>2, <1>7
  <2> HIDE DEF v4
  <2>6. encode8(v4) =
          <<240 + v4 \div 262144, Trail(v4 \div 4096), Trail(v4 \div 64), Trail(v4)>>
    BY <2>5, Encode8Is, SMTT(10)
  <2>7. v4 \div 4096 = (v4 \div 64) \div 64 /\ v4 \div 262144 = (v4 \div 4096) \div 64
    BY <2>5, Shifts, SMTT(10)
  <2> QED BY <2>1, <2>2, <2>3, <2>4, <2>6, <2>7, SMTT(10)
<1> QED
  <2> HIDE DEF v2, v3, v4
  <2> QED BY <1>1, <1>4, <1>5, <1>6, <1>7 DEF a, b, c, d

LEMMA Divided ==
    ASSUME NEW x \in Nat
    PROVE  /\ x \div 64 \in Nat /\ Within(x % 64, 0, 63)
           /\ x = 64 * (x \div 64) + (x % 64)
  OBVIOUS

LEMMA Tuples ==
    ASSUME NEW a, NEW b, NEW c, NEW d,
           Within(a, 0, 255), Within(b, 0, 255), Within(c, 0, 255), Within(d, 0, 255)
    PROVE  /\ <<a>> \in Seq(0 .. 255) /\ <<a, b>> \in Seq(0 .. 255)
           /\ <<a, b, c>> \in Seq(0 .. 255) /\ <<a, b, c, d>> \in Seq(0 .. 255)
<1> DEFINE S == 0 .. 255
<1>1. a \in S /\ b \in S /\ c \in S /\ d \in S
  OBVIOUS
<1> HIDE DEF S
<1>2. /\ <<a>> \in Seq(S) /\ <<a, b>> \in Seq(S)
      /\ <<a, b, c>> \in Seq(S) /\ <<a, b, c, d>> \in Seq(S)
  BY <1>1
<1> QED BY <1>2 DEF S

\* decode reads back what encode writes for a code point.
LEMMA DecodesTheEncoding ==
    ASSUME NEW u \in Nat, is_valid_codepoint(u)
    PROVE  decode8(encode8(u)) = Decoded(u, width8(u))
<1> DEFINE q1 == u \div 64
           r1 == u % 64
           q2 == q1 \div 64
           r2 == q1 % 64
           q3 == q2 \div 64
           r3 == q2 % 64
           t1 == 128 + r1
           t2 == 128 + r2
           t3 == 128 + r3
<1>1. u <= 1114111 /\ ~(55296 <= u /\ u <= 57343)
  BY Widths, SMTT(10)
<1>2. Trail(u) = t1 /\ Trail(u \div 64) = t2
  BY Zenon DEF Trail
<1>3. u \div 4096 = q2 /\ u \div 262144 = q3
  <2>1. u \div 4096 = q2
    BY Shifts, SMTT(10)
  <2>2. u \div 262144 = (u \div 4096) \div 64
    BY Shifts, SMTT(10)
  <2> QED BY <2>1, <2>2, SMTT(10)
<1>4. Trail(u \div 4096) = t3
  BY <1>3, SMTT(10) DEF Trail
<1>5. q1 \in Nat /\ Within(r1, 0, 63) /\ u = 64 * q1 + r1
  BY Divided
<1> HIDE DEF q1, r1
<1>6. q2 \in Nat /\ Within(r2, 0, 63) /\ q1 = 64 * q2 + r2
  BY <1>5, Divided
<1> HIDE DEF q2, r2
<1>7. q3 \in Nat /\ Within(r3, 0, 63) /\ q2 = 64 * q3 + r3
  BY <1>6, Divided
<1> HIDE DEF q3, r3
<1>8. Within(t1, 128, 191) /\ Within(t2, 128, 191) /\ Within(t3, 128, 191)
  BY <1>5, <1>6, <1>7
<1>9. CASE u <= 127
  <2> DEFINE s == <<u>>
  <2>1. encode8(u) = s /\ width8(u) = 1
    BY <1>9, Encode8Is, Widths, SMTT(10)
  <2>2. s \in Seq(0 .. 255)
    BY <1>9, Tuples
  <2>3. s # <<>> /\ s[1] = u
    OBVIOUS
  <2> HIDE DEF s
  <2>4. One(s)
    BY <1>9, <2>3 DEF One
  <2> QED BY <2>1, <2>2, <2>3, <2>4, Decode8Is
<1>10. CASE 128 <= u /\ u <= 2047
  <2> DEFINE s == <<192 + q1, t1>>
  <2>1. encode8(u) = s /\ width8(u) = 2
    BY <1>2, <1>10, Encode8Is, Widths, SMTT(10) DEF q1
  <2>2. Within(192 + q1, 194, 223)
    BY <1>5, <1>10
  <2>3. s \in Seq(0 .. 255)
    BY <1>8, <2>2, Tuples
  <2>4. Len(s) = 2 /\ s[1] = 192 + q1 /\ s[2] = t1
    OBVIOUS
  <2> HIDE DEF s
  <2>5. Two(s)
    BY <1>8, <2>2, <2>4 DEF Two, T
  <2>6. Value2(s) = u
    BY <1>5, <2>4 DEF Value2
  <2> QED BY <2>1, <2>3, <2>5, <2>6, Decode8Is
<1>11. CASE 2048 <= u /\ u <= 65535
  <2> DEFINE s == <<224 + q2, t2, t1>>
  <2>1. encode8(u) = s /\ width8(u) = 3
    BY <1>2, <1>3, <1>11, Encode8Is, Widths, SMTT(10)
  <2>2. /\ Within(224 + q2, 224, 239)
        /\ 224 + q2 = 224 => t2 >= 160
        /\ 224 + q2 = 237 => t2 <= 159
    BY <1>1, <1>5, <1>6, <1>11, SMTT(30)
  <2>3. s \in Seq(0 .. 255)
    BY <1>8, <2>2, Tuples
  <2>4. Len(s) = 3 /\ s[1] = 224 + q2 /\ s[2] = t2 /\ s[3] = t1
    OBVIOUS
  <2> HIDE DEF s
  <2>5. Three(s)
    BY <1>8, <2>2, <2>4 DEF Three, T
  <2>6. Value3(s) = u
    BY <1>5, <1>6, <2>4 DEF Value3
  <2> QED BY <2>1, <2>3, <2>5, <2>6, Decode8Is
<1>12. CASE 65536 <= u
  <2> DEFINE s == <<240 + q3, t3, t2, t1>>
  <2>1. encode8(u) = s /\ width8(u) = 4
    BY <1>2, <1>3, <1>4, <1>12, Encode8Is, Widths, SMTT(10)
  <2>2. /\ Within(240 + q3, 240, 244)
        /\ 240 + q3 = 240 => t3 >= 144
        /\ 240 + q3 = 244 => t3 <= 143
    BY <1>1, <1>5, <1>6, <1>7, <1>12, SMTT(30)
  <2>3. s \in Seq(0 .. 255)
    BY <1>8, <2>2, Tuples
  <2>4. Len(s) = 4 /\ s[1] = 240 + q3 /\ s[2] = t3 /\ s[3] = t2 /\ s[4] = t1
    OBVIOUS
  <2> HIDE DEF s
  <2>5. Four(s)
    BY <1>8, <2>2, <2>4 DEF Four, T
  <2>6. Value4(s) = u
    BY <1>5, <1>6, <1>7, <2>4 DEF Value4
  <2> QED BY <2>1, <2>3, <2>5, <2>6, Decode8Is
<1> QED BY <1>9, <1>10, <1>11, <1>12

-----------------------------------------------------------------------------
(* UTF-16 *)

LEMMA Surrogates ==
    ASSUME NEW c
    PROVE  /\ is_first_surrogate(c) <=> Within(c, 55296, 56319)
           /\ is_second_surrogate(c) <=> Within(c, 56320, 57343)
<1>1. is_first_surrogate(c) <=> Within(c, 55296, 56319)
  BY SMTT(20) DEF is_first_surrogate
<1>2. is_second_surrogate(c) <=> Within(c, 56320, 57343)
  BY SMTT(20) DEF is_second_surrogate
<1> QED BY <1>1, <1>2

LEMMA Decode16Is ==
    ASSUME NEW s, Len(s) \in Nat, s = <<>> <=> Len(s) = 0
    PROVE  /\ s = <<>> => decode16(s) = Failed(incomplete)
           /\ s # <<>> /\ is_second_surrogate(s[1]) => decode16(s) = Failed(illegal)
           /\ s # <<>> /\ is_first_surrogate(s[1]) =>
                decode16(s) = IF Len(s) = 1 THEN Failed(incomplete)
                              ELSE IF ~is_second_surrogate(s[2]) THEN Failed(illegal)
                              ELSE Decoded(combine_surrogate(s[1], s[2]), 2)
           /\ s # <<>> /\ ~is_first_surrogate(s[1]) /\ ~is_second_surrogate(s[1]) =>
                decode16(s) = Decoded(s[1], 1)
<1>1. ~(is_first_surrogate(s[1]) /\ is_second_surrogate(s[1]))
  <2>1. ~(Within(s[1], 55296, 56319) /\ Within(s[1], 56320, 57343))
    BY SMTT(10)
  <2> QED BY <2>1, Surrogates, SMTT(10)
<1> DEFINE first == is_first_surrogate(s[1])
           second == is_second_surrogate(s[1])
           pair == IF Len(s) = 1 THEN Failed(incomplete)
                   ELSE IF ~is_second_surrogate(s[2]) THEN Failed(illegal)
                   ELSE Decoded(combine_surrogate(s[1], s[2]), 2)
<1>2. decode16(s) = CASE s = <<>> -> Failed(incomplete)
                      [] s # <<>> /\ second -> Failed(illegal)
                      [] s # <<>> /\ first -> pair
                      [] OTHER -> Decoded(s[1], 1)
  BY Zenon DEF decode16
<1> HIDE DEF first, second, pair
<1>3. /\ s = <<>> => decode16(s) = Failed(incomplete)
      /\ s # <<>> /\ second => decode16(s) = Failed(illegal)
      /\ s # <<>> /\ first => decode16(s) = pair
      /\ s # <<>> /\ ~first /\ ~second => decode16(s) = Decoded(s[1], 1)
  BY <1>1, <1>2 DEF first, second
<1> QED BY <1>3, Zenon DEF first, second, pair

LEMMA Combined ==
    ASSUME NEW a, NEW b, Within(a, 55296, 56319), Within(b, 56320, 57343)
    PROVE  LET u == combine_surrogate(a, b)
           IN  /\ u = 1024 * (a - 55296) + (b - 56320) + 65536
               /\ u \in Nat /\ 65536 <= u /\ u <= 1114111
               /\ HighSurrogate(u) = a /\ LowSurrogate(u) = b
<1>1. a % 1024 = a - 55296 /\ b % 1024 = b - 56320
  BY SMTT(30)
<1> DEFINE u == combine_surrogate(a, b)
           h == a - 55296
           l == b - 56320
<1>2. u = 1024 * h + l + 65536
  BY <1>1, SMTT(10) DEF combine_surrogate
<1>3. Within(h, 0, 1023) /\ Within(l, 0, 1023) /\ a = 55296 + h /\ b = 56320 + l
  BY SMTT(10)
<1> HIDE DEF h, l, u
<1>4. u \in Nat /\ 65536 <= u /\ u <= 1114111
  BY <1>2, <1>3, SMTT(20)
<1>5. (u - 65536) \div 1024 = h /\ (u - 65536) % 1024 = l
  <2>1. u - 65536 = 1024 * h + l
    BY <1>2, <1>3, SMTT(10)
  <2>2. (1024 * h + l) \div 1024 = h /\ (1024 * h + l) % 1024 = l
    BY <1>3, SMTT(30)
  <2> QED BY <2>1, <2>2, SMTT(10)
<1>6. HighSurrogate(u) = a /\ LowSurrogate(u) = b
  BY <1>3, <1>5, SMTT(10) DEF HighSurrogate, LowSurrogate
<1> QED BY <1>2, <1>4, <1>6, SMTT(10) DEF h, l, u

LEMMA Encode16Is ==
    ASSUME NEW u \in Nat
    PROVE  /\ u <= 65535 => encode16(u) = <<u>> /\ width16(u) = 1
           /\ 65536 <= u => encode16(u) = <<HighSurrogate(u), LowSurrogate(u)>> /\ width16(u) = 2
  BY SMTT(20) DEF encode16, width16

\* decode reads back what encode writes for a code point.
LEMMA DecodesTheWords ==
    ASSUME NEW u \in Nat, is_valid_codepoint(u)
    PROVE  decode16(encode16(u)) = Decoded(u, width16(u))
<1>1. u <= 1114111 /\ ~(55296 <= u /\ u <= 57343)
  BY Widths, SMTT(10)
<1>2. CASE u <= 65535
  <2> DEFINE s == <<u>>
  <2>1. encode16(u) = s /\ width16(u) = 1
    BY <1>2, Encode16Is, SMTT(10)
  <2>2. Len(s) = 1 /\ s # <<>> /\ s[1] = u
    OBVIOUS
  <2> HIDE DEF s
  <2>3. ~is_first_surrogate(u) /\ ~is_second_surrogate(u)
    BY <1>1, Surrogates, SMTT(10)
  <2>4. decode16(s) = Decoded(u, 1)
    BY <2>2, <2>3, Decode16Is
  <2> QED BY <2>1, <2>4
<1>3. CASE 65536 <= u
  <2> DEFINE h == (u - 65536) \div 1024
             l == (u - 65536) % 1024
             a == HighSurrogate(u)
             b == LowSurrogate(u)
             s == <<a, b>>
  <2>1. encode16(u) = s /\ width16(u) = 2
    BY <1>3, Encode16Is, SMTT(10)
  <2>2. Within(h, 0, 1023) /\ Within(l, 0, 1023) /\ u - 65536 = 1024 * h + l
    BY <1>1, <1>3, SMTT(30)
  <2>3. a = 55296 + h /\ b = 56320 + l
    BY SMTT(10) DEF HighSurrogate, LowSurrogate
  <2> HIDE DEF h, l, a, b
  <2>4. Within(a, 55296, 56319) /\ Within(b, 56320, 57343)
    BY <2>2, <2>3, SMTT(10)
  <2>5. combine_surrogate(a, b) = u
    <3>1. combine_surrogate(a, b) = 1024 * (a - 55296) + (b - 56320) + 65536
      BY <2>4, Combined, SMTT(10)
    <3> QED BY <1>3, <2>2, <2>3, <3>1, SMTT(10)
  <2>6. is_first_surrogate(a) /\ is_second_surrogate(b)
    BY <2>4, Surrogates, SMTT(10)
  <2>7. Len(s) = 2 /\ s # <<>> /\ s[1] = a /\ s[2] = b
    OBVIOUS
  <2> HIDE DEF s
  <2>8. decode16(s) = Decoded(u, 2)
    BY <2>5, <2>6, <2>7, Decode16Is
  <2> QED BY <2>1, <2>8
<1> QED BY <1>2, <1>3, SMTT(10)

-----------------------------------------------------------------------------
(* Round trips *)

LEMMA PrefixIs ==
    ASSUME NEW S, NEW s \in Seq(S), NEW n \in Nat, Len(s) >= n,
           NEW t \in Seq(S), Len(t) = n, \A k \in 1 .. n : t[k] = s[k]
    PROVE  SubSeq(s, 1, n) = t
<1>1. \A k \in 1 .. n : s[k] \in S
  BY ElementOfSeq
<1> DEFINE p == SubSeq(s, 1, n)
<1>2. p \in Seq(S) /\ Len(p) = (IF 1 <= n THEN n - 1 + 1 ELSE 0) /\ \A k \in 1 .. n - 1 + 1 : p[k] = s[1 + k - 1]
  BY <1>1, SubSeqProperties
<1> HIDE DEF p
<1>3. p \in Seq(S) /\ Len(p) = n /\ \A k \in 1 .. n : p[k] = s[k]
  BY <1>2
<1>4. Len(p) = Len(t) /\ \A k \in 1 .. Len(p) : p[k] = t[k]
  BY <1>3
<1>5. p = t
  BY <1>3, <1>4, SeqEqual
<1> QED BY <1>5 DEF p

LEMMA Prefixes ==
    ASSUME NEW S, NEW s \in Seq(S)
    PROVE  /\ Len(s) >= 1 => SubSeq(s, 1, 1) = <<s[1]>>
           /\ Len(s) >= 2 => SubSeq(s, 1, 2) = <<s[1], s[2]>>
           /\ Len(s) >= 3 => SubSeq(s, 1, 3) = <<s[1], s[2], s[3]>>
           /\ Len(s) >= 4 => SubSeq(s, 1, 4) = <<s[1], s[2], s[3], s[4]>>
<1>1. \A k \in 1 .. Len(s) : s[k] \in S
  BY ElementOfSeq
<1>2. ASSUME Len(s) >= 1 PROVE SubSeq(s, 1, 1) = <<s[1]>>
  <2> DEFINE t == <<s[1]>>
  <2>1. t \in Seq(S) /\ Len(t) = 1 /\ t[1] = s[1]
    BY <1>1, <1>2
  <2> HIDE DEF t
  <2>2. \A k \in 1 .. 1 : t[k] = s[k]
    BY <2>1
  <2>3. SubSeq(s, 1, 1) = t
    BY <1>2, <2>1, <2>2, PrefixIs
  <2> QED BY <2>3 DEF t
<1>3. ASSUME Len(s) >= 2 PROVE SubSeq(s, 1, 2) = <<s[1], s[2]>>
  <2> DEFINE t == <<s[1], s[2]>>
  <2>1. t \in Seq(S) /\ Len(t) = 2 /\ t[1] = s[1] /\ t[2] = s[2]
    BY <1>1, <1>3
  <2> HIDE DEF t
  <2>2. \A k \in 1 .. 2 : t[k] = s[k]
    BY <2>1
  <2>3. SubSeq(s, 1, 2) = t
    BY <1>3, <2>1, <2>2, PrefixIs
  <2> QED BY <2>3 DEF t
<1>4. ASSUME Len(s) >= 3 PROVE SubSeq(s, 1, 3) = <<s[1], s[2], s[3]>>
  <2> DEFINE t == <<s[1], s[2], s[3]>>
  <2>1. t \in Seq(S) /\ Len(t) = 3 /\ t[1] = s[1] /\ t[2] = s[2] /\ t[3] = s[3]
    BY <1>1, <1>4
  <2> HIDE DEF t
  <2>2. \A k \in 1 .. 3 : t[k] = s[k]
    BY <2>1
  <2>3. SubSeq(s, 1, 3) = t
    BY <1>4, <2>1, <2>2, PrefixIs
  <2> QED BY <2>3 DEF t
<1>5. ASSUME Len(s) >= 4 PROVE SubSeq(s, 1, 4) = <<s[1], s[2], s[3], s[4]>>
  <2> DEFINE t == <<s[1], s[2], s[3], s[4]>>
  <2>1. t \in Seq(S) /\ Len(t) = 4 /\ t[1] = s[1] /\ t[2] = s[2] /\ t[3] = s[3] /\ t[4] = s[4]
    BY <1>1, <1>5
  <2> HIDE DEF t
  <2>2. \A k \in 1 .. 4 : t[k] = s[k]
    BY <2>1
  <2>3. SubSeq(s, 1, 4) = t
    BY <1>5, <2>1, <2>2, PrefixIs
  <2> QED BY <2>3 DEF t
<1> QED BY <1>2, <1>3, <1>4, <1>5

LEMMA DecodeValid8Is ==
    ASSUME NEW s
    PROVE  /\ Within(s[1], 0, 127) => decode_valid8(s) = Decoded(Bits8(s, 0), 1)
           /\ Within(s[1], 194, 223) => decode_valid8(s) = Decoded(Bits8(s, 1), 2)
           /\ Within(s[1], 224, 239) => decode_valid8(s) = Decoded(Bits8(s, 2), 3)
           /\ Within(s[1], 240, 244) => decode_valid8(s) = Decoded(Bits8(s, 3), 4)
<1> DEFINE c == s[1]
           R1 == 192 .. 223
           R2 == 224 .. 239
           n == CASE c < 192 -> 0 [] c \in R1 -> 1 [] c \in R2 -> 2 [] OTHER -> 3
<1>1. decode_valid8(s) = Decoded(Bits8(s, n), n + 1)
  BY DEF decode_valid8
<1>2. \A x : x \in R1 <=> Within(x, 192, 223)
  BY 192 \in Int, 223 \in Int, InRange
<1>3. \A x : x \in R2 <=> Within(x, 224, 239)
  BY 224 \in Int, 239 \in Int, InRange
<1> HIDE DEF c, R1, R2
<1>4. /\ Within(c, 0, 127) => n = 0
      /\ Within(c, 194, 223) => n = 1
      /\ Within(c, 224, 239) => n = 2
      /\ Within(c, 240, 244) => n = 3
  BY <1>2, <1>3
<1> HIDE DEF n
<1> QED BY <1>1, <1>4 DEF c

\* A text that decode accepts encodes to the units it took, and needs no check.
LEMMA RoundTrip8 ==
    ASSUME NEW s \in Seq(0 .. 255), NEW d, d = decode8(s), d.cp >= 0
    PROVE  /\ encode8(d.cp) = SubSeq(s, 1, d.len)
           /\ width8(d.cp) = d.len
           /\ decode_valid8(s) = d
           /\ d.cp \in Nat /\ is_valid_codepoint(d.cp)
<1>1. WellFormed(s)
  <2>1. ~(Failed(illegal).cp >= 0) /\ ~(Failed(incomplete).cp >= 0)
    BY DEF Failed, Decoded, illegal, incomplete
  <2> QED BY <2>1, Decode8Is
<1>2. CASE One(s)
  <2> DEFINE v == s[1]
  <2>1. Within(v, 0, 127) /\ Len(s) >= 1
    BY <1>2, EmptySeq DEF One
  <2>2. d = Decoded(v, 1) /\ encode8(v) = <<v>>
    BY <1>2, Decode8Is, EncodesTheSequence
  <2>3. decode_valid8(s) = Decoded(v, 1)
    BY <2>1, DecodeValid8Is, BitsAre
  <2>4. SubSeq(s, 1, 1) = <<v>>
    BY <2>1, Prefixes
  <2> HIDE DEF v
  <2>5. d.cp = v /\ d.len = 1
    BY <2>2 DEF Decoded
  <2>6. v \in Nat /\ is_valid_codepoint(v) /\ width8(v) = 1
    BY <2>1, SmallValue, Widths
  <2>7. encode8(d.cp) = SubSeq(s, 1, d.len)
    BY <2>2, <2>4, <2>5
  <2> QED BY <2>2, <2>3, <2>5, <2>6, <2>7
<1>3. CASE Two(s)
  <2> DEFINE v == Value2(s)
  <2>1. Within(v, 128, 2047) /\ Len(s) >= 2 /\ Within(s[1], 194, 223) /\ T(s[2])
    BY <1>3, ValuesAre DEF Two
  <2>2. d = Decoded(v, 2) /\ encode8(v) = <<s[1], s[2]>>
    BY <1>3, Decode8Is, EncodesTheSequence
  <2>3. decode_valid8(s) = Decoded(v, 2)
    BY <2>1, DecodeValid8Is, BitsAre
  <2>4. SubSeq(s, 1, 2) = <<s[1], s[2]>>
    BY <2>1, Prefixes
  <2> HIDE DEF v
  <2>5. d.cp = v /\ d.len = 2
    BY <2>2 DEF Decoded
  <2>6. v \in Nat /\ is_valid_codepoint(v) /\ width8(v) = 2
    BY <2>1, Widths
  <2>7. encode8(d.cp) = SubSeq(s, 1, d.len)
    BY <2>2, <2>4, <2>5
  <2> QED BY <2>2, <2>3, <2>5, <2>6, <2>7
<1>4. CASE Three(s)
  <2> DEFINE v == Value3(s)
  <2>1. /\ Within(v, 2048, 65535) /\ is_valid_codepoint(v)
        /\ Len(s) >= 3 /\ Within(s[1], 224, 239) /\ T(s[2]) /\ T(s[3])
    BY <1>4, ValuesAre DEF Three
  <2>2. d = Decoded(v, 3) /\ encode8(v) = <<s[1], s[2], s[3]>>
    BY <1>4, Decode8Is, EncodesTheSequence
  <2>3. decode_valid8(s) = Decoded(v, 3)
    BY <2>1, DecodeValid8Is, BitsAre
  <2>4. SubSeq(s, 1, 3) = <<s[1], s[2], s[3]>>
    BY <2>1, Prefixes
  <2> HIDE DEF v
  <2>5. d.cp = v /\ d.len = 3
    BY <2>2 DEF Decoded
  <2>6. v \in Nat /\ width8(v) = 3
    BY <2>1, Widths, SMTT(10)
  <2>7. encode8(d.cp) = SubSeq(s, 1, d.len)
    BY <2>2, <2>4, <2>5
  <2>8. is_valid_codepoint(v)
    BY <2>1
  <2> QED BY <2>2, <2>3, <2>5, <2>6, <2>7, <2>8
<1>5. CASE Four(s)
  <2> DEFINE v == Value4(s)
  <2>1. /\ Within(v, 65536, 1114111)
        /\ Len(s) >= 4 /\ Within(s[1], 240, 244) /\ T(s[2]) /\ T(s[3]) /\ T(s[4])
    BY <1>5, ValuesAre, SMTT(10) DEF Four
  <2>2. d = Decoded(v, 4) /\ encode8(v) = <<s[1], s[2], s[3], s[4]>>
    BY <1>5, Decode8Is, EncodesTheSequence
  <2>3. decode_valid8(s) = Decoded(v, 4)
    BY <2>1, DecodeValid8Is, BitsAre
  <2>4. SubSeq(s, 1, 4) = <<s[1], s[2], s[3], s[4]>>
    BY <2>1, Prefixes
  <2> HIDE DEF v
  <2>5. d.cp = v /\ d.len = 4
    BY <2>2 DEF Decoded
  <2>6. v \in Nat /\ is_valid_codepoint(v) /\ width8(v) = 4
    BY <2>1, Widths, SMTT(10)
  <2>7. encode8(d.cp) = SubSeq(s, 1, d.len)
    BY <2>2, <2>4, <2>5
  <2> QED BY <2>2, <2>3, <2>5, <2>6, <2>7
<1> QED BY <1>1, <1>2, <1>3, <1>4, <1>5 DEF WellFormed

Short(c) == Within(c, 0, 65535)

LEMMA UnitsAreShort ==
    ASSUME NEW c \in Units16
    PROVE  Short(c)
  BY SMTT(30) DEF Units16, Short

LEMMA OfUnits16 ==
    ASSUME NEW s \in Seq(Units16)
    PROVE  Len(s) \in Nat /\ (s = <<>> <=> Len(s) = 0) /\ (Len(s) >= 1 => Short(s[1]))
<1>1. \A c \in Units16 : Short(c)
  BY UnitsAreShort, Zenon
<1>2. Len(s) \in Nat /\ (s = <<>> <=> Len(s) = 0)
  BY EmptySeq
<1>3. Len(s) >= 1 => s[1] \in Units16
  BY <1>2, ElementOfSeq
<1> QED BY <1>1, <1>2, <1>3, Zenon

\* The same for UTF-16.
LEMMA RoundTrip16 ==
    ASSUME NEW s \in Seq(Units16), NEW e, e = decode16(s), e.cp >= 0
    PROVE  /\ decode_valid16(s) = e
           /\ encode16(e.cp) = SubSeq(s, 1, e.len)
           /\ e.cp \in Nat /\ is_valid_codepoint(e.cp)
<1> DEFINE first == is_first_surrogate(s[1])
           second == is_second_surrogate(s[1])
           p == combine_surrogate(s[1], s[2])
<1>1. Len(s) \in Nat /\ (s = <<>> <=> Len(s) = 0) /\ (Len(s) >= 1 => Short(s[1]))
  BY OfUnits16, Zenon
<1>2. ~(Failed(illegal).cp >= 0) /\ ~(Failed(incomplete).cp >= 0)
  BY DEF Failed, Decoded, illegal, incomplete
<1>3. s # <<>> /\ ~second
  BY <1>1, <1>2, Decode16Is
<1>4. Len(s) >= 1 /\ Short(s[1])
  BY <1>1, <1>3, SMTT(10)
<1>5. CASE first
  <2>1. Len(s) # 1 /\ is_second_surrogate(s[2]) /\ e = Decoded(p, 2)
    BY <1>1, <1>2, <1>3, <1>5, Decode16Is
  <2>2. Len(s) >= 2
    <3> DEFINE n == Len(s)
    <3>1. n \in Nat /\ n >= 1 /\ n # 1
      BY <1>1, <1>4, <2>1, Zenon
    <3> HIDE DEF n
    <3>2. n >= 2
      BY <3>1
    <3> QED BY <3>2 DEF n
  <2>3. Within(s[1], 55296, 56319) /\ Within(s[2], 56320, 57343)
    BY <1>5, <2>1, Surrogates, SMTT(10)
  <2>4. /\ p \in Nat /\ 65536 <= p /\ p <= 1114111
        /\ HighSurrogate(p) = s[1] /\ LowSurrogate(p) = s[2]
    BY <2>3, Combined, SMTT(10)
  <2>5. decode_valid16(s) = Decoded(p, 2)
    BY <1>5, Zenon DEF decode_valid16
  <2>6. SubSeq(s, 1, 2) = <<s[1], s[2]>>
    BY <2>2, Prefixes
  <2> HIDE DEF p
  <2>7. encode16(p) = <<s[1], s[2]>>
    BY <2>4, Encode16Is, SMTT(10)
  <2>8. is_valid_codepoint(p)
    BY <2>4, Widths, SMTT(10)
  <2>9. e.cp = p /\ e.len = 2
    BY <2>1 DEF Decoded
  <2>10. p \in Nat
    BY <2>4, SMTT(10)
  <2> QED BY <2>1, <2>5, <2>6, <2>7, <2>8, <2>9, <2>10, Zenon
<1>6. CASE ~first
  <2> DEFINE v == s[1]
  <2>1. e = Decoded(v, 1)
    BY <1>1, <1>3, <1>6, Decode16Is
  <2>2. ~Within(v, 55296, 56319) /\ ~Within(v, 56320, 57343)
    BY <1>3, <1>6, Surrogates, SMTT(10)
  <2>3. v \in Nat /\ v <= 65535
    BY <1>4, SMTT(10) DEF Short
  <2>4. decode_valid16(s) = Decoded(v, 1)
    BY <1>6, Zenon DEF decode_valid16
  <2>5. SubSeq(s, 1, 1) = <<v>>
    BY <1>4, Prefixes
  <2> HIDE DEF v
  <2>6. is_valid_codepoint(v)
    BY <2>2, <2>3, Widths, SMTT(10)
  <2>7. encode16(v) = <<v>>
    BY <2>3, Encode16Is, SMTT(10)
  <2>8. e.cp = v /\ e.len = 1
    BY <2>1 DEF Decoded
  <2>9. v \in Nat
    BY <2>3, SMTT(10)
  <2> QED BY <2>1, <2>4, <2>5, <2>6, <2>7, <2>8, <2>9, Zenon
<1> QED BY <1>5, <1>6, Zenon

-----------------------------------------------------------------------------
(* A verdict stands *)

LEMMA TrailLengthIs ==
    ASSUME NEW c, Within(c, 0, 255)
    PROVE  trail_length8(c) = -1 \/ trail_length8(c) \in 0 .. 3
<1>1. \/ Within(c, 0, 127) \/ Within(c, 194, 223) \/ Within(c, 224, 239) \/ Within(c, 240, 244)
      \/ Within(c, 128, 193) \/ Within(c, 245, 255)
  OBVIOUS
<1>2. trail_length8(c) \in {-1, 0, 1, 2, 3}
  BY <1>1, TrailLengths
<1> QED BY <1>2

\* t is the start of s.
Extends(s, t) == Len(t) <= Len(s) /\ \A k \in 1 .. Len(t) : t[k] = s[k]

LEMMA Stands8 ==
    ASSUME NEW s \in Seq(0 .. 255), NEW t \in Seq(0 .. 255), Extends(s, t),
           decode8(t).cp # incomplete
    PROVE  decode8(s) = decode8(t)
<1> DEFINE n == trail_length8(t[1])
<1>1. Len(s) \in Nat /\ Len(t) \in Nat /\ (t = <<>> <=> Len(t) = 0) /\ (s = <<>> <=> Len(s) = 0)
  BY EmptySeq
<1>2. Failed(incomplete).cp = incomplete
  BY Verdicts
<1>3. t # <<>>
  <2>1. t = <<>> => decode8(t) = Failed(incomplete)
    BY DEF decode8
  <2> QED BY <1>2, <2>1
<1>4. Len(t) >= 1 /\ s # <<>> /\ t[1] = s[1]
  BY <1>1, <1>3 DEF Extends
<1>5. decode8(t) = Trailed8(t, n) /\ decode8(s) = Trailed8(s, n)
  BY <1>3, <1>4, Zenon DEF decode8
<1>6. n = -1 \/ n \in 0 .. 3
  <2>1. \A k \in 1 .. Len(t) : Within(t[k], 0, 255)
    BY 255 \in Nat, Units
  <2>2. Within(t[1], 0, 255)
    BY <1>1, <1>4, <2>1
  <2> QED BY <2>2, TrailLengthIs
<1>7. CASE n = -1
  <2>1. n < 0
    BY <1>7
  <2>2. Trailed8(t, n) = Failed(illegal) /\ Trailed8(s, n) = Failed(illegal)
    BY <2>1, Zenon DEF Trailed8
  <2> QED BY <1>5, <2>2
<1>8. CASE n \in 0 .. 3
  <2> HIDE DEF n
  <2>1. /\ n >= 1 /\ Len(t) >= 2 => t[2] = s[2] /\ Len(s) >= 2
        /\ n >= 2 /\ Len(t) >= 3 => t[3] = s[3] /\ Len(s) >= 3
        /\ n >= 3 /\ Len(t) >= 4 => t[4] = s[4] /\ Len(s) >= 4
    BY <1>1 DEF Extends
  <2>2. CASE Wrong(t, n)
    <3>1. Wrong(s, n)
      BY <2>1, <2>2 DEF Wrong
    <3> QED BY <1>5, <1>8, <2>2, <3>1, Trailed8Is
  <2>3. CASE ~Wrong(t, n) /\ Len(t) < n + 1
    <3>1. decode8(t) = Failed(incomplete)
      BY <1>5, <1>8, <2>3, Trailed8Is
    <3> QED BY <1>2, <3>1
  <2>4. CASE ~Wrong(t, n) /\ Len(t) >= n + 1
    <3>1. Len(s) >= n + 1
      BY <1>1, <1>8, <2>4 DEF Extends
    <3>2. ~Wrong(s, n)
      BY <1>1, <1>8, <2>1, <2>4 DEF Wrong
    <3>3. Bits(s, n) = Bits(t, n)
      <4>1. n = 0 \/ n = 1 \/ n = 2 \/ n = 3
        BY <1>8
      <4>2. Lead(s, n) = Lead(t, n)
        BY <1>4, Zenon DEF Lead
      <4>3. /\ n >= 1 => t[2] = s[2]
            /\ n >= 2 => t[3] = s[3]
            /\ n >= 3 => t[4] = s[4]
        BY <1>1, <1>8, <2>1, <2>4
      <4>4. CASE n = 0
        BY <4>2, <4>4 DEF Bits
      <4>5. CASE n = 1
        BY <4>2, <4>3, <4>5 DEF Bits
      <4>6. CASE n = 2
        BY <4>2, <4>3, <4>6 DEF Bits
      <4>7. CASE n = 3
        BY <4>2, <4>3, <4>7 DEF Bits
      <4> QED BY <4>1, <4>4, <4>5, <4>6, <4>7
    <3>4. Bits8(s, n) = Bits8(t, n)
      BY <1>8, <3>3, Bits8IsBits
    <3>5. /\ Trailed8(t, n) = Accepted8(Bits8(t, n), n + 1)
          /\ Trailed8(s, n) = Accepted8(Bits8(s, n), n + 1)
      BY <1>8, <2>4, <3>1, <3>2, Trailed8Is
    <3> QED BY <1>5, <3>4, <3>5
  <2>5. Len(t) < n + 1 \/ Len(t) >= n + 1
    BY <1>1, <1>8
  <2> QED BY <2>2, <2>3, <2>4, <2>5
<1> QED BY <1>6, <1>7, <1>8

LEMMA Stands16 ==
    ASSUME NEW s \in Seq(Units16), NEW t \in Seq(Units16), Extends(s, t),
           decode16(t).cp # incomplete
    PROVE  decode16(s) = decode16(t)
<1> DEFINE first == is_first_surrogate(t[1])
           second == is_second_surrogate(t[1])
<1>1. Len(s) \in Nat /\ Len(t) \in Nat /\ (t = <<>> <=> Len(t) = 0) /\ (s = <<>> <=> Len(s) = 0)
  BY EmptySeq
<1>2. Failed(incomplete).cp = incomplete
  BY Verdicts
<1>3. t # <<>>
  BY <1>1, <1>2, Decode16Is
<1>4. Len(t) >= 1 /\ s # <<>> /\ t[1] = s[1]
  BY <1>1, <1>3 DEF Extends
<1>5. CASE second
  <2>1. decode16(t) = Failed(illegal)
    BY <1>1, <1>3, <1>5, Decode16Is
  <2>2. decode16(s) = Failed(illegal)
    BY <1>1, <1>4, <1>5, Decode16Is
  <2> QED BY <2>1, <2>2, Zenon
<1>6. CASE first
  <2> DEFINE Pair(u) == IF Len(u) = 1 THEN Failed(incomplete)
                        ELSE IF ~is_second_surrogate(u[2]) THEN Failed(illegal)
                        ELSE Decoded(combine_surrogate(u[1], u[2]), 2)
  <2>1. decode16(t) = Pair(t)
    BY <1>1, <1>3, <1>6, Decode16Is
  <2>2. decode16(s) = Pair(s)
    BY <1>1, <1>4, <1>6, Decode16Is
  <2>3. Len(t) # 1
    BY <1>2, <2>1, Zenon
  <2>4. Len(s) # 1 /\ t[2] = s[2]
    <3> DEFINE n == Len(t)
               m == Len(s)
    <3>1. n \in Nat /\ m \in Nat /\ n >= 1 /\ n # 1 /\ n <= m /\ \A k \in 1 .. n : t[k] = s[k]
      BY <1>1, <1>4, <2>3, Zenon DEF Extends
    <3> HIDE DEF n, m
    <3>2. m # 1 /\ t[2] = s[2]
      BY <3>1
    <3> QED BY <3>2 DEF m
  <2>5. Pair(t) = Pair(s)
    BY <1>4, <2>3, <2>4, Zenon
  <2> HIDE DEF Pair
  <2> QED BY <2>1, <2>2, <2>5, Zenon
<1>7. CASE ~first /\ ~second
  <2>1. decode16(t) = Decoded(t[1], 1)
    BY <1>1, <1>3, <1>7, Decode16Is
  <2>2. decode16(s) = Decoded(s[1], 1)
    BY <1>1, <1>4, <1>7, Decode16Is
  <2> QED BY <1>4, <2>1, <2>2, Zenon
<1> QED BY <1>5, <1>6, <1>7, Zenon

LEMMA Cut ==
    ASSUME NEW S, NEW s \in Seq(S), s # <<>>
    PROVE  LET t == SubSeq(s, 1, Len(s) - 1) IN t \in Seq(S) /\ Extends(s, t)
<1> DEFINE t == SubSeq(s, 1, Len(s) - 1)
           m == Len(s) - 1
<1>1. m \in Nat /\ m < Len(s)
  BY EmptySeq
<1>2. \A k \in 1 .. m : s[k] \in S
  BY <1>1, ElementOfSeq
<1>3. /\ t \in Seq(S) /\ Len(t) = (IF 1 <= m THEN m - 1 + 1 ELSE 0)
      /\ \A k \in 1 .. m - 1 + 1 : t[k] = s[1 + k - 1]
  <2> HIDE DEF m
  <2>1. /\ SubSeq(s, 1, m) \in Seq(S) /\ Len(SubSeq(s, 1, m)) = (IF 1 <= m THEN m - 1 + 1 ELSE 0)
        /\ \A k \in 1 .. m - 1 + 1 : SubSeq(s, 1, m)[k] = s[1 + k - 1]
    BY <1>1, <1>2, SubSeqProperties
  <2> QED BY <2>1 DEF m
<1> HIDE DEF t, m
<1>4. t \in Seq(S) /\ Len(t) = m /\ \A k \in 1 .. m : t[k] = s[k]
  BY <1>1, <1>3
<1>5. Len(s) \in Nat
  OBVIOUS
<1>6. t \in Seq(S) /\ Extends(s, t)
  BY <1>1, <1>4, <1>5 DEF Extends
<1> QED BY <1>6 DEF t

-----------------------------------------------------------------------------
TextInv == bytes \in Seq(0 .. 255) /\ words \in Seq(Units16)

LEMMA AlwaysTextInv == Spec => []TextInv
<1> DEFINE S == 0 .. 255
<1>1. Bytes \subseteq S /\ Words \subseteq Units16
  <2>1. Bytes \subseteq 0 .. 255
    BY UnitsAssumption, PTL
  <2>2. Words \subseteq Units16
    BY UnitsAssumption, PTL
  <2> QED BY <2>1, <2>2
<1> HIDE DEF S
<1>2. Init => bytes \in Seq(S) /\ words \in Seq(Units16)
  BY DEF Init
<1>3. ASSUME bytes \in Seq(S), words \in Seq(Units16), [Next]_vars
      PROVE  (bytes \in Seq(S) /\ words \in Seq(Units16))'
  <2>1. ASSUME NEW b \in Bytes, Byte(b) PROVE bytes' \in Seq(S) /\ words' \in Seq(Units16)
    BY <1>1, <1>3, <2>1 DEF Byte
  <2>2. ASSUME NEW w \in Words, Word(w) PROVE bytes' \in Seq(S) /\ words' \in Seq(Units16)
    BY <1>1, <1>3, <2>2 DEF Word
  <2>3. CASE UNCHANGED vars
    BY <1>3, <2>3 DEF vars
  <2> QED BY <1>3, <2>1, <2>2, <2>3 DEF Next
<1>4. Init => TextInv
  BY <1>2 DEF TextInv, S
<1>5. TextInv /\ [Next]_vars => TextInv'
  BY <1>3 DEF TextInv, S
<1> QED BY <1>4, <1>5, PTL DEF Spec

LEMMA ExactWhenTyped ==
    ASSUME TextInv
    PROVE  DecodeIsExact
<1> DEFINE S == 0 .. 255
<1>1. bytes \in Seq(S) /\ words \in Seq(Units16)
  BY Zenon DEF TextInv
<1> HIDE DEF S
<1>2. DecodeAcceptsTheTable
  BY <1>1, AcceptsTheTable, Zenon DEF DecodeAcceptsTheTable, S
<1>3. ASSUME NEW d, d = decode8(bytes), d.cp >= 0
      PROVE  /\ encode8(d.cp) = Taken(bytes, d)
             /\ width8(d.cp) = d.len
             /\ decode_valid8(bytes) = d
             /\ decode16(encode16(d.cp)) = Decoded(d.cp, width16(d.cp))
             /\ decode32(<<d.cp>>) = decode_valid32(<<d.cp>>)
  <2>1. /\ encode8(d.cp) = SubSeq(bytes, 1, d.len) /\ width8(d.cp) = d.len
        /\ decode_valid8(bytes) = d /\ d.cp \in Nat /\ is_valid_codepoint(d.cp)
    BY <1>1, <1>3, RoundTrip8, Zenon DEF S
  <2>2. decode16(encode16(d.cp)) = Decoded(d.cp, width16(d.cp))
    BY <2>1, DecodesTheWords, Zenon
  <2> DEFINE u == d.cp
             s == <<u>>
  <2> HIDE DEF u
  <2>3. s # <<>> /\ s[1] = u
    OBVIOUS
  <2> HIDE DEF s
  <2>4. is_valid_codepoint(u)
    BY <2>1 DEF u
  <2>5. decode32(s) = decode_valid32(s)
    BY <2>3, <2>4 DEF decode32, decode_valid32
  <2> QED BY <2>1, <2>2, <2>5, Zenon DEF Taken, s, u
<1>4. ASSUME NEW e, e = decode16(words), e.cp >= 0
      PROVE  /\ decode_valid16(words) = e
             /\ encode16(e.cp) = Taken(words, e)
             /\ decode8(encode8(e.cp)) = Decoded(e.cp, width8(e.cp))
  <2>1. /\ decode_valid16(words) = e /\ encode16(e.cp) = SubSeq(words, 1, e.len)
        /\ e.cp \in Nat /\ is_valid_codepoint(e.cp)
    BY <1>1, <1>4, RoundTrip16, Zenon
  <2>2. decode8(encode8(e.cp)) = Decoded(e.cp, width8(e.cp))
    BY <2>1, DecodesTheEncoding, Zenon
  <2> QED BY <2>1, <2>2, Zenon DEF Taken
<1>5. DecodeEncodeRoundTrip
  BY <1>3, <1>4, Zenon DEF DecodeEncodeRoundTrip
<1>6. ASSUME bytes # <<>>, NEW d, d = decode8(SubSeq(bytes, 1, Len(bytes) - 1)), d.cp # incomplete
      PROVE  decode8(bytes) = d
  <2> DEFINE t == SubSeq(bytes, 1, Len(bytes) - 1)
  <2>1. t \in Seq(S) /\ Extends(bytes, t)
    BY <1>1, <1>6, Cut
  <2> HIDE DEF t
  <2>2. decode8(t).cp # incomplete
    BY <1>6, Zenon DEF t
  <2>3. decode8(bytes) = decode8(t)
    BY <1>1, <2>1, <2>2, Stands8 DEF S
  <2> QED BY <1>6, <2>3, Zenon DEF t
<1>7. ASSUME words # <<>>, NEW d, d = decode16(SubSeq(words, 1, Len(words) - 1)), d.cp # incomplete
      PROVE  decode16(words) = d
  BY <1>1, <1>7, Cut, Stands16, Zenon
<1>8. VerdictIsFinal
  BY <1>6, <1>7, Zenon DEF VerdictIsFinal, Stands
<1> QED BY <1>2, <1>5, <1>8, Zenon DEF DecodeIsExact

\* For every text: decode accepts exactly the texts that start with a sequence
\* of the table and takes its units, encode and decode are each other's
\* inverse in both encodings, and a verdict other than incomplete stands
\* however the text goes on.
THEOREM DecodeIsAlwaysExact == Spec => []DecodeIsExact
<1>1. TextInv => DecodeIsExact
  BY ExactWhenTyped
<1> QED BY <1>1, AlwaysTextInv, PTL

-----------------------------------------------------------------------------
(* The hash table of simple_converter_impl *)

LEMMA LeastOf ==
    ASSUME NEW N, N \subseteq Nat, N # {}
    PROVE  \E n \in N : \A m \in Nat : m < n => m \notin N
<1>1. IsWellFoundedOn({ss \in Nat \X Nat : ss[1] < ss[2]}, Nat)
  BY NatLessThanWellFounded DEF OpToRel
<1>2. PICK n \in N : \A m \in N : ~(<<m, n>> \in {ss \in Nat \X Nat : ss[1] < ss[2]})
  BY <1>1, WFMin
<1> QED BY <1>2

LEMMA Around ==
    ASSUME NEW h \in Nat, h > 0, NEW a \in 0 .. h - 1
    PROVE  /\ \A n \in 0 .. h - 1 : (a + n) % h \in 0 .. h - 1
           /\ \A p \in 0 .. h - 1 : \E n \in 0 .. h - 1 : (a + n) % h = p
<1>1. ASSUME NEW n \in 0 .. h - 1
      PROVE  (a + n) % h = IF a + n < h THEN a + n ELSE a + n - h
  OBVIOUS
<1>2. ASSUME NEW p \in 0 .. h - 1
      PROVE  \E n \in 0 .. h - 1 : (a + n) % h = p
  <2>1. CASE p >= a
    <3>1. p - a \in 0 .. h - 1 /\ a + (p - a) = p
      BY <2>1
    <3> QED BY <1>1, <3>1
  <2>2. CASE p < a
    <3> DEFINE n == p - a + h
    <3>1. n \in 0 .. h - 1 /\ a + n = p + h
      BY <2>2
    <3> HIDE DEF n
    <3>2. (a + n) % h = p
      BY <1>1, <3>1
    <3> QED BY <3>1, <3>2
  <2> QED BY <2>1, <2>2
<1>3. \A n \in 0 .. h - 1 : (a + n) % h \in 0 .. h - 1
  BY <1>1
<1> QED BY <1>2, <1>3

\* The n-th place after a.
Nth(a, n) == (a + n) % hash_table_size
Places == 0 .. hash_table_size - 1

\* A search that can stop stops at the first place where it can.
LEMMA ProbeIs ==
    ASSUME hash_table_size > 0, NEW a \in Places, NEW stops, stops \subseteq Places, stops # {}
    PROVE  \E n \in Places :
              /\ Probe(a, stops) = Nth(a, n) /\ Nth(a, n) \in stops
              /\ \A m \in 0 .. n - 1 : Nth(a, m) \notin stops
<1> DEFINE N == {n \in Places : Nth(a, n) \in stops}
           P(n) == Nth(a, n) \in stops /\ \A m \in 0 .. n - 1 : Nth(a, m) \notin stops
<1>1. hash_table_size \in Nat
  BY TablesAssumption
<1>2. N # {}
  BY <1>1, Around DEF Places, Nth
<1>3. N \subseteq Nat
  BY <1>1 DEF Places
<1>4. PICK n \in N : \A m \in Nat : m < n => m \notin N
  BY <1>2, <1>3, LeastOf
<1>5. n \in Places /\ P(n)
  <2>1. ASSUME NEW m \in 0 .. n - 1 PROVE Nth(a, m) \notin stops
    <3>1. m \in Nat /\ m < n /\ m \in Places
      BY <1>1, <1>4 DEF Places
    <3> QED BY <1>4, <3>1
  <2> QED BY <1>4, <2>1
<1>6. Probe(a, stops) = Nth(a, CHOOSE x \in Places : P(x))
  BY Zenon DEF Probe, Nth, Places
<1> HIDE DEF P
<1>7. (CHOOSE x \in Places : P(x)) \in Places /\ P(CHOOSE x \in Places : P(x))
  BY <1>5, Zenon
<1> QED BY <1>6, <1>7 DEF P

-----------------------------------------------------------------------------
Occupied == Places \ Free

\* The byte c is in the first place that was free from its own place on.
Entered(c) ==
    \E n \in Places :
       /\ from_unicode_tbl[Nth(to_unicode_tbl[c] % hash_table_size, n)] = c
       /\ \A m \in 0 .. n - 1 : from_unicode_tbl[Nth(to_unicode_tbl[c] % hash_table_size, m)] # 0

TableInv ==
    /\ to_unicode_tbl \in Seq(Nat \cup {illegal}) /\ Len(to_unicode_tbl) < hash_table_size
    /\ i \in 1 .. Len(to_unicode_tbl) + 1
    /\ from_unicode_tbl \in [Places -> 0 .. i - 1]
    /\ \A p \in Places : from_unicode_tbl[p] # 0 => ~Illegal(from_unicode_tbl[p])
    /\ IsFiniteSet(Occupied) /\ Cardinality(Occupied) < i
    /\ \A c \in 1 .. i - 1 : ~Illegal(c) => Entered(c)

LEMMA SomeFree ==
    ASSUME TableInv
    PROVE  Free # {} /\ Free \subseteq Places /\ hash_table_size \in Nat /\ hash_table_size > 0
<1>1. hash_table_size \in Nat /\ Len(to_unicode_tbl) \in Nat
  BY TablesAssumption DEF TableInv
<1>2. hash_table_size > 0 /\ i \in Nat /\ i <= hash_table_size
  BY <1>1 DEF TableInv
<1>3. Free \subseteq Places
  BY DEF Free, Places
<1>4. ASSUME Free = {} PROVE FALSE
  <2>1. Occupied = Places
    BY <1>4 DEF Occupied
  <2>2. Cardinality(Places) = hash_table_size
    <3>1. Cardinality(0 .. hash_table_size - 1) = IF 0 > hash_table_size - 1 THEN 0 ELSE (hash_table_size - 1) - 0 + 1
      BY <1>1, FS_Interval
    <3> QED BY <1>1, <1>2, <3>1 DEF Places
  <2> QED BY <1>1, <1>2, <2>1, <2>2 DEF TableInv
<1> QED BY <1>1, <1>2, <1>3, <1>4

LEMMA TableInitInv ==
    ASSUME TableInit
    PROVE  TableInv
<1>1. to_unicode_tbl \in Seq(Nat \cup {illegal}) /\ Len(to_unicode_tbl) < hash_table_size
  BY TablesAssumption DEF TableInit
<1>2. Len(to_unicode_tbl) \in Nat /\ hash_table_size \in Nat
  BY <1>1, TablesAssumption
<1>3. i = 1 /\ from_unicode_tbl = [p \in Places |-> 0]
  BY DEF TableInit, Places
<1>4. \A p \in Places : from_unicode_tbl[p] = 0
  BY <1>3
<1>5. Occupied = {}
  BY <1>4 DEF Occupied, Free, Places
<1>6. IsFiniteSet(Occupied) /\ Cardinality(Occupied) < i
  BY <1>3, <1>5, FS_EmptySet
<1> QED BY <1>1, <1>2, <1>3, <1>4, <1>6 DEF TableInv

LEMMA TableNextInv ==
    ASSUME TableInv, [TableNext]_tableVars
    PROVE  TableInv'
<1> USE DEF Nth
<1>1. CASE UNCHANGED tableVars
  BY <1>1 DEF TableInv, tableVars, Occupied, Free, Illegal, Entered
<1>2. CASE Enter
  <2> DEFINE h == to_unicode_tbl[i] % hash_table_size
             p == Place(i)
  <2>1. /\ to_unicode_tbl \in Seq(Nat \cup {illegal}) /\ Len(to_unicode_tbl) < hash_table_size
        /\ i \in Nat /\ i >= 1 /\ i <= Len(to_unicode_tbl) /\ Len(to_unicode_tbl) \in Nat
        /\ hash_table_size \in Nat /\ hash_table_size > 0
        /\ to_unicode_tbl' = to_unicode_tbl /\ i' = i + 1
        /\ from_unicode_tbl' = IF Illegal(i) THEN from_unicode_tbl ELSE [from_unicode_tbl EXCEPT ![p] = i]
    BY <1>2, SomeFree DEF TableInv, Enter
  <2>2. \A c : (Illegal(c))' <=> Illegal(c)
    BY <2>1 DEF Illegal
  <2>3. i' \in 1 .. Len(to_unicode_tbl') + 1 /\ 0 .. i - 1 \subseteq 0 .. i' - 1 /\ i \in 0 .. i' - 1
    BY <2>1
  <2>4. CASE Illegal(i)
    <3>1. from_unicode_tbl' = from_unicode_tbl
      BY <2>1, <2>4
    <3>2. from_unicode_tbl' \in [Places -> 0 .. i' - 1]
      BY <2>3, <3>1 DEF TableInv
    <3>3. \A q \in Places : from_unicode_tbl'[q] # 0 => ~(Illegal(from_unicode_tbl[q]))'
      BY <2>2, <3>1 DEF TableInv
    <3>4. Occupied' = Occupied /\ Cardinality(Occupied) \in Nat
      BY <3>1, FS_CardinalityType DEF Occupied, Free, TableInv
    <3>5. \A c \in 1 .. i - 1 : ~Illegal(c) => (Entered(c))'
      BY <2>1, <3>1, SMTT(30) DEF TableInv, Entered
    <3>6. \A c \in 1 .. i' - 1 : ~(Illegal(c))' => (Entered(c))'
      <4>1. \A c \in 1 .. i' - 1 : c = i \/ c \in 1 .. i - 1
        BY <2>1
      <4> QED BY <2>2, <2>4, <3>5, <4>1
    <3>7. IsFiniteSet(Occupied') /\ Cardinality(Occupied') < i'
      BY <2>1, <3>4 DEF TableInv
    <3> QED BY <2>1, <2>3, <3>2, <3>3, <3>6, <3>7 DEF TableInv
  <2>5. CASE ~Illegal(i)
    <3>1. to_unicode_tbl[i] \in Nat /\ h \in Places
      <4>1. to_unicode_tbl[i] \in Nat
        BY <2>1, <2>5 DEF Illegal
      <4> QED BY <2>1, <4>1 DEF Places
    <3> HIDE DEF h
    <3>2. PICK n \in Places :
            /\ p = Nth(h, n) /\ Nth(h, n) \in Free
            /\ \A m \in 0 .. n - 1 : Nth(h, m) \notin Free
      BY <3>1, SomeFree, ProbeIs DEF Place, h
    <3>3. p \in Places /\ from_unicode_tbl[p] = 0
      BY <3>2 DEF Free, Places
    <3> HIDE DEF p
    <3>4. from_unicode_tbl' = [from_unicode_tbl EXCEPT ![p] = i]
      BY <2>1, <2>5
    <3>5. from_unicode_tbl' \in [Places -> 0 .. i' - 1]
      BY <2>3, <3>4 DEF TableInv
    <3>6. /\ from_unicode_tbl'[p] = i
          /\ \A q \in Places : q # p => from_unicode_tbl'[q] = from_unicode_tbl[q]
      BY <3>3, <3>4 DEF TableInv
    <3>7. \A q \in Places : from_unicode_tbl'[q] # 0 => ~(Illegal(from_unicode_tbl[q]))'
      BY <2>2, <2>5, <3>6 DEF TableInv
    <3>8. IsFiniteSet(Occupied') /\ Cardinality(Occupied') < i'
      <4>1. Occupied' = Occupied \cup {p} /\ p \notin Occupied
        BY <2>1, <3>3, <3>6 DEF Occupied, Free, Places
      <4>2. IsFiniteSet(Occupied) /\ Cardinality(Occupied) \in Nat /\ Cardinality(Occupied) < i
        BY FS_CardinalityType DEF TableInv
      <4>3. IsFiniteSet(Occupied \cup {p}) /\ Cardinality(Occupied \cup {p}) = Cardinality(Occupied) + 1
        BY <4>1, <4>2, FS_AddElement
      <4> QED BY <2>1, <4>1, <4>2, <4>3
    <3>9. ASSUME NEW c, c = i PROVE (Entered(c))'
      <4>1. from_unicode_tbl'[Nth(h, n)] = c
        BY <3>2, <3>6, <3>9
      <4>2. ASSUME NEW m \in 0 .. n - 1 PROVE from_unicode_tbl'[Nth(h, m)] # 0
        <5>1. Nth(h, m) \in Places
          BY <2>1, <3>1, <3>2, Around DEF Places
        <5>2. from_unicode_tbl[Nth(h, m)] # 0
          BY <3>2, <5>1 DEF Free, Places
        <5> QED BY <2>1, <3>6, <5>1, <5>2
      <4>3. h = to_unicode_tbl[c] % hash_table_size
        BY <3>9 DEF h
      <4> QED BY <2>1, <4>1, <4>2, <4>3 DEF Entered
    <3>10. ASSUME NEW c \in 1 .. i - 1, ~Illegal(c) PROVE (Entered(c))'
      <4> DEFINE hc == to_unicode_tbl[c] % hash_table_size
      <4>1. hc \in Places
        <5>1. to_unicode_tbl[c] \in Nat
          BY <2>1, <3>10 DEF Illegal
        <5> QED BY <2>1, <5>1 DEF Places
      <4>2. PICK k \in Places :
              /\ from_unicode_tbl[Nth(hc, k)] = c
              /\ \A m \in 0 .. k - 1 : from_unicode_tbl[Nth(hc, m)] # 0
        BY <3>10 DEF TableInv, Entered
      <4> HIDE DEF hc
      <4>3. \A m \in 0 .. k : Nth(hc, m) \in Places
        BY <2>1, <4>1, Around DEF Places
      <4>4. from_unicode_tbl'[Nth(hc, k)] = c
        BY <3>3, <3>6, <4>2, <4>3 DEF Places
      <4>5. \A m \in 0 .. k - 1 : from_unicode_tbl'[Nth(hc, m)] # 0
        BY <2>1, <3>6, <4>2, <4>3 DEF Places
      <4>6. hc = to_unicode_tbl[c] % hash_table_size
        BY DEF hc
      <4> QED BY <2>1, <4>4, <4>5, <4>6 DEF Entered
    <3>11. \A c \in 1 .. i' - 1 : ~(Illegal(c))' => (Entered(c))'
      <4>1. \A c \in 1 .. i' - 1 : c = i \/ c \in 1 .. i - 1
        BY <2>1
      <4> QED BY <2>2, <3>9, <3>10, <4>1
    <3> QED BY <2>1, <2>3, <3>5, <3>7, <3>8, <3>11 DEF TableInv
  <2> QED BY <2>4, <2>5
<1> QED BY <1>1, <1>2 DEF TableNext

LEMMA TableIsSearched ==
    ASSUME TableInv
    PROVE  EnteredIsFound
<1> DEFINE B == {c \in 1 .. i - 1 : ~Illegal(c)}
<1>1. /\ hash_table_size \in Nat /\ hash_table_size > 0 /\ i \in Nat /\ i >= 1
      /\ i - 1 <= Len(to_unicode_tbl) /\ Len(to_unicode_tbl) \in Nat
  BY SomeFree DEF TableInv
<1> SUFFICES ASSUME NEW u \in 1 .. 2 * hash_table_size
             PROVE  LET b == simple_from_unicode(u)
                    IN  IF \E c \in B : to_unicode_tbl[c] = u
                        THEN b # <<>> /\ simple_to_unicode(b) = Decoded(u, 1)
                        ELSE b = <<>>
  BY Zenon DEF EnteredIsFound
<1> DEFINE h == u % hash_table_size
           found == {p \in Places : from_unicode_tbl[p] # 0 /\ to_unicode_tbl[from_unicode_tbl[p]] = u}
           stops == Free \cup found
           pos == Probe(h, stops)
           byte == from_unicode_tbl[pos]
<1>2. u \in Nat /\ u # 0 /\ h \in Places
  BY <1>1 DEF Places
<1>3. simple_from_unicode(u) = IF byte = 0 THEN <<>> ELSE <<byte>>
  BY <1>2, Zenon DEF simple_from_unicode, Places
<1>4. stops \subseteq Places /\ stops # {}
  BY SomeFree
<1> HIDE DEF h, stops
<1>5. PICK n \in Places :
        /\ pos = Nth(h, n) /\ pos \in stops
        /\ \A m \in 0 .. n - 1 : Nth(h, m) \notin stops
  BY <1>1, <1>2, <1>4, ProbeIs
<1>6. pos \in Places
  BY <1>4, <1>5
<1> HIDE DEF pos
<1>7. byte = 0 \/ (byte \in B /\ to_unicode_tbl[byte] = u)
  <2>1. byte \in 0 .. i - 1 /\ (byte # 0 => ~Illegal(byte))
    BY <1>6 DEF TableInv
  <2>2. byte = 0 \/ to_unicode_tbl[byte] = u
    BY <1>5 DEF stops, Free
  <2>3. byte # 0 => byte \in 1 .. i - 1
    BY <1>1, <2>1
  <2> QED BY <2>1, <2>2, <2>3
<1>8. ASSUME NEW c \in B, to_unicode_tbl[c] = u PROVE byte # 0
  <2>1. PICK k \in Places :
          /\ from_unicode_tbl[Nth(h, k)] = c
          /\ \A m \in 0 .. k - 1 : from_unicode_tbl[Nth(h, m)] # 0
    BY <1>8, SMTT(30) DEF TableInv, Entered, h
  <2>2. c # 0 /\ c \in Nat
    BY <1>1
  <2>3. \A m \in Places : Nth(h, m) \in Places
    BY <1>1, <1>2, Around DEF Places, Nth
  <2>4. Nth(h, k) \in stops
    BY <1>8, <2>1, <2>2, <2>3 DEF stops
  <2>5. ~(k < n)
    <3> SUFFICES ASSUME k < n PROVE FALSE
      OBVIOUS
    <3>1. k \in 0 .. n - 1
      BY <1>1 DEF Places
    <3> QED BY <1>5, <2>4, <3>1
  <2>6. n = k \/ n \in 0 .. k - 1
    BY <1>1, <2>5 DEF Places
  <2> QED BY <1>5, <2>1, <2>2, <2>6
<1>9. byte # 0 => simple_to_unicode(<<byte>>) = Decoded(u, 1)
  <2> SUFFICES ASSUME byte # 0 PROVE simple_to_unicode(<<byte>>) = Decoded(u, 1)
    OBVIOUS
  <2> DEFINE s == <<byte>>
  <2> HIDE DEF byte
  <2>1. s # <<>> /\ s[1] = byte
    OBVIOUS
  <2> HIDE DEF s
  <2>2. CodeOf(s[1]) = u
    BY <1>7, <2>1, Zenon DEF CodeOf
  <2> QED BY <2>1, <2>2, Zenon DEF simple_to_unicode, s
<1>10. byte # 0 => <<byte>> # <<>>
  OBVIOUS
<1> HIDE DEF byte
<1>11. CASE \E c \in B : to_unicode_tbl[c] = u
  BY <1>3, <1>8, <1>9, <1>10, <1>11, Zenon
<1>12. CASE ~(\E c \in B : to_unicode_tbl[c] = u)
  BY <1>3, <1>7, <1>12, Zenon
<1> QED BY <1>11, <1>12, Zenon

\* For every table of single bytes: what the hash table is asked for after any
\* number of bytes is found exactly if one of them has that code point, and
\* then it is a byte that reads as that code point, however many share places.
THEOREM EnteredIsAlwaysFound == TableSpec => []EnteredIsFound
<1>1. TableInit => TableInv
  BY TableInitInv
<1>2. TableInv /\ [TableNext]_tableVars => TableInv'
  BY TableNextInv
<1>3. TableInv => EnteredIsFound
  BY TableIsSearched
<1> QED BY <1>1, <1>2, <1>3, PTL DEF TableSpec

-----------------------------------------------------------------------------
(* From the end of a text to its beginning *)

\* What holds at each place if it holds at all later ones, holds at all.
LEMMA Downward ==
    ASSUME NEW n \in Nat, NEW S, \A k \in 0 .. n : (\A j \in 0 .. n : j > k => j \in S) => k \in S
    PROVE  \A k \in 0 .. n : k \in S
<1> SUFFICES ASSUME \E k \in 0 .. n : k \notin S
             PROVE  FALSE
  OBVIOUS
<1> DEFINE Outside == {m \in Nat : m <= n /\ n - m \notin S}
<1>1. IsWellFoundedOn({ss \in Nat \X Nat : ss[1] < ss[2]}, Nat)
  BY NatLessThanWellFounded DEF OpToRel
<1>2. Outside \subseteq Nat /\ Outside # {}
  <2>1. PICK k \in 0 .. n : k \notin S
    OBVIOUS
  <2>2. n - k \in Nat /\ n - k <= n /\ n - (n - k) = k
    OBVIOUS
  <2>3. n - k \in Outside
    BY <2>1, <2>2
  <2> QED BY <2>3
<1>3. PICK m \in Outside : \A p \in Outside : ~(<<p, m>> \in {ss \in Nat \X Nat : ss[1] < ss[2]})
  <2> HIDE DEF Outside
  <2> QED BY <1>1, <1>2, WFMin
<1>4. m \in Nat /\ n - m \in 0 .. n /\ n - m \notin S
  BY <1>3
<1>5. ASSUME NEW j \in 0 .. n, j > n - m
      PROVE  j \in S
  <2> SUFFICES ASSUME j \notin S
               PROVE  FALSE
    OBVIOUS
  <2>1. n - j \in Nat /\ n - j <= n /\ n - (n - j) = j /\ n - j < m
    BY <1>4, <1>5
  <2>2. n - j \in Outside
    BY <2>1
  <2>3. <<n - j, m>> \in {ss \in Nat \X Nat : ss[1] < ss[2]}
    BY <1>4, <2>1
  <2> QED BY <1>3, <2>2, <2>3
<1> QED BY <1>4, <1>5

-----------------------------------------------------------------------------
(* The characters of a text, and what iconv makes of each. *)

NextAt(t, k) == k + (IF Character(t, k).cp < 0 THEN 1 ELSE Character(t, k).len)
Coded(t, k, s) == Encode(t.to, Character(t, k).cp, s)
Writes(t, k) == Writable(t.to, Character(t, k).cp)

LEMMA CharacterTyped ==
    ASSUME NEW t \in Jobs, NEW k \in 0 .. Len(t.text), k # Len(t.text)
    PROVE  /\ Len(t.text) \in Nat /\ Room \in Nat
           /\ Character(t, k).cp \in Int
           /\ Character(t, k).cp < 0 <=> Character(t, k).cp \in {illegal, incomplete}
           /\ NextAt(t, k) \in k + 1 .. Len(t.text)
           /\ Character(t, k).cp >= 0 => NextAt(t, k) = k + Character(t, k).len
<1> DEFINE d == Character(t, k)
           L == Len(t.text)
<1>1. L \in Nat /\ Room \in Nat
  BY IconvAssumption
<1>2. k \in 0 .. L - 1
  BY <1>1
<1>3. \/ d.cp \in {illegal, incomplete}
      \/ d.cp \in Nat /\ d.len \in 1 .. L - k
  BY <1>2, IconvAssumption, Zenon
<1> HIDE DEF d, L
<1>4. CASE d.cp \in {illegal, incomplete}
  <2>1. d.cp \in Int /\ d.cp < 0
    BY <1>4 DEF illegal, incomplete
  <2>2. k + 1 \in k + 1 .. L
    BY <1>1, <1>2
  <2> QED BY <1>1, <1>4, <2>1, <2>2 DEF NextAt, d, L
<1>5. CASE d.cp \in Nat /\ d.len \in 1 .. L - k
  <2>1. d.cp \in Int /\ ~(d.cp < 0) /\ d.cp \notin {illegal, incomplete}
    BY <1>5 DEF illegal, incomplete
  <2>2. k + d.len \in k + 1 .. L
    BY <1>1, <1>2, <1>5
  <2> QED BY <1>1, <1>5, <2>1, <2>2 DEF NextAt, d, L
<1> QED BY <1>3, <1>4, <1>5

LEMMA CodedTyped ==
    ASSUME NEW t \in Jobs, NEW k \in 0 .. Len(t.text), k # Len(t.text), NEW s \in {0, 1}
    PROVE  /\ Writes(t, k) => /\ Coded(t, k, s).units \in Seq(Nat) /\ Coded(t, k, s).units # <<>>
                              /\ Len(Coded(t, k, s).units) <= Room /\ Coded(t, k, s).shift \in {0, 1}
                              /\ Character(t, k).cp >= 0
           /\ Character(t, k).cp >= 0 /\ ~Writes(t, k) => Coded(t, k, s).units = <<>>
           /\ Writes(t, k) /\ ~Coded(t, k, s).exact => ~Exact(t.to, Character(t, k).cp)
<1> DEFINE d == Character(t, k)
           L == Len(t.text)
           e == Encode(t.to, d.cp, s)
           e0 == Encode(t.to, d.cp, 0)
<1>1. L \in Nat
  BY IconvAssumption
<1>2. k \in 0 .. L - 1
  BY <1>1
<1>3. \/ d.cp \in {illegal, incomplete}
      \/ /\ d.cp \in Nat /\ d.len \in 1 .. L - k
         /\ e.units \in Seq(Nat) /\ Len(e.units) <= Room /\ e.shift \in {0, 1}
         /\ (e.units = <<>> <=> e0.units = <<>>) /\ (e.exact <=> e0.exact)
  BY <1>2, IconvAssumption, Zenon
<1> HIDE DEF d, e, e0
<1>4. /\ Coded(t, k, s) = e /\ Character(t, k) = d
      /\ Writes(t, k) <=> d.cp >= 0 /\ e0.units # <<>>
      /\ Exact(t.to, d.cp) => e0.exact
  BY Zenon DEF Coded, Writes, Writable, Exact, d, e, e0
<1>5. d.cp \in {illegal, incomplete} => ~(d.cp >= 0)
  BY DEF illegal, incomplete
<1> QED BY <1>3, <1>4, <1>5, Zenon

LEMMA Synchronous ==
    ASSUME NEW t \in Jobs, ~DoubleByte(t), NEW k \in 0 .. Len(t.text), k # Len(t.text), ~Writes(t, k),
           NEW j \in k + 1 .. NextAt(t, k) - 1
    PROVE  Character(t, j).cp < 0
<1> DEFINE d == Character(t, k)
           L == Len(t.text)
<1>1. L \in Nat /\ NextAt(t, k) \in k + 1 .. L
  BY CharacterTyped
<1>2. k \in 0 .. L - 1
  BY <1>1
<1>3. \/ d.cp \in {illegal, incomplete}
      \/ /\ d.cp \in Nat /\ d.len \in 1 .. L - k
         /\ \A n \in k + 1 .. k + d.len - 1 : Character(t, n).cp \in {illegal, incomplete}
  BY <1>2, IconvAssumption, Zenon
<1>4. j \in 0 .. L /\ j # L
  BY <1>1
<1>5. CASE d.cp \in {illegal, incomplete}
  <2>1. NextAt(t, k) = k + 1
    BY <1>5, CharacterTyped DEF NextAt
  <2> QED BY <2>1
<1>6. CASE d.cp \in Nat /\ d.len \in 1 .. L - k /\ \A n \in k + 1 .. k + d.len - 1 : Character(t, n).cp \in {illegal, incomplete}
  <2>1. NextAt(t, k) = k + d.len
    BY <1>6, CharacterTyped
  <2>2. j \in k + 1 .. k + d.len - 1
    <3> DEFINE n == d.len
               m == NextAt(t, k)
    <3>1. n \in Int /\ m = k + n /\ k \in Int /\ j \in Int /\ k + 1 <= j /\ j <= m - 1
      BY <1>1, <1>2, <1>6, <2>1
    <3> HIDE DEF n, m
    <3>2. j \in k + 1 .. k + n - 1
      BY <3>1
    <3> QED BY <3>2 DEF n
  <2>3. Character(t, j).cp \in {illegal, incomplete}
    BY <1>6, <2>2, Zenon
  <2> QED BY <1>4, <2>3, CharacterTyped, Zenon
<1> QED BY <1>3, <1>5, <1>6

-----------------------------------------------------------------------------
(* The whole text, read from each unit on: that the function exists, and its *)
(* values.                                                                   *)

Read(units, s, read, last) == [units |-> units, shift |-> s, read |-> read, last |-> last]

ReadingBody(t, g, k) ==
    [s \in {0, 1} |->
        IF k = Len(t.text) THEN Read(<<>>, s, {}, illegal)
        ELSE LET e == Coded(t, k, s)
                 rest == g[NextAt(t, k)][IF Writes(t, k) THEN e.shift ELSE s]
             IN  Read(IF Writes(t, k) THEN e.units \o rest.units ELSE rest.units, rest.shift,
                      {Character(t, k).cp} \cup rest.read,
                      IF NextAt(t, k) = Len(t.text) THEN Character(t, k).cp ELSE rest.last)]

LEMMA ReadingExists ==
    ASSUME NEW t \in Jobs
    PROVE  \E g : g = [k \in 0 .. Len(t.text) |-> ReadingBody(t, g, k)]
<1> DEFINE L == Len(t.text)
           P(g, k) == g = [x \in k .. L |-> ReadingBody(t, g, x)]
           S == {k \in 0 .. L : \E g : P(g, k)}
<1>0. L \in Nat
  BY IconvAssumption
<1>1. ASSUME NEW k \in 0 .. L, \A j \in 0 .. L : j > k => j \in S
      PROVE  k \in S
  <2>1. CASE k = L
    <3> DEFINE g == [x \in {k} |-> ReadingBody(t, <<>>, k)]
    <3>1. ReadingBody(t, g, k) = ReadingBody(t, <<>>, k)
      BY <2>1, Zenon DEF ReadingBody
    <3>2. k .. L = {k}
      BY <1>0, <2>1
    <3>3. g = [x \in {k} |-> ReadingBody(t, g, x)]
      <4>1. \A x \in {k} : ReadingBody(t, g, x) = ReadingBody(t, <<>>, k)
        BY <3>1, Zenon
      <4> HIDE DEF g
      <4>2. [x \in {k} |-> ReadingBody(t, g, x)] = [x \in {k} |-> ReadingBody(t, <<>>, k)]
        BY <4>1, Zenon
      <4> QED BY <4>2, Zenon DEF g
    <3> HIDE DEF g
    <3>4. P(g, k)
      BY <3>2, <3>3, Zenon
    <3> QED BY <3>4, Zenon
  <2>2. CASE k # L
    <3>1. k + 1 \in 0 .. L /\ k + 1 > k /\ NextAt(t, k) \in k + 1 .. L
      BY <1>0, <2>2, CharacterTyped
    <3>2. PICK g : P(g, k + 1)
      BY <1>1, <3>1, Zenon
    <3> DEFINE h == [x \in k .. L |-> IF x = k THEN ReadingBody(t, g, k) ELSE g[x]]
    <3>3. ASSUME NEW x \in k .. L
          PROVE  ReadingBody(t, h, x) = ReadingBody(t, g, x)
      <4>1. CASE x = L
        BY <4>1, Zenon DEF ReadingBody
      <4>2. CASE x # L
        <5>1. x \in 0 .. L
          BY <1>0
        <5>2. NextAt(t, x) \in x + 1 .. L
          BY <4>2, <5>1, CharacterTyped
        <5>3. NextAt(t, x) \in k .. L /\ NextAt(t, x) # k
          BY <1>0, <5>2
        <5>4. h[NextAt(t, x)] = g[NextAt(t, x)]
          BY <5>3, Zenon
        <5> HIDE DEF h
        <5> QED BY <5>4, Zenon DEF ReadingBody
      <4> QED BY <4>1, <4>2
    <3>4. ASSUME NEW x \in k .. L
          PROVE  h[x] = ReadingBody(t, g, x)
      <4>1. CASE x = k
        BY <4>1, Zenon
      <4>2. CASE x # k
        <5>1. x \in k + 1 .. L
          BY <1>0, <4>2
        <5>2. g[x] = ReadingBody(t, g, x)
          BY <3>2, <5>1, Zenon
        <5> QED BY <4>2, <5>2, Zenon
      <4> QED BY <4>1, <4>2
    <3>5. P(h, k)
      <4>1. \A x \in k .. L : h[x] = ReadingBody(t, h, x)
        BY <3>3, <3>4, Zenon
      <4>2. h = [x \in k .. L |-> h[x]]
        BY Zenon
      <4> HIDE DEF h
      <4> QED BY <4>1, <4>2, Zenon
    <3> HIDE DEF h
    <3> QED BY <3>5, Zenon
  <2> QED BY <2>1, <2>2
<1>2. 0 \in S
  <2>1. 0 \in 0 .. L
    BY <1>0
  <2> HIDE DEF S, L
  <2> QED BY <1>0, <1>1, <2>1, Downward, Zenon
<1> QED BY <1>2, Zenon

LEMMA ReadingIsItself ==
    ASSUME NEW t \in Jobs
    PROVE  Reading(t) = [k \in 0 .. Len(t.text) |-> ReadingBody(t, Reading(t), k)]
<1> DEFINE P(g) == g = [k \in 0 .. Len(t.text) |-> ReadingBody(t, g, k)]
<1>1. \E g : P(g)
  BY ReadingExists
<1>2. Reading(t) = CHOOSE g : P(g)
  BY Zenon DEF Reading, ReadingBody, Read, Coded, Writes, NextAt
<1>3. P(CHOOSE g : P(g))
  <2> HIDE DEF P
  <2> QED BY <1>1, Zenon
<1> QED BY <1>2, <1>3, Zenon

From(t, k, s) == Reading(t)[k][s]

LEMMA FromIs ==
    ASSUME NEW t \in Jobs, NEW k \in 0 .. Len(t.text), NEW s \in {0, 1}
    PROVE  /\ k = Len(t.text) => From(t, k, s) = Read(<<>>, s, {}, illegal)
           /\ k # Len(t.text) =>
                From(t, k, s) =
                    LET e == Coded(t, k, s)
                        rest == From(t, NextAt(t, k), IF Writes(t, k) THEN e.shift ELSE s)
                    IN  Read(IF Writes(t, k) THEN e.units \o rest.units ELSE rest.units, rest.shift,
                             {Character(t, k).cp} \cup rest.read,
                             IF NextAt(t, k) = Len(t.text) THEN Character(t, k).cp ELSE rest.last)
<1> DEFINE g == Reading(t)
<1>1. g = [j \in 0 .. Len(t.text) |-> ReadingBody(t, g, j)]
  BY ReadingIsItself
<1> HIDE DEF g
<1>2. g[k] = ReadingBody(t, g, k)
  BY <1>1, Zenon
<1>3. g[k][s] = ReadingBody(t, g, k)[s]
  BY <1>2, Zenon
<1>4. From(t, k, s) = g[k][s] /\ \A j, x : From(t, j, x) = g[j][x]
  BY Zenon DEF From, g
<1> QED BY <1>3, <1>4, Zenon DEF ReadingBody

\* The values, field by field.
LEMMA FromEnd ==
    ASSUME NEW t \in Jobs, NEW s \in {0, 1}
    PROVE  LET w == From(t, Len(t.text), s)
           IN  w.units = <<>> /\ w.shift = s /\ w.read = {} /\ w.last = illegal
<1>1. Len(t.text) \in 0 .. Len(t.text)
  BY IconvAssumption
<1> DEFINE w == From(t, Len(t.text), s)
<1>2. w = Read(<<>>, s, {}, illegal)
  BY <1>1, FromIs, Zenon
<1> HIDE DEF w
<1>3. w.units = <<>> /\ w.shift = s /\ w.read = {} /\ w.last = illegal
  BY <1>2 DEF Read
<1> QED BY <1>3, Zenon DEF w

LEMMA FromWritten ==
    ASSUME NEW t \in Jobs, NEW k \in 0 .. Len(t.text), NEW s \in {0, 1}, k # Len(t.text), Writes(t, k)
    PROVE  LET w == From(t, k, s)
               rest == From(t, NextAt(t, k), Coded(t, k, s).shift)
           IN  /\ w.units = Coded(t, k, s).units \o rest.units /\ w.shift = rest.shift
               /\ w.read = {Character(t, k).cp} \cup rest.read
               /\ w.last = IF NextAt(t, k) = Len(t.text) THEN Character(t, k).cp ELSE rest.last
<1> DEFINE w == From(t, k, s)
           rest == From(t, NextAt(t, k), Coded(t, k, s).shift)
           units == Coded(t, k, s).units \o rest.units
           after == rest.shift
           read == {Character(t, k).cp} \cup rest.read
           last == IF NextAt(t, k) = Len(t.text) THEN Character(t, k).cp ELSE rest.last
<1>1. w = Read(units, after, read, last)
  BY FromIs, Zenon
<1> HIDE DEF w, units, after, read, last
<1>2. w.units = units /\ w.shift = after /\ w.read = read /\ w.last = last
  BY <1>1 DEF Read
<1> QED BY <1>2, Zenon DEF w, units, after, read, last

LEMMA FromSkipped ==
    ASSUME NEW t \in Jobs, NEW k \in 0 .. Len(t.text), NEW s \in {0, 1}, k # Len(t.text), ~Writes(t, k)
    PROVE  LET w == From(t, k, s)
               rest == From(t, NextAt(t, k), s)
           IN  /\ w.units = rest.units /\ w.shift = rest.shift
               /\ w.read = {Character(t, k).cp} \cup rest.read
               /\ w.last = IF NextAt(t, k) = Len(t.text) THEN Character(t, k).cp ELSE rest.last
<1> DEFINE w == From(t, k, s)
           rest == From(t, NextAt(t, k), s)
           units == rest.units
           after == rest.shift
           read == {Character(t, k).cp} \cup rest.read
           last == IF NextAt(t, k) = Len(t.text) THEN Character(t, k).cp ELSE rest.last
<1>1. w = Read(units, after, read, last)
  BY FromIs, Zenon
<1> HIDE DEF w, units, after, read, last
<1>2. w.units = units /\ w.shift = after /\ w.read = read /\ w.last = last
  BY <1>1 DEF Read
<1> QED BY <1>2, Zenon DEF w, units, after, read, last

-----------------------------------------------------------------------------
(* A call of iconv. *)

Why(t, k, s, room) == IF k = Len(t.text) THEN "ok" ELSE Obstacle(t.to, Character(t, k).cp, s, room)

After(t, g, k, s, room) == g[k + Character(t, k).len][Coded(t, k, s).shift][room - Len(Coded(t, k, s).units)]

CallsBody(t, g, k) ==
    [s \in {0, 1} |-> [room \in 0 .. Room |->
        IF Why(t, k, s, room) # "none" THEN Outcome(k, <<>>, s, Why(t, k, s, room), {})
        ELSE [After(t, g, k, s, room) EXCEPT
                !.units = Coded(t, k, s).units \o @,
                !.inexact = @ \cup (IF Coded(t, k, s).exact THEN {} ELSE {Character(t, k).cp})]]]

LEMMA WhyIs ==
    ASSUME NEW t \in Jobs, NEW k \in 0 .. Len(t.text), NEW s \in {0, 1}, NEW room
    PROVE  /\ k = Len(t.text) => Why(t, k, s, room) = "ok"
           /\ k # Len(t.text) /\ ~Writes(t, k) => Why(t, k, s, room) \in {"EINVAL", "EILSEQ"}
           /\ k # Len(t.text) /\ Writes(t, k) =>
                Why(t, k, s, room) = IF Len(Coded(t, k, s).units) > room THEN "E2BIG" ELSE "none"
  BY Zenon DEF Why, Obstacle, Writes, Coded

LEMMA CallsBodyDepends ==
    ASSUME NEW t \in Jobs, NEW k \in 0 .. Len(t.text), NEW g, NEW h,
           k # Len(t.text) => g[NextAt(t, k)] = h[NextAt(t, k)]
    PROVE  CallsBody(t, g, k) = CallsBody(t, h, k)
<1>1. ASSUME NEW s \in {0, 1}, NEW room \in 0 .. Room, Why(t, k, s, room) = "none"
      PROVE  After(t, g, k, s, room) = After(t, h, k, s, room)
  <2>1. k # Len(t.text) /\ Writes(t, k)
    BY <1>1, WhyIs
  <2>2. Character(t, k).cp >= 0
    BY <2>1, CodedTyped, Zenon
  <2>3. NextAt(t, k) = k + Character(t, k).len
    BY <2>1, <2>2, CharacterTyped, Zenon
  <2>4. g[k + Character(t, k).len] = h[k + Character(t, k).len]
    BY <2>1, <2>3, Zenon
  <2> QED BY <2>4, Zenon DEF After
<1> DEFINE A(f, s, room) ==
             IF Why(t, k, s, room) # "none" THEN Outcome(k, <<>>, s, Why(t, k, s, room), {})
             ELSE [After(t, f, k, s, room) EXCEPT
                     !.units = Coded(t, k, s).units \o @,
                     !.inexact = @ \cup (IF Coded(t, k, s).exact THEN {} ELSE {Character(t, k).cp})]
<1>2. ASSUME NEW s \in {0, 1}, NEW room \in 0 .. Room
      PROVE  A(g, s, room) = A(h, s, room)
  BY <1>1, Zenon
<1>3. /\ CallsBody(t, g, k) = [s \in {0, 1} |-> [room \in 0 .. Room |-> A(g, s, room)]]
      /\ CallsBody(t, h, k) = [s \in {0, 1} |-> [room \in 0 .. Room |-> A(h, s, room)]]
  BY Zenon DEF CallsBody
<1> HIDE DEF A
<1>4. ASSUME NEW s \in {0, 1}
      PROVE  [room \in 0 .. Room |-> A(g, s, room)] = [room \in 0 .. Room |-> A(h, s, room)]
  BY <1>2, Zenon
<1> QED BY <1>3, <1>4, Zenon

LEMMA CallsExist ==
    ASSUME NEW t \in Jobs
    PROVE  \E g : g = [k \in 0 .. Len(t.text) |-> CallsBody(t, g, k)]
<1> DEFINE L == Len(t.text)
           P(g, k) == g = [x \in k .. L |-> CallsBody(t, g, x)]
           S == {k \in 0 .. L : \E g : P(g, k)}
<1>0. L \in Nat
  BY IconvAssumption
<1>1. ASSUME NEW k \in 0 .. L, \A j \in 0 .. L : j > k => j \in S
      PROVE  k \in S
  <2>1. CASE k = L
    <3> DEFINE g == [x \in {k} |-> CallsBody(t, <<>>, k)]
    <3>1. CallsBody(t, g, k) = CallsBody(t, <<>>, k)
      <4> HIDE DEF g
      <4> QED BY <2>1, CallsBodyDepends, Zenon
    <3>2. k .. L = {k}
      BY <1>0, <2>1
    <3>3. g = [x \in {k} |-> CallsBody(t, g, x)]
      <4>1. \A x \in {k} : CallsBody(t, g, x) = CallsBody(t, <<>>, k)
        BY <3>1, Zenon
      <4> HIDE DEF g
      <4>2. [x \in {k} |-> CallsBody(t, g, x)] = [x \in {k} |-> CallsBody(t, <<>>, k)]
        BY <4>1, Zenon
      <4> QED BY <4>2, Zenon DEF g
    <3> HIDE DEF g
    <3>4. P(g, k)
      BY <3>2, <3>3, Zenon
    <3> QED BY <3>4, Zenon
  <2>2. CASE k # L
    <3>1. k + 1 \in 0 .. L /\ k + 1 > k
      BY <1>0, <2>2
    <3>2. PICK g : P(g, k + 1)
      BY <1>1, <3>1, Zenon
    <3> DEFINE h == [x \in k .. L |-> IF x = k THEN CallsBody(t, g, k) ELSE g[x]]
    <3>3. ASSUME NEW x \in k .. L
          PROVE  CallsBody(t, h, x) = CallsBody(t, g, x)
      <4>1. x \in 0 .. L
        BY <1>0
      <4>2. ASSUME x # L
            PROVE  h[NextAt(t, x)] = g[NextAt(t, x)]
        <5>1. NextAt(t, x) \in x + 1 .. L
          BY <4>1, <4>2, CharacterTyped
        <5>2. NextAt(t, x) \in k .. L /\ NextAt(t, x) # k
          BY <1>0, <5>1
        <5> QED BY <5>2, Zenon
      <4> HIDE DEF h
      <4> QED BY <4>1, <4>2, CallsBodyDepends, Zenon
    <3>4. ASSUME NEW x \in k .. L
          PROVE  h[x] = CallsBody(t, g, x)
      <4>1. CASE x = k
        BY <4>1, Zenon
      <4>2. CASE x # k
        <5>1. x \in k + 1 .. L
          BY <1>0, <4>2
        <5>2. g[x] = CallsBody(t, g, x)
          BY <3>2, <5>1, Zenon
        <5> QED BY <4>2, <5>2, Zenon
      <4> QED BY <4>1, <4>2
    <3>5. P(h, k)
      <4>1. \A x \in k .. L : h[x] = CallsBody(t, h, x)
        BY <3>3, <3>4, Zenon
      <4>2. h = [x \in k .. L |-> h[x]]
        BY Zenon
      <4> HIDE DEF h
      <4> QED BY <4>1, <4>2, Zenon
    <3> HIDE DEF h
    <3> QED BY <3>5, Zenon
  <2> QED BY <2>1, <2>2
<1>2. 0 \in S
  <2>1. 0 \in 0 .. L
    BY <1>0
  <2> HIDE DEF S, L
  <2> QED BY <1>0, <1>1, <2>1, Downward, Zenon
<1> QED BY <1>2, Zenon

LEMMA CallsAreThemselves ==
    ASSUME NEW t \in Jobs
    PROVE  Calls(t) = [k \in 0 .. Len(t.text) |-> CallsBody(t, Calls(t), k)]
<1> DEFINE P(g) == g = [k \in 0 .. Len(t.text) |-> CallsBody(t, g, k)]
<1>1. \E g : P(g)
  BY CallsExist
<1>2. Calls(t) = CHOOSE g : P(g)
  BY Zenon DEF Calls, CallsBody, Why, After, Coded
<1>3. P(CHOOSE g : P(g))
  <2> HIDE DEF P
  <2> QED BY <1>1, Zenon
<1> QED BY <1>2, <1>3, Zenon

Call(t, k, s, room) == Calls(t)[k][s][room]

\* What a call gives: it stops at once, or goes on with the rest of its room.
Outcomes ==
    [at : Nat, units : Seq(Nat), shift : {0, 1}, res : {"ok", "EINVAL", "EILSEQ", "E2BIG"}, inexact : SUBSET Int]

Halts(c, k, s) == c.at = k /\ c.units = <<>> /\ c.shift = s /\ c.inexact = {}

Unfolds(t, k, s, room) ==
    LET c == Call(t, k, s, room)
        e == Coded(t, k, s)
        rest == Call(t, NextAt(t, k), e.shift, room - Len(e.units))
    IN  /\ Why(t, k, s, room) # "none" => c = Outcome(k, <<>>, s, Why(t, k, s, room), {})
        /\ Why(t, k, s, room) = "none" =>
             c = [rest EXCEPT !.units = e.units \o @,
                              !.inexact = @ \cup (IF e.exact THEN {} ELSE {Character(t, k).cp})]

LEMMA CallUnfolds ==
    ASSUME NEW t \in Jobs, NEW k \in 0 .. Len(t.text), NEW s \in {0, 1}, NEW room \in 0 .. Room
    PROVE  Unfolds(t, k, s, room)
<1> DEFINE g == Calls(t)
           c == Call(t, k, s, room)
<1>1. g = [j \in 0 .. Len(t.text) |-> CallsBody(t, g, j)]
  BY CallsAreThemselves
<1> HIDE DEF g
<1>2. g[k] = CallsBody(t, g, k)
  BY <1>1, Zenon
<1>3. g[k][s][room] = CallsBody(t, g, k)[s][room]
  BY <1>2, Zenon
<1>4. c = g[k][s][room] /\ \A j, x, y : Call(t, j, x, y) = g[j][x][y]
  BY Zenon DEF Call, g
<1> HIDE DEF c
<1>5. CASE Why(t, k, s, room) # "none"
  <2>1. c = Outcome(k, <<>>, s, Why(t, k, s, room), {})
    BY <1>3, <1>4, <1>5, Zenon DEF CallsBody
  <2> QED BY <1>5, <2>1, Zenon DEF c, Unfolds
<1>6. CASE Why(t, k, s, room) = "none"
  <2>1. k # Len(t.text) /\ Writes(t, k)
    BY <1>6, WhyIs
  <2>2. Character(t, k).cp >= 0
    BY <2>1, CodedTyped, Zenon
  <2>3. NextAt(t, k) = k + Character(t, k).len
    BY <2>1, <2>2, CharacterTyped, Zenon
  <2> DEFINE e == Coded(t, k, s)
             rest == Call(t, NextAt(t, k), e.shift, room - Len(e.units))
  <2>4. After(t, g, k, s, room) = rest
    <3>1. After(t, g, k, s, room) = g[NextAt(t, k)][e.shift][room - Len(e.units)]
      BY <2>3, Zenon DEF After
    <3> HIDE DEF e
    <3>2. rest = g[NextAt(t, k)][e.shift][room - Len(e.units)]
      <4>1. \A j, x, z : Call(t, j, x, z) = g[j][x][z]
        BY <1>4
      <4> QED BY <4>1
    <3> QED BY <3>1, <3>2, Zenon DEF e
  <2> HIDE DEF e, rest
  <2>5. c = [rest EXCEPT !.units = e.units \o @,
                         !.inexact = @ \cup (IF e.exact THEN {} ELSE {Character(t, k).cp})]
    BY <1>3, <1>4, <1>6, <2>4, Zenon DEF CallsBody, e
  <2> QED BY <1>6, <2>5, Zenon DEF c, e, rest, Unfolds
<1> QED BY <1>5, <1>6, Zenon DEF Unfolds

Continues(c, rest, u, odd) ==
    /\ c.at = rest.at /\ c.units = u \o rest.units /\ c.shift = rest.shift /\ c.res = rest.res
    /\ c.inexact = rest.inexact \cup odd

LEMMA GoesOn ==
    ASSUME NEW rest \in Outcomes, NEW u \in Seq(Nat), NEW odd \in SUBSET Int, NEW c,
           c = [rest EXCEPT !.units = u \o @, !.inexact = @ \cup odd]
    PROVE  c \in Outcomes /\ Continues(c, rest, u, odd)
<1> DEFINE both == u \o rest.units
           all == rest.inexact \cup odd
<1>1. both \in Seq(Nat) /\ all \in SUBSET Int
  BY DEF Outcomes
<1>2. c = [rest EXCEPT !.units = both, !.inexact = all]
  BY Zenon
<1> HIDE DEF both, all
<1>3. /\ c \in Outcomes
      /\ c.at = rest.at /\ c.units = both /\ c.shift = rest.shift /\ c.res = rest.res /\ c.inexact = all
  BY <1>1, <1>2 DEF Outcomes
<1> QED BY <1>3, Zenon DEF both, all, Continues

LEMMA CallTyped ==
    ASSUME NEW t \in Jobs
    PROVE  \A k \in 0 .. Len(t.text) : \A s \in {0, 1}, room \in 0 .. Room : Call(t, k, s, room) \in Outcomes
<1> DEFINE L == Len(t.text)
           P(k) == \A s \in {0, 1}, room \in 0 .. Room : Call(t, k, s, room) \in Outcomes
           S == {k \in 0 .. L : P(k)}
<1>0. L \in Nat /\ Room \in Nat
  BY IconvAssumption
<1>1. ASSUME NEW k \in 0 .. L, \A j \in 0 .. L : j > k => j \in S
      PROVE  k \in S
  <2> SUFFICES ASSUME NEW s \in {0, 1}, NEW room \in 0 .. Room
               PROVE  Call(t, k, s, room) \in Outcomes
    OBVIOUS
  <2> DEFINE c == Call(t, k, s, room)
             e == Coded(t, k, s)
             rest == Call(t, NextAt(t, k), e.shift, room - Len(e.units))
             y == Why(t, k, s, room)
  <2>0. Unfolds(t, k, s, room)
    BY CallUnfolds, Zenon
  <2>1. CASE y # "none"
    <3>1. c = Outcome(k, <<>>, s, y, {})
      BY <2>0, <2>1, Zenon DEF Unfolds
    <3>2. y \in {"ok", "EINVAL", "EILSEQ", "E2BIG"}
      BY <2>1, WhyIs
    <3> HIDE DEF c, y
    <3> QED BY <1>0, <3>1, <3>2 DEF Outcome, Outcomes, c
  <2>2. CASE y = "none"
    <3>1. k # L /\ Writes(t, k) /\ ~(Len(e.units) > room)
      BY <2>2, WhyIs
    <3>2. e.units \in Seq(Nat) /\ e.shift \in {0, 1} /\ Character(t, k).cp \in Int
      BY <3>1, CodedTyped, CharacterTyped, Zenon
    <3>3. NextAt(t, k) \in 0 .. L /\ NextAt(t, k) > k
      BY <1>0, <3>1, CharacterTyped
    <3>4. room - Len(e.units) \in 0 .. Room
      <4>1. Len(e.units) \in Nat
        BY <3>2
      <4> QED BY <1>0, <3>1, <4>1
    <3>5. P(NextAt(t, k))
      BY <1>1, <3>3, Zenon
    <3>6. rest \in Outcomes
      BY <3>2, <3>4, <3>5, Zenon
    <3> DEFINE odd == IF e.exact THEN {} ELSE {Character(t, k).cp}
    <3>7. c = [rest EXCEPT !.units = e.units \o @, !.inexact = @ \cup odd]
      BY <2>0, <2>2, Zenon DEF Unfolds
    <3>8. odd \in SUBSET Int
      BY <3>2, Zenon
    <3> HIDE DEF c, e, rest, odd
    <3>9. c \in Outcomes
      BY <3>2, <3>6, <3>7, <3>8, GoesOn, Zenon
    <3> QED BY <3>9 DEF c
  <2> QED BY <2>1, <2>2
<1> HIDE DEF S
<1>2. \A k \in 0 .. L : k \in S
  BY <1>0, <1>1, Downward, Zenon
<1> QED BY <1>2, Zenon DEF S

Proceeds(t, k, s, room) ==
    LET c == Call(t, k, s, room)
        e == Coded(t, k, s)
        rest == Call(t, NextAt(t, k), e.shift, room - Len(e.units))
    IN  /\ k = Len(t.text) => Halts(c, k, s) /\ c.res = "ok"
        /\ k # Len(t.text) /\ ~Writes(t, k) => Halts(c, k, s) /\ c.res \in {"EINVAL", "EILSEQ"}
        /\ k # Len(t.text) /\ Writes(t, k) /\ Len(e.units) > room => Halts(c, k, s) /\ c.res = "E2BIG"
        /\ k # Len(t.text) /\ Writes(t, k) /\ ~(Len(e.units) > room) =>
             /\ NextAt(t, k) \in 0 .. Len(t.text) /\ NextAt(t, k) > k
             /\ e.shift \in {0, 1} /\ room - Len(e.units) \in 0 .. Room
             /\ c.at = rest.at /\ c.units = e.units \o rest.units /\ c.shift = rest.shift /\ c.res = rest.res
             /\ c.inexact = rest.inexact \cup (IF e.exact THEN {} ELSE {Character(t, k).cp})

LEMMA CallIs ==
    ASSUME NEW t \in Jobs, NEW k \in 0 .. Len(t.text), NEW s \in {0, 1}, NEW room \in 0 .. Room
    PROVE  Proceeds(t, k, s, room)
<1> DEFINE c == Call(t, k, s, room)
           e == Coded(t, k, s)
           rest == Call(t, NextAt(t, k), e.shift, room - Len(e.units))
           y == Why(t, k, s, room)
<1>0. Len(t.text) \in Nat /\ Room \in Nat
  BY IconvAssumption
<1>6. Unfolds(t, k, s, room)
  BY CallUnfolds, Zenon
<1>1. ASSUME y # "none"
      PROVE  Halts(c, k, s) /\ c.res = y
  <2>1. c = Outcome(k, <<>>, s, y, {})
    BY <1>6, <1>1, Zenon DEF Unfolds
  <2> HIDE DEF c, y
  <2>2. c.at = k /\ c.units = <<>> /\ c.shift = s /\ c.res = y /\ c.inexact = {}
    BY <2>1 DEF Outcome
  <2> QED BY <2>2, Zenon DEF Halts
<1>2. CASE k = Len(t.text)
  <2>1. y = "ok"
    BY <1>2, WhyIs, Zenon
  <2> HIDE DEF y
  <2> QED BY <1>1, <1>2, <2>1, Zenon DEF Proceeds
<1>3. CASE k # Len(t.text) /\ ~Writes(t, k)
  <2>1. y \in {"EINVAL", "EILSEQ"}
    BY <1>3, WhyIs, Zenon
  <2> HIDE DEF y
  <2> QED BY <1>1, <1>3, <2>1, Zenon DEF Proceeds
<1>4. CASE k # Len(t.text) /\ Writes(t, k) /\ Len(e.units) > room
  <2>1. y = "E2BIG"
    BY <1>4, WhyIs, Zenon
  <2> HIDE DEF y
  <2> QED BY <1>1, <1>4, <2>1, Zenon DEF Proceeds
<1>5. CASE k # Len(t.text) /\ Writes(t, k) /\ ~(Len(e.units) > room)
  <2>1. y = "none"
    BY <1>5, WhyIs, Zenon
  <2>2. e.units \in Seq(Nat) /\ e.shift \in {0, 1} /\ Character(t, k).cp \in Int
    BY <1>5, CodedTyped, CharacterTyped, Zenon
  <2>3. NextAt(t, k) \in 0 .. Len(t.text) /\ NextAt(t, k) > k
    BY <1>0, <1>5, CharacterTyped
  <2>4. room - Len(e.units) \in 0 .. Room
    <3>1. Len(e.units) \in Nat
      BY <2>2
    <3> QED BY <1>0, <1>5, <3>1
  <2>5. rest \in Outcomes
    BY <2>2, <2>3, <2>4, CallTyped, Zenon
  <2> DEFINE odd == IF e.exact THEN {} ELSE {Character(t, k).cp}
  <2>6. c = [rest EXCEPT !.units = e.units \o @, !.inexact = @ \cup odd]
    BY <1>6, <2>1, Zenon DEF Unfolds
  <2>7. odd \in SUBSET Int
    BY <2>2, Zenon
  <2> HIDE DEF c, e, rest, odd
  <2>8. /\ c.at = rest.at /\ c.units = e.units \o rest.units /\ c.shift = rest.shift /\ c.res = rest.res
        /\ c.inexact = rest.inexact \cup odd
    <3> DEFINE u == e.units
    <3>1. u \in Seq(Nat) /\ c = [rest EXCEPT !.units = u \o @, !.inexact = @ \cup odd]
      BY <2>2, <2>6, Zenon
    <3> HIDE DEF u
    <3>2. Continues(c, rest, u, odd)
      BY <2>5, <2>7, <3>1, GoesOn, Zenon
    <3> QED BY <3>2, Zenon DEF Continues, u
  <2> QED BY <1>5, <2>2, <2>3, <2>4, <2>8, Zenon DEF c, e, rest, odd, Proceeds
<1> QED BY <1>2, <1>3, <1>4, <1>5, Zenon

-----------------------------------------------------------------------------
(* A call against the reading of the whole text: what it wrote and what is    *)
(* left of the text are that reading.                                         *)

LEMMA FromTyped ==
    ASSUME NEW t \in Jobs
    PROVE  \A k \in 0 .. Len(t.text) : \A s \in {0, 1} : From(t, k, s).units \in Seq(Nat)
<1> DEFINE L == Len(t.text)
           P(k) == \A s \in {0, 1} : From(t, k, s).units \in Seq(Nat)
           S == {k \in 0 .. L : P(k)}
<1>0. L \in Nat
  BY IconvAssumption
<1>1. ASSUME NEW k \in 0 .. L, \A j \in 0 .. L : j > k => j \in S
      PROVE  k \in S
  <2> SUFFICES ASSUME NEW s \in {0, 1}
               PROVE  From(t, k, s).units \in Seq(Nat)
    OBVIOUS
  <2>1. CASE k = L
    <3>1. From(t, k, s).units = <<>>
      BY <2>1, FromEnd, Zenon
    <3> QED BY <3>1
  <2>2. CASE k # L
    <3>1. NextAt(t, k) \in 0 .. L /\ NextAt(t, k) > k
      BY <1>0, <2>2, CharacterTyped
    <3>2. P(NextAt(t, k))
      BY <1>1, <3>1, Zenon
    <3>3. CASE Writes(t, k)
      <4> DEFINE u == Coded(t, k, s).units
                 v == From(t, NextAt(t, k), Coded(t, k, s).shift).units
      <4>1. u \in Seq(Nat) /\ v \in Seq(Nat)
        BY <2>2, <3>2, <3>3, CodedTyped, Zenon
      <4>2. From(t, k, s).units = u \o v
        BY <2>2, <3>3, FromWritten, Zenon
      <4> HIDE DEF u, v
      <4> QED BY <4>1, <4>2
    <3>4. CASE ~Writes(t, k)
      <4>1. From(t, k, s).units = From(t, NextAt(t, k), s).units
        BY <2>2, <3>4, FromSkipped, Zenon
      <4> QED BY <3>2, <4>1, Zenon
    <3> QED BY <3>3, <3>4
  <2> QED BY <2>1, <2>2
<1> HIDE DEF S
<1>2. \A k \in 0 .. L : k \in S
  BY <1>0, <1>1, Downward, Zenon
<1> QED BY <1>2, Zenon DEF S

Works(t, k, room, c, w, x) ==
    /\ c.at \in k .. Len(t.text)
    /\ w.units = c.units \o x.units /\ w.shift = x.shift
    /\ x.read \subseteq w.read
    /\ \A u \in w.read : Writable(t.to, u) \/ u \in x.read
    /\ \A u \in c.inexact : u \in w.read /\ ~Exact(t.to, u)
    /\ c.at # Len(t.text) => w.last = x.last
    /\ c.at = Len(t.text) /\ k # Len(t.text) => Writable(t.to, w.last)
    /\ c.res = "ok" => c.at = Len(t.text)
    /\ c.res \in {"EINVAL", "EILSEQ"} => c.at # Len(t.text) /\ ~Writes(t, c.at)
    /\ c.res = "E2BIG" => c.at # Len(t.text) /\ (c.at = k => room < Room)

LEMMA HaltWorks ==
    ASSUME NEW t \in Jobs, NEW k \in 0 .. Len(t.text), NEW s \in {0, 1}, NEW room \in 0 .. Room,
           NEW c, Halts(c, k, s), NEW w, w = From(t, k, s), w.units \in Seq(Nat),
           c.res = "ok" => k = Len(t.text),
           c.res \in {"EINVAL", "EILSEQ"} => k # Len(t.text) /\ ~Writes(t, k),
           c.res = "E2BIG" => k # Len(t.text) /\ room < Room
    PROVE  Works(t, k, room, c, w, From(t, c.at, c.shift))
<1>1. c.at = k /\ c.units = <<>> /\ c.shift = s /\ c.inexact = {}
  BY Zenon DEF Halts
<1>2. From(t, c.at, c.shift) = w
  BY <1>1, Zenon
<1>3. w.units = c.units \o w.units
  <2> DEFINE u == w.units
  <2>1. u = <<>> \o u
    <3>1. u \in Seq(Nat)
      OBVIOUS
    <3> HIDE DEF u
    <3> QED BY <3>1
  <2> QED BY <1>1, <2>1, Zenon
<1>4. c.at \in k .. Len(t.text)
  BY <1>1, IconvAssumption
<1> QED BY <1>1, <1>2, <1>3, <1>4, Zenon DEF Works

\* Of three texts in a row, the first two may be joined first.
Grouped(a1, a2, a3) == (a1 \o a2) \o a3 = a1 \o (a2 \o a3)

LEMMA Associates ==
    ASSUME NEW a1 \in Seq(Nat), NEW a2 \in Seq(Nat), NEW a3 \in Seq(Nat)
    PROVE  Grouped(a1, a2, a3)
  BY SMTT(60) DEF Grouped

LEMMA CallWorks ==
    ASSUME NEW t \in Jobs
    PROVE  \A k \in 0 .. Len(t.text) : \A s \in {0, 1}, room \in 0 .. Room :
              LET c == Call(t, k, s, room)
              IN  Works(t, k, room, c, From(t, k, s), From(t, c.at, c.shift))
<1> DEFINE L == Len(t.text)
           P(k) == \A s \in {0, 1}, room \in 0 .. Room :
                      LET c == Call(t, k, s, room)
                      IN  Works(t, k, room, c, From(t, k, s), From(t, c.at, c.shift))
           S == {k \in 0 .. L : P(k)}
<1>0. L \in Nat /\ Room \in Nat
  BY IconvAssumption
<1>1. ASSUME NEW k \in 0 .. L, \A j \in 0 .. L : j > k => j \in S
      PROVE  k \in S
  <2> SUFFICES ASSUME NEW s \in {0, 1}, NEW room \in 0 .. Room
               PROVE  Works(t, k, room, Call(t, k, s, room), From(t, k, s),
                            From(t, Call(t, k, s, room).at, Call(t, k, s, room).shift))
    BY Zenon
  <2> DEFINE c == Call(t, k, s, room)
             w == From(t, k, s)
             e == Coded(t, k, s)
  <2>0. w.units \in Seq(Nat) /\ Proceeds(t, k, s, room)
    BY FromTyped, CallIs, Zenon
  <2>1. CASE k = L
    <3>1. Halts(c, k, s) /\ c.res = "ok"
      BY <2>0, <2>1, Zenon DEF Proceeds
    <3> HIDE DEF c, w
    <3> QED BY <2>0, <2>1, <3>1, HaltWorks, Zenon DEF c, w
  <2>2. CASE k # L /\ ~Writes(t, k)
    <3>1. Halts(c, k, s) /\ c.res \in {"EINVAL", "EILSEQ"}
      BY <2>0, <2>2, Zenon DEF Proceeds
    <3> QED BY <2>0, <2>2, <3>1, HaltWorks, Zenon
  <2>3. CASE k # L /\ Writes(t, k) /\ Len(e.units) > room
    <3>1. Halts(c, k, s) /\ c.res = "E2BIG"
      BY <2>0, <2>3, Zenon DEF Proceeds
    <3>2. room < Room
      <4>1. e.units \in Seq(Nat) /\ Len(e.units) <= Room
        BY <2>3, CodedTyped, Zenon
      <4>2. Len(e.units) \in Nat
        BY <4>1
      <4> QED BY <1>0, <2>3, <4>1, <4>2
    <3> QED BY <2>0, <2>3, <3>1, <3>2, HaltWorks, Zenon
  <2>4. CASE k # L /\ Writes(t, k) /\ ~(Len(e.units) > room)
    <3> DEFINE n == NextAt(t, k)
               less == room - Len(e.units)
               rest == Call(t, n, e.shift, less)
               odd == IF e.exact THEN {} ELSE {Character(t, k).cp}
               v == From(t, n, e.shift)
               x == From(t, c.at, c.shift)
               cp == Character(t, k).cp
    <3>1. /\ n \in 0 .. L /\ n > k /\ e.shift \in {0, 1} /\ less \in 0 .. Room
          /\ c.at = rest.at /\ c.units = e.units \o rest.units /\ c.shift = rest.shift /\ c.res = rest.res
          /\ c.inexact = rest.inexact \cup odd
      BY <2>0, <2>4, Zenon DEF Proceeds
    <3>2. P(n)
      BY <1>1, <3>1, Zenon
    <3>3. Works(t, n, less, rest, v, x)
      BY <3>1, <3>2, Zenon
    <3>4. /\ w.units = e.units \o v.units /\ w.shift = v.shift /\ w.read = {cp} \cup v.read
          /\ w.last = IF n = L THEN cp ELSE v.last
      BY <2>4, FromWritten, Zenon
    <3>5. e.units \in Seq(Nat) /\ (~e.exact => ~Exact(t.to, cp)) /\ Writable(t.to, cp)
      BY <2>4, CodedTyped, Zenon DEF Writes
    <3>6. rest \in Outcomes
      BY <3>1, CallTyped, Zenon
    <3>7. c.at \in k .. L /\ c.at > k /\ (n = L => c.at = L) /\ k # L
      <4>1. rest.at \in n .. L
        BY <3>3, Zenon DEF Works
      <4> DEFINE a == rest.at
                 m == n
      <4>2. c.at = a /\ a \in m .. L /\ m > k /\ m \in 0 .. L
        BY <3>1, <4>1, Zenon
      <4> HIDE DEF a, m, L, c
      <4>3. c.at \in k .. L /\ c.at > k /\ (m = L => c.at = L) /\ k # L
        BY <1>0, <2>4, <4>2
      <4> QED BY <4>3 DEF m
    <3>8. x.units \in Seq(Nat)
      <4>1. c.at \in 0 .. L
        BY <1>0, <3>7
      <4>2. c.shift \in {0, 1}
        BY <3>1, <3>6 DEF Outcomes
      <4> QED BY <4>1, <4>2, FromTyped, Zenon
    <3>9. w.units = c.units \o x.units
      <4>1. rest.units \in Seq(Nat) /\ v.units = rest.units \o x.units
        <5>1. rest.units \in Seq(Nat)
          BY <3>6, Zenon DEF Outcomes
        <5>2. v.units = rest.units \o x.units
          BY <3>3, Zenon DEF Works
        <5> QED BY <5>1, <5>2
      <4> DEFINE a1 == e.units
                 a2 == rest.units
                 a3 == x.units
      <4>2. a1 \in Seq(Nat) /\ a2 \in Seq(Nat) /\ a3 \in Seq(Nat) /\ w.units = a1 \o (a2 \o a3) /\ c.units = a1 \o a2
        BY <3>1, <3>4, <3>5, <3>8, <4>1, Zenon
      <4> HIDE DEF a1, a2, a3, w, c
      <4>3. Grouped(a1, a2, a3)
        BY <4>2, Associates, Zenon
      <4>4. w.units = c.units \o a3
        BY <4>2, <4>3, Zenon DEF Grouped
      <4> QED BY <4>4, Zenon DEF a3
    <3> HIDE DEF c, w, e, n, less, rest, v, x, cp, L
    <3>10. /\ w.shift = x.shift /\ x.read \subseteq w.read
           /\ \A u \in w.read : Writable(t.to, u) \/ u \in x.read
      BY <3>3, <3>4, <3>5, Zenon DEF Works
    <3>11. \A u \in c.inexact : u \in w.read /\ ~Exact(t.to, u)
      <4>1. \A u \in odd : u \in w.read /\ ~Exact(t.to, u)
        BY <3>4, <3>5, Zenon DEF e, cp
      <4> HIDE DEF odd
      <4> QED BY <3>1, <3>3, <3>4, <4>1, Zenon DEF Works
    <3>12. /\ c.at # L => w.last = x.last
           /\ c.at = L => Writable(t.to, w.last)
      BY <3>1, <3>3, <3>4, <3>5, <3>7, Zenon DEF Works, L
    <3>13. /\ c.res = "ok" => c.at = L
           /\ c.res \in {"EINVAL", "EILSEQ"} => c.at # L /\ ~Writes(t, c.at)
           /\ c.res = "E2BIG" => c.at # L
      BY <3>1, <3>3, Zenon DEF Works, L
    <3>14. c.at # k
      BY <3>7
    <3>15. Works(t, k, room, c, w, x)
      BY <3>7, <3>9, <3>10, <3>11, <3>12, <3>13, <3>14, Zenon DEF Works, L
    <3> QED BY <3>15, Zenon DEF c, w, x
  <2> QED BY <2>1, <2>2, <2>3, <2>4, Zenon
<1> HIDE DEF S
<1>2. \A k \in 0 .. L : k \in S
  BY <1>0, <1>1, Downward, Zenon
<1> QED BY <1>2, Zenon DEF S

\* A character that is not written can as well be skipped unit by unit.
LEMMA SkipOne ==
    ASSUME NEW t \in Jobs, ~DoubleByte(t), NEW k \in 0 .. Len(t.text), k # Len(t.text), ~Writes(t, k),
           NEW s \in {0, 1}
    PROVE  LET w == From(t, k, s)
               x == From(t, k + 1, s)
           IN  /\ k + 1 \in 0 .. Len(t.text)
               /\ w.units = x.units /\ w.shift = x.shift
               /\ k + 1 # Len(t.text) => (Writable(t.to, w.last) <=> Writable(t.to, x.last))
               /\ k + 1 = Len(t.text) => w.units = <<>> /\ ~Writable(t.to, w.last)
<1> DEFINE L == Len(t.text)
           n == NextAt(t, k)
           rest == From(t, n, s)
           Q(j) == LET y == From(t, j, s)
                   IN  /\ y.units = rest.units /\ y.shift = rest.shift
                       /\ n = L /\ j # n => ~Writable(t.to, y.last)
                       /\ n # L => y.last = rest.last
           S == {j \in 0 .. n : j > k => Q(j)}
<1>0. L \in Nat
  BY IconvAssumption
<1>1. n \in k + 1 .. L /\ k \in 0 .. L - 1 /\ n \in Nat /\ k + 1 \in 0 .. L
  BY <1>0, CharacterTyped
<1>2. ASSUME NEW j \in 0 .. n, \A m \in 0 .. n : m > j => m \in S
      PROVE  j \in S
  <2> SUFFICES ASSUME j > k
               PROVE  Q(j)
    BY Zenon
  <2>1. CASE j = n
    BY <2>1, Zenon
  <2>2. CASE j # n
    <3>1. j \in k + 1 .. n - 1 /\ j \in 0 .. L /\ j # L /\ j + 1 \in 0 .. n /\ j + 1 > j /\ j + 1 > k
      BY <1>0, <1>1, <2>2
    <3>2. Character(t, j).cp < 0
      BY <3>1, Synchronous, Zenon
    <3>3. ~Writes(t, j)
      BY <3>1, <3>2, CodedTyped, CharacterTyped DEF Writes, Writable
    <3>4. NextAt(t, j) = j + 1
      BY <3>2, Zenon DEF NextAt
    <3>5. Q(j + 1)
      BY <1>2, <3>1, Zenon
    <3> DEFINE y == From(t, j, s)
               z == From(t, j + 1, s)
    <3>6. /\ y.units = z.units /\ y.shift = z.shift
          /\ y.last = IF j + 1 = L THEN Character(t, j).cp ELSE z.last
      <4> DEFINE v == From(t, NextAt(t, j), s)
      <4>1. /\ y.units = v.units /\ y.shift = v.shift
            /\ y.last = IF NextAt(t, j) = L THEN Character(t, j).cp ELSE v.last
        BY <3>1, <3>3, FromSkipped, Zenon
      <4>2. v = z
        BY <3>4, Zenon
      <4> HIDE DEF v, y, z
      <4> QED BY <3>4, <4>1, <4>2, Zenon
    <3>7. j + 1 = L => n = L
      BY <1>0, <1>1, <3>1
    <3>8. j + 1 = n /\ n = L => j + 1 = L
      OBVIOUS
    <3>9. ~Writable(t.to, Character(t, j).cp)
      BY <3>3, Zenon DEF Writes
    <3> HIDE DEF y, z, rest, n
    <3>10. /\ y.units = rest.units /\ y.shift = rest.shift
           /\ n = L => ~Writable(t.to, y.last)
           /\ n # L => y.last = rest.last
      BY <3>5, <3>6, <3>7, <3>8, <3>9, Zenon DEF z
    <3> QED BY <3>10, Zenon DEF y
  <2> QED BY <2>1, <2>2
<1>3. \A j \in 0 .. n : j \in S
  <2> HIDE DEF S, n
  <2> QED BY <1>1, <1>2, Downward, Zenon
<1>4. Q(k + 1)
  <2>1. k + 1 \in 0 .. n /\ k + 1 > k
    BY <1>1
  <2> QED BY <1>3, <2>1, Zenon
<1> DEFINE w == From(t, k, s)
           x == From(t, k + 1, s)
<1>5. w.units = rest.units /\ w.shift = rest.shift /\ w.last = IF n = L THEN Character(t, k).cp ELSE rest.last
  BY FromSkipped, Zenon
<1>6. ~Writable(t.to, Character(t, k).cp)
  BY Zenon DEF Writes
<1>7. k + 1 = L => n = L
  BY <1>0, <1>1
<1>8. n = L => rest.units = <<>>
  BY FromEnd, Zenon
<1> HIDE DEF w, rest, n
<1>9. /\ w.units = x.units /\ w.shift = x.shift
      /\ k + 1 # L => (Writable(t.to, w.last) <=> Writable(t.to, x.last))
      /\ k + 1 = L => w.units = <<>> /\ ~Writable(t.to, w.last)
  BY <1>4, <1>5, <1>6, <1>7, <1>8, Zenon DEF x
<1> QED BY <1>1, <1>9, Zenon DEF w

-----------------------------------------------------------------------------
(* The loop: what it has written and what is left of the text are the text.   *)

Ahead(t, b, s, res) ==
    LET w == Whole(t)
        x == From(t, b, s)
    IN  /\ res \in Seq(Nat)
        /\ w.units = res \o x.units /\ w.shift = x.shift
        /\ b # Len(t.text) => (Writable(t.to, w.last) <=> Writable(t.to, x.last))
        /\ b = Len(t.text) => Len(t.text) = 0 \/ Writable(t.to, w.last)
        /\ t.how = "stop" =>
             x.read \subseteq w.read /\ \A u \in w.read : Writable(t.to, u) \/ u \in x.read

LoopTyped ==
    /\ job \in Jobs /\ begin \in 0 .. Len(job.text) /\ shift \in {0, 1} /\ r \in {"open", "done", "thrown"}

LoopInv == LoopTyped /\ (~DoubleByte(job) /\ r = "open" => Ahead(job, begin, shift, sresult)) /\ BufferDoesNotShow

\* One call leaves the loop ahead, and its inexact characters are the text's.
LEMMA CallAdvances ==
    ASSUME NEW t \in Jobs, NEW b \in 0 .. Len(t.text), b # Len(t.text), NEW s \in {0, 1}, NEW res,
           Ahead(t, b, s, res), NEW c, c = Call(t, b, s, Room)
    PROVE  /\ Ahead(t, c.at, c.shift, res \o c.units)
           /\ t.how = "stop" /\ c.inexact # {} => \E u \in Whole(t).read : ~Exact(t.to, u)
<1> DEFINE L == Len(t.text)
           w == Whole(t)
           y == From(t, b, s)
           x == From(t, c.at, c.shift)
           sofar == res \o c.units
<1>0. L \in Nat /\ Room \in Nat /\ Room \in 0 .. Room
  BY IconvAssumption
<1>1. c \in Outcomes /\ Works(t, b, Room, c, y, x)
  BY <1>0, CallTyped, CallWorks, Zenon
<1>2. c.at \in 0 .. L /\ c.shift \in {0, 1} /\ c.units \in Seq(Nat)
  <2>1. c.at \in b .. L
    BY <1>1, Zenon DEF Works
  <2>2. c.at \in 0 .. L
    BY <1>0, <2>1
  <2> QED BY <1>1, <2>2 DEF Outcomes
<1>3. x.units \in Seq(Nat)
  BY <1>2, FromTyped, Zenon
<1>4. sofar \in Seq(Nat) /\ w.units = sofar \o x.units
  <2>1. res \in Seq(Nat) /\ w.units = res \o y.units /\ y.units = c.units \o x.units
    BY <1>1, Zenon DEF Ahead, Works
  <2> DEFINE a2 == c.units
             a3 == x.units
  <2>2. res \in Seq(Nat) /\ a2 \in Seq(Nat) /\ a3 \in Seq(Nat) /\ w.units = res \o (a2 \o a3)
    BY <1>2, <1>3, <2>1, Zenon
  <2> HIDE DEF a2, a3, w
  <2>3. res \o a2 \in Seq(Nat)
    BY <2>2
  <2>4. Grouped(res, a2, a3)
    BY <2>2, Associates, Zenon
  <2>5. w.units = (res \o a2) \o a3
    BY <2>2, <2>4, Zenon DEF Grouped
  <2> QED BY <2>3, <2>5, Zenon DEF a2, a3
<1> HIDE DEF w, y, x, sofar, L
<1>5. /\ w.shift = y.shift /\ (Writable(t.to, w.last) <=> Writable(t.to, y.last))
      /\ t.how = "stop" =>
             y.read \subseteq w.read /\ \A u \in w.read : Writable(t.to, u) \/ u \in y.read
  BY Zenon DEF Ahead, w, y
<1>6. /\ y.shift = x.shift /\ x.read \subseteq y.read
      /\ \A u \in y.read : Writable(t.to, u) \/ u \in x.read
      /\ \A u \in c.inexact : u \in y.read /\ ~Exact(t.to, u)
      /\ c.at # L => y.last = x.last
      /\ c.at = L => Writable(t.to, y.last)
  BY <1>1, Zenon DEF Works, L
<1>7. Ahead(t, c.at, c.shift, sofar)
  BY <1>4, <1>5, <1>6, Zenon DEF Ahead, w, x, L
<1>8. t.how = "stop" /\ c.inexact # {} => \E u \in w.read : ~Exact(t.to, u)
  BY <1>5, <1>6, Zenon
<1> QED BY <1>7, <1>8, Zenon DEF sofar, w

LEMMA LoopStarts == LoopInit => LoopInv
<1> SUFFICES ASSUME LoopInit
             PROVE  LoopInv
  OBVIOUS
<1>1. job \in Jobs /\ begin = 0 /\ shift = 0 /\ sresult = <<>> /\ r = "open"
  BY Zenon DEF LoopInit
<1>2. Len(job.text) \in Nat
  BY <1>1, IconvAssumption
<1>3. LoopTyped
  BY <1>1, <1>2 DEF LoopTyped
<1> DEFINE w == Whole(job)
<1>4. w = From(job, 0, 0)
  BY Zenon DEF Whole, From
<1>5. w.units \in Seq(Nat)
  <2>1. 0 \in 0 .. Len(job.text) /\ 0 \in {0, 1}
    BY <1>2
  <2> QED BY <1>1, <1>4, <2>1, FromTyped, Zenon
<1>6. w.units = <<>> \o w.units
  <2> DEFINE u == w.units
  <2>1. u \in Seq(Nat)
    BY <1>5
  <2> HIDE DEF u
  <2>2. u = <<>> \o u
    BY <2>1
  <2> QED BY <2>2, Zenon DEF u
<1>7. <<>> \in Seq(Nat)
  OBVIOUS
<1>8. Ahead(job, 0, 0, <<>>)
  <2> HIDE DEF w
  <2> QED BY <1>2, <1>4, <1>6, <1>7, Zenon DEF Ahead, w
<1>9. BufferDoesNotShow
  BY <1>1 DEF BufferDoesNotShow
<1> QED BY <1>1, <1>3, <1>8, <1>9, Zenon DEF LoopInv

\* Where an iteration that calls iconv starts, and what it gets.
LEMMA IterationGets ==
    ASSUME LoopInv, r = "open", ~Unshifts, NEW c, c = conv(job)
    PROVE  /\ Len(job.text) \in Nat /\ begin # Len(job.text)
           /\ c.at \in 0 .. Len(job.text) /\ c.shift \in {0, 1}
           /\ c.res = "ok" => c.at = Len(job.text)
           /\ c.res \in {"EINVAL", "EILSEQ"} => c.at # Len(job.text) /\ ~Writes(job, c.at)
           /\ c.res = "E2BIG" => c.at # begin
           /\ ~DoubleByte(job) =>
                /\ Ahead(job, c.at, c.shift, sresult \o c.units)
                /\ job.how = "stop" /\ c.inexact # {} => \E u \in Whole(job).read : ~Exact(job.to, u)
<1> DEFINE L == Len(job.text)
<1>1. job \in Jobs /\ begin \in 0 .. L /\ shift \in {0, 1} /\ begin # L
  BY Zenon DEF LoopInv, LoopTyped, Unshifts
<1>2. L \in Nat /\ Room \in Nat /\ Room \in 0 .. Room
  BY <1>1, IconvAssumption
<1>3. c = Call(job, begin, shift, Room)
  BY Zenon DEF conv, Call
<1>4. c \in Outcomes /\ Works(job, begin, Room, c, From(job, begin, shift), From(job, c.at, c.shift))
  BY <1>1, <1>2, <1>3, CallTyped, CallWorks, Zenon
<1>5. /\ c.at \in begin .. L
      /\ c.res = "ok" => c.at = L
      /\ c.res \in {"EINVAL", "EILSEQ"} => c.at # L /\ ~Writes(job, c.at)
      /\ c.res = "E2BIG" => (c.at = begin => Room < Room)
  BY <1>4, Zenon DEF Works
<1>6. c.at \in 0 .. L
  BY <1>1, <1>2, <1>5
<1>7. c.shift \in {0, 1}
  BY <1>4 DEF Outcomes
<1>8. c.res = "E2BIG" => c.at # begin
  BY <1>2, <1>5
<1>9. ASSUME ~DoubleByte(job)
      PROVE  /\ Ahead(job, c.at, c.shift, sresult \o c.units)
             /\ job.how = "stop" /\ c.inexact # {} => \E u \in Whole(job).read : ~Exact(job.to, u)
  <2>1. Ahead(job, begin, shift, sresult)
    BY <1>9, Zenon DEF LoopInv
  <2> QED BY <1>1, <1>3, <2>1, CallAdvances, Zenon
<1> QED BY <1>1, <1>2, <1>5, <1>6, <1>7, <1>8, <1>9, Zenon

LEMMA ConvertsKeeps == LoopInv /\ Converts => LoopInv'
<1> SUFFICES ASSUME LoopInv, Converts
             PROVE  LoopInv'
  OBVIOUS
<1> DEFINE c == conv(job)
<1>1. /\ r = "open" /\ ~Unshifts /\ c.res = "ok" /\ job' = job
      /\ \/ /\ c.inexact # {} /\ job.how = "stop" /\ r' = "thrown"
            /\ begin' = begin /\ shift' = shift /\ sresult' = sresult
         \/ /\ begin' = c.at /\ shift' = c.shift /\ sresult' = sresult \o c.units /\ r' = r
  BY Zenon DEF Converts
<1> HIDE DEF c
<1>2. /\ c.at \in 0 .. Len(job.text) /\ c.shift \in {0, 1}
      /\ ~DoubleByte(job) =>
           /\ Ahead(job, c.at, c.shift, sresult \o c.units)
           /\ job.how = "stop" /\ c.inexact # {} => \E u \in Whole(job).read : ~Exact(job.to, u)
  BY <1>1, IterationGets, Zenon DEF c
<1>3. LoopTyped
  BY Zenon DEF LoopInv
<1>4. CASE c.inexact # {} /\ job.how = "stop" /\ r' = "thrown" /\ begin' = begin /\ shift' = shift /\ sresult' = sresult
  <2>1. LoopTyped'
    BY <1>1, <1>3, <1>4 DEF LoopTyped
  <2>2. r' # "open" /\ r' # "done"
    BY <1>4
  <2>3. BufferDoesNotShow'
    BY <1>1, <1>2, <1>4, <2>2, Zenon DEF BufferDoesNotShow, DoubleByte
  <2> QED BY <2>1, <2>2, <2>3, Zenon DEF LoopInv
<1>5. CASE begin' = c.at /\ shift' = c.shift /\ sresult' = sresult \o c.units /\ r' = r
  <2>1. LoopTyped'
    BY <1>1, <1>2, <1>3, <1>5, Zenon DEF LoopTyped
  <2>2. r' # "done" /\ r' # "thrown"
    BY <1>1, <1>5
  <2>3. BufferDoesNotShow'
    BY <2>2, Zenon DEF BufferDoesNotShow
  <2>4. ~DoubleByte(job') => Ahead(job', begin', shift', sresult')
    BY <1>1, <1>2, <1>5, Zenon
  <2> QED BY <2>1, <2>3, <2>4, Zenon DEF LoopInv, Ahead, Whole, From, DoubleByte
<1> QED BY <1>1, <1>4, <1>5, Zenon

LEMMA FillsBufferKeeps == LoopInv /\ FillsBuffer => LoopInv'
<1> SUFFICES ASSUME LoopInv, FillsBuffer
             PROVE  LoopInv'
  OBVIOUS
<1> DEFINE c == conv(job)
<1>1. /\ r = "open" /\ ~Unshifts /\ c.res = "E2BIG" /\ job' = job
      /\ begin' = c.at /\ shift' = c.shift /\ sresult' = sresult \o c.units
      /\ c.at # begin => r' = "open"
  BY Zenon DEF FillsBuffer
<1> HIDE DEF c
<1>2. /\ c.at \in 0 .. Len(job.text) /\ c.shift \in {0, 1} /\ c.at # begin
      /\ ~DoubleByte(job) => Ahead(job, c.at, c.shift, sresult \o c.units)
  BY <1>1, IterationGets, Zenon DEF c
<1>3. LoopTyped
  BY Zenon DEF LoopInv
<1>4. r' = "open" /\ r' # "done" /\ r' # "thrown"
  BY <1>1, <1>2
<1>5. LoopTyped'
  BY <1>1, <1>2, <1>3, <1>4, Zenon DEF LoopTyped
<1>6. BufferDoesNotShow'
  BY <1>4, Zenon DEF BufferDoesNotShow
<1>7. ~DoubleByte(job') => Ahead(job', begin', shift', sresult')
  BY <1>1, <1>2, Zenon
<1> QED BY <1>5, <1>6, <1>7, Zenon DEF LoopInv, Ahead, Whole, From, DoubleByte

LEMMA SkipsKeeps == LoopInv /\ Skips => LoopInv'
<1> SUFFICES ASSUME LoopInv, Skips
             PROVE  LoopInv'
  OBVIOUS
<1> DEFINE c == conv(job)
           L == Len(job.text)
           next == c.at + 1
           w == Whole(job)
           y == From(job, c.at, c.shift)
           x == From(job, next, c.shift)
<1>1. /\ r = "open" /\ ~Unshifts /\ c.res \in {"EINVAL", "EILSEQ"} /\ job' = job
      /\ begin' = next /\ shift' = c.shift /\ sresult' = sresult \o c.units
      /\ r' = CASE job.how = "stop" -> "thrown"
                [] job.how = "skip" /\ next >= L -> "done"
                [] OTHER -> "open"
  BY Zenon DEF Skips
<1>2. LoopTyped /\ job \in Jobs
  BY Zenon DEF LoopInv, LoopTyped
<1>3. job.how \in {"skip", "stop"} /\ L \in Nat
  BY <1>2, IconvAssumption
<1> HIDE DEF c
<1>4. /\ c.at \in 0 .. L /\ c.at # L /\ c.shift \in {0, 1} /\ ~Writes(job, c.at)
      /\ ~DoubleByte(job) => Ahead(job, c.at, c.shift, sresult \o c.units)
  BY <1>1, IterationGets, Zenon DEF c
<1>5. next \in 0 .. L /\ (next >= L <=> next = L)
  BY <1>3, <1>4
<1>6. \/ job.how = "stop" /\ r' = "thrown"
      \/ job.how = "skip" /\ next = L /\ r' = "done"
      \/ job.how = "skip" /\ next # L /\ r' = "open"
  BY <1>1, <1>3, <1>5
<1>7. LoopTyped'
  <2>1. r' \in {"open", "done", "thrown"}
    BY <1>6
  <2> HIDE DEF L, next
  <2> QED BY <1>1, <1>2, <1>4, <1>5, <2>1, Zenon DEF LoopTyped, L
<1>8. CASE DoubleByte(job)
  BY <1>1, <1>7, <1>8, Zenon DEF LoopInv, BufferDoesNotShow, DoubleByte
<1>9. CASE ~DoubleByte(job)
  <2>1. /\ sresult' \in Seq(Nat)
        /\ w.units = sresult' \o y.units /\ w.shift = y.shift
        /\ Writable(job.to, w.last) <=> Writable(job.to, y.last)
        /\ job.how = "stop" => y.read \subseteq w.read
    BY <1>1, <1>4, <1>9, Zenon DEF Ahead
  <2>2. /\ y.units = x.units /\ y.shift = x.shift
        /\ next # L => (Writable(job.to, y.last) <=> Writable(job.to, x.last))
        /\ next = L => y.units = <<>> /\ ~Writable(job.to, y.last)
    BY <1>2, <1>4, <1>9, SkipOne, Zenon
  <2>3. CASE job.how = "stop" /\ r' = "thrown"
    <3>1. Character(job, c.at).cp \in y.read
      BY <1>2, <1>4, FromSkipped, Zenon
    <3>2. ~Exact(job.to, Character(job, c.at).cp)
      BY <1>4, Zenon DEF Exact, Writes
    <3>3. \E u \in w.read : ~Exact(job.to, u)
      BY <2>1, <2>3, <3>1, <3>2, Zenon
    <3>4. r' # "open" /\ r' # "done"
      BY <2>3
    <3>5. BufferDoesNotShow'
      BY <1>1, <2>3, <3>3, <3>4, Zenon DEF BufferDoesNotShow
    <3> QED BY <1>7, <3>4, <3>5, Zenon DEF LoopInv
  <2>4. CASE job.how = "skip" /\ next = L /\ r' = "done"
    <3>1. w.units = sresult'
      <4> DEFINE res == sresult'
      <4>1. res \in Seq(Nat) /\ w.units = res \o <<>>
        BY <2>1, <2>2, <2>4, Zenon
      <4> HIDE DEF res, w
      <4>2. w.units = res
        BY <4>1
      <4> QED BY <4>2 DEF res
    <3>2. L > 0 /\ ~Writable(job.to, w.last)
      BY <1>3, <1>4, <2>1, <2>2, <2>4
    <3>3. sresult' = sresult' \o <<>>
      <4> DEFINE res == sresult'
      <4>1. res \in Seq(Nat)
        BY <2>1, Zenon
      <4> HIDE DEF res
      <4>2. res = res \o <<>>
        BY <4>1
      <4> QED BY <4>2 DEF res
    <3> HIDE DEF w
    <3>4. Finished(w)'
      BY <1>1, <3>1, <3>2, <3>3, Zenon DEF Finished, EndsInError, w
    <3>5. r' # "open" /\ r' # "thrown" /\ job.how # "stop"
      BY <2>4
    <3>6. BufferDoesNotShow'
      BY <1>1, <3>4, <3>5, Zenon DEF BufferDoesNotShow, w
    <3> QED BY <1>7, <3>5, <3>6, Zenon DEF LoopInv
  <2>5. CASE job.how = "skip" /\ next # L /\ r' = "open"
    <3>1. job.how # "stop" /\ r' # "done" /\ r' # "thrown"
      BY <2>5
    <3>2. Ahead(job', begin', shift', sresult')
      <4> HIDE DEF w, y, x, next, L
      <4>1. /\ w.units = sresult' \o x.units /\ w.shift = x.shift
            /\ Writable(job.to, w.last) <=> Writable(job.to, x.last)
        BY <2>1, <2>2, <2>5, Zenon
      <4> QED BY <1>1, <2>1, <2>5, <3>1, <4>1, Zenon DEF Ahead, w, x, L
    <3>3. BufferDoesNotShow'
      BY <3>1, Zenon DEF BufferDoesNotShow
    <3> QED BY <1>7, <3>2, <3>3, Zenon DEF LoopInv, Ahead, Whole, From, DoubleByte
  <2> QED BY <1>6, <2>3, <2>4, <2>5, Zenon
<1> QED BY <1>8, <1>9

LEMMA ResetsKeeps == LoopInv /\ Resets => LoopInv'
<1> SUFFICES ASSUME LoopInv, Resets
             PROVE  LoopInv'
  OBVIOUS
<1> DEFINE w == Whole(job)
           L == Len(job.text)
           x == From(job, begin, shift)
<1>1. /\ r = "open" /\ begin = L /\ job' = job /\ begin' = begin /\ shift' = 0 /\ r' = "done"
      /\ sresult' = sresult \o Unshift(job.to, shift)
  BY Zenon DEF Resets, Unshifts
<1>2. job \in Jobs /\ begin \in 0 .. L /\ shift \in {0, 1} /\ LoopTyped
  BY Zenon DEF LoopInv, LoopTyped
<1>3. LoopTyped'
  BY <1>1, <1>2 DEF LoopTyped
<1>4. r' # "open" /\ r' # "thrown"
  BY <1>1
<1>5. CASE DoubleByte(job)
  BY <1>1, <1>3, <1>4, <1>5, Zenon DEF LoopInv, BufferDoesNotShow, DoubleByte
<1>6. CASE ~DoubleByte(job)
  <2>1. /\ sresult \in Seq(Nat) /\ w.units = sresult \o x.units /\ w.shift = x.shift
        /\ L = 0 \/ Writable(job.to, w.last)
        /\ job.how = "stop" => \A u \in w.read : Writable(job.to, u) \/ u \in x.read
    BY <1>1, <1>6, Zenon DEF LoopInv, Ahead
  <2>2. x.units = <<>> /\ x.shift = shift /\ x.read = {}
    BY <1>1, <1>2, FromEnd, Zenon
  <2>3. w.units = sresult
    <3>1. sresult \o <<>> = sresult
      BY <2>1
    <3> QED BY <2>1, <2>2, <3>1, Zenon
  <2>4. ~(L > 0 /\ ~Writable(job.to, w.last))
    <3>1. L = 0 => ~(L > 0)
      OBVIOUS
    <3> QED BY <2>1, <3>1, Zenon
  <2> HIDE DEF w, x, L
  <2>5. Finished(w)'
    BY <1>1, <2>1, <2>2, <2>3, <2>4, Zenon DEF Finished, EndsInError, w, L
  <2>6. job.how = "stop" => \A u \in w.read : Writable(job.to, u)
    BY <2>1, <2>2, Zenon
  <2>7. BufferDoesNotShow'
    BY <1>1, <1>4, <2>5, <2>6, Zenon DEF BufferDoesNotShow, w
  <2> QED BY <1>3, <1>4, <2>7, Zenon DEF LoopInv
<1> QED BY <1>5, <1>6

\* For every text, pair of charsets and size of the buffer, however the calls
\* of iconv split it: a text in UTF that is converted has become its characters
\* that have an encoding, in their order and each once, and a conversion told to
\* stop throws exactly for a character that is malformed or has none of its own.
THEOREM BufferNeverShows == LoopSpec => []BufferDoesNotShow
<1>1. LoopInit => LoopInv
  BY LoopStarts
<1>2. LoopInv /\ [LoopNext]_loopVars => LoopInv'
  <2> SUFFICES ASSUME LoopInv, [LoopNext]_loopVars
               PROVE  LoopInv'
    OBVIOUS
  <2>1. CASE UNCHANGED loopVars
    BY <2>1, Zenon DEF loopVars, LoopInv, LoopTyped, BufferDoesNotShow, Finished, EndsInError, Ahead, Whole, From, DoubleByte
  <2> QED BY <2>1, ConvertsKeeps, FillsBufferKeeps, SkipsKeeps, ResetsKeeps, Zenon DEF LoopNext
<1>3. LoopInv => BufferDoesNotShow
  BY Zenon DEF LoopInv
<1> QED BY <1>1, <1>2, <1>3, PTL DEF LoopSpec

=============
