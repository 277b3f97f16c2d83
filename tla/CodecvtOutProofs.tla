-------------------------- MODULE CodecvtOutProofs --------------------------
(***************************************************************************)
(* The surrogate that generic_codecvt keeps in the mbstate_t while it      *)
(* writes, for every text, encoding, and division into pieces and rooms.   *)
(***************************************************************************)
EXTENDS CodecvtOut, SequenceTheorems, WellFoundedInduction, TLAPS

\* The places in the text are numbers, and what is kept was read just there.
Inv ==
    /\ pos \in Nat
    /\ from \in Nat
    /\ pc \in {"idle", "out", "return"}
    /\ StoredIsLastRead

LEMMA CallInv ==
    ASSUME Inv, NEW e, NEW n, Call(e, n)
    PROVE  Inv'
  BY DEF Inv, Call, StoredIsLastRead, IsLastRead, IsHigh

\* A high surrogate is kept with the place just behind it.
LEMMA StoresInv ==
    ASSUME Inv, OutStores
    PROVE  Inv'
<1>1. /\ from' = from + 1 /\ state' = src.units[from + 1] /\ IsHigh(src.units[from + 1])
      /\ pc = "out" /\ UNCHANGED <<src, pos, pc>>
  BY SMTT(30) DEF OutStores, Looping, Unit
<1>2. IsLastRead(state, from)'
  BY <1>1 DEF IsLastRead, IsHigh, Inv
<1> QED BY <1>1, <1>2 DEF Inv, StoredIsLastRead

\* Failing and running out of room leave it where it is.
LEMMA LeaveInv ==
    ASSUME Inv, OutRejects \/ OutLacksRoom
    PROVE  Inv'
<1>1. /\ pc = "out" /\ pc' = "return"
      /\ UNCHANGED <<src, pos, stored, from, state>>
  BY SMTT(30), ZenonT(30) DEF OutRejects, OutLacksRoom, Leave, Looping
<1>2. /\ (IsLastRead(stored, pos))' = IsLastRead(stored, pos)
      /\ (IsLastRead(state, from))' = IsLastRead(state, from)
  BY <1>1, SMTT(30) DEF IsLastRead, IsHigh
<1> QED BY <1>1, <1>2, SMTT(30) DEF Inv, StoredIsLastRead

\* Writing forgets it.
LEMMA WritesInv ==
    ASSUME Inv, OutWrites
    PROVE  Inv'
<1>1. pc = "out" /\ state' = 0 /\ from' = from + 1 /\ UNCHANGED <<src, pos, pc>>
  BY SMTT(30) DEF OutWrites, Looping
<1> QED BY <1>1 DEF Inv, StoredIsLastRead, IsLastRead

LEMMA ReturnsInv ==
    ASSUME Inv, OutReturns
    PROVE  Inv'
<1>1. /\ pc # "idle" /\ pc' = "idle" /\ pos' = from /\ stored' = state
      /\ UNCHANGED <<src, from>>
  BY DEF OutReturns
<1> QED BY <1>1 DEF Inv, StoredIsLastRead, IsLastRead, IsHigh

LEMMA InitInv == Init => Inv
  BY DEF Init, Inv, StoredIsLastRead, IsLastRead

LEMMA NextInv == Inv /\ [Next]_vars => Inv'
<1> SUFFICES ASSUME Inv, [Next]_vars
             PROVE  Inv'
  OBVIOUS
<1>1. ASSUME NEW e \in pos .. Len(src.units), NEW n \in 0 .. MaxRoom, Call(e, n)
      PROVE  Inv'
  BY <1>1, CallInv, SMTT(30)
<1>2. CASE Close
  <2>1. UNCHANGED <<src, pos, stored, from, state, pc>>
    BY <1>2, Zenon DEF Close, local
  <2>2. /\ (IsLastRead(stored, pos))' = IsLastRead(stored, pos)
        /\ (IsLastRead(state, from))' = IsLastRead(state, from)
    BY <2>1, SMTT(30) DEF IsLastRead, IsHigh
  <2> QED BY <2>1, <2>2, SMTT(30) DEF Inv, StoredIsLastRead
<1>3. CASE UNCHANGED vars
  <2>1. UNCHANGED <<src, pos, stored, from, state, pc>>
    BY <1>3, Zenon DEF vars, local
  <2>2. /\ (IsLastRead(stored, pos))' = IsLastRead(stored, pos)
        /\ (IsLastRead(state, from))' = IsLastRead(state, from)
    BY <2>1, SMTT(30) DEF IsLastRead, IsHigh
  <2> QED BY <2>1, <2>2, SMTT(30) DEF Inv, StoredIsLastRead
<1> QED BY <1>1, <1>2, <1>3, StoresInv, LeaveInv, WritesInv, ReturnsInv DEF Next

\* Between calls and within them, a pending high surrogate is the unit just
\* before the place where do_out (generic_codecvt.hpp:265) reads on.
THEOREM PendingHighIsLastRead == Spec => []StoredIsLastRead
<1>1. Inv => StoredIsLastRead
  BY DEF Inv
<1> QED BY <1>1, InitInv, NextInv, PTL DEF Spec

-----------------------------------------------------------------------------
(* The encoding of the text from behind each unit on: that the function      *)
(* exists, and its values.                                                   *)

LEMMA UpFromZero ==
    ASSUME NEW S, 0 \in S, \A n \in Nat : n \in S => n + 1 \in S
    PROVE  Nat \subseteq S
<1> SUFFICES ASSUME Nat \ S # {}
             PROVE  FALSE
  OBVIOUS
<1>1. IsWellFoundedOn({ss \in Nat \X Nat : ss[1] < ss[2]}, Nat)
  BY NatLessThanWellFounded DEF OpToRel
<1>2. PICK n \in Nat \ S : \A m \in Nat \ S : ~(<<m, n>> \in {ss \in Nat \X Nat : ss[1] < ss[2]})
  BY <1>1, WFMin
<1>3. n # 0 /\ n - 1 \in Nat
  BY <1>2
<1>4. n - 1 \notin S
  BY <1>2, <1>3
<1>5. <<n - 1, n>> \in {ss \in Nat \X Nat : ss[1] < ss[2]}
  BY <1>3
<1> QED BY <1>2, <1>3, <1>4, <1>5

Character(t, i) == CharacterAt(t, i + 1)
Lost(t, i) ==
    \/ ~is_valid_codepoint(Character(t, i).cp)
    \/ FromUnicode(Character(t, i).cp) = <<>>

AfterBody(t, g, i) ==
    IF i = Len(t.units) THEN [units |-> <<>>, ok |-> TRUE]
    ELSE IF Lost(t, i) THEN [units |-> <<>>, ok |-> FALSE]
    ELSE [units |-> FromUnicode(Character(t, i).cp) \o g[i + Character(t, i).len].units,
          ok |-> g[i + Character(t, i).len].ok]

LEMMA CharacterEnds ==
    ASSUME NEW t \in Texts, NEW i \in 0 .. Len(t.units), i # Len(t.units)
    PROVE  Character(t, i).len \in 1 .. Len(t.units) - i
<1>1. Len(t.units) \in Nat
  BY TextsAssumption
<1>2. CASE IsPair(t, i + 1)
  BY <1>1, <1>2 DEF Character, CharacterAt, IsPair
<1>3. CASE ~IsPair(t, i + 1)
  BY <1>1, <1>3 DEF Character, CharacterAt
<1> QED BY <1>2, <1>3

LEMMA AfterExists ==
    ASSUME NEW t \in Texts
    PROVE  \E g : g = [i \in 0 .. Len(t.units) |-> AfterBody(t, g, i)]
<1> DEFINE L == Len(t.units)
<1>0. L \in Nat
  BY TextsAssumption
<1> DEFINE S == {m \in Nat : m > L + 1 \/ \E g : g = [i \in L + 1 - m .. L |-> AfterBody(t, g, i)]}
<1>1. 0 \in S
  <2> DEFINE g == [i \in {} |-> 0]
  <2>1. L + 1 - 0 .. L = {}
    OBVIOUS
  <2>2. g = [i \in {} |-> AfterBody(t, g, i)]
    OBVIOUS
  <2>3. \E f : f = [i \in {} |-> AfterBody(t, f, i)]
    BY <2>2
  <2> QED BY <2>1, <2>3
<1>2. ASSUME NEW m \in Nat, m \in S
      PROVE  m + 1 \in S
  <2>1. CASE m + 1 > L + 1
    BY <2>1
  <2>2. CASE m + 1 <= L + 1
    <3>1. PICK g : g = [i \in L + 1 - m .. L |-> AfterBody(t, g, i)]
      BY <1>2, <2>2
    <3> DEFINE k == L - m
               h == [i \in k .. L |-> IF i = k THEN AfterBody(t, g, k) ELSE g[i]]
    <3>2. k \in 0 .. L /\ L + 1 - (m + 1) = k /\ L + 1 - m = k + 1
      <4>1. \A n \in Nat : m + 1 <= n + 1 =>
                n - m \in 0 .. n /\ n + 1 - (m + 1) = n - m /\ n + 1 - m = n - m + 1
        OBVIOUS
      <4> HIDE DEF h
      <4> QED BY <1>0, <2>2, <4>1
    <3>3. ASSUME NEW i \in k .. L
          PROVE  AfterBody(t, h, i) = AfterBody(t, g, i)
      <4>1. CASE i = L
        BY <4>1 DEF AfterBody
      <4>2. CASE i # L
        <5>1. i \in 0 .. L
          BY <3>2
        <5>2. Character(t, i).len \in 1 .. L - i
          BY <4>2, <5>1, CharacterEnds
        <5>3. i + Character(t, i).len \in k .. L /\ i + Character(t, i).len # k
          BY <3>2, <5>1, <5>2, SMTT(30)
        <5>4. h[i + Character(t, i).len] = g[i + Character(t, i).len]
          BY <5>3
        <5> HIDE DEF h
        <5> QED BY <5>4 DEF AfterBody
      <4> QED BY <4>1, <4>2
    <3>4. ASSUME NEW i \in k .. L
          PROVE  h[i] = AfterBody(t, g, i)
      <4>1. CASE i = k
        BY <4>1
      <4>2. CASE i # k
        <5>1. i \in L + 1 - m .. L
          BY <3>2, <4>2
        <5>2. g[i] = AfterBody(t, g, i)
          BY <3>1, <5>1
        <5> QED BY <4>2, <5>2
      <4> QED BY <4>1, <4>2
    <3>5. h = [i \in k .. L |-> AfterBody(t, h, i)]
      <4>1. \A i \in k .. L : h[i] = AfterBody(t, h, i)
        BY <3>3, <3>4
      <4>2. h = [i \in k .. L |-> h[i]]
        OBVIOUS
      <4> HIDE DEF h
      <4> QED BY <4>1, <4>2
    <3> HIDE DEF h
    <3>6. \E f : f = [i \in k .. L |-> AfterBody(t, f, i)]
      BY <3>5
    <3> QED BY <3>2, <3>6
  <2> QED BY <2>1, <2>2
<1>3. L + 1 \in S
  <2> HIDE DEF S
  <2>1. Nat \subseteq S
    BY <1>1, <1>2, UpFromZero
  <2> QED BY <2>1
<1>4. L + 1 - (L + 1) = 0
  BY <1>0
<1> QED BY <1>0, <1>3, <1>4

LEMMA AfterIsItself ==
    ASSUME NEW t \in Texts
    PROVE  After(t) = [i \in 0 .. Len(t.units) |-> AfterBody(t, After(t), i)]
<1> DEFINE P(g) == g = [i \in 0 .. Len(t.units) |-> AfterBody(t, g, i)]
<1>1. \E g : P(g)
  BY AfterExists
<1>2. After(t) = CHOOSE g : P(g)
  BY Zenon DEF After, AfterBody, Lost, Character
<1>3. P(CHOOSE g : P(g))
  <2> HIDE DEF P
  <2> QED BY <1>1, Zenon
<1> QED BY <1>2, <1>3, Zenon

LEMMA AfterValue ==
    ASSUME NEW t \in Texts, NEW i \in 0 .. Len(t.units)
    PROVE  /\ i = Len(t.units) => After(t)[i].units = <<>> /\ After(t)[i].ok
           /\ i # Len(t.units) /\ Lost(t, i) => After(t)[i].units = <<>> /\ ~After(t)[i].ok
           /\ i # Len(t.units) /\ ~Lost(t, i) =>
                /\ After(t)[i].units =
                        FromUnicode(Character(t, i).cp) \o After(t)[i + Character(t, i).len].units
                /\ After(t)[i].ok = After(t)[i + Character(t, i).len].ok
<1> DEFINE g == After(t)
           none == <<>>
<1>1. g = [j \in 0 .. Len(t.units) |-> AfterBody(t, g, j)]
  BY AfterIsItself
<1> HIDE DEF g
<1>2. g[i] = AfterBody(t, g, i)
  BY <1>1, Zenon
<1>3. CASE i = Len(t.units)
  <2>1. g[i] = [units |-> none, ok |-> TRUE]
    BY <1>2, <1>3, Zenon DEF AfterBody
  <2>2. g[i].units = none /\ g[i].ok
    <3> HIDE DEF none
    <3> QED BY <2>1
  <2> QED BY <1>3, <2>2, Zenon DEF g
<1>4. CASE i # Len(t.units) /\ Lost(t, i)
  <2>1. g[i] = [units |-> none, ok |-> FALSE]
    BY <1>2, <1>4, Zenon DEF AfterBody
  <2>2. g[i].units = none /\ ~g[i].ok
    <3> HIDE DEF none
    <3> QED BY <2>1
  <2> QED BY <1>4, <2>2, Zenon DEF g
<1>5. CASE i # Len(t.units) /\ ~Lost(t, i)
  <2> DEFINE u == FromUnicode(Character(t, i).cp) \o g[i + Character(t, i).len].units
             b == g[i + Character(t, i).len].ok
  <2>1. g[i] = [units |-> u, ok |-> b]
    BY <1>2, <1>5, Zenon DEF AfterBody
  <2>2. g[i].units = u /\ g[i].ok = b
    <3> HIDE DEF u, b
    <3> QED BY <2>1
  <2> QED BY <1>5, <2>2, Zenon DEF g
<1> QED BY <1>3, <1>4, <1>5, Zenon

LEMMA BytesTyped ==
    ASSUME NEW t \in Texts, NEW i \in 0 .. Len(t.units), i # Len(t.units), ~Lost(t, i)
    PROVE  FromUnicode(Character(t, i).cp) \in Seq(0 .. 255)
<1>1. i + 1 \in 1 .. Len(t.units)
  BY TextsAssumption
<1> QED BY <1>1, FromUnicodeAssumption, Zenon DEF Lost, Character

LEMMA AfterTyped ==
    ASSUME NEW t \in Texts, NEW i \in 0 .. Len(t.units)
    PROVE  After(t)[i].units \in Seq(0 .. 255)
<1> DEFINE L == Len(t.units)
           S == {m \in Nat : \A j \in 0 .. L : L - j < m => After(t)[j].units \in Seq(0 .. 255)}
<1>0. L \in Nat
  BY TextsAssumption
<1>1. 0 \in S
  BY <1>0
<1>2. ASSUME NEW m \in Nat, m \in S
      PROVE  m + 1 \in S
  <2> SUFFICES ASSUME NEW j \in 0 .. L, L - j < m + 1
               PROVE  After(t)[j].units \in Seq(0 .. 255)
    BY <1>2
  <2> HIDE DEF L
  <2>1. CASE j = L \/ Lost(t, j)
    <3>1. After(t)[j].units = <<>>
      BY <2>1, AfterValue, Zenon DEF L
    <3> QED BY <3>1
  <2>2. CASE j # L /\ ~Lost(t, j)
    <3>1. Character(t, j).len \in 1 .. L - j
      BY <2>2, CharacterEnds DEF L
    <3>2. j + Character(t, j).len \in 0 .. L /\ L - (j + Character(t, j).len) < m
      BY <1>0, <3>1, SMTT(30)
    <3>3. After(t)[j + Character(t, j).len].units \in Seq(0 .. 255)
      BY <1>2, <3>2
    <3>4. After(t)[j].units = FromUnicode(Character(t, j).cp) \o After(t)[j + Character(t, j).len].units
      BY <2>2, AfterValue DEF L
    <3>5. FromUnicode(Character(t, j).cp) \in Seq(0 .. 255)
      BY <2>2, BytesTyped DEF L
    <3> QED BY <3>3, <3>4, <3>5, ConcatProperties
  <2> QED BY <2>1, <2>2
<1>3. L + 1 \in S
  <2> HIDE DEF S
  <2>1. Nat \subseteq S
    BY <1>1, <1>2, UpFromZero
  <2> QED BY <1>0, <2>1
<1> QED BY <1>0, <1>3

-----------------------------------------------------------------------------
(* Writing implements the promise, step by step: what is written is followed *)
(* by the encoding of the rest of the text, where a high surrogate that is   *)
(* kept still belongs to the rest.                                           *)

\* The first unit that is not dealt with, when p are read and k is kept.
Rest(p, k) == IF k # 0 THEN p - 1 ELSE p

Written(i) ==
    /\ Whole(src).units = out \o After(src)[i].units
    /\ After(src)[i].ok <=> Whole(src).ok

Reading == from < end /\ ~(state = 0 /\ IsHigh(Unit))

WriteInv ==
    /\ Inv
    /\ src \in Texts
    /\ pos \in 0 .. Len(src.units) /\ from \in 0 .. Len(src.units) /\ end \in 0 .. Len(src.units)
    /\ stored \in Nat /\ state \in Nat
    /\ out \in Seq(0 .. 255)
    /\ pc = "idle" => Written(Rest(pos, stored))
    /\ pc # "idle" => Written(Rest(from, state)) /\ verdict = "open"
    /\ pc = "out" => r = "ok"
    /\ pc = "return" => r # "error" \/ (Reading /\ ~Encodable)

LEMMA KindsOfUnits ==
    ASSUME NEW u \in Int
    PROVE  /\ is_first_surrogate(u) => ~is_second_surrogate(u) /\ ~is_valid_codepoint(u) /\ u # 0
           /\ is_second_surrogate(u) => ~is_valid_codepoint(u)
           /\ IsHigh(u) <=> src.size = 2 /\ is_first_surrogate(u)
           /\ IsLow(u) <=> src.size = 2 /\ is_second_surrogate(u)
<1>1. is_first_surrogate(u) => 55296 <= u /\ u <= 56319
  BY SMTT(30) DEF is_first_surrogate
<1>2. is_second_surrogate(u) => 56320 <= u /\ u <= 57343
  BY SMTT(30) DEF is_second_surrogate
<1>3. is_valid_codepoint(u) => ~(55296 <= u /\ u <= 57343)
  BY SMTT(30) DEF is_valid_codepoint
<1>4. /\ is_first_surrogate(u) => ~is_second_surrogate(u) /\ ~is_valid_codepoint(u) /\ u # 0
      /\ is_second_surrogate(u) => ~is_valid_codepoint(u)
  BY <1>1, <1>2, <1>3, SMTT(30)
<1> QED BY <1>4, Zenon DEF IsHigh, IsLow

\* The loop encodes the character of the promise, or fails on it.
LEMMA LoopReads ==
    ASSUME WriteInv, pc # "idle", Reading
    PROVE  /\ Rest(from, state) \in 0 .. Len(src.units) /\ Rest(from, state) # Len(src.units)
           /\ Encodable => /\ ~Lost(src, Rest(from, state))
                            /\ Character(src, Rest(from, state)).cp = CodePoint
                            /\ Rest(from, state) + Character(src, Rest(from, state)).len = from + 1
           /\ ~Encodable => Lost(src, Rest(from, state))
<1>1. /\ src \in Texts /\ from \in 0 .. Len(src.units) /\ from < Len(src.units)
      /\ from + 1 \in 1 .. Len(src.units) /\ state \in Nat /\ IsLastRead(state, from)
      /\ ~(state = 0 /\ IsHigh(Unit))
  BY DEF WriteInv, Reading, Inv, StoredIsLastRead
<1>2. Unit \in Int
  BY <1>1, TextsAssumption DEF Unit
<1>3. Unpaired <=> ~(IsLow(Unit) <=> state # 0)
  <2>1. \A a, b \in BOOLEAN : (a # b) <=> ~(a <=> b)
    OBVIOUS
  <2>2. IsLow(Unit) \in BOOLEAN /\ (state # 0) \in BOOLEAN
    BY SMTT(10) DEF IsLow
  <2> HIDE DEF IsLow
  <2> QED BY <2>1, <2>2, Zenon DEF Unpaired
<1>4. CASE state = 0
  <2>1. Rest(from, state) = from
    BY <1>4 DEF Rest
  <2>2. ~IsPair(src, from + 1)
    BY <1>1, <1>2, <1>4, KindsOfUnits DEF IsPair, Unit
  <2>3. Character(src, from).cp = Unit /\ Character(src, from).len = 1 /\ CodePoint = Unit
    BY <1>4, <2>2 DEF Character, CharacterAt, Unit, CodePoint
  <2>4. Lost(src, from) <=> ~Encodable
    <3>1. IsLow(Unit) => ~is_valid_codepoint(Unit)
      BY <1>2, KindsOfUnits
    <3> QED BY <1>3, <1>4, <2>3, <3>1, Zenon DEF Lost, Encodable
  <2> QED BY <1>1, <2>1, <2>3, <2>4
<1>5. CASE state # 0
  <2>1. Rest(from, state) = from - 1 /\ from > 0 /\ IsHigh(src.units[from]) /\ state = src.units[from]
    BY <1>1, <1>5 DEF Rest, IsLastRead
  <2>2. src.size = 2 /\ is_first_surrogate(src.units[from])
    BY <1>1, <2>1, KindsOfUnits
  <2>3. IsPair(src, from) <=> IsLow(Unit)
    BY <1>1, <1>2, <2>2, KindsOfUnits DEF IsPair, Unit
  <2>4. Character(src, from - 1) = CharacterAt(src, from)
    BY <1>1 DEF Character
  <2>5. CASE IsLow(Unit)
    <3>1. /\ Character(src, from - 1).cp = CodePoint
          /\ Character(src, from - 1).len = 2
      BY <1>5, <2>1, <2>3, <2>4, <2>5 DEF CharacterAt, CodePoint, Unit
    <3>2. Lost(src, from - 1) <=> ~Encodable
      BY <1>3, <1>5, <2>5, <3>1, Zenon DEF Lost, Encodable
    <3>3. from - 1 + 2 = from + 1
      BY <1>1
    <3> QED BY <1>1, <2>1, <3>1, <3>2, <3>3
  <2>6. CASE ~IsLow(Unit)
    <3>1. Character(src, from - 1).cp = src.units[from]
      BY <2>3, <2>4, <2>6 DEF CharacterAt
    <3>2. Lost(src, from - 1) /\ ~Encodable
      BY <1>1, <1>3, <1>5, <2>1, <2>2, <2>6, <3>1, KindsOfUnits DEF Lost, Encodable
    <3> QED BY <1>1, <2>1, <3>2
  <2> QED BY <2>5, <2>6
<1> QED BY <1>4, <1>5

LEMMA StartOfWhole ==
    ASSUME NEW s \in Seq(0 .. 255), NEW more \in Seq(0 .. 255), s # <<>>
    PROVE  s = SubSeq(s \o more, 1, Len(s)) /\ Len(s) <= Len(s \o more)
<1>1. Len(s) \in 1 .. Len(s) /\ 1 \in 1 .. Len(s)
  OBVIOUS
<1>2. SubSeq(s \o more, 1, Len(s)) = SubSeq(s, 1, Len(s))
  BY <1>1, SubSeqOfConcat1
<1>3. SubSeq(s, 1, Len(s)) = s
  BY SubSeqFull
<1>4. Len(s \o more) = Len(s) + Len(more)
  BY ConcatProperties
<1> QED BY <1>2, <1>3, <1>4

LEMMA WritesWriteInv ==
    ASSUME WriteInv, OutWrites
    PROVE  WriteInv' /\ Promise!Write
<1> DEFINE bytes == FromUnicode(CodePoint)
           rest == After(src)[from + 1].units
           goal == Whole(src).units
<1>1. /\ pc = "out" /\ Reading /\ Encodable /\ out' = out \o bytes /\ from' = from + 1 /\ state' = 0
      /\ from < end
      /\ UNCHANGED <<src, verdict, pos, stored, pc, end, r>>
  BY DEF OutWrites, Looping, Reading
<1>2. /\ Inv /\ src \in Texts /\ from \in 0 .. Len(src.units) /\ end \in 0 .. Len(src.units)
      /\ pos \in 0 .. Len(src.units) /\ stored \in Nat
      /\ out \in Seq(0 .. 255) /\ verdict = "open" /\ r = "ok" /\ Written(Rest(from, state))
  BY <1>1 DEF WriteInv
<1>3. /\ Rest(from, state) \in 0 .. Len(src.units) /\ Rest(from, state) # Len(src.units)
      /\ ~Lost(src, Rest(from, state))
      /\ Character(src, Rest(from, state)).cp = CodePoint
      /\ Rest(from, state) + Character(src, Rest(from, state)).len = from + 1
  BY <1>1, LoopReads
<1>4. from' \in 0 .. Len(src.units) /\ from + 1 \in 0 .. Len(src.units)
  BY <1>1, <1>2
<1>5. bytes \in Seq(0 .. 255) /\ bytes # <<>>
  BY <1>1, <1>2, <1>3, BytesTyped, Zenon DEF Encodable
<1>6. rest \in Seq(0 .. 255)
  BY <1>2, <1>4, AfterTyped
<1>7. /\ After(src)[Rest(from, state)].units = bytes \o rest
      /\ After(src)[Rest(from, state)].ok = After(src)[from + 1].ok
  BY <1>2, <1>3, AfterValue, Zenon
<1>8. goal = out' \o rest
  <2>1. goal = out \o (bytes \o rest)
    BY <1>2, <1>7, Zenon DEF Written
  <2> HIDE DEF bytes, rest, goal
  <2>2. (out \o bytes) \o rest = out \o (bytes \o rest)
    BY <1>2, <1>5, <1>6, ConcatAssociative, SMTT(30)
  <2> QED BY <1>1, <2>1, <2>2, Zenon
<1>9. out' \in Seq(0 .. 255) /\ Len(out') = Len(out) + Len(bytes) /\ Len(bytes) \in Nat \ {0}
  <2> HIDE DEF bytes
  <2> QED BY <1>1, <1>2, <1>5, ConcatProperties
<1>10. Written(Rest(from, state))'
  <2>1. Rest(from', state') = from + 1
    BY <1>1 DEF Rest
  <2>2. After(src)[from + 1].ok <=> Whole(src).ok
    BY <1>2, <1>7, Zenon DEF Written
  <2> QED BY <1>1, <1>8, <2>1, <2>2, Zenon DEF Written
<1>11. WriteInv'
  <2>1. Inv'
    BY <1>2, NextInv DEF Next
  <2> QED BY <1>1, <1>2, <1>4, <1>9, <1>10, <2>1 DEF WriteInv
<1>12. Promise!Write
  <2>1. out' # <<>> /\ Len(out) \in Nat
    BY <1>2, <1>9
  <2>2. out' = SubSeq(goal, 1, Len(out')) /\ Len(out') <= Len(goal)
    BY <1>6, <1>8, <1>9, <2>1, StartOfWhole, Zenon
  <2>3. Len(out') \in Len(out) + 1 .. Len(goal)
    <3> HIDE DEF bytes, goal
    <3> QED BY <1>9, <2>1, <2>2
  <2> QED BY <1>1, <1>2, <2>2, <2>3, Zenon DEF Promise!Write
<1> QED BY <1>11, <1>12

LEMMA StoresWriteInv ==
    ASSUME WriteInv, OutStores
    PROVE  WriteInv'
<1>1. /\ pc = "out" /\ state = 0 /\ state' = Unit /\ IsHigh(Unit) /\ from' = from + 1 /\ from < end
      /\ UNCHANGED <<src, out, verdict, pos, stored, pc, end, r>>
  BY DEF OutStores, Looping
<1>2. /\ Inv /\ src \in Texts /\ from \in 0 .. Len(src.units) /\ end \in 0 .. Len(src.units)
      /\ pos \in 0 .. Len(src.units) /\ stored \in Nat
      /\ out \in Seq(0 .. 255) /\ verdict = "open" /\ r = "ok" /\ Written(Rest(from, state))
  BY <1>1 DEF WriteInv
<1>3. from' \in 0 .. Len(src.units) /\ from + 1 \in 1 .. Len(src.units)
  BY <1>1, <1>2
<1>4. state' \in Nat /\ state' # 0
  BY <1>1, SMTT(30) DEF IsHigh, is_first_surrogate
<1>5. Rest(from', state') = Rest(from, state)
  BY <1>1, <1>2, <1>4 DEF Rest
<1>6. Written(Rest(from, state))'
  BY <1>1, <1>2, <1>5, Zenon DEF Written
<1>7. Inv'
  BY <1>2, NextInv DEF Next
<1> QED BY <1>1, <1>2, <1>3, <1>4, <1>6, <1>7 DEF WriteInv

LEMMA ReadingStays ==
    ASSUME UNCHANGED <<src, from, end, state>>
    PROVE  (Reading' <=> Reading) /\ (Encodable' <=> Encodable)
<1>1. Unit' = Unit
  BY Zenon DEF Unit
<1>2. CodePoint' = CodePoint
  BY <1>1, Zenon DEF CodePoint
<1>3. (IsHigh(Unit)' <=> IsHigh(Unit)) /\ (IsLow(Unit)' = IsLow(Unit))
  BY <1>1, SMTT(10) DEF IsHigh, IsLow
<1>4. Reading' <=> Reading
  BY <1>3, Zenon DEF Reading
<1>5. Unpaired' = Unpaired
  BY <1>3, Zenon DEF Unpaired
<1> QED BY <1>2, <1>4, <1>5, Zenon DEF Encodable

LEMMA LeaveWriteInv ==
    ASSUME WriteInv, OutRejects \/ OutLacksRoom
    PROVE  WriteInv'
<1>1. /\ pc = "out" /\ pc' = "return"
      /\ r' # "error" \/ (Reading /\ ~Encodable)
      /\ UNCHANGED <<src, out, verdict, pos, stored, from, end, room, state>>
  BY DEF OutRejects, OutLacksRoom, Leave, Looping, Reading
<1>2. Inv'
  BY NextInv DEF WriteInv, Next
<1>3. Written(Rest(from, state))' /\ verdict' = "open"
  <2>1. Written(Rest(from, state)) /\ verdict = "open"
    BY <1>1 DEF WriteInv
  <2> QED BY <1>1, <2>1, Zenon DEF Written
<1>4. (Reading => Reading') /\ (~Encodable => ~Encodable')
  BY <1>1, ReadingStays, Zenon
<1> QED BY <1>1, <1>2, <1>3, <1>4 DEF WriteInv

LEMMA ReturnsWriteInv ==
    ASSUME WriteInv, OutReturns
    PROVE  WriteInv' /\ (Promise!Decide \/ UNCHANGED <<src, out, verdict>>)
<1>1. /\ pc # "idle" /\ pc' = "idle" /\ pos' = from /\ stored' = state
      /\ verdict' = IF r = "error" THEN "bad" ELSE "open"
      /\ UNCHANGED <<src, out, from, end, state>>
  BY DEF OutReturns
<1>2. /\ Inv /\ src \in Texts /\ out \in Seq(0 .. 255) /\ verdict = "open" /\ Written(Rest(from, state))
  BY <1>1 DEF WriteInv
<1>3. WriteInv'
  <2>1. Inv'
    BY <1>2, NextInv DEF Next
  <2>2. Written(Rest(pos, stored))'
    BY <1>1, <1>2, Zenon DEF Written
  <2> QED BY <1>1, <2>1, <2>2 DEF WriteInv
<1>4. ASSUME r = "error"
      PROVE  Promise!Decide
  <2>1. Reading /\ ~Encodable
    <3>1. pc = "return"
      BY <1>1, <1>2, <1>4 DEF WriteInv, Inv
    <3> QED BY <1>4, <3>1 DEF WriteInv
  <2>2. /\ Rest(from, state) \in 0 .. Len(src.units) /\ Rest(from, state) # Len(src.units)
        /\ Lost(src, Rest(from, state))
    BY <1>1, <2>1, LoopReads
  <2>3. Whole(src).units = out \o <<>> /\ ~Whole(src).ok
    BY <1>2, <2>2, AfterValue, Zenon DEF Written
  <2>4. out \o <<>> = out
    BY <1>2, ConcatEmptySeq
  <2> QED BY <1>1, <1>2, <1>4, <2>3, <2>4, Zenon DEF Promise!Decide
<1> QED BY <1>1, <1>2, <1>3, <1>4

LEMMA CallWriteInv ==
    ASSUME WriteInv, NEW e \in pos .. Len(src.units), NEW n, Call(e, n)
    PROVE  WriteInv'
<1>1. /\ pc = "idle" /\ verdict = "open" /\ pc' = "out" /\ from' = pos /\ end' = e
      /\ state' = stored /\ r' = "ok"
      /\ UNCHANGED <<src, out, verdict, pos, stored>>
  BY DEF Call
<1>2. Inv'
  BY CallInv DEF WriteInv
<1>3. Written(Rest(from, state))'
  BY <1>1, Zenon DEF WriteInv, Written
<1>4. end' \in 0 .. Len(src.units)
  BY <1>1 DEF WriteInv
<1> QED BY <1>1, <1>2, <1>3, <1>4 DEF WriteInv

LEMMA InitWriteInv == Init => WriteInv
<1> SUFFICES ASSUME Init
             PROVE  WriteInv
  OBVIOUS
<1>1. /\ Inv /\ src \in Texts /\ 0 \in 0 .. Len(src.units) /\ out = <<>>
      /\ pos = 0 /\ from = 0 /\ end = 0 /\ stored = 0 /\ state = 0 /\ pc = "idle"
  BY InitInv, TextsAssumption DEF Init
<1>2. After(src)[0].units \in Seq(0 .. 255)
  BY <1>1, AfterTyped
<1>3. After(src)[0].units = out \o After(src)[0].units
  BY <1>1, <1>2, ConcatEmptySeq
<1>4. Rest(pos, stored) = 0
  BY <1>1 DEF Rest
<1>5. Written(Rest(pos, stored))
  BY <1>3, <1>4, Zenon DEF Written, Whole
<1> QED BY <1>1, <1>5 DEF WriteInv

\* do_unshift looks at the first byte of the mbstate_t only, which on a
\* little-endian machine is zero for U+D800, U+D900, U+DA00 and U+DB00.
EndsAreSeen ==
    LittleEndian => \A t \in Texts :
        t.size = 2 /\ t.units # <<>> /\ is_first_surrogate(t.units[Len(t.units)]) =>
            t.units[Len(t.units)] % 256 # 0

LEMMA CloseWriteInv ==
    ASSUME WriteInv, Close
    PROVE  WriteInv' /\ (EndsAreSeen => Promise!Decide)
<1> DEFINE L == Len(src.units)
<1>1. /\ pc = "idle" /\ verdict = "open" /\ pos = L
      /\ verdict' = IF do_unshift = "ok" THEN "done" ELSE "bad"
      /\ UNCHANGED <<src, out, pos, stored, pc, from, end, room, state, r>>
  BY DEF Close, local
<1>2. /\ Inv /\ src \in Texts /\ out \in Seq(0 .. 255) /\ stored \in Nat /\ Written(Rest(pos, stored))
      /\ IsLastRead(stored, pos) /\ L \in Nat
  BY <1>1, TextsAssumption DEF WriteInv, Inv, StoredIsLastRead
<1>3. WriteInv'
  <2>1. Inv'
    BY <1>2, NextInv DEF Next
  <2>2. Written(Rest(pos, stored))'
    BY <1>1, <1>2, Zenon DEF Written
  <2> QED BY <1>1, <2>1, <2>2 DEF WriteInv
<1>4. out \o <<>> = out
  BY <1>2, ConcatEmptySeq
<1>5. CASE stored = 0
  <2>1. Rest(pos, stored) = L
    BY <1>1, <1>5 DEF Rest
  <2>2. Whole(src).units = out \o <<>> /\ Whole(src).ok
    <3>1. L \in 0 .. L
      BY <1>2
    <3> QED BY <1>2, <2>1, <3>1, AfterValue, Zenon DEF Written
  <2>3. do_unshift = "ok"
    BY <1>5 DEF do_unshift, FirstByte
  <2> QED BY <1>1, <1>3, <1>4, <2>2, <2>3, Zenon DEF Promise!Decide
<1>6. CASE stored # 0
  <2>1. L > 0 /\ IsHigh(src.units[L]) /\ stored = src.units[L] /\ Rest(pos, stored) = L - 1
    BY <1>1, <1>2, <1>6 DEF IsLastRead, Rest
  <2>2. L - 1 \in 0 .. L /\ L - 1 # L /\ L - 1 + 1 = L
    BY <1>2, <2>1
  <2>3. src.size = 2 /\ is_first_surrogate(stored) /\ ~is_valid_codepoint(stored)
    BY <1>2, <2>1, KindsOfUnits
  <2>4. Lost(src, L - 1)
    <3>1. ~IsPair(src, L)
      BY DEF IsPair
    <3>2. Character(src, L - 1).cp = stored
      BY <2>1, <2>2, <3>1 DEF Character, CharacterAt
    <3> QED BY <2>3, <3>2 DEF Lost
  <2>5. Whole(src).units = out \o <<>> /\ ~Whole(src).ok
    BY <1>2, <2>1, <2>2, <2>4, AfterValue, Zenon DEF Written
  <2>6. EndsAreSeen => do_unshift # "ok"
    <3>1. src.units # <<>>
      BY <2>1
    <3>2. EndsAreSeen /\ LittleEndian => stored % 256 # 0
      BY <1>2, <2>1, <2>3, <3>1, Zenon DEF EndsAreSeen
    <3>3. stored \div 256 # 0
      BY <1>2, <2>3, SMTT(10) DEF is_first_surrogate
    <3>4. EndsAreSeen => FirstByte # 0
      BY <3>2, <3>3, Zenon DEF FirstByte
    <3> QED BY <2>3, <3>4 DEF do_unshift
  <2> QED BY <1>1, <1>3, <1>4, <2>5, <2>6, Zenon DEF Promise!Decide
<1> QED BY <1>5, <1>6

\* Writing a text through do_out (generic_codecvt.hpp:265) and closing it with
\* do_unshift (generic_codecvt.hpp:163), in whatever pieces and with whatever
\* room, never writes anything but the encoding of the text from its start on,
\* and accepts or rejects it as the whole text deserves and only when all that
\* can be encoded is written - if no text ends in one of the four surrogates
\* that do_unshift does not see.
THEOREM WritingTranscodes == ASSUME EndsAreSeen PROVE Spec => Promise!Safety
<1>1. Init => WriteInv /\ Promise!Init
  BY InitWriteInv, Zenon DEF Init, Promise!Init
<1>2. WriteInv /\ [Next]_vars => WriteInv' /\ [Promise!Next]_(Promise!vars)
  <2> SUFFICES ASSUME WriteInv, [Next]_vars
               PROVE  WriteInv' /\ (Promise!Next \/ UNCHANGED <<src, out, verdict>>)
    BY DEF Promise!vars
  <2>1. CASE UNCHANGED vars
    <3>1. Inv'
      BY <2>1, NextInv DEF WriteInv
    <3>2. (Written(Rest(pos, stored))' <=> Written(Rest(pos, stored)))
          /\ (Written(Rest(from, state))' <=> Written(Rest(from, state)))
      BY <2>1, Zenon DEF vars, local, Written
    <3>3. (Reading' <=> Reading) /\ (Encodable' <=> Encodable)
      BY <2>1, ReadingStays, Zenon DEF vars, local
    <3> QED BY <2>1, <3>1, <3>2, <3>3 DEF vars, local, WriteInv
  <2>2. ASSUME NEW e \in pos .. Len(src.units), NEW n \in 0 .. MaxRoom, Call(e, n)
        PROVE  WriteInv' /\ UNCHANGED <<src, out, verdict>>
    BY <2>2, CallWriteInv DEF Call
  <2>3. CASE OutStores
    BY <2>3, StoresWriteInv DEF OutStores
  <2>4. CASE OutRejects \/ OutLacksRoom
    BY <2>4, LeaveWriteInv DEF OutRejects, OutLacksRoom, Leave
  <2>5. CASE OutWrites
    BY <2>5, WritesWriteInv DEF Promise!Next
  <2>6. CASE OutReturns
    BY <2>6, ReturnsWriteInv DEF Promise!Next
  <2>7. CASE Close
    BY <2>7, CloseWriteInv DEF Promise!Next
  <2> QED BY <2>1, <2>2, <2>3, <2>4, <2>5, <2>6, <2>7 DEF Next
<1> QED BY <1>1, <1>2, PTL DEF Spec, Promise!Safety

=============================================================================
