--------------------------- MODULE CodecvtInProofs ---------------------------
(***************************************************************************)
(* The surrogate pair that generic_codecvt has written half of while it    *)
(* reads, for every text, encoding, and division into pieces and rooms.    *)
(***************************************************************************)
EXTENDS CodecvtIn, SequenceTheorems, WellFoundedInduction, TLAPS

\* The places in the text are in order, and a half that is missing belongs to
\* the character at the place where reading goes on.
Inv ==
    /\ src \in Texts
    /\ pos \in 0 .. Len(src.bytes)
    /\ from \in 0 .. Len(src.bytes)
    /\ end \in 0 .. Len(src.bytes)
    /\ pc \in {"idle", "in", "length", "return"}
    /\ out \in Seq(Int)
    /\ PendingIsOtherHalf

\* What a call sees of a character it can decode is the character in the text.
LEMMA ReadIsCodePoint ==
    ASSUME Inv, Looping, Read.cp # incomplete
    PROVE  Read = CodePointAt(from)
<1>1. /\ from \in 0 .. Len(src.bytes) /\ end \in from .. Len(src.bytes) /\ Len(src.bytes) \in from .. Len(src.bytes)
      /\ src \in Texts
  BY DEF Inv, Looping
<1>2. LET d == ToUnicode(SubSeq(src.bytes, from + 1, end))
          e == ToUnicode(SubSeq(src.bytes, from + 1, Len(src.bytes)))
      IN  end <= Len(src.bytes) /\ d.cp # incomplete => e = d
  BY <1>1, ToUnicodeAssumption, Zenon
<1> QED BY <1>1, <1>2 DEF Read, CodePointAt

LEMMA ReadTyped ==
    ASSUME Inv, Looping, Read.cp # illegal, Read.cp # incomplete
    PROVE  Read.cp \in CodePoints /\ Read.cp \in Int /\ Read.len \in 1 .. end - from
<1>1. from \in 0 .. Len(src.bytes) /\ end \in from .. Len(src.bytes) /\ src \in Texts
  BY DEF Inv, Looping
<1>2. LET d == ToUnicode(SubSeq(src.bytes, from + 1, end))
      IN  /\ d.cp = illegal \/ d.cp = incomplete \/ d.cp \in CodePoints
          /\ d.cp >= 0 => d.len \in 1 .. end - from
  BY <1>1, ToUnicodeAssumption, Zenon
<1>3. Read.cp \in CodePoints
  BY <1>2 DEF Read
<1>4. Read.cp \in Int /\ Read.cp >= 0
  <2>1. \A cp \in CodePoints : cp \in Int /\ cp >= 0
    BY SMTT(10) DEF CodePoints
  <2> QED BY <1>3, <2>1
<1> QED BY <1>2, <1>3, <1>4 DEF Read

LEMMA InUnitInv ==
    ASSUME Inv, InUnit
    PROVE  Inv'
<1>1. /\ pc = "in" /\ Looping /\ ~NeedsPair(src.size, Read.cp)
      /\ out' = Append(out, Read.cp) /\ from' = from + Read.len
      /\ UNCHANGED <<src, pos, state, pc, end, pending>>
  BY DEF InUnit
<1>2. Read.cp # illegal /\ Read.cp # incomplete
  BY DEF InUnit, illegal, incomplete
<1>3. Read = CodePointAt(from)
  BY <1>1, <1>2, ReadIsCodePoint
<1>4. ~pending
  BY <1>1, <1>3 DEF Inv, PendingIsOtherHalf, WritesHalf
<1>5. from' \in 0 .. Len(src.bytes) /\ out' \in Seq(Int)
  BY <1>1, <1>2, ReadTyped, SMTT(30) DEF Inv
<1> QED BY <1>1, <1>4, <1>5 DEF Inv, PendingIsOtherHalf

LEMMA InPairInv ==
    ASSUME Inv, InPair
    PROVE  Inv'
<1>1. /\ pc = "in" /\ Looping /\ NeedsPair(src.size, Read.cp) /\ pending' = ~pending
      /\ UNCHANGED <<src, pos, state, pc, end>>
  BY DEF InPair
<1>2. Read.cp # illegal /\ Read.cp # incomplete
  <2>1. ~NeedsPair(src.size, illegal) /\ ~NeedsPair(src.size, incomplete)
    BY SMTT(10) DEF NeedsPair, illegal, incomplete
  <2> QED BY <1>1, <2>1
<1>3. Read = CodePointAt(from)
  BY <1>1, <1>2, ReadIsCodePoint
<1>4. Read.cp \in Int /\ Read.len \in 1 .. end - from
  BY <1>1, <1>2, ReadTyped
<1>5. HighSurrogate(Read.cp) \in Int /\ LowSurrogate(Read.cp) \in Int
  BY <1>4, SMTT(10) DEF HighSurrogate, LowSurrogate
<1>6. CASE pending
  <2>1. out' = Append(out, LowSurrogate(Read.cp)) /\ from' = from + Read.len
    BY <1>6 DEF InPair
  <2>2. from' \in 0 .. Len(src.bytes) /\ out' \in Seq(Int)
    BY <1>1, <1>4, <1>5, <2>1, SMTT(30) DEF Inv
  <2> QED BY <1>1, <1>6, <2>2 DEF Inv, PendingIsOtherHalf
<1>7. CASE ~pending
  <2>1. out' = Append(out, HighSurrogate(Read.cp)) /\ from' = from
    BY <1>7 DEF InPair
  <2>2. /\ out' \in Seq(Int) /\ out' # <<>>
        /\ out'[Len(out')] = HighSurrogate(Read.cp)
    BY <1>5, <2>1, SMTT(30) DEF Inv
  <2>3. CodePointAt(from)' = CodePointAt(from)
    BY <1>1, <2>1 DEF CodePointAt
  <2>4. WritesHalf(from)'
    BY <1>1, <1>3, <2>1, <2>2, <2>3 DEF WritesHalf, CodePointAt
  <2> QED BY <1>1, <1>7, <2>1, <2>2, <2>4 DEF Inv, PendingIsOtherHalf
<1> QED BY <1>6, <1>7

\* The calls take the state over from the calls before them, and hand it on.
LEMMA CallInv ==
    ASSUME Inv, NEW f \in {"in", "length"}, NEW e \in pos .. Len(src.bytes), NEW n, Call(f, e, n)
    PROVE  Inv'
<1>1. /\ pc = "idle" /\ pc' = f /\ from' = pos /\ end' = e /\ pending' = state
      /\ UNCHANGED <<src, out, pos, state>>
  BY DEF Call
<1>2. e \in 0 .. Len(src.bytes)
  BY DEF Inv
<1>3. state => WritesHalf(pos)
  BY <1>1 DEF Inv, PendingIsOtherHalf
<1> QED BY <1>1, <1>2, <1>3 DEF Inv, PendingIsOtherHalf, WritesHalf, CodePointAt

LEMMA InReturnsInv ==
    ASSUME Inv, InReturns
    PROVE  Inv'
<1>1. /\ pc \in {"in", "return"} /\ pc' = "idle" /\ pos' = from /\ state' = pending
      /\ UNCHANGED <<src, out, from, end, pending>>
  BY DEF InReturns
<1>2. pending => WritesHalf(from)
  BY <1>1 DEF Inv, PendingIsOtherHalf
<1> QED BY <1>1, <1>2 DEF Inv, PendingIsOtherHalf, WritesHalf, CodePointAt

\* do_length counts on a copy of the state and writes nothing.
LEMMA LengthInv ==
    ASSUME Inv, LengthCounts \/ LengthReturns
    PROVE  Inv'
<1>1. /\ pc = "length" /\ pc' \in {"length", "idle"}
      /\ UNCHANGED <<src, out, pos, state, end>>
  BY DEF LengthCounts, LengthReturns
<1>2. from' \in 0 .. Len(src.bytes)
  <2>1. CASE LengthCounts
    <3>1. Looping /\ Read.cp # illegal /\ Read.cp # incomplete
      BY <2>1 DEF LengthCounts
    <3>2. Read.len \in 1 .. end - from
      BY <3>1, ReadTyped
    <3> QED BY <2>1, <3>2, SMTT(30) DEF LengthCounts, Inv
  <2>2. CASE LengthReturns
    BY <2>2 DEF LengthReturns, Inv
  <2> QED BY <2>1, <2>2
<1> QED BY <1>1, <1>2 DEF Inv, PendingIsOtherHalf, WritesHalf, CodePointAt

LEMMA InitInv == Init => Inv
  BY DEF Init, Inv, PendingIsOtherHalf

LEMMA NextInv == Inv /\ [Next]_vars => Inv'
<1> SUFFICES ASSUME Inv, [Next]_vars
             PROVE  Inv'
  OBVIOUS
<1>1. CASE InFails
  BY <1>1 DEF InFails, Inv, PendingIsOtherHalf, WritesHalf, CodePointAt
<1>2. CASE UNCHANGED vars
  BY <1>2 DEF vars, local, Inv, PendingIsOtherHalf, WritesHalf, CodePointAt
<1> QED BY <1>1, <1>2, CallInv, InUnitInv, InPairInv, InReturnsInv, LengthInv DEF Next

\* Between calls of do_in (generic_codecvt.hpp:204), and within them, a pending
\* low surrogate is the other half of the last unit written and of the
\* character that is read next, however short a piece of it a call may see.
THEOREM PendingLowIsOtherHalf == Spec => []PendingIsOtherHalf
<1>1. Inv => PendingIsOtherHalf
  BY DEF Inv
<1> QED BY <1>1, InitInv, NextInv, PTL DEF Spec

-----------------------------------------------------------------------------
(* do_length and do_in run the same loop.  A place in it is the byte, whether *)
(* a low surrogate is pending, and the room: Turn gives the next one.         *)

Bit(b) == IF b THEN 1 ELSE 0

Places == Int \X {0, 1} \X Int

ReadAt(t, e, i) == ToUnicode(SubSeq(t.bytes, i + 1, e))

Ends(t, e) == {x \in Places : ~(x[3] > 0 /\ x[1] < e) \/ ReadAt(t, e, x[1]).cp \in {illegal, incomplete}}

Turn(t, e, x) ==
    LET d == ReadAt(t, e, x[1])
    IN  CASE ~NeedsPair(t.size, d.cp) -> <<x[1] + d.len, x[2], x[3] - 1>>
          [] NeedsPair(t.size, d.cp) /\ x[2] = 1 -> <<x[1] + d.len, 0, x[3] - 1>>
          [] OTHER -> <<x[1], 1, x[3] - 1>>

\* Sets of places that the loop neither enters nor leaves.
Kept(t, e, S) == \A x \in Places \ Ends(t, e) : x \in S <=> Turn(t, e, x) \in S

\* Two places of one run of the loop: no such set tells them apart.
SameRun(t, e, x, y) == \A S \in SUBSET Places : Kept(t, e, S) => (x \in S <=> y \in S)

\* A run has one end: the places that lead to an end lead to no other one.
LEMMA OneEnd ==
    ASSUME NEW t, NEW e, NEW c \in Ends(t, e), NEW d \in Ends(t, e), SameRun(t, e, c, d)
    PROVE  c = d
<1> DEFINE Back(T) == c \in T /\ \A x \in Places \ Ends(t, e) : Turn(t, e, x) \in T => x \in T
           S == {x \in Places : \A T \in SUBSET Places : Back(T) => x \in T}
<1> SUFFICES ASSUME c # d
             PROVE  FALSE
  OBVIOUS
<1>1. c \in Places /\ d \in Places
  BY DEF Ends
<1>2. c \in S
  BY <1>1
<1>3. S \in SUBSET Places
  OBVIOUS
<1>4. \A x \in Places \ Ends(t, e) : Turn(t, e, x) \in S => x \in S
  OBVIOUS
\* Nothing could be left out of S.
<1>5. ASSUME NEW x \in S, x # c, \A y \in Places \ Ends(t, e) : Turn(t, e, y) \in S /\ Turn(t, e, y) # x => y # x
      PROVE  FALSE
  <2>1. S \ {x} \in SUBSET Places
    BY <1>3
  <2>2. Back(S \ {x})
    BY <1>2, <1>4, <1>5
  <2> QED BY <2>1, <2>2
<1>6. ASSUME NEW x \in Places \ Ends(t, e), x \in S
      PROVE  Turn(t, e, x) \in S
  BY <1>5, <1>6
<1>7. d \notin S
  BY <1>5
<1>8. Kept(t, e, S)
  BY <1>4, <1>6 DEF Kept
<1> HIDE DEF S
<1> QED BY <1>2, <1>3, <1>7, <1>8 DEF SameRun

\* A turn of the loop stays in the run.
LEMMA TurnStays ==
    ASSUME NEW t, NEW e, NEW x, NEW y \in Places \ Ends(t, e), SameRun(t, e, x, y)
    PROVE  SameRun(t, e, x, Turn(t, e, y))
  BY DEF SameRun, Kept

Here == <<from, Bit(pending), room>>
Start == <<pos, Bit(state), predicted.max>>

\* What is known of the do_length that was asked: where its run is, or ended.
Asked ==
    /\ predicted.max \in Int
    /\ pc = "length" => predicted.end = end /\ SameRun(src, end, Start, Here)
    /\ pc # "length" =>
          /\ predicted.pending \in BOOLEAN /\ predicted.took \in Int
          /\ \E n \in Int :
                LET at == <<pos + predicted.took, Bit(predicted.pending), n>>
                IN  at \in Ends(src, predicted.end) /\ SameRun(src, predicted.end, Start, at)
    /\ pc \in {"in", "return"} => predicted.end = end /\ SameRun(src, end, Start, Here)

RunInv ==
    /\ Inv
    /\ state \in BOOLEAN /\ pending \in BOOLEAN /\ room \in Int
    /\ pc = "length" => predicted # None
    /\ pc = "return" => Here \in Ends(src, end)
    /\ predicted # None => Asked

\* One iteration, of either function, is one turn.
LEMMA LoopTurns ==
    ASSUME RunInv, LengthCounts \/ InUnit \/ InPair
    PROVE  /\ Here \in Places \ Ends(src, end) /\ Here' = Turn(src, end, Here)
           /\ from' \in Int /\ pending' \in BOOLEAN /\ room' \in Int
           /\ UNCHANGED <<src, pos, state, pc, end, predicted>>
<1>1. /\ Looping /\ room' = room - 1
      /\ UNCHANGED <<src, pos, state, pc, end, predicted>>
  BY DEF LengthCounts, InUnit, InPair
<1>2. Read.cp # illegal /\ Read.cp # incomplete
  <2>1. ~NeedsPair(src.size, illegal) /\ ~NeedsPair(src.size, incomplete)
    BY SMTT(10) DEF NeedsPair, illegal, incomplete
  <2>2. CASE InUnit
    BY <2>2 DEF InUnit, illegal, incomplete
  <2> QED BY <2>1, <2>2 DEF LengthCounts, InPair
<1>3. from \in Int /\ end \in Int /\ room \in Int /\ Read.len \in Int
  BY <1>1, <1>2, ReadTyped DEF RunInv, Inv
<1>4. Here \in Places /\ Here[1] = from /\ Here[2] = Bit(pending) /\ Here[3] = room
  BY <1>3 DEF Here, Places, Bit
<1>5. ReadAt(src, end, from) = Read
  BY DEF ReadAt, Read
<1>6. Here \notin Ends(src, end)
  BY <1>1, <1>2, <1>4, <1>5 DEF Ends, Looping
<1>7. /\ from' = IF NeedsPair(src.size, Read.cp) /\ ~pending THEN from ELSE from + Read.len
      /\ pending' = IF NeedsPair(src.size, Read.cp) THEN ~pending ELSE pending
  BY DEF LengthCounts, InUnit, InPair
<1>8. Here' = <<from', Bit(pending)', room'>>
  BY DEF Here
<1>9. Bit(pending)' = IF pending' THEN 1 ELSE 0
  BY DEF Bit
<1>10. Turn(src, end, Here) =
         IF ~NeedsPair(src.size, Read.cp) THEN <<from + Read.len, Bit(pending), room - 1>>
         ELSE IF Bit(pending) = 1 THEN <<from + Read.len, 0, room - 1>>
         ELSE <<from, 1, room - 1>>
  BY <1>4, <1>5 DEF Turn
<1>11. Here' = Turn(src, end, Here)
  <2>1. CASE pending
    BY <1>1, <1>7, <1>8, <1>9, <1>10, <2>1 DEF Bit
  <2>2. CASE ~pending
    <3>1. Bit(pending) = 0
      BY <2>2 DEF Bit
    <3>2. CASE NeedsPair(src.size, Read.cp)
      <4>1. from' = from /\ pending' = TRUE
        BY <1>7, <2>2, <3>2
      <4> QED BY <1>1, <1>8, <1>9, <1>10, <3>1, <3>2, <4>1
    <3>3. CASE ~NeedsPair(src.size, Read.cp)
      <4>1. from' = from + Read.len /\ pending' = FALSE
        BY <1>7, <2>2, <3>3
      <4> QED BY <1>1, <1>8, <1>9, <1>10, <3>1, <3>3, <4>1
    <3> QED BY <3>2, <3>3
  <2> QED BY <2>1, <2>2
<1>12. pending' \in BOOLEAN
  BY <1>7 DEF RunInv
<1> QED BY <1>1, <1>3, <1>4, <1>6, <1>7, <1>11, <1>12

LEMMA TurnInv ==
    ASSUME RunInv, Inv', LengthCounts \/ InUnit \/ InPair
    PROVE  RunInv'
<1>1. /\ Here \in Places \ Ends(src, end) /\ Here' = Turn(src, end, Here)
      /\ from' \in Int /\ pending' \in BOOLEAN /\ room' \in Int
      /\ UNCHANGED <<src, pos, state, pc, end, predicted>>
  BY LoopTurns
<1>2. pc \in {"length", "in"}
  BY DEF LengthCounts, InUnit, InPair
<1>3. Start' = Start
  BY <1>1 DEF Start, Bit
<1>4. predicted # None => SameRun(src, end, Start, Here')
  BY <1>1, <1>2, TurnStays DEF RunInv, Asked
<1>5. predicted # None => Asked'
  BY <1>1, <1>2, <1>3, <1>4 DEF RunInv, Asked
<1> QED BY <1>1, <1>2, <1>5 DEF RunInv

LEMMA StartsARun == \A t, e, x : SameRun(t, e, x, x)
  BY DEF SameRun

LEMMA CallRunInv ==
    ASSUME RunInv, Inv', NEW f \in {"in", "length"}, NEW e \in pos .. Len(src.bytes),
           NEW n \in 0 .. MaxRoom, Call(f, e, n)
    PROVE  RunInv'
<1>1. /\ pc = "idle" /\ pc' = f /\ from' = pos /\ end' = e /\ room' = n /\ pending' = state
      /\ UNCHANGED <<src, pos, state>>
      /\ f = "in" => predicted' = predicted
      /\ f = "in" /\ predicted # None => e = predicted.end /\ n = predicted.max
      /\ f = "length" => predicted' = [at |-> pos, end |-> e, max |-> n]
  BY DEF Call
<1>2. n \in Int
  OBVIOUS
<1>3. predicted' # None => predicted'.max = n /\ predicted'.end = e
  BY <1>1
<1>4. predicted' # None => Start' = Here'
  BY <1>1, <1>3 DEF Start, Here, Bit
<1>5. predicted' # None => Asked'
  <2> SUFFICES ASSUME predicted' # None
               PROVE  Asked'
    OBVIOUS
  <2>1. SameRun(src, end, Start, Here)'
    BY <1>4, StartsARun
  <2>2. CASE f = "length"
    BY <1>1, <1>2, <1>3, <2>1, <2>2 DEF Asked
  <2>3. CASE f = "in"
    <3>1. predicted # None /\ predicted' = predicted
      BY <1>1, <2>3
    <3>2. Start' = Start
      BY <1>1, <3>1 DEF Start, Bit
    <3> QED BY <1>1, <1>2, <1>3, <2>1, <2>3, <3>1, <3>2 DEF Asked, RunInv
  <2> QED BY <2>2, <2>3
<1>6. f = "length" => predicted' # None
  BY <1>1 DEF None
<1> QED BY <1>1, <1>2, <1>5, <1>6 DEF RunInv

LEMMA LengthReturnsInv ==
    ASSUME RunInv, Inv', LengthReturns
    PROVE  RunInv'
<1>1. /\ pc = "length" /\ pc' = "idle" /\ (~Looping \/ Read.cp \in {illegal, incomplete})
      /\ UNCHANGED <<src, pos, state, from, end, room, pending>>
  BY DEF LengthReturns
<1>2. /\ predicted'.end = end /\ predicted'.max = predicted.max
      /\ predicted'.took = from - pos /\ predicted'.pending = pending
  BY Zenon DEF LengthReturns
<1>3. from \in Int /\ pos \in Int /\ room \in Int /\ end \in Int /\ pending \in BOOLEAN
  BY DEF RunInv, Inv
<1>4. Here \in Ends(src, end)
  BY <1>1, <1>3 DEF Here, Ends, Places, Bit, Looping, Read, ReadAt
<1>5. Asked
  BY <1>1, Zenon DEF RunInv
<1>6. Start' = Start
  BY <1>1, <1>2 DEF Start, Bit
<1>7. predicted'.took \in Int /\ predicted'.pending \in BOOLEAN /\ predicted'.max \in Int
  BY <1>2, <1>3, <1>5 DEF Asked
<1>8. <<pos + predicted'.took, Bit(predicted'.pending), room>> = Here
  <2>1. pos + predicted'.took = from
    BY <1>2, <1>3
  <2> QED BY <1>2, <2>1 DEF Here
<1>9. SameRun(src, end, Start, Here)
  BY <1>1, <1>5, Zenon DEF Asked
<1>10. \E n \in Int :
          LET at == <<pos' + predicted'.took, Bit(predicted'.pending), n>>
          IN  at \in Ends(src', predicted'.end) /\ SameRun(src', predicted'.end, Start', at)
  BY <1>1, <1>2, <1>3, <1>4, <1>6, <1>8, <1>9
<1>11. Asked'
  <2>1. pc' # "length" /\ pc' \notin {"in", "return"}
    BY <1>1
  <2> QED BY <1>1, <1>7, <1>10, <2>1, Zenon DEF Asked
<1> QED BY <1>1, <1>3, <1>11 DEF RunInv

LEMMA InReturnsRunInv ==
    ASSUME RunInv, Inv', InReturns
    PROVE  RunInv'
<1>1. /\ pc' = "idle" /\ state' = pending /\ predicted' = None
      /\ UNCHANGED <<room, pending>>
  BY DEF InReturns
<1> QED BY <1>1 DEF RunInv

LEMMA InFailsRunInv ==
    ASSUME RunInv, Inv', InFails
    PROVE  RunInv'
<1>1. /\ pc = "in" /\ Read.cp \in {illegal, incomplete} /\ pc' = "return"
      /\ UNCHANGED <<src, pos, state, from, end, room, pending, predicted>>
  BY DEF InFails
<1>2. Start' = Start /\ Here' = Here
  BY <1>1 DEF Start, Here, Bit
<1>3. Here \in Ends(src, end)
  BY <1>1, SMTT(30) DEF Here, Ends, Places, Bit, Read, ReadAt, RunInv, Inv
<1>4. predicted # None => Asked'
  BY <1>1, <1>2 DEF RunInv, Asked
<1> QED BY <1>1, <1>2, <1>3, <1>4 DEF RunInv

LEMMA NextRunInv == RunInv /\ [Next]_vars => RunInv'
<1> SUFFICES ASSUME RunInv, [Next]_vars
             PROVE  RunInv'
  OBVIOUS
<1>1. Inv'
  BY NextInv DEF RunInv
<1>2. CASE UNCHANGED vars
  <2>1. UNCHANGED <<src, pos, state, pc, from, end, room, pending, predicted>>
    BY <1>2 DEF vars, local
  <2>2. Start' = Start /\ Here' = Here
    BY <2>1 DEF Start, Here, Bit
  <2>3. predicted # None => Asked'
    BY <2>1, <2>2 DEF RunInv, Asked
  <2> QED BY <1>1, <2>1, <2>2, <2>3 DEF RunInv
<1> QED BY <1>1, <1>2, CallRunInv, TurnInv, LengthReturnsInv, InReturnsRunInv, InFailsRunInv DEF Next

\* do_length (generic_codecvt.hpp:180) answers how far do_in goes, and with what
\* state, for every text, character size, converter, piece and room.
THEOREM LengthAlwaysPredictsIn == Spec => LengthPredictsIn
<1> DEFINE A == (pc \in {"in", "return"} /\ pc' = "idle" /\ predicted # None) =>
                  (predicted.took = pos' - pos /\ predicted.pending = state')
<1>1. Init => RunInv
  <2> SUFFICES ASSUME Init
               PROVE  RunInv
    OBVIOUS
  <2>1. Inv
    BY InitInv
  <2>2. state \in BOOLEAN /\ pending \in BOOLEAN
    BY Zenon DEF Init
  <2>3. pc = "idle" /\ predicted = None /\ room \in Int
    BY DEF Init
  <2> QED BY <2>1, <2>2, <2>3 DEF RunInv
<1>2. RunInv /\ [Next]_vars => [A]_vars
  <2> SUFFICES ASSUME RunInv, Next, pc \in {"in", "return"}, pc' = "idle", predicted # None
               PROVE  predicted.took = pos' - pos /\ predicted.pending = state'
    OBVIOUS
  <2>1. InReturns
    BY DEF Next, Call, InFails, InUnit, InPair, LengthCounts, LengthReturns
  <2>2. pos' = from /\ state' = pending /\ (pc = "return" \/ ~Looping)
    BY <2>1 DEF InReturns
  <2>3. /\ from \in Int /\ pos \in Int /\ room \in Int /\ end \in Int /\ pending \in BOOLEAN
        /\ Asked
    BY DEF RunInv, Inv
  <2>4. Here \in Ends(src, end)
    BY <2>2, <2>3 DEF Here, Ends, Places, Bit, Looping, RunInv
  <2>5. /\ predicted.pending \in BOOLEAN /\ predicted.took \in Int
        /\ predicted.end = end /\ SameRun(src, end, Start, Here)
    BY <2>3 DEF Asked
  <2>6. PICK n \in Int :
            LET at == <<pos + predicted.took, Bit(predicted.pending), n>>
            IN  at \in Ends(src, end) /\ SameRun(src, end, Start, at)
    BY <2>3, <2>5 DEF Asked
  <2>7. Here = <<pos + predicted.took, Bit(predicted.pending), n>>
    <3> DEFINE at == <<pos + predicted.took, Bit(predicted.pending), n>>
    <3>1. SameRun(src, end, Here, at) /\ at \in Ends(src, end)
      BY <2>5, <2>6 DEF SameRun
    <3>2. Here = at
      <4> HIDE DEF at
      <4> QED BY <2>4, <3>1, OneEnd
    <3> QED BY <3>2
  <2>8. from = pos + predicted.took /\ Bit(pending) = Bit(predicted.pending)
    BY <2>7 DEF Here
  <2> QED BY <2>2, <2>3, <2>5, <2>8 DEF Bit
<1> QED BY <1>1, <1>2, NextRunInv, PTL DEF Spec, LengthPredictsIn

-----------------------------------------------------------------------------
(* The conversion of the text from each byte on: that the function exists,   *)
(* and its values.                                                           *)

LEMMA UpFromZero ==
    ASSUME NEW S, 0 \in S, \A n \in Nat : n \in S => n + 1 \in S
    PROVE  Nat \subseteq S
<1> SUFFICES ASSUME Nat \ S # {}
             PROVE  FALSE
  OBVIOUS
<1>1. IsWellFoundedOn({ss \in Nat \X Nat : ss[1] < ss[2]}, Nat)
  BY NatLessThanWellFounded DEF OpToRel
<1>2. PICK n \in Nat \ S : \A m \in Nat \ S : ~(<<m, n>> \in {ss \in Nat \X Nat : ss[1] < ss[2]})
  BY <1>1, WFMin
<1>3. n # 0 /\ n - 1 \in Nat
  BY <1>2
<1>4. n - 1 \notin S
  BY <1>2, <1>3
<1>5. <<n - 1, n>> \in {ss \in Nat \X Nat : ss[1] < ss[2]}
  BY <1>3
<1> QED BY <1>2, <1>3, <1>4, <1>5

At(t, i) == ToUnicode(SubSeq(t.bytes, i + 1, Len(t.bytes)))

AfterBody(t, g, i) ==
    IF At(t, i).cp < 0 THEN [units |-> <<>>, ok |-> i = Len(t.bytes)]
    ELSE [units |-> Units(t.size, At(t, i).cp) \o g[i + At(t, i).len].units,
          ok |-> g[i + At(t, i).len].ok]

LEMMA AtTyped ==
    ASSUME NEW t \in Texts, NEW i \in 0 .. Len(t.bytes)
    PROVE  /\ At(t, i).cp = illegal \/ At(t, i).cp = incomplete \/ At(t, i).cp \in CodePoints
           /\ At(t, i).cp >= 0 => At(t, i).len \in 1 .. Len(t.bytes) - i
           /\ At(t, i).cp \in Int
<1>1. Len(t.bytes) \in i .. Len(t.bytes)
  OBVIOUS
<1>2. /\ At(t, i).cp = illegal \/ At(t, i).cp = incomplete \/ At(t, i).cp \in CodePoints
      /\ At(t, i).cp >= 0 => At(t, i).len \in 1 .. Len(t.bytes) - i
  BY <1>1, ToUnicodeAssumption, Zenon DEF At
<1>3. \A cp \in CodePoints : cp \in Int
  BY SMTT(10) DEF CodePoints
<1> QED BY <1>2, <1>3 DEF illegal, incomplete

LEMMA AfterExists ==
    ASSUME NEW t \in Texts
    PROVE  \E g : g = [i \in 0 .. Len(t.bytes) |-> AfterBody(t, g, i)]
<1> DEFINE L == Len(t.bytes)
<1>0. L \in Nat
  BY TextsAssumption
<1> DEFINE S == {m \in Nat : m > L + 1 \/ \E g : g = [i \in L + 1 - m .. L |-> AfterBody(t, g, i)]}
<1>1. 0 \in S
  <2> DEFINE g == [i \in {} |-> 0]
  <2>1. L + 1 - 0 .. L = {}
    OBVIOUS
  <2>2. g = [i \in {} |-> AfterBody(t, g, i)]
    OBVIOUS
  <2>3. \E f : f = [i \in {} |-> AfterBody(t, f, i)]
    BY <2>2
  <2> QED BY <2>1, <2>3
<1>2. ASSUME NEW m \in Nat, m \in S
      PROVE  m + 1 \in S
  <2>1. CASE m + 1 > L + 1
    BY <2>1
  <2>2. CASE m + 1 <= L + 1
    <3>1. PICK g : g = [i \in L + 1 - m .. L |-> AfterBody(t, g, i)]
      BY <1>2, <2>2
    <3> DEFINE k == L - m
               h == [i \in k .. L |-> IF i = k THEN AfterBody(t, g, k) ELSE g[i]]
    <3>2. k \in 0 .. L /\ L + 1 - (m + 1) = k /\ L + 1 - m = k + 1
      <4>1. \A n \in Nat : m + 1 <= n + 1 =>
                n - m \in 0 .. n /\ n + 1 - (m + 1) = n - m /\ n + 1 - m = n - m + 1
        OBVIOUS
      <4> HIDE DEF h
      <4> QED BY <1>0, <2>2, <4>1
    <3>3. ASSUME NEW i \in k .. L
          PROVE  AfterBody(t, h, i) = AfterBody(t, g, i)
      <4>1. CASE At(t, i).cp < 0
        BY <4>1 DEF AfterBody
      <4>2. CASE ~(At(t, i).cp < 0)
        <5>1. i \in 0 .. L
          BY <3>2
        <5>2. At(t, i).cp >= 0 /\ At(t, i).len \in 1 .. L - i
          BY <4>2, <5>1, AtTyped
        <5>3. i + At(t, i).len \in k .. L /\ i + At(t, i).len # k
          BY <3>2, <5>1, <5>2, SMTT(30)
        <5>4. h[i + At(t, i).len] = g[i + At(t, i).len]
          BY <5>3
        <5> HIDE DEF h
        <5> QED BY <5>4 DEF AfterBody
      <4> QED BY <4>1, <4>2
    <3>4. ASSUME NEW i \in k .. L
          PROVE  h[i] = AfterBody(t, g, i)
      <4>1. CASE i = k
        BY <4>1
      <4>2. CASE i # k
        <5>1. i \in L + 1 - m .. L
          BY <3>2, <4>2
        <5>2. g[i] = AfterBody(t, g, i)
          BY <3>1, <5>1
        <5> QED BY <4>2, <5>2
      <4> QED BY <4>1, <4>2
    <3>5. h = [i \in k .. L |-> AfterBody(t, h, i)]
      <4>1. \A i \in k .. L : h[i] = AfterBody(t, h, i)
        BY <3>3, <3>4
      <4>2. h = [i \in k .. L |-> h[i]]
        OBVIOUS
      <4> HIDE DEF h
      <4> QED BY <4>1, <4>2
    <3> HIDE DEF h
    <3>6. \E f : f = [i \in k .. L |-> AfterBody(t, f, i)]
      BY <3>5
    <3> QED BY <3>2, <3>6
  <2> QED BY <2>1, <2>2
<1>3. L + 1 \in S
  <2> HIDE DEF S
  <2>1. Nat \subseteq S
    BY <1>1, <1>2, UpFromZero
  <2> QED BY <2>1
<1>4. L + 1 - (L + 1) = 0
  BY <1>0
<1> QED BY <1>0, <1>3, <1>4

LEMMA AfterIsItself ==
    ASSUME NEW t \in Texts
    PROVE  After(t) = [i \in 0 .. Len(t.bytes) |-> AfterBody(t, After(t), i)]
<1> DEFINE P(g) == g = [i \in 0 .. Len(t.bytes) |-> AfterBody(t, g, i)]
<1>1. \E g : P(g)
  BY AfterExists
<1>2. After(t) = CHOOSE g : P(g)
  BY Zenon DEF After, AfterBody, At
<1>3. P(CHOOSE g : P(g))
  <2> HIDE DEF P
  <2> QED BY <1>1, Zenon
<1> QED BY <1>2, <1>3, Zenon

LEMMA AfterValue ==
    ASSUME NEW t \in Texts, NEW i \in 0 .. Len(t.bytes)
    PROVE  /\ At(t, i).cp < 0 =>
                /\ After(t)[i].units = <<>>
                /\ After(t)[i].ok <=> i = Len(t.bytes)
           /\ ~(At(t, i).cp < 0) =>
                /\ After(t)[i].units = Units(t.size, At(t, i).cp) \o After(t)[i + At(t, i).len].units
                /\ After(t)[i].ok = After(t)[i + At(t, i).len].ok
<1> DEFINE g == After(t)
<1>1. g = [j \in 0 .. Len(t.bytes) |-> AfterBody(t, g, j)]
  BY AfterIsItself
<1> HIDE DEF g
<1>2. g[i] = AfterBody(t, g, i)
  BY <1>1, Zenon
<1>3. CASE At(t, i).cp < 0
  <2>1. g[i] = [units |-> <<>>, ok |-> i = Len(t.bytes)]
    BY <1>2, <1>3, Zenon DEF AfterBody
  <2> DEFINE u == <<>>
             b == i = Len(t.bytes)
  <2>2. g[i].units = u /\ g[i].ok = b
    <3>1. g[i] = [units |-> u, ok |-> b]
      BY <2>1
    <3> HIDE DEF u, b
    <3> QED BY <3>1
  <2> QED BY <1>3, <2>2, Zenon DEF g
<1>4. CASE ~(At(t, i).cp < 0)
  <2>1. g[i] = [units |-> Units(t.size, At(t, i).cp) \o g[i + At(t, i).len].units,
                ok |-> g[i + At(t, i).len].ok]
    BY <1>2, <1>4, Zenon DEF AfterBody
  <2> DEFINE u == Units(t.size, At(t, i).cp) \o g[i + At(t, i).len].units
             b == g[i + At(t, i).len].ok
  <2>2. g[i].units = u /\ g[i].ok = b
    <3>1. g[i] = [units |-> u, ok |-> b]
      BY <2>1
    <3> HIDE DEF u, b
    <3> QED BY <3>1
  <2> QED BY <1>4, <2>2, Zenon DEF g
<1> QED BY <1>3, <1>4

LEMMA UnitsTyped ==
    ASSUME NEW size, NEW cp \in Int
    PROVE  Units(size, cp) \in Seq(Int)
<1>1. HighSurrogate(cp) \in Int /\ LowSurrogate(cp) \in Int
  BY SMTT(10) DEF HighSurrogate, LowSurrogate
<1>2. encode16(cp) \in Seq(Int)
  <2> HIDE DEF HighSurrogate, LowSurrogate
  <2> QED BY <1>1 DEF encode16
<1> QED BY <1>2 DEF Units

LEMMA AfterTyped ==
    ASSUME NEW t \in Texts, NEW i \in 0 .. Len(t.bytes)
    PROVE  After(t)[i].units \in Seq(Int)
<1> DEFINE L == Len(t.bytes)
           S == {m \in Nat : \A j \in 0 .. L : L - j < m => After(t)[j].units \in Seq(Int)}
<1>0. L \in Nat
  BY TextsAssumption
<1>1. 0 \in S
  BY <1>0
<1>2. ASSUME NEW m \in Nat, m \in S
      PROVE  m + 1 \in S
  <2> SUFFICES ASSUME NEW j \in 0 .. L, L - j < m + 1
               PROVE  After(t)[j].units \in Seq(Int)
    BY <1>2
  <2> HIDE DEF L
  <2>1. CASE At(t, j).cp < 0
    <3>1. After(t)[j].units = <<>>
      BY <2>1, AfterValue DEF L
    <3> QED BY <3>1
  <2>2. CASE ~(At(t, j).cp < 0)
    <3>1. At(t, j).len \in 1 .. L - j /\ At(t, j).cp \in Int
      BY <2>2, AtTyped DEF L
    <3>2. j + At(t, j).len \in 0 .. L /\ L - (j + At(t, j).len) < m
      BY <1>0, <3>1, SMTT(30)
    <3>3. After(t)[j + At(t, j).len].units \in Seq(Int)
      BY <1>2, <3>2
    <3>4. After(t)[j].units = Units(t.size, At(t, j).cp) \o After(t)[j + At(t, j).len].units
      BY <2>2, AfterValue DEF L
    <3> QED BY <3>1, <3>3, <3>4, UnitsTyped, ConcatProperties
  <2> QED BY <2>1, <2>2
<1>3. L + 1 \in S
  <2> HIDE DEF S
  <2>1. Nat \subseteq S
    BY <1>1, <1>2, UpFromZero
  <2> QED BY <1>0, <2>1
<1> QED BY <1>0, <1>3

-----------------------------------------------------------------------------
(* Reading implements the promise, step by step: what is written is followed *)
(* by the conversion of the rest of the text, so that every unit extends the *)
(* conversion of the whole text and no verdict comes before all of it is     *)
(* written.                                                                  *)

\* What is written, and what the text from byte i on adds to it, is the whole;
\* p: the first half of the pair at byte i is written.
Written(i, p) ==
    /\ p => Whole(src).units =
                out \o (<<LowSurrogate(At(src, i).cp)>> \o After(src)[i + At(src, i).len].units)
    /\ ~p => Whole(src).units = out \o After(src)[i].units
    /\ After(src)[i].ok <=> Whole(src).ok

WriteInv ==
    /\ Inv
    /\ pc \in {"idle", "length"} => Written(pos, state)
    /\ pc \in {"in", "return"} =>
            Written(from, pending) /\ verdict = "open" /\ from <= end
    /\ pc = "in" => r = "ok"
    /\ pc = "return" =>
            /\ Looping
            /\ \/ (r = "error" /\ Read.cp = illegal)
               \/ (r = "partial" /\ Read.cp = incomplete)

LEMMA Regroup ==
    ASSUME NEW s \in Seq(Int), NEW t \in Seq(Int), NEW u \in Seq(Int)
    PROVE  (s \o t) \o u = s \o (t \o u)
  BY ConcatAssociative, SMTT(30)

LEMMA PairOfTwo ==
    ASSUME NEW a \in Int, NEW b \in Int
    PROVE  <<a, b>> = <<a>> \o <<b>>
<1> DEFINE s == <<a>>
           t == <<b>>
           u == <<a, b>>
<1>1. s \in Seq(Int) /\ Len(s) = 1 /\ s[1] = a
  OBVIOUS
<1>2. t \in Seq(Int) /\ Len(t) = 1 /\ t[1] = b
  OBVIOUS
<1>3. u \in Seq(Int) /\ Len(u) = 2 /\ u[1] = a /\ u[2] = b
  OBVIOUS
<1> HIDE DEF s, t, u
<1>4. s \o t \in Seq(Int) /\ Len(s \o t) = 2 /\ (s \o t)[1] = a /\ (s \o t)[2] = b
  <2>1. /\ s \o t \in Seq(Int)
        /\ Len(s \o t) = Len(s) + Len(t)
        /\ \A i \in 1 .. Len(s) + Len(t) : (s \o t)[i] = IF i <= Len(s) THEN s[i] ELSE t[i - Len(s)]
    BY <1>1, <1>2, ConcatProperties, Zenon
  <2> DEFINE st == s \o t
  <2> HIDE DEF st
  <2>2. /\ st \in Seq(Int)
        /\ Len(st) = Len(s) + Len(t)
        /\ \A i \in 1 .. Len(s) + Len(t) : st[i] = IF i <= Len(s) THEN s[i] ELSE t[i - Len(s)]
    BY <2>1 DEF st
  <2>3. st \in Seq(Int) /\ Len(st) = 2 /\ st[1] = a /\ st[2] = b
    BY <1>1, <1>2, <2>2
  <2> QED BY <2>3 DEF st
<1>5. u = s \o t
  <2> DEFINE st == s \o t
  <2>1. st \in Seq(Int) /\ Len(st) = 2 /\ st[1] = a /\ st[2] = b
    BY <1>4
  <2> HIDE DEF st
  <2>2. Len(u) = Len(st) /\ \A i \in 1 .. Len(u) : u[i] = st[i]
    BY <1>3, <2>1
  <2>3. u = st
    BY <1>3, <2>1, <2>2, SeqEqual
  <2> QED BY <2>3 DEF st
<1> QED BY <1>5 DEF s, t, u

LEMMA InitWriteInv == Init => WriteInv
<1> SUFFICES ASSUME Init
             PROVE  WriteInv
  OBVIOUS
<1>1. Inv /\ 0 \in 0 .. Len(src.bytes) /\ src \in Texts
  BY InitInv DEF Inv, Init
<1>2. After(src)[0].units \in Seq(Int)
  BY <1>1, AfterTyped
<1>3. After(src)[0].units = out \o After(src)[0].units
  BY <1>2, ConcatEmptySeq DEF Init
<1>4. Written(0, FALSE)
  BY <1>3, Zenon DEF Written, Whole
<1>5. pc = "idle" /\ pos = 0 /\ state = FALSE
  BY DEF Init
<1>6. Written(pos, state)
  BY <1>4, <1>5, Zenon
<1> QED BY <1>1, <1>5, <1>6 DEF WriteInv

\* The unit of a code point that is one unit.
LEMMA InUnitWrites ==
    ASSUME WriteInv, InUnit
    PROVE  Written(from, pending)' /\ ~pending'
<1>1. /\ pc = "in" /\ Looping /\ ~NeedsPair(src.size, Read.cp) /\ Read.cp >= 0
      /\ out' = Append(out, Read.cp) /\ from' = from + Read.len
      /\ UNCHANGED <<src, pending>> /\ Inv /\ Written(from, pending)
  BY DEF InUnit, WriteInv
<1>2. Read.cp # illegal /\ Read.cp # incomplete
  BY <1>1 DEF illegal, incomplete
<1>3. Read = At(src, from)
  BY <1>1, <1>2, ReadIsCodePoint DEF CodePointAt, At
<1>4. Read.cp \in Int /\ Read.len \in 1 .. end - from
  BY <1>1, <1>2, ReadTyped
<1>5. /\ src \in Texts /\ from \in 0 .. Len(src.bytes) /\ from + Read.len \in 0 .. Len(src.bytes)
      /\ out \in Seq(Int) /\ ~pending
  BY <1>1, <1>3, <1>4, SMTT(30) DEF Inv, PendingIsOtherHalf, WritesHalf, CodePointAt, At
<1> DEFINE rest == After(src)[from + Read.len].units
<1>6. /\ After(src)[from].units = <<Read.cp>> \o rest
      /\ After(src)[from].ok = After(src)[from + Read.len].ok
  <2>1. ~(At(src, from).cp < 0)
    BY <1>1, <1>3, <1>4
  <2>2. Units(src.size, Read.cp) = <<Read.cp>>
    BY <1>1, Zenon DEF Units
  <2> QED BY <1>3, <1>5, <2>1, <2>2, AfterValue, Zenon
<1>7. rest \in Seq(Int)
  BY <1>5, AfterTyped
<1>8. Whole(src).units = out \o (<<Read.cp>> \o rest)
  BY <1>1, <1>5, <1>6, Zenon DEF Written
<1>9. out' = out \o <<Read.cp>>
  BY <1>1, <1>4, <1>5, AppendIsConcat
<1>10. Whole(src).units = out' \o rest
  <2> HIDE DEF rest
  <2>1. <<Read.cp>> \in Seq(Int)
    BY <1>4
  <2>2. (out \o <<Read.cp>>) \o rest = out \o (<<Read.cp>> \o rest)
    BY <1>5, <1>7, <2>1, Regroup, Zenon
  <2> QED BY <1>8, <1>9, <2>2, Zenon
<1>11. After(src)[from + Read.len].ok <=> Whole(src).ok
  BY <1>1, <1>6, Zenon DEF Written
<1>12. Whole(src').units = out' \o After(src')[from'].units /\ (After(src')[from'].ok <=> Whole(src').ok)
  BY <1>1, <1>10, <1>11, Zenon
<1> QED BY <1>1, <1>5, <1>12, Zenon DEF Written

LEMMA InPairWrites ==
    ASSUME WriteInv, InPair
    PROVE  Written(from, pending)'
<1>1. /\ pc = "in" /\ Looping /\ NeedsPair(src.size, Read.cp)
      /\ pending' = ~pending /\ src' = src /\ Inv /\ Written(from, pending)
  BY DEF InPair, WriteInv
<1>2. Read.cp # illegal /\ Read.cp # incomplete
  <2>1. ~NeedsPair(src.size, illegal) /\ ~NeedsPair(src.size, incomplete)
    BY SMTT(10) DEF NeedsPair, illegal, incomplete
  <2> QED BY <1>1, <2>1
<1>3. Read = At(src, from)
  BY <1>1, <1>2, ReadIsCodePoint DEF CodePointAt, At
<1>4. Read.cp \in Int /\ Read.len \in 1 .. end - from
  BY <1>1, <1>2, ReadTyped
<1> DEFINE high == HighSurrogate(Read.cp)
           low == LowSurrogate(Read.cp)
           rest == After(src)[from + Read.len].units
<1>5. high \in Int /\ low \in Int
  BY <1>4, SMTT(10) DEF HighSurrogate, LowSurrogate
<1>6. /\ src \in Texts /\ from \in 0 .. Len(src.bytes) /\ from + Read.len \in 0 .. Len(src.bytes)
      /\ out \in Seq(Int)
  BY <1>1, <1>4, SMTT(30) DEF Inv
<1>7. rest \in Seq(Int) /\ <<high>> \in Seq(Int) /\ <<low>> \in Seq(Int)
  <2>1. rest \in Seq(Int)
    BY <1>6, AfterTyped
  <2> HIDE DEF high, low, rest
  <2> QED BY <1>5, <2>1
<1>8. /\ After(src)[from].units = <<high, low>> \o rest
      /\ After(src)[from].ok = After(src)[from + Read.len].ok
  <2>1. ~(At(src, from).cp < 0)
    BY <1>1, <1>3, <1>4, SMTT(10) DEF NeedsPair
  <2>2. Units(src.size, Read.cp) = <<high, low>>
    <3> DEFINE most == 65535
    <3>1. ~(Read.cp <= most)
      BY <1>1, <1>4, SMTT(10) DEF NeedsPair
    <3>2. encode16(Read.cp) = IF Read.cp <= most THEN <<Read.cp>> ELSE <<high, low>>
      BY DEF encode16
    <3>3. encode16(Read.cp) = <<high, low>>
      <4> HIDE DEF most, high, low
      <4> QED BY <3>1, <3>2, Zenon
    <3> QED BY <1>1, <3>3, Zenon DEF Units
  <2> HIDE DEF high, low
  <2> QED BY <1>3, <1>6, <2>1, <2>2, AfterValue, Zenon
<1>9. <<high, low>> \o rest = <<high>> \o (<<low>> \o rest)
  <2> HIDE DEF high, low, rest
  <2>1. <<high, low>> = <<high>> \o <<low>>
    BY <1>5, PairOfTwo
  <2>2. (<<high>> \o <<low>>) \o rest = <<high>> \o (<<low>> \o rest)
    BY <1>7, Regroup, Zenon
  <2> QED BY <2>1, <2>2, Zenon
<1>10. ASSUME pending
       PROVE  Written(from, pending)'
  <2>1. out' = Append(out, low) /\ from' = from + Read.len /\ ~pending'
    BY <1>1, <1>10 DEF InPair
  <2>2. Whole(src).units = out \o (<<low>> \o rest)
    BY <1>1, <1>3, <1>10, Zenon DEF Written
  <2>3. out' = out \o <<low>>
    <3> HIDE DEF low
    <3> QED BY <1>5, <1>6, <2>1, AppendIsConcat
  <2>4. (out \o <<low>>) \o rest = out \o (<<low>> \o rest)
    <3> HIDE DEF low, rest
    <3> QED BY <1>6, <1>7, Regroup, Zenon
  <2>5. Whole(src).units = out' \o After(src)[from'].units
    BY <2>1, <2>2, <2>3, <2>4, Zenon
  <2>6. After(src)[from'].ok <=> Whole(src).ok
    BY <1>1, <1>8, <2>1, Zenon DEF Written
  <2> QED BY <1>1, <2>1, <2>5, <2>6, Zenon DEF Written
<1>11. ASSUME ~pending
       PROVE  Written(from, pending)'
  <2>1. out' = Append(out, high) /\ from' = from /\ pending'
    BY <1>1, <1>11 DEF InPair
  <2>2. Whole(src).units = out \o (<<high>> \o (<<low>> \o rest))
    BY <1>1, <1>8, <1>9, <1>11, Zenon DEF Written
  <2>3. out' = out \o <<high>>
    <3> HIDE DEF high
    <3> QED BY <1>5, <1>6, <2>1, AppendIsConcat
  <2>4. (out \o <<high>>) \o (<<low>> \o rest) = out \o (<<high>> \o (<<low>> \o rest))
    <3> HIDE DEF high, low, rest
    <3>1. <<low>> \o rest \in Seq(Int)
      BY <1>7, ConcatProperties
    <3> QED BY <1>6, <1>7, <3>1, Regroup, Zenon
  <2>5. Whole(src).units = out' \o (<<LowSurrogate(At(src, from').cp)>>
                                        \o After(src)[from' + At(src, from').len].units)
    BY <1>3, <2>1, <2>2, <2>3, <2>4, Zenon
  <2>6. After(src)[from'].ok <=> Whole(src).ok
    BY <1>1, <2>1, Zenon DEF Written
  <2> QED BY <1>1, <2>1, <2>5, <2>6, Zenon DEF Written
<1> QED BY <1>10, <1>11, Zenon

LEMMA InLoopWriteInv ==
    ASSUME WriteInv, InUnit \/ InPair
    PROVE  WriteInv'
<1>1. /\ pc = "in" /\ pc' = pc /\ verdict' = verdict /\ end' = end /\ r' = r
      /\ Looping /\ Inv
  BY DEF InUnit, InPair, WriteInv
<1>2. Inv'
  BY <1>1, InUnitInv, InPairInv
<1>3. Written(from, pending)'
  BY InUnitWrites, InPairWrites
<1>4. Read.cp # illegal /\ Read.cp # incomplete
  <2>1. ~NeedsPair(src.size, illegal) /\ ~NeedsPair(src.size, incomplete)
    BY SMTT(10) DEF NeedsPair, illegal, incomplete
  <2>2. ~(illegal >= 0) /\ ~(incomplete >= 0)
    BY DEF illegal, incomplete
  <2> QED BY <2>1, <2>2, Zenon DEF InUnit, InPair
<1>5. Read.len \in 1 .. end - from
  BY <1>1, <1>4, ReadTyped
<1>6. from' = from \/ from' = from + Read.len
  BY DEF InUnit, InPair
<1>7. from' <= end'
  BY <1>1, <1>5, <1>6 DEF Looping, Inv
<1> QED BY <1>1, <1>2, <1>3, <1>7 DEF WriteInv

LEMMA InFailsWriteInv ==
    ASSUME WriteInv, InFails
    PROVE  WriteInv'
<1>1. /\ pc = "in" /\ pc' = "return" /\ Looping /\ Read.cp \in {illegal, incomplete}
      /\ r' = IF Read.cp = illegal THEN "error" ELSE "partial"
      /\ UNCHANGED <<src, out, verdict, pos, state, from, end, room, pending>>
  BY DEF InFails
<1>2. Inv'
  BY NextInv DEF WriteInv, Next
<1>3. (Written(from, pending) /\ verdict = "open" /\ from <= end)'
  BY <1>1 DEF WriteInv, Written
<1>4. Looping' /\ Read' = Read
  BY <1>1 DEF Looping, Read
<1> QED BY <1>1, <1>2, <1>3, <1>4 DEF WriteInv

LEMMA InReturnsWriteInv ==
    ASSUME WriteInv, InReturns
    PROVE  WriteInv'
<1>1. /\ pc \in {"in", "return"} /\ pc' = "idle" /\ pos' = from /\ state' = pending
      /\ UNCHANGED <<src, out>>
  BY DEF InReturns
<1>2. Inv'
  BY NextInv DEF WriteInv, Next
<1>3. Written(pos, state)'
  BY <1>1, Zenon DEF WriteInv, Written
<1> QED BY <1>1, <1>2, <1>3 DEF WriteInv

LEMMA CallWriteInv ==
    ASSUME WriteInv, NEW f \in {"in", "length"}, NEW e \in pos .. Len(src.bytes), NEW n, Call(f, e, n)
    PROVE  WriteInv'
<1>1. /\ pc = "idle" /\ verdict = "open" /\ pc' = f /\ from' = pos /\ end' = e
      /\ pending' = state /\ r' = "ok"
      /\ UNCHANGED <<src, out, verdict, pos, state>>
  BY DEF Call
<1>2. Inv'
  BY CallInv DEF WriteInv
<1>3. Written(pos, state)' /\ Written(from, pending)'
  BY <1>1, Zenon DEF WriteInv, Written
<1>4. from' <= end'
  BY <1>1
<1> QED BY <1>1, <1>2, <1>3, <1>4 DEF WriteInv

LEMMA LengthWriteInv ==
    ASSUME WriteInv, LengthCounts \/ LengthReturns
    PROVE  WriteInv'
<1>1. /\ pc = "length" /\ pc' \in {"idle", "length"}
      /\ UNCHANGED <<src, out, pos, state>>
  BY DEF LengthCounts, LengthReturns
<1>2. Inv'
  BY NextInv DEF WriteInv, Next
<1>3. Written(pos, state)'
  BY <1>1, Zenon DEF WriteInv, Written
<1> QED BY <1>1, <1>2, <1>3 DEF WriteInv

LEMMA NextWriteInv == WriteInv /\ [Next]_vars => WriteInv'
<1> SUFFICES ASSUME WriteInv, [Next]_vars
             PROVE  WriteInv'
  OBVIOUS
<1>1. CASE UNCHANGED vars
  <2>1. Inv'
    BY <1>1, NextInv DEF WriteInv
  <2>2. Written(pos, state)' = Written(pos, state) /\ Written(from, pending)' = Written(from, pending)
    BY <1>1, Zenon DEF vars, local, Written
  <2>3. Looping' = Looping /\ Read' = Read
    BY <1>1, Zenon DEF vars, local, Looping, Read
  <2> QED BY <1>1, <2>1, <2>2, <2>3 DEF vars, local, WriteInv
<1> QED BY <1>1, CallWriteInv, InLoopWriteInv, InFailsWriteInv, InReturnsWriteInv, LengthWriteInv
        DEF Next

\* What is still to be written is a sequence of units.
LEMMA RestIsUnits ==
    ASSUME NEW t \in Texts, NEW i \in 0 .. Len(t.bytes), NeedsPair(t.size, At(t, i).cp)
    PROVE  <<LowSurrogate(At(t, i).cp)>> \o After(t)[i + At(t, i).len].units \in Seq(Int)
<1>1. At(t, i).cp \in Int
  BY AtTyped
<1>2. At(t, i).cp >= 0
  BY <1>1, SMTT(10) DEF NeedsPair
<1>3. i + At(t, i).len \in 0 .. Len(t.bytes)
  BY <1>2, AtTyped, TextsAssumption
<1>4. After(t)[i + At(t, i).len].units \in Seq(Int)
  BY <1>3, AfterTyped
<1> DEFINE low == LowSurrogate(At(t, i).cp)
<1>5. low \in Int
  BY <1>1, SMTT(10) DEF LowSurrogate
<1>6. <<low>> \in Seq(Int)
  <2> HIDE DEF low
  <2> QED BY <1>5
<1> QED BY <1>4, <1>6, ConcatProperties

LEMMA StartOfWhole ==
    ASSUME NEW s \in Seq(Int), NEW more \in Seq(Int), s # <<>>
    PROVE  s = SubSeq(s \o more, 1, Len(s)) /\ Len(s) <= Len(s \o more)
<1>1. Len(s) \in 1 .. Len(s) /\ 1 \in 1 .. Len(s)
  OBVIOUS
<1>2. SubSeq(s \o more, 1, Len(s)) = SubSeq(s, 1, Len(s))
  BY <1>1, SubSeqOfConcat1
<1>3. SubSeq(s, 1, Len(s)) = s
  BY SubSeqFull
<1>4. Len(s \o more) = Len(s) + Len(more)
  BY ConcatProperties
<1> QED BY <1>2, <1>3, <1>4

\* A unit that is written is the next one of the conversion.
LEMMA UnitIsPromised ==
    ASSUME WriteInv, InUnit \/ InPair
    PROVE  Promise!Write
<1>1. /\ verdict = "open" /\ UNCHANGED <<src, verdict>> /\ pc = "in" /\ pc' = "in"
      /\ src \in Texts /\ out \in Seq(Int)
  BY DEF WriteInv, InUnit, InPair, Inv
<1>2. WriteInv' /\ Written(from, pending)' /\ Inv'
  <2>1. WriteInv'
    BY InLoopWriteInv
  <2> QED BY <1>1, <2>1 DEF WriteInv
<1>3. out' \in Seq(Int) /\ from' \in 0 .. Len(src.bytes)
  BY <1>1, <1>2 DEF Inv
<1>4. PICK more \in Seq(Int) : Whole(src).units = out' \o more
  <2>1. CASE pending'
    <3>1. NeedsPair(src.size, At(src, from').cp)
      BY <1>1, <1>2, <2>1 DEF Inv, PendingIsOtherHalf, WritesHalf, CodePointAt, At
    <3> QED BY <1>1, <1>2, <1>3, <2>1, <3>1, RestIsUnits, Zenon DEF Written
  <2>2. CASE ~pending'
    <3>1. After(src)[from'].units \in Seq(Int)
      BY <1>1, <1>3, AfterTyped
    <3> QED BY <1>1, <1>2, <2>2, <3>1, Zenon DEF Written
  <2> QED BY <2>1, <2>2
<1>5. Len(out') = Len(out) + 1
  BY <1>1 DEF InUnit, InPair
<1>6. out' # <<>>
  BY <1>1, <1>5
<1> DEFINE goal == Whole(src).units
<1>7. out' = SubSeq(goal, 1, Len(out')) /\ Len(out') <= Len(goal)
  BY <1>3, <1>4, <1>6, StartOfWhole, Zenon
<1>8. Len(out') \in Len(out) + 1 .. Len(goal)
  BY <1>1, <1>3, <1>5, <1>7
<1> QED BY <1>1, <1>7, <1>8, Zenon DEF Promise!Write

\* The verdict is the one of the whole text, and comes with the last unit.
LEMMA VerdictIsPromised ==
    ASSUME WriteInv, InReturns
    PROVE  Promise!Decide \/ UNCHANGED <<src, out, verdict>>
<1> SUFFICES ASSUME verdict' # "open"
             PROVE  Promise!Decide
  BY DEF InReturns, WriteInv
<1>1. /\ UNCHANGED <<src, out>> /\ verdict = "open" /\ Written(from, pending) /\ Inv
      /\ pc \in {"in", "return"} /\ from <= end
      /\ src \in Texts /\ from \in 0 .. Len(src.bytes) /\ end \in 0 .. Len(src.bytes)
  BY DEF InReturns, WriteInv, Inv
<1>2. /\ At(src, from).cp \in Int
      /\ ~(At(src, from).cp < 0) => from < Len(src.bytes)
      /\ NeedsPair(src.size, At(src, from).cp) => ~(At(src, from).cp < 0)
  <2>1. At(src, from).cp \in Int
    BY <1>1, AtTyped
  <2>2. ~(At(src, from).cp < 0) => from < Len(src.bytes)
    BY <1>1, <2>1, AtTyped
  <2> QED BY <2>1, <2>2, SMTT(10) DEF NeedsPair
<1>3. pending => NeedsPair(src.size, At(src, from).cp)
  BY <1>1, Zenon DEF Inv, PendingIsOtherHalf, WritesHalf, CodePointAt, At
\* All is written once nothing can be converted from where the call stopped.
<1>4. ASSUME At(src, from).cp < 0
      PROVE  /\ out = Whole(src).units
             /\ Whole(src).ok <=> from = Len(src.bytes)
  <2>1. ~pending
    BY <1>2, <1>3, <1>4
  <2>2. Whole(src).units = out \o <<>>
    BY <1>1, <1>4, <2>1, AfterValue, Zenon DEF Written
  <2>3. out \o <<>> = out
    BY <1>1, ConcatEmptySeq DEF Inv
  <2>4. Whole(src).ok <=> from = Len(src.bytes)
    BY <1>1, <1>4, AfterValue, Zenon DEF Written
  <2> QED BY <2>2, <2>3, <2>4, Zenon
<1>5. CASE pc = "in"
  <2>1. r = "ok" /\ ~Looping
    BY <1>5 DEF WriteInv, InReturns
  <2>2. /\ verdict' = "bad" => from = end /\ pending /\ end = Len(src.bytes)
        /\ verdict' # "bad" => verdict' = "done" /\ ~pending /\ from = end /\ end = Len(src.bytes)
    BY <1>1, <1>5, <2>1 DEF InReturns, Looping
  <2>3. ~pending
    BY <1>1, <1>2, <1>3, <2>2
  <2>4. verdict' = "done" /\ from = Len(src.bytes)
    BY <2>2, <2>3
  <2>5. At(src, from).cp < 0
    BY <1>1, <1>2, <2>4
  <2> QED BY <1>1, <1>4, <2>4, <2>5, Zenon DEF Promise!Decide
<1>6. CASE pc = "return"
  <2>1. /\ Looping
        /\ \/ (r = "error" /\ Read.cp = illegal)
           \/ (r = "partial" /\ Read.cp = incomplete)
    BY <1>6 DEF WriteInv
  <2>2. verdict' = "bad" /\ (r = "partial" => end = Len(src.bytes))
    BY <1>6, <2>1 DEF InReturns
  <2>3. At(src, from).cp < 0
    <3>1. CASE r = "error"
      <4>1. Read.cp = illegal /\ illegal # incomplete /\ illegal < 0
        BY <2>1, <3>1 DEF illegal, incomplete
      <4> QED BY <1>1, <2>1, <4>1, ReadIsCodePoint DEF CodePointAt, At
    <3>2. CASE r = "partial"
      <4>1. Read = At(src, from)
        BY <2>2, <3>2 DEF Read, At
      <4> QED BY <2>1, <3>2, <4>1 DEF incomplete
    <3> QED BY <2>1, <3>1, <3>2
  <2>4. from # Len(src.bytes)
    BY <1>1, <2>1 DEF Looping
  <2> QED BY <1>1, <1>4, <2>2, <2>3, <2>4, Zenon DEF Promise!Decide
<1> QED BY <1>1, <1>5, <1>6

\* Reading a text through do_in (generic_codecvt.hpp:204), in whatever pieces
\* and with whatever room, never writes anything but the conversion of the text
\* from its start on, and accepts or rejects it as the whole text deserves and
\* only when all that can be converted is written.
THEOREM ReadingTranscodes == Spec => Promise!Safety
<1>1. Init => WriteInv /\ Promise!Init
  BY InitWriteInv, Zenon DEF Init, Promise!Init
<1>2. WriteInv /\ [Next]_vars => [Promise!Next]_(Promise!vars)
  <2> SUFFICES ASSUME WriteInv, [Next]_vars
               PROVE  Promise!Next \/ UNCHANGED <<src, out, verdict>>
    BY DEF Promise!vars
  <2>1. CASE InUnit \/ InPair
    BY <2>1, UnitIsPromised DEF Promise!Next
  <2>2. CASE InReturns
    BY <2>2, VerdictIsPromised DEF Promise!Next
  <2>3. CASE UNCHANGED vars
    BY <2>3 DEF vars
  <2> QED BY <2>1, <2>2, <2>3 DEF Next, Call, InFails, LengthCounts, LengthReturns
<1> QED BY <1>1, <1>2, NextWriteInv, PTL DEF Spec, Promise!Safety

=============================================================================
