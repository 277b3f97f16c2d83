------------------------------ MODULE CodecvtIn ------------------------------
(***************************************************************************)
(* Reading a narrow text through generic_codecvt (do_in and do_length of   *)
(* src/include/boost/locale/generic_codecvt.hpp), one loop iteration at a  *)
(* time.  The caller, a std::basic_filebuf, hands over the unread part of  *)
(* the text piece by piece, with some room for the result, and keeps the   *)
(* mbstate_t between the calls.                                            *)
(***************************************************************************)
EXTENDS Utf

CONSTANTS
    Texts,        \* the texts that are read: records [size, bytes] of the size of the
                  \* character type, 2 for UTF-16 and 4 for UTF-32, and the bytes
    ToUnicode(_), \* the CodecvtImpl's to_unicode, on the bytes of [begin, end)
    MaxRoom       \* bound: the room a caller offers

ASSUME TextsAssumption == \A t \in Texts : t.size \in {2, 4} /\ t.bytes \in Seq(0 .. 255)

\* The CodecvtImpl's contract: a code point and the bytes it took, and the same
\* ones when more bytes follow.
ASSUME ToUnicodeAssumption ==
    \A t \in Texts : \A i \in 0 .. Len(t.bytes) : \A j, k \in i .. Len(t.bytes) :
        LET d == ToUnicode(SubSeq(t.bytes, i + 1, j))
            e == ToUnicode(SubSeq(t.bytes, i + 1, k))
        IN  /\ d.cp = illegal \/ d.cp = incomplete \/ d.cp \in CodePoints
            /\ d.cp >= 0 => d.len \in 1 .. j - i
            /\ j <= k /\ d.cp # incomplete => e = d

VARIABLES
    src, out, verdict, \* the text, what was written, and the caller's verdict
    pos,               \* the bytes consumed by the calls that returned
    state,             \* mbstate_t: the high surrogate is written, the low one is not
    pc,                \* "idle", "in" or "length" in the loop, "return"
    op,                \* the function being called: "in" or "length"
    from, end,         \* its input: the bytes from + 1 .. end of the text
    room,              \* to_end - to, or max
    pending,           \* low_surrogate_pending
    r,                 \* the result so far
    predicted          \* history: what the last do_length answered

local == <<pc, op, from, end, room, pending, r>>
vars == <<src, out, verdict, pos, state, local, predicted>>

None == [at |-> -1]

Init ==
    /\ src \in Texts
    /\ out = <<>>
    /\ verdict = "open"
    /\ pos = 0
    /\ state = FALSE
    /\ pc = "idle" /\ op = "in" /\ from = 0 /\ end = 0 /\ room = 0
    /\ pending = FALSE /\ r = "ok"
    /\ predicted = None

\* Faulty: the state that the last call left is not read.
Call_Fresh(f, e, n) ==
    /\ pc = "idle" /\ verdict = "open"
    /\ f = "length" => predicted = None
    /\ f = "in" /\ predicted # None => e = predicted.end /\ n = predicted.max
    /\ pc' = f /\ op' = f /\ from' = pos /\ end' = e /\ room' = n
    /\ pending' = FALSE /\ r' = "ok"
    /\ predicted' = IF f = "length" THEN [at |-> pos, end |-> e, max |-> n] ELSE predicted
    /\ UNCHANGED <<src, out, verdict, pos, state>>

\* A call on the bytes up to e with room for n units.
Call(f, e, n) ==
    /\ pc = "idle" /\ verdict = "open"
    /\ f = "length" => predicted = None
    /\ f = "in" /\ predicted # None =>
            e = predicted.end /\ n = predicted.max
    /\ pc' = f /\ op' = f
    /\ from' = pos /\ end' = e /\ room' = n
    /\ pending' = state /\ r' = "ok"
    /\ predicted' = IF f = "length" THEN [at |-> pos, end |-> e, max |-> n] ELSE predicted
    /\ UNCHANGED <<src, out, verdict, pos, state>>

Looping == room > 0 /\ from < end
Read == ToUnicode(SubSeq(src.bytes, from + 1, end))
NeedsPair(size, cp) == size = 2 /\ cp > 65535

\* do_in: to_unicode fails, and what it read is put back.
InFails ==
    /\ pc = "in" /\ Looping
    /\ Read.cp \in {illegal, incomplete}
    /\ r' = IF Read.cp = illegal THEN "error" ELSE "partial"
    /\ pc' = "return"
    /\ UNCHANGED <<src, out, verdict, pos, state, op, from, end, room, pending, predicted>>

\* do_in: a code point that is one unit.
InUnit ==
    /\ pc = "in" /\ Looping
    /\ Read.cp >= 0 /\ ~NeedsPair(src.size, Read.cp)
    /\ out' = Append(out, Read.cp)
    /\ from' = from + Read.len
    /\ room' = room - 1
    /\ UNCHANGED <<src, verdict, pos, state, pc, op, end, pending, r, predicted>>

\* Faulty: the input is consumed with the first half of a pair.
InPair_Early ==
    /\ pc = "in" /\ Looping /\ NeedsPair(src.size, Read.cp)
    /\ out' = Append(out, IF pending THEN LowSurrogate(Read.cp) ELSE HighSurrogate(Read.cp))
    /\ from' = IF pending THEN from ELSE from + Read.len
    /\ pending' = ~pending
    /\ room' = room - 1
    /\ UNCHANGED <<src, verdict, pos, state, pc, op, end, r, predicted>>

\* do_in: a surrogate pair; the input is consumed with its second half.
InPair ==
    /\ pc = "in" /\ Looping
    /\ NeedsPair(src.size, Read.cp)
    /\ IF pending
       THEN out' = Append(out, LowSurrogate(Read.cp)) /\ from' = from + Read.len
       ELSE out' = Append(out, HighSurrogate(Read.cp)) /\ from' = from
    /\ pending' = ~pending
    /\ room' = room - 1
    /\ UNCHANGED <<src, verdict, pos, state, pc, op, end, r, predicted>>

\* do_in returns.  Being out of room or input is not an error, but all is "ok"
\* only if nothing is left.  The caller gives up on an error, and on a text
\* that ends in the middle of a character.
InReturns ==
    /\ pc = "return" \/ (pc = "in" /\ ~Looping)
    /\ LET result == IF r = "ok" /\ (from # end \/ pending) THEN "partial" ELSE r
       IN  verdict' =
             CASE result = "error" -> "bad"
               [] result = "partial" /\ end = Len(src.bytes) /\ room > 0 -> "bad"
               [] result = "ok" /\ end = Len(src.bytes) -> "done"
               [] OTHER -> "open"
    /\ pos' = from
    /\ state' = pending
    /\ pc' = "idle"
    /\ predicted' = None
    /\ UNCHANGED <<src, out, op, from, end, room, pending, r>>

\* Faulty: every character counts as one unit.
LengthCounts_Characters ==
    /\ pc = "length" /\ Looping
    /\ Read.cp \notin {illegal, incomplete}
    /\ room' = room - 1
    /\ from' = from + Read.len
    /\ UNCHANGED <<src, out, verdict, pos, state, pc, op, end, pending, r, predicted>>

\* do_length: one iteration of its loop.
LengthCounts ==
    /\ pc = "length" /\ Looping
    /\ Read.cp \notin {illegal, incomplete}
    /\ room' = room - 1
    /\ from' = IF NeedsPair(src.size, Read.cp) /\ ~pending THEN from ELSE from + Read.len
    /\ pending' = IF NeedsPair(src.size, Read.cp) THEN ~pending ELSE pending
    /\ UNCHANGED <<src, out, verdict, pos, state, pc, op, end, r, predicted>>

\* do_length returns: the caller passes a copy of its mbstate_t.
LengthReturns ==
    /\ pc = "length" /\ (~Looping \/ Read.cp \in {illegal, incomplete})
    /\ predicted' = [at |-> pos, end |-> end, max |-> predicted.max,
                     took |-> from - pos, pending |-> pending]
    /\ pc' = "idle"
    /\ UNCHANGED <<src, out, verdict, pos, state, op, from, end, room, pending, r>>

Next ==
    \/ \E f \in {"in", "length"} : \E e \in pos .. Len(src.bytes), n \in 0 .. MaxRoom : Call(f, e, n)
    \/ InFails \/ InUnit \/ InPair \/ InReturns
    \/ LengthCounts \/ LengthReturns

\* Once in a while the caller has read to the end of the text and has room,
\* and what it asked do_length about it converts next.
FullCall == Call("in", Len(src.bytes), MaxRoom)
AnnouncedCall == predicted # None /\ Call("in", predicted.end, predicted.max)

Fairness ==
    /\ WF_vars(InFails \/ InUnit \/ InPair \/ InReturns \/ LengthCounts \/ LengthReturns)
    /\ WF_vars(AnnouncedCall)
    /\ SF_vars(FullCall)

Spec == Init /\ [][Next]_vars
FairSpec == Spec /\ Fairness

-----------------------------------------------------------------------------
(* The promise: the conversion of the whole text, code point by code point. *)

Units(size, cp) == IF NeedsPair(size, cp) THEN encode16(cp) ELSE <<cp>>

\* The conversion of the text from each byte on.
After(t) ==
    LET after[i \in 0 .. Len(t.bytes)] ==
            LET d == ToUnicode(SubSeq(t.bytes, i + 1, Len(t.bytes)))
                rest == after[i + d.len]
            IN  IF d.cp < 0 THEN [units |-> <<>>, ok |-> i = Len(t.bytes)]
                ELSE [units |-> Units(t.size, d.cp) \o rest.units, ok |-> rest.ok]
    IN  after

Whole(t) == After(t)[0]

Promise == INSTANCE Transcoder

\* Whatever pieces and rooms the calls have, the stream writes the conversion of
\* the whole text, and accepts or rejects it in the end.
InTranscodes == Promise!Spec

\* The code point at byte i of the text, however much of it the caller holds.
CodePointAt(i) == ToUnicode(SubSeq(src.bytes, i + 1, Len(src.bytes)))

\* A pending low surrogate is the other half of the last unit written, also
\* when later calls see the character again through a shorter or a longer
\* piece of the text: no unit comes between the halves of a pair and the
\* second half is never one of another character.
WritesHalf(i) ==
    /\ NeedsPair(src.size, CodePointAt(i).cp)
    /\ out # <<>>
    /\ out[Len(out)] = HighSurrogate(CodePointAt(i).cp)

PendingIsOtherHalf ==
    /\ state /\ pc # "in" /\ pc # "return" => WritesHalf(pos)
    /\ pending /\ pc \in {"in", "return"} => WritesHalf(from)

\* do_length answers exactly how far do_in goes with the same state, input and
\* room, and leaves the state do_in leaves.
LengthPredictsIn ==
    [][(pc \in {"in", "return"} /\ pc' = "idle" /\ predicted # None) =>
          (predicted.took = pos' - pos /\ predicted.pending = state')]_vars
=============================================================================
