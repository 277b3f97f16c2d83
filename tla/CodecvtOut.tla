----------------------------- MODULE CodecvtOut -----------------------------
(***************************************************************************)
(* Writing a UTF-16 or UTF-32 text through generic_codecvt (do_out and     *)
(* do_unshift of src/include/boost/locale/generic_codecvt.hpp), one loop   *)
(* iteration at a time.  The caller, a std::basic_filebuf, hands over the  *)
(* text piece by piece, keeps the mbstate_t between the calls, and when it *)
(* closes the file asks unshift whether the text may end there.            *)
(***************************************************************************)
EXTENDS Utf

CONSTANTS
    Texts,          \* the texts that are written: records [size, units] of the size of
                    \* the character type, 2 for UTF-16 and 4 for UTF-32, and the units
    FromUnicode(_), \* the CodecvtImpl's from_unicode: the bytes of a code point,
                    \* <<>> if the encoding has none for it
    LittleEndian,   \* byte order of the machine
    MaxRoom         \* bound: the room for bytes a caller offers

ASSUME SizeAssumption == LittleEndian \in BOOLEAN /\ MaxRoom \in Nat
ASSUME TextsAssumption ==
    \A t \in Texts :
        /\ t.size \in {2, 4}
        /\ t.units \in Seq(Nat)
        /\ t.size = 2 => \A i \in 1 .. Len(t.units) : t.units[i] < 65536

VARIABLES
    src, out, verdict, \* the text, the bytes written, and the caller's verdict
    pos,               \* the units consumed by the calls that returned
    stored,            \* mbstate_t: a high surrogate that waits for its pair, or 0
    pc,                \* "idle", "out" in the loop, "return"
    from, end,         \* the input of do_out: the units from + 1 .. end
    room,              \* to_end - to
    state,             \* do_out's copy of the mbstate_t
    r                  \* the result so far

local == <<pc, from, end, room, state, r>>
vars == <<src, out, verdict, pos, stored, local>>

Init ==
    /\ src \in Texts
    /\ out = <<>>
    /\ verdict = "open"
    /\ pos = 0
    /\ stored = 0
    /\ pc = "idle" /\ from = 0 /\ end = 0 /\ room = 0 /\ state = 0 /\ r = "ok"

\* A call of do_out on the units up to e with room for n bytes.
Call(e, n) ==
    /\ pc = "idle" /\ verdict = "open"
    /\ pc' = "out"
    /\ from' = pos /\ end' = e /\ room' = n
    /\ state' = stored /\ r' = "ok"
    /\ UNCHANGED <<src, out, verdict, pos, stored>>

Unit == src.units[from + 1]
IsHigh(u) == src.size = 2 /\ is_first_surrogate(u)
IsLow(u) == src.size = 2 /\ is_second_surrogate(u)

Looping == pc = "out" /\ room > 0 /\ from < end

\* The unit cannot continue the text: a high surrogate without its other half,
\* or the other half alone.
Unpaired == IsLow(Unit) # (state # 0)

CodePoint == IF state # 0 THEN combine_surrogate(state, Unit) ELSE Unit

Encodable == ~Unpaired /\ is_valid_codepoint(CodePoint) /\ FromUnicode(CodePoint) # <<>>

Leave(result) ==
    /\ r' = result
    /\ pc' = "return"
    /\ UNCHANGED <<src, out, verdict, pos, stored, from, end, room, state>>

\* Faulty: the high surrogate is kept, but not consumed.
OutStores_Stays ==
    /\ Looping /\ state = 0 /\ IsHigh(Unit)
    /\ state' = Unit
    /\ UNCHANGED <<src, out, verdict, pos, stored, pc, from, end, room, r>>

\* A high surrogate is consumed and kept.
OutStores ==
    /\ Looping /\ state = 0 /\ IsHigh(Unit)
    /\ state' = Unit
    /\ from' = from + 1
    /\ UNCHANGED <<src, out, verdict, pos, stored, pc, end, room, r>>

OutRejects ==
    /\ Looping /\ ~(state = 0 /\ IsHigh(Unit))
    /\ ~Encodable
    /\ Leave("error")

OutLacksRoom ==
    /\ Looping /\ ~(state = 0 /\ IsHigh(Unit))
    /\ Encodable
    /\ Len(FromUnicode(CodePoint)) > room
    /\ Leave("partial")

OutWrites ==
    /\ Looping /\ ~(state = 0 /\ IsHigh(Unit))
    /\ Encodable
    /\ LET bytes == FromUnicode(CodePoint)
       IN  /\ Len(bytes) <= room
           /\ out' = out \o bytes
           /\ room' = room - Len(bytes)
    /\ state' = 0
    /\ from' = from + 1
    /\ UNCHANGED <<src, verdict, pos, stored, pc, end, r>>

\* Faulty: the surrogate is not handed on to the next call.
OutReturns_Forgets ==
    /\ pc = "return" \/ (pc = "out" /\ ~Looping)
    /\ verdict' = IF r = "error" THEN "bad" ELSE "open"
    /\ pos' = from /\ stored' = 0 /\ pc' = "idle"
    /\ UNCHANGED <<src, out, from, end, room, state, r>>

\* do_out returns.  The caller gives up on an error only: "partial" also means
\* that it has to come back with more room or more text.
OutReturns ==
    /\ pc = "return" \/ (pc = "out" /\ ~Looping)
    /\ verdict' = IF r = "error" THEN "bad" ELSE "open"
    /\ pos' = from
    /\ stored' = state
    /\ pc' = "idle"
    /\ UNCHANGED <<src, out, from, end, room, state, r>>

\* The byte of the mbstate_t that do_unshift looks at.
FirstByte == IF LittleEndian THEN stored % 256 ELSE stored \div 256

do_unshift == IF src.size = 2 /\ FirstByte # 0 THEN "error" ELSE "ok"

\* All is handed over and the caller closes the file.
Close ==
    /\ pc = "idle" /\ verdict = "open"
    /\ pos = Len(src.units)
    /\ verdict' = IF do_unshift = "ok" THEN "done" ELSE "bad"
    /\ UNCHANGED <<src, out, pos, stored, local>>

Next ==
    \/ \E e \in pos .. Len(src.units), n \in 0 .. MaxRoom : Call(e, n)
    \/ OutStores \/ OutRejects \/ OutLacksRoom \/ OutWrites \/ OutReturns
    \/ Close

\* Once in a while all of the text is handed over, with room for a character,
\* and a text that is all written is closed.
FullCall == Call(Len(src.units), MaxRoom)

Fairness ==
    /\ WF_vars(OutStores \/ OutRejects \/ OutLacksRoom \/ OutWrites \/ OutReturns)
    /\ SF_vars(FullCall)
    /\ SF_vars(Close)

Spec == Init /\ [][Next]_vars
FairSpec == Spec /\ Fairness

-----------------------------------------------------------------------------
(* The promise: the bytes of every code point up to the first that is not   *)
(* one or has no bytes, and a text that ends in the middle of a pair is bad. *)

IsPair(t, i) ==
    /\ t.size = 2 /\ i < Len(t.units)
    /\ is_first_surrogate(t.units[i]) /\ is_second_surrogate(t.units[i + 1])

CharacterAt(t, i) ==
    IF IsPair(t, i) THEN [cp |-> combine_surrogate(t.units[i], t.units[i + 1]), len |-> 2]
                    ELSE [cp |-> t.units[i], len |-> 1]

\* The CodecvtImpl writes bytes.
ASSUME FromUnicodeAssumption ==
    \A t \in Texts : \A i \in 1 .. Len(t.units) :
        LET cp == CharacterAt(t, i).cp
        IN  is_valid_codepoint(cp) => FromUnicode(cp) \in Seq(0 .. 255)

\* The encoding of the text from behind each unit on.
After(t) ==
    LET after[i \in 0 .. Len(t.units)] ==
            LET d == CharacterAt(t, i + 1)
                rest == after[i + d.len]
            IN  IF i = Len(t.units) THEN [units |-> <<>>, ok |-> TRUE]
                ELSE IF ~is_valid_codepoint(d.cp) \/ FromUnicode(d.cp) = <<>>
                THEN [units |-> <<>>, ok |-> FALSE]
                ELSE [units |-> FromUnicode(d.cp) \o rest.units, ok |-> rest.ok]
    IN  after

Whole(t) == After(t)[0]

Promise == INSTANCE Transcoder

\* Whatever pieces and rooms the calls have, also when a piece ends between the
\* halves of a pair or the room is short of its bytes, the stream writes the
\* encoding of the whole text, and accepts or rejects it in the end.
OutTranscodes == Promise!Spec

\* A high surrogate that is kept, in a call or between two, is the unit just
\* before the place where reading goes on: a call that runs short of room for
\* the pair's bytes, or fails, neither forgets it nor reads it twice.
IsLastRead(u, i) == u # 0 => i > 0 /\ IsHigh(src.units[i]) /\ u = src.units[i]

StoredIsLastRead ==
    /\ pc = "idle" => IsLastRead(stored, pos)
    /\ pc # "idle" => IsLastRead(state, from)
=============================================================================
