------------------------------ MODULE IconvLoop ------------------------------
(***************************************************************************)
(* real_convert of src/src/encoding/iconv_converter.hpp: a text goes       *)
(* through iconv with a buffer of limited room, one call of iconv at a     *)
(* time, until nothing is left and the shift state is the initial one.     *)
(***************************************************************************)
EXTENDS Utf

CONSTANTS
    Jobs,       \* records [text, from, to, how]: the units, the charsets, "skip" or "stop"
    Decode(_, _),    \* the first character of some units in a charset, as Utf's decode
    Encode(_, _, _), \* a code point in a charset and shift state: [units, shift, exact],
                     \* no units if it has none, not exact if it is another's
    Unshift(_, _),   \* the units back to the initial shift state, <<>> in it
    Room        \* the units tmp_buf holds, 64 in the code

DoubleByte(t) == t.from = "page"

Character(t, i) == Decode(t.from, SubSeq(t.text, i + 1, Len(t.text)))

\* A character has an encoding in each shift state or in none, and it fits into
\* the buffer; what follows the first unit of one in UTF is none by itself.
ASSUME IconvAssumption ==
    /\ Room \in Nat
    /\ \A t \in Jobs :
        /\ t.how \in {"skip", "stop"} /\ Len(t.text) \in Nat
        /\ \A i \in 0 .. Len(t.text) - 1 :
            LET d == Character(t, i)
            IN  \/ d.cp \in {illegal, incomplete}
                \/ /\ d.cp \in Nat /\ d.len \in 1 .. Len(t.text) - i
                   /\ \A s \in {0, 1} :
                        LET e == Encode(t.to, d.cp, s)
                            e0 == Encode(t.to, d.cp, 0)
                        IN  /\ e.units \in Seq(Nat) /\ Len(e.units) <= Room /\ e.shift \in {0, 1}
                            /\ (e.units = <<>> <=> e0.units = <<>>) /\ (e.exact <=> e0.exact)
                   /\ ~DoubleByte(t) =>
                        \A j \in i + 1 .. i + d.len - 1 : Character(t, j).cp \in {illegal, incomplete}

VARIABLES
    job,
    begin,          \* units of the text that are consumed
    shift,          \* the state in the iconv_t: 0 is the initial one
    sresult,
    r               \* "open", "done", or "thrown" (conversion_error)

loopVars == <<job, begin, shift, sresult, r>>

LoopInit ==
    /\ job \in Jobs
    /\ begin = 0 /\ shift = 0
    /\ sresult = <<>> /\ r = "open"

Writable(to, u) == u >= 0 /\ Encode(to, u, 0).units # <<>>
Exact(to, u) == Writable(to, u) /\ Encode(to, u, 0).exact

\* What keeps iconv (external) from converting a character.
Obstacle(to, cp, s, room) ==
    IF ~Writable(to, cp) THEN (IF cp = incomplete THEN "EINVAL" ELSE "EILSEQ")
    ELSE IF Len(Encode(to, cp, s).units) > room THEN "E2BIG" ELSE "none"

\* One call of iconv on the text after i: it stops before what it cannot
\* convert, and counts what is not exact.
Outcome(at, units, s, res, inexact) ==
    [at |-> at, units |-> units, shift |-> s, res |-> res, inexact |-> inexact]

Calls(t) ==
    LET go[i \in 0 .. Len(t.text)] ==
            [s \in {0, 1} |-> [room \in 0 .. Room |->
                LET d == Character(t, i)
                    e == Encode(t.to, d.cp, s)
                    why == IF i = Len(t.text) THEN "ok" ELSE Obstacle(t.to, d.cp, s, room)
                    rest == go[i + d.len][e.shift][room - Len(e.units)]
                IN  IF why # "none" THEN Outcome(i, <<>>, s, why, {})
                    ELSE [rest EXCEPT !.units = e.units \o @,
                                      !.inexact = @ \cup (IF e.exact THEN {} ELSE {d.cp})]]]
    IN  go

conv(t) == Calls(t)[begin][shift][Room]

\* is_unshifting: the empty buffer has the room for that, so it is done once.
Unshifts == begin = Len(job.text)

\* iconv converts all that is left: the next iteration unshifts.
Converts ==
    /\ r = "open" /\ ~Unshifts
    /\ LET c == conv(job)
       IN  /\ c.res = "ok"
           /\ IF c.inexact # {} /\ job.how = "stop"
              THEN r' = "thrown" /\ UNCHANGED <<begin, shift, sresult>>
              ELSE /\ begin' = c.at /\ shift' = c.shift
                   /\ sresult' = sresult \o c.units
                   /\ UNCHANGED r
    /\ UNCHANGED job

\* Faulty: what the buffer holds is not appended.
FillsBuffer_Lossy ==
    /\ r = "open" /\ ~Unshifts
    /\ LET c == conv(job)
       IN  c.res = "E2BIG" /\ begin' = c.at /\ shift' = c.shift
    /\ UNCHANGED <<job, sresult, r>>

\* E2BIG: the buffer is emptied and iconv goes on; a call that achieved nothing
\* would repeat itself, and is an error.
FillsBuffer ==
    /\ r = "open" /\ ~Unshifts
    /\ LET c == conv(job)
       IN  /\ c.res = "E2BIG"
           /\ begin' = c.at /\ shift' = c.shift
           /\ sresult' = sresult \o c.units
           /\ r' = IF c.at # begin \/ c.units # <<>> THEN "open" ELSE "thrown"
    /\ UNCHANGED job

\* Faulty: the unit in error is tried again.
Skips_Stays ==
    /\ r = "open" /\ ~Unshifts
    /\ LET c == conv(job)
       IN  /\ c.res \in {"EILSEQ", "EINVAL"}
           /\ begin' = c.at /\ shift' = c.shift
           /\ sresult' = sresult \o c.units
           /\ r' = IF job.how = "stop" THEN "thrown" ELSE "open"
    /\ UNCHANGED job

\* EILSEQ and EINVAL: one unit is skipped, and the loop is left when that was
\* the last one.
Skips ==
    /\ r = "open" /\ ~Unshifts
    /\ LET c == conv(job)
       IN  /\ c.res \in {"EILSEQ", "EINVAL"}
           /\ shift' = c.shift
           /\ sresult' = sresult \o c.units
           /\ begin' = c.at + 1
           /\ r' = CASE job.how = "stop" -> "thrown"
                     [] job.how = "skip" /\ c.at + 1 >= Len(job.text) -> "done"
                     [] OTHER -> "open"
    /\ UNCHANGED job

\* Nothing is left: iconv writes what brings it back to the initial state.
Resets ==
    /\ r = "open" /\ Unshifts
    /\ sresult' = sresult \o Unshift(job.to, shift)
    /\ shift' = 0
    /\ r' = "done"
    /\ UNCHANGED <<job, begin>>

LoopNext == Converts \/ FillsBuffer \/ Skips \/ Resets

LoopSpec == LoopInit /\ [][LoopNext]_loopVars /\ WF_loopVars(LoopNext)

-----------------------------------------------------------------------------
(* The promise, character by character. *)

\* The text from i on: what the characters that have an encoding become, in
\* one go, the shift state after them, all the characters, and the last one.
Reading(t) ==
    LET from[i \in 0 .. Len(t.text)] ==
            [s \in {0, 1} |->
                IF i = Len(t.text) THEN [units |-> <<>>, shift |-> s, read |-> {}, last |-> illegal]
                ELSE LET d == Character(t, i)
                         e == Encode(t.to, d.cp, s)
                         next == i + (IF d.cp < 0 THEN 1 ELSE d.len)
                         written == Writable(t.to, d.cp)
                         rest == from[next][IF written THEN e.shift ELSE s]
                     IN  [units |-> IF written THEN e.units \o rest.units ELSE rest.units,
                          shift |-> rest.shift,
                          read |-> {d.cp} \cup rest.read,
                          last |-> IF next = Len(t.text) THEN d.cp ELSE rest.last]]
    IN  from

Whole(t) == Reading(t)[0][0]

\* The last character of the text is skipped: the one case without a return to
\* the initial shift state.
EndsInError(w) == Len(job.text) > 0 /\ ~Writable(job.to, w.last)

Finished(w) == sresult = w.units \o (IF EndsInError(w) THEN <<>> ELSE Unshift(job.to, w.shift))

\* However small the buffer is, a text in UTF becomes the characters that have
\* an encoding, in their order and each once, with the shifts that one call
\* would write; told to stop, the loop throws exactly when a character is
\* malformed or has none, and never when all have one of their own.
BufferDoesNotShow ==
    ~DoubleByte(job) =>
        LET w == Whole(job)
        IN  /\ r = "done" => Finished(w)
            /\ r = "done" /\ job.how = "stop" => \A u \in w.read : Writable(job.to, u)
            /\ r = "thrown" => job.how = "stop" /\ \E u \in w.read : ~Exact(job.to, u)

\* Every conversion ends.
ConversionEnds == <>(r # "open")

\* encoding_errors.hpp:42: "Skip illegal/unconvertible characters", and nothing
\* else, in a double-byte charset as well.
SkipsCharacters == r = "done" => Finished(Whole(job))
=============================================================================
