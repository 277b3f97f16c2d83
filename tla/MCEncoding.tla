------------------------------ MODULE MCEncoding ------------------------------
(* Three instances, one of which is chosen in the beginning (part): texts     *)
(* that arrive unit by unit, a text that goes through iconv, and the table    *)
(* of a charset of single bytes.                                              *)
EXTENDS Converters, IconvLoop, BaseConverters

VARIABLE part

\* The code units at which a range of utf.hpp begins or ends, NUL, the digit 0,
\* and the bytes of the code page.
MCBytes == {0, 48, 127, 128, 143, 144, 159, 160, 191, 192, 193, 194, 223, 224, 225,
            236, 237, 238, 239, 240, 241, 243, 244, 245, 255}
MCWords == {0, 48, 65, 233, 55295, 55296, 55357, 56319, 56320, 56832, 57343, 57344, 65535}

\* A code page with ASCII, a letter of one byte and three characters of two.
MCPage == {<<<<b>>, b>> : b \in 0 .. 127} \cup
          {<<<<160>>, 233>>, <<<<143, 127>>, 55295>>, <<<<143, 48>>, 57344>>, <<<<143, 160>>, 65535>>}
Lead(b) == b = 143
Read1(s) ==
    LET n == IF Lead(s[1]) THEN 2 ELSE 1
        found == {row \in MCPage : row[1] = SubSeq(s, 1, n)}
    IN  CASE Len(s) < n -> Failed(incomplete)
          [] Len(s) >= n /\ found = {} -> Failed(illegal)
          [] OTHER -> Decoded((CHOOSE row \in found : TRUE)[2], n)
Write1(u) ==
    LET found == {row \in MCPage : row[2] = u}
    IN  IF found = {} THEN <<>> ELSE (CHOOSE row \in found : TRUE)[1]

\* What iconv reads and writes: "jis" shifts out (14) and in (15) around two
\* bytes, as ISO-2022 does, and "stars" writes an asterisk for what it lacks.
IconvDecode(cs, s) ==
    CASE cs = "UTF-8" -> decode8(s) [] cs = "UTF-16" -> decode16(s) [] cs = "page" -> Read1(s)
Encoded(units, s, exact) == [units |-> units, shift |-> s, exact |-> exact]
IconvEncode(cs, u, s) ==
    CASE cs = "UTF-16" -> Encoded(encode16(u), 0, TRUE)
      [] cs = "UTF-8" -> Encoded(encode8(u), 0, TRUE)
      [] cs = "stars" -> IF u < 128 THEN Encoded(<<u>>, 0, TRUE) ELSE Encoded(<<42>>, 0, FALSE)
      [] cs = "latin" -> Encoded(IF u < 256 THEN <<u>> ELSE <<>>, 0, TRUE)
      [] cs = "jis" /\ u < 128 -> Encoded((IF s = 1 THEN <<15>> ELSE <<>>) \o <<u>>, 0, TRUE)
      [] cs = "jis" /\ u = 8364 -> Encoded((IF s = 0 THEN <<14>> ELSE <<>>) \o <<33, 44>>, 1, TRUE)
      [] OTHER -> Encoded(<<>>, s, TRUE)
IconvUnshift(cs, s) == IF s = 1 THEN <<15>> ELSE <<>>

TextsOf(units, n) == UNION {[1 .. k -> units] : k \in 0 .. n}
Job(text, from, to, how) == [text |-> text, from |-> from, to |-> to, how |-> how]
How == {"skip", "stop"}
MCJobs ==
    {Job(t, "UTF-8", to, how) : t \in TextsOf({65, 195, 169, 226, 130, 172}, 4), to \in {"UTF-16", "latin", "jis"}, how \in How}
    \cup {Job(t, "UTF-16", to, how) :
            t \in TextsOf({65, 8364, 55357, 56832}, 4), to \in {"UTF-8", "jis", "stars"}, how \in How}
PageJobs == {Job(t, "page", to, how) : t \in TextsOf({65, 143, 48, 160}, 3), to \in {"latin", "UTF-16"}, how \in How}

MCTables == [1 .. 4 -> {illegal, 1, 2, 5, 6, 10}]
IconvCode(cs, s) == IF s = <<>> THEN Failed(incomplete) ELSE IconvDecode(cs, s)
IconvChars(cs, u) == IF cs = "page" THEN Write1(u) ELSE encode8(u)

\* What the codecvt facets count on (CodecvtIn): a converter of one character
\* finds what its table holds, and when it reads with iconv, a verdict on the
\* bytes at hand other than incomplete stands when more follow, and what iconv
\* reads from one or two bytes is read by itself and goes back.
CharacterByCharacter ==
    /\ part = "table" => EnteredIsFound
    /\ Len(bytes) <= 3 => \A cs \in {"page", "UTF-8"} : CharacterByItself(cs, bytes)

StillLoop ==
    job = Job(<<>>, "UTF-8", "latin", "skip") /\ begin = 0 /\ shift = 0 /\ sresult = <<>> /\ r = "done"
StillTable == to_unicode_tbl = <<>> /\ from_unicode_tbl = [pos \in 0 .. 4 |-> 0] /\ i = 1

MCInit ==
    /\ Init
    /\ \/ part = "texts" /\ StillLoop /\ StillTable
       \/ part = "iconv" /\ LoopInit /\ StillTable
       \/ part = "table" /\ StillLoop /\ TableInit
MCNext ==
    /\ UNCHANGED part
    /\ \/ part = "texts" /\ Next /\ UNCHANGED <<loopVars, tableVars>>
       \/ part = "iconv" /\ LoopNext /\ UNCHANGED <<vars, tableVars>>
       \/ part = "table" /\ TableNext /\ UNCHANGED <<vars, loopVars>>
MCSpec == MCInit /\ [][MCNext]_<<part, vars, loopVars, tableVars>> /\ WF_loopVars(LoopNext)
=============================================================================
