---------------------------- MODULE BoundaryIndex ----------------------------
(***************************************************************************)
(* Boundary analysis: how the break points that ICU finds in a text become *)
(* an index (src/src/icu/boundary.cpp), and how segment_index and          *)
(* boundary_point_index iterate over that index by pairs of positions and  *)
(* single positions (src/include/boost/locale/boundary/index.hpp).  A mask *)
(* of rules is a set of rules; base iterators are offsets into the text.   *)
(***************************************************************************)
EXTENDS Integers, Sequences, FiniteSets

CONSTANTS
    Kinds,    \* the rules a mask may select
    Analyses, \* texts with what ICU says of each, see Analysis
    Remapped  \* those that are analysed later (a bound)

\* A text is a sequence of characters of w source units and u UTF-16 units;
\* u = 0: the character is invalid and ICU's converter skips it.  direct: ICU
\* reads the source itself.  size: of the character type.  breaks: the
\* positions ICU returns, in units of what it was given, with the status of each.
Analysis(a) ==
    /\ a.type \in {"character", "word", "sentence", "line"}
    /\ a.size \in {1, 2, 4}
    /\ a.direct \in BOOLEAN
    /\ a.text \in Seq([w : Nat \ {0}, u : 0 .. 2])
    /\ a.breaks \in Seq([pos : Nat \ {0}, status : SUBSET (Kinds \cup {"other"})])
    /\ \A i, j \in 1 .. Len(a.breaks) : i < j => a.breaks[i].pos < a.breaks[j].pos

ASSUME AnalysesAssumption == \A a \in Analyses : Analysis(a)
ASSUME RemappedAssumption == Remapped \subseteq Analyses

-----------------------------------------------------------------------------
(* Building the index *)

Offset(text) == LET sum[k \in 0 .. Len(text)] == IF k = 0 THEN 0 ELSE sum[k - 1] + text[k].w
                IN  sum
Utf16(text) == LET sum[k \in 0 .. Len(text)] == IF k = 0 THEN 0 ELSE sum[k - 1] + text[k].u
               IN  sum
Length(text) == Offset(text)[Len(text)]

\* UnicodeString::countChar32
CountChars(text, from, n) ==
    Cardinality({k \in 1 .. Len(text) : text[k].u > 0 /\ Utf16(text)[k] \in from + 1 .. from + n})

\* uconv::cut: getNextUChar skips what is invalid before the next character.
CutBytes(text, n, from) ==
    LET starts == {k \in 1 .. Len(text) : Offset(text)[k - 1] >= from}
        Seen(k) == Cardinality({j \in starts : j <= k /\ text[j].u > 0})
        last == {k \in starts : Seen(k) = n /\ text[k].u > 0}
    IN  IF n = 0 \/ last = {} THEN 0 ELSE Offset(text)[CHOOSE k \in last : TRUE] - from

\* icu_std_converter::cut of each character size
cut(a, n, fromU, fromChar) ==
    CASE a.size = 1 -> CutBytes(a.text, CountChars(a.text, fromU, n), fromChar)
      [] a.size = 2 -> n
      [] a.size = 4 -> CountChars(a.text, fromU, n)

\* Any number of rules may apply to a break point, and none: a status outside
\* the ranges of the type sets no bit.
map_direct(a) ==
    <<[offset |-> 0, rule |-> {}]>> \o
    [i \in 1 .. Len(a.breaks) |->
        [offset |-> a.breaks[i].pos,
         rule   |-> IF a.type = "character" THEN Kinds ELSE a.breaks[i].status \cap Kinds]]

\* Faulty: the offset in what ICU was given is taken for one in the text.
do_map_Raw(a) == map_direct(a)

do_map(a) ==
    LET indirect == map_direct(a)
        offset[i \in 1 .. Len(indirect)] ==
            IF i = 1 THEN 0
            ELSE offset[i - 1] +
                 cut(a, indirect[i].offset - indirect[i - 1].offset, indirect[i - 1].offset, offset[i - 1])
    IN  IF a.direct THEN indirect
        ELSE [i \in 1 .. Len(indirect) |-> [indirect[i] EXCEPT !.offset = offset[i]]]

\* A mapping: the index and the end of the text.
mapping(a) == [index |-> do_map(a), end |-> Length(a.text)]

-----------------------------------------------------------------------------
(* What both iterators share.  Positions in the index are counted from 0;  *)
(* Size(m) is that of the end.                                             *)

Size(m) == Len(m.index)
Info(m, i) == m.index[i + 1]
get_offset(m, i) == IF i = Size(m) THEN Info(m, i - 1).offset ELSE Info(m, i).offset

Least(S) == CHOOSE i \in S : \A j \in S : i <= j
Greatest(S) == CHOOSE i \in S : \A j \in S : i >= j

\* The rule of the value stays what it was when the end is reached.
update_rule(m, i, rule) == IF i = Size(m) THEN rule ELSE Info(m, i).rule

\* An index as boundary::mapping has it: the beginning of the text, which no rule
\* applies to, and the break points behind it, of which the last is the end.
Ordered(m) ==
    /\ Size(m) \in Nat \ {0}
    /\ \A i \in 0 .. Size(m) - 1 : Info(m, i).offset \in Nat /\ Info(m, i).rule \subseteq Kinds
    /\ \A i, j \in 0 .. Size(m) - 1 : i < j => Info(m, i).offset < Info(m, j).offset
    /\ Info(m, 0).offset = 0 /\ Info(m, 0).rule = {}
    /\ Info(m, Size(m) - 1).offset = m.end

TextsAreOrdered == \A a \in Analyses : Ordered(mapping(a))

-----------------------------------------------------------------------------
(* segment_index_iterator: first and second are current_, from, to and     *)
(* rule are value_.                                                        *)

seg_valid_offset(m, mask, i) == i = 0 \/ i = Size(m) \/ Info(m, i).rule \cap mask # {}

seg_update_current(m, it, first, second) ==
    [first  |-> first,
     second |-> second,
     from   |-> it.from + (get_offset(m, first) - get_offset(m, it.first)),
     to     |-> it.to + (get_offset(m, second) - get_offset(m, it.second)),
     rule   |-> update_rule(m, second, it.rule)]

seg_set_end(m) == [first |-> Size(m) - 1, second |-> Size(m), from |-> m.end, to |-> m.end, rule |-> {}]

\* Faulty: a full selection starts at the break point before, as a partial one.
seg_increment_Short(m, mask, full, it) ==
    LET second == Least({i \in it.second + 1 .. Size(m) : seg_valid_offset(m, mask, i)})
    IN  seg_update_current(m, it, second - 1, second)

\* Called with it.second < Size(m).
seg_increment(m, mask, full, it) ==
    LET second == Least({i \in it.second + 1 .. Size(m) : seg_valid_offset(m, mask, i)})
        first == IF full /\ second < Size(m) THEN it.second ELSE second - 1
    IN  seg_update_current(m, it, first, second)

seg_decrement(m, mask, full, it) ==
    LET second == IF it.second <= 1 THEN it.second
                  ELSE Greatest({1} \cup {i \in 1 .. it.second - 1 : seg_valid_offset(m, mask, i)})
        first == IF full THEN Greatest({i \in 0 .. second - 1 : seg_valid_offset(m, mask, i)} \cup {0})
                 ELSE second - 1
    IN  seg_update_current(m, it, first, second)

seg_set_begin(m, mask, full) ==
    seg_increment(m, mask, full, [first |-> 0, second |-> 0, from |-> 0, to |-> 0, rule |-> {}])

seg_set(m, mask, full, p) ==
    LET second == Least({Size(m)} \cup {i \in 0 .. Size(m) - 1 :
                                            Info(m, i).offset > p /\ Info(m, i).rule \cap mask # {}})
        first == IF full THEN Greatest({i \in 0 .. second - 1 : seg_valid_offset(m, mask, i)})
                 ELSE second - 1
    IN  [first |-> first, second |-> second, from |-> get_offset(m, first),
         to |-> get_offset(m, second), rule |-> update_rule(m, second, {})]

-----------------------------------------------------------------------------
(* boundary_point_index_iterator: current is current_, pos and rule value_ *)

\* Faulty: the last break point needs a rule as any other.
bp_valid_offset_End(m, mask, i) == i = 0 \/ i >= Size(m) \/ Info(m, i).rule \cap mask # {}

\* The last break point is valid whatever its rule is.
bp_valid_offset(m, mask, i) == i = 0 \/ i + 1 >= Size(m) \/ Info(m, i).rule \cap mask # {}

bp_update_current(m, it, i) ==
    [current |-> i,
     pos     |-> it.pos + (get_offset(m, i) - get_offset(m, it.current)),
     rule    |-> update_rule(m, i, it.rule)]

bp_set_end(m) == [current |-> Size(m), pos |-> m.end, rule |-> {}]
bp_set_begin(m) == [current |-> 0, pos |-> 0, rule |-> {}]

bp_increment(m, mask, it) ==
    bp_update_current(m, it, Least({Size(m)} \cup {i \in it.current + 1 .. Size(m) : bp_valid_offset(m, mask, i)}))

bp_decrement(m, mask, it) ==
    bp_update_current(m, it, Greatest({0} \cup {i \in 0 .. it.current - 1 : bp_valid_offset(m, mask, i)}))

bp_set(m, mask, p) ==
    LET lower == Least({Size(m) - 1} \cup {i \in 0 .. Size(m) - 1 : Info(m, i).offset >= p})
        current == Least({i \in lower .. Size(m) : bp_valid_offset(m, mask, i)})
    IN  [current |-> current, pos |-> p + (get_offset(m, current) - p), rule |-> update_rule(m, current, {})]

-----------------------------------------------------------------------------
(* A segment_index and a boundary_point_index, and an iterator over one of *)
(* them                                                                    *)

VARIABLES
    segs,   \* the segment_index: map_, mask_, full_select_
    points, \* the boundary_point_index: map_, mask_
    seg,    \* the iterator over segs, or None
    point,  \* the iterator over points, or None
    call    \* history: the last call on an iterator, or "option"

vars == <<segs, points, seg, point, call>>

None == [first |-> -1, current |-> -1]
Call(name) == [name |-> name, p |-> 0]
Option == Call("option")

\* segment_index and boundary_point_index when constructed: every rule, no full_select
NewSegs(a) == [map |-> mapping(a), mask |-> Kinds, full |-> FALSE]
NewPoints(a) == [map |-> mapping(a), mask |-> Kinds]

Init ==
    \E a \in Analyses :
        /\ segs = NewSegs(a)
        /\ points = NewPoints(a)
        /\ seg = None
        /\ point = None
        /\ call = Option

\* What is not const invalidates iterators (the model drops both).
Invalidate == seg' = None /\ point' = None /\ call' = Option
SetSegs(s) == segs' = s /\ Invalidate /\ UNCHANGED points
SetPoints(s) == points' = s /\ Invalidate /\ UNCHANGED segs

SegsMap(a) == SetSegs([segs EXCEPT !.map = mapping(a)])
SegsRule(mask) == SetSegs([segs EXCEPT !.mask = mask])
SegsFullSelect(full) == SetSegs([segs EXCEPT !.full = full])
SegsFromPoints == SetSegs([map |-> points.map, mask |-> Kinds, full |-> FALSE])
SegsAssignPoints == SetSegs([segs EXCEPT !.map = points.map])

PointsMap(a) == SetPoints([points EXCEPT !.map = mapping(a)])
PointsRule(mask) == SetPoints([points EXCEPT !.mask = mask])
PointsFromSegs == SetPoints([map |-> segs.map, mask |-> Kinds])
PointsAssignSegs == SetPoints([points EXCEPT !.map = segs.map])

\* One iterator at a time is kept: iterators do not affect one another.
MoveSeg(c, it) == call' = c /\ seg' = it /\ point' = None /\ UNCHANGED <<segs, points>>
MovePoint(c, it) == call' = c /\ point' = it /\ seg' = None /\ UNCHANGED <<segs, points>>

\* equal() compares the second positions only.
SegIs(it) == seg # None /\ seg.second = it.second

SegBegin == MoveSeg(Call("begin"), seg_set_begin(segs.map, segs.mask, segs.full))
SegEnd == MoveSeg(Call("end"), seg_set_end(segs.map))
SegFind(p) == p <= segs.map.end /\ MoveSeg([name |-> "find", p |-> p], seg_set(segs.map, segs.mask, segs.full, p))
SegForward ==
    /\ seg # None /\ ~ SegIs(seg_set_end(segs.map))
    /\ MoveSeg(Call("++"), seg_increment(segs.map, segs.mask, segs.full, seg))
SegBackward ==
    /\ seg # None /\ ~ SegIs(seg_set_begin(segs.map, segs.mask, segs.full))
    /\ MoveSeg(Call("--"), seg_decrement(segs.map, segs.mask, segs.full, seg))

PointBegin == MovePoint(Call("begin"), bp_set_begin(points.map))
PointEnd == MovePoint(Call("end"), bp_set_end(points.map))
PointFind(p) == p <= points.map.end /\ MovePoint([name |-> "find", p |-> p], bp_set(points.map, points.mask, p))
PointForward ==
    /\ point # None /\ point.current # Size(points.map)
    /\ MovePoint(Call("++"), bp_increment(points.map, points.mask, point))
PointBackward ==
    /\ point # None /\ point.current # 0
    /\ MovePoint(Call("--"), bp_decrement(points.map, points.mask, point))

Positions == UNION {0 .. Length(a.text) : a \in Analyses}

Next ==
    \/ \E a \in Remapped : SegsMap(a) \/ PointsMap(a)
    \/ \E mask \in SUBSET Kinds : SegsRule(mask) \/ PointsRule(mask)
    \/ \E full \in BOOLEAN : SegsFullSelect(full)
    \/ SegsFromPoints \/ SegsAssignPoints \/ PointsFromSegs \/ PointsAssignSegs
    \/ \E p \in Positions : SegFind(p) \/ PointFind(p)
    \/ SegBegin \/ SegEnd \/ SegForward \/ SegBackward
    \/ PointBegin \/ PointEnd \/ PointForward \/ PointBackward

Spec == Init /\ [][Next]_vars

-----------------------------------------------------------------------------
\* The positions of an iterator are in the index, a segment never runs
\* backwards, and the text it shows is the one between its positions, though
\* it is only moved by differences: no move loses or adds a character.
ValuesMatchPositions ==
    /\ seg # None =>
        /\ seg.first < seg.second /\ seg.second <= Size(segs.map)
        /\ seg.from <= seg.to /\ seg.to <= segs.map.end
        /\ seg.to = get_offset(segs.map, seg.second)
        /\ seg.second < Size(segs.map) => seg.from = get_offset(segs.map, seg.first)
    /\ point # None =>
        /\ point.current <= Size(points.map)
        /\ point.pos = get_offset(points.map, point.current)

-----------------------------------------------------------------------------
(* What is selected, from the index alone *)

Selected(m, mask) == {i \in 1 .. Size(m) - 1 : Info(m, i).rule \cap mask # {}}

\* A segment ends at a selected break point.  It starts at the one before,
\* or with full_select at the selected one before.
Segments(s) ==
    LET ends == Selected(s.map, s.mask)
        Start(i) == IF s.full THEN Greatest({0} \cup {j \in ends : j < i}) ELSE i - 1
    IN  {[from |-> Info(s.map, Start(i)).offset, to |-> Info(s.map, i).offset, rule |-> Info(s.map, i).rule] :
            i \in ends}

\* The boundary points are the selected ones and both ends of the text.
Points(s) ==
    {[to |-> Info(s.map, i).offset, rule |-> Info(s.map, i).rule] :
        i \in {0, Size(s.map) - 1} \cup Selected(s.map, s.mask)}

SegReaches(item, p) == item.to > p
PointReaches(item, p) == item.to >= p

SegCursor == INSTANCE Cursor WITH
    Reaches <- SegReaches, items <- Segments(segs), call <- IF seg = None THEN Option ELSE call,
    at <- IF seg = None THEN {}
          ELSE IF SegIs(seg_set_end(segs.map)) THEN {}
          ELSE {[from |-> seg.from, to |-> seg.to, rule |-> seg.rule]}

PointCursor == INSTANCE Cursor WITH
    Reaches <- PointReaches, items <- Points(points), call <- IF point = None THEN Option ELSE call,
    at <- IF point = None THEN {}
          ELSE IF point.current = Size(points.map) THEN {}
          ELSE {[to |-> point.pos, rule |-> point.rule]}

\* Iterating over a segment_index in either direction, from either end or
\* from where find leads, visits exactly the selected segments, in order.
SegmentsAreWalked == SegCursor!Spec

\* The same for the points of a boundary_point_index.
PointsAreWalked == PointCursor!Spec

\* With every rule selected the segments are the whole text, without gaps or
\* overlaps, when ICU ended with the text and gave each break point a rule.
SegmentsCoverText ==
    LET whole == Segments([segs EXCEPT !.mask = Kinds, !.full = TRUE])
    IN  (segs.map.index[Size(segs.map)].rule # {} /\ Size(segs.map) > 1) =>
            \A p \in 0 .. segs.map.end - 1 :
                Cardinality({s \in whole : p \in s.from .. s.to - 1}) = 1

\* Neither the index, whose offsets lead through the text to its end in order, nor
\* the iterators nor the segments lose any of the text.
TextIsKept == Ordered(segs.map) /\ Ordered(points.map) /\ ValuesMatchPositions /\ SegmentsCoverText
=============================================================================
