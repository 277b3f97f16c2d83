--------------------------- MODULE BoundaryProofs ---------------------------
(***************************************************************************)
(* The iterators over an index of boundaries, for every index whose offsets *)
(* are in order and end with the text, every mask and any number of moves. *)
(***************************************************************************)
EXTENDS BoundaryIndex, FiniteSetTheorems, SequenceTheorems, WellFoundedInduction, TLAPS

-----------------------------------------------------------------------------
(* Least and Greatest *)

LEMMA LeastIs ==
    ASSUME NEW S, S \subseteq Nat, S # {}
    PROVE  Least(S) \in S /\ \A j \in S : Least(S) <= j
<1>1. IsWellFoundedOn({ss \in Nat \X Nat : ss[1] < ss[2]}, Nat)
  BY NatLessThanWellFounded DEF OpToRel
<1>2. PICK x \in S : \A y \in S : ~(<<y, x>> \in {ss \in Nat \X Nat : ss[1] < ss[2]})
  BY <1>1, WFMin
<1>3. ASSUME NEW y \in S PROVE x <= y
  <2>1. ~(<<y, x>> \in {ss \in Nat \X Nat : ss[1] < ss[2]})
    BY <1>2
  <2>2. x \in Nat /\ y \in Nat
    OBVIOUS
  <2> QED BY <2>1, <2>2
<1> QED BY <1>3 DEF Least

LEMMA GreatestIs ==
    ASSUME NEW n \in Nat, NEW S, S \subseteq 0 .. n, S # {}
    PROVE  Greatest(S) \in S /\ \A j \in S : Greatest(S) >= j
<1> DEFINE T == {k \in 0 .. n : n - k \in S}
<1>1. T \subseteq Nat /\ T # {}
  <2>1. PICK i \in S : TRUE
    OBVIOUS
  <2>2. n - i \in 0 .. n /\ n - (n - i) = i
    OBVIOUS
  <2>3. n - i \in T
    BY <2>2
  <2>4. T \subseteq Nat
    OBVIOUS
  <2> QED BY <2>3, <2>4
<1>2. PICK k \in T : \A j \in T : k <= j
  <2> HIDE DEF T
  <2> QED BY <1>1, LeastIs
<1>3. ASSUME NEW j \in S PROVE n - k >= j
  <2>1. n - j \in 0 .. n /\ n - (n - j) = j
    OBVIOUS
  <2>2. n - j \in T
    BY <2>1
  <2> QED BY <1>2, <2>1, <2>2
<1>4. n - k \in S
  OBVIOUS
<1> QED BY <1>3, <1>4 DEF Greatest

\* The one way of telling them.
LEMMA LeastUnique ==
    ASSUME NEW S, S \subseteq Nat, NEW i \in S, \A j \in S : i <= j
    PROVE  Least(S) = i
<1>1. Least(S) \in S /\ Least(S) <= i
  BY LeastIs
<1>2. i <= Least(S) /\ i \in Nat /\ Least(S) \in Nat
  BY <1>1
<1> QED BY <1>1, <1>2

LEMMA GreatestUnique ==
    ASSUME NEW n \in Nat, NEW S, S \subseteq 0 .. n, NEW i \in S, \A j \in S : i >= j
    PROVE  Greatest(S) = i
<1>1. Greatest(S) \in S /\ Greatest(S) >= i
  BY GreatestIs
<1>2. i >= Greatest(S) /\ i \in 0 .. n /\ Greatest(S) \in 0 .. n
  BY <1>1
<1> QED BY <1>1, <1>2

-----------------------------------------------------------------------------
(* A walk over items F[i], i \in V, that end in the order of V: n is behind *)
(* the last index.                                                         *)

FirstOf(S) == {i \in S : \A j \in S : i.to <= j.to}
Behind(items, S) == {j \in items : \A i \in S : i.to < j.to}
Items(F, V) == {F[i] : i \in V}
Above(V, k) == {j \in V : j > k}
At(F, n, i) == IF i = n THEN {} ELSE {F[i]}

InOrder(F, n) ==
    /\ \A i \in 0 .. n - 1 : F[i].to \in Nat
    /\ \A i, j \in 0 .. n - 1 : i < j => F[i].to < F[j].to

\* The first of some items is the one with the least index.
LEMMA FirstIsLeast ==
    ASSUME NEW n \in Nat, NEW F, InOrder(F, n), NEW V, V \subseteq 0 .. n - 1
    PROVE  /\ FirstOf(Items(F, V)) = At(F, n, Least({n} \cup V))
           /\ Least({n} \cup V) \in {n} \cup V
           /\ \A j \in V : Least({n} \cup V) <= j
<1> DEFINE k == Least({n} \cup V)
<1>1. {n} \cup V \subseteq Nat /\ {n} \cup V # {}
  OBVIOUS
<1>2. k \in {n} \cup V /\ \A j \in {n} \cup V : k <= j
  BY <1>1, LeastIs
<1> HIDE DEF k
<1>3. CASE k = n
  <2>1. V = {}
    BY <1>2, <1>3
  <2> QED BY <2>1, <1>2, <1>3 DEF FirstOf, Items, At, k
<1>4. CASE k # n
  <2>1. k \in V
    BY <1>2, <1>4
  <2>2. \A j \in V : F[k].to <= F[j].to
    BY <1>2, <2>1 DEF InOrder
  <2>3. \A j \in V : j # k => ~(F[j].to <= F[k].to)
    BY <1>2, <2>1 DEF InOrder
  <2>4. FirstOf(Items(F, V)) = {F[k]}
    BY <2>1, <2>2, <2>3 DEF FirstOf, Items
  <2> QED BY <2>4, <1>2, <1>4 DEF At, k
<1> QED BY <1>3, <1>4

\* A step forward, and one backward from where it led.
LEMMA StepIsNext ==
    ASSUME NEW n \in Nat, NEW F, InOrder(F, n), NEW V, V \subseteq 0 .. n - 1, NEW k \in V
    PROVE  At(F, n, Least({n} \cup Above(V, k))) = FirstOf(Behind(Items(F, V), At(F, n, k)))
<1>1. Above(V, k) \subseteq 0 .. n - 1
  BY DEF Above
<1>2. k # n
  <2>1. k \in 0 .. n - 1
    OBVIOUS
  <2> QED BY <2>1
<1>3. At(F, n, k) = {F[k]}
  BY <1>2 DEF At
<1>4. Behind(Items(F, V), {F[k]}) = Items(F, Above(V, k))
  <2>1. \A j \in V : F[k].to < F[j].to <=> j > k
    BY DEF InOrder
  <2> QED BY <2>1 DEF Behind, Items, Above
<1>5. FirstOf(Items(F, Above(V, k))) = At(F, n, Least({n} \cup Above(V, k)))
  BY <1>1, FirstIsLeast
<1> QED BY <1>3, <1>4, <1>5

LEMMA StepsMeet ==
    ASSUME NEW n \in Nat, NEW V, V \subseteq 0 .. n - 1, NEW i \in {n} \cup V, NEW k \in V,
           k < i, \A j \in V : j < i => j <= k
    PROVE  i = Least({n} \cup Above(V, k))
<1> DEFINE W == {n} \cup Above(V, k)
<1>1. \A j \in V : j \in 0 .. n - 1
  OBVIOUS
<1>2. W \subseteq Nat
  <2>1. \A j \in 0 .. n - 1 : j \in Nat
    OBVIOUS
  <2>2. Above(V, k) \subseteq V
    BY DEF Above
  <2> QED BY <1>1, <2>1, <2>2
<1>3. i \in W
  BY DEF Above
<1>4. \A j \in W : i <= j
  <2>1. CASE i = n
    <3>1. \A j \in V : j < n
      BY <1>1
    <3>2. \A j \in V : ~(j > k)
      BY <1>1, <2>1, <3>1
    <3>3. Above(V, k) = {}
      BY <3>2 DEF Above
    <3> QED BY <2>1, <3>3
  <2>2. CASE i \in V
    BY <1>1, <2>2 DEF Above
  <2> QED BY <2>1, <2>2
<1> HIDE DEF W
<1>5. Least(W) = i
  BY <1>2, <1>3, <1>4, LeastUnique
<1> QED BY <1>5 DEF W

-----------------------------------------------------------------------------
(* Segments and points as such items *)

SegStart(s, i) == IF s.full THEN Greatest({0} \cup {j \in Selected(s.map, s.mask) : j < i}) ELSE i - 1

SegItem(s) ==
    [i \in 0 .. Size(s.map) - 1 |->
        [from |-> Info(s.map, SegStart(s, i)).offset, to |-> Info(s.map, i).offset, rule |-> Info(s.map, i).rule]]

PointItem(s) ==
    [i \in 0 .. Size(s.map) - 1 |-> [to |-> Info(s.map, i).offset, rule |-> Info(s.map, i).rule]]

Ends(s) == Selected(s.map, s.mask)
Stops(s) == {0, Size(s.map) - 1} \cup Selected(s.map, s.mask)

LEMMA SegmentsAreItems ==
    ASSUME NEW s, Ordered(s.map)
    PROVE  /\ Segments(s) = Items(SegItem(s), Ends(s))
           /\ InOrder(SegItem(s), Size(s.map))
           /\ Ends(s) \subseteq 0 .. Size(s.map) - 1
           /\ Size(s.map) \in Nat
<1>1. Ends(s) \subseteq 0 .. Size(s.map) - 1 /\ Size(s.map) \in Nat
  BY DEF Ends, Selected, Ordered
<1>2. \A i \in 0 .. Size(s.map) - 1 :
         SegItem(s)[i] = [from |-> Info(s.map, SegStart(s, i)).offset, to |-> Info(s.map, i).offset,
                          rule |-> Info(s.map, i).rule]
  BY DEF SegItem
<1>3. Segments(s) = Items(SegItem(s), Ends(s))
  BY <1>1, <1>2 DEF Segments, Items, Ends, SegStart
<1>4. \A i \in 0 .. Size(s.map) - 1 : SegItem(s)[i].to = Info(s.map, i).offset
  BY DEF SegItem
<1>5. InOrder(SegItem(s), Size(s.map))
  <2> HIDE DEF SegItem
  <2> QED BY <1>4 DEF InOrder, Ordered
<1> QED BY <1>1, <1>3, <1>5

LEMMA PointsAreItems ==
    ASSUME NEW s, Ordered(s.map)
    PROVE  /\ Points(s) = Items(PointItem(s), Stops(s))
           /\ InOrder(PointItem(s), Size(s.map))
           /\ Stops(s) \subseteq 0 .. Size(s.map) - 1
           /\ Size(s.map) \in Nat
<1>1. Stops(s) \subseteq 0 .. Size(s.map) - 1 /\ Size(s.map) \in Nat
  BY DEF Stops, Selected, Ordered
<1>2. \A i \in 0 .. Size(s.map) - 1 :
         PointItem(s)[i] = [to |-> Info(s.map, i).offset, rule |-> Info(s.map, i).rule]
  BY DEF PointItem
<1>3. Points(s) = Items(PointItem(s), Stops(s))
  BY <1>1, <1>2 DEF Points, Items, Stops
<1>4. \A i \in 0 .. Size(s.map) - 1 : PointItem(s)[i].to = Info(s.map, i).offset
  BY DEF PointItem
<1>5. InOrder(PointItem(s), Size(s.map))
  <2> HIDE DEF PointItem
  <2> QED BY <1>4 DEF InOrder, Ordered
<1> QED BY <1>1, <1>3, <1>5

-----------------------------------------------------------------------------
(* The segment_index_iterator *)

LEMMA OffsetsAreInOrder ==
    ASSUME NEW m, Ordered(m)
    PROVE  /\ Size(m) \in Nat \ {0}
           /\ \A i \in 0 .. Size(m) : get_offset(m, i) \in Nat
           /\ \A i \in 0 .. Size(m) - 1 : get_offset(m, i) = Info(m, i).offset
           /\ \A i, j \in 0 .. Size(m) : i <= j => get_offset(m, i) <= get_offset(m, j)
           /\ get_offset(m, 0) = 0 /\ get_offset(m, Size(m) - 1) = m.end /\ get_offset(m, Size(m)) = m.end
           /\ m.end \in Nat
<1>1. Size(m) \in Nat \ {0} /\ m.end \in Nat
  BY DEF Ordered
<1>2. \A i \in 0 .. Size(m) - 1 : get_offset(m, i) = Info(m, i).offset
  BY <1>1 DEF get_offset
<1>3. get_offset(m, Size(m)) = m.end
  BY DEF get_offset, Ordered
<1>4. get_offset(m, 0) = 0 /\ get_offset(m, Size(m) - 1) = m.end
  BY <1>1, <1>2 DEF Ordered
<1>5. \A i, j \in 0 .. Size(m) - 1 : i <= j => get_offset(m, i) <= get_offset(m, j)
  BY <1>1, <1>2 DEF Ordered
<1>6. \A i \in 0 .. Size(m) - 1 : get_offset(m, i) <= m.end /\ get_offset(m, i) \in Nat
  BY <1>1, <1>2, <1>4, <1>5 DEF Ordered
<1>7. \A i \in 0 .. Size(m) : i = Size(m) \/ i \in 0 .. Size(m) - 1
  BY <1>1
<1> QED BY <1>1, <1>2, <1>3, <1>4, <1>5, <1>6, <1>7

\* An iterator that stands at a selected segment, or past the last of them.
SegStands(s, it) ==
    /\ it.first \in 0 .. Size(s.map) - 1 /\ it.second \in 1 .. Size(s.map) /\ it.first < it.second
    /\ it.from = get_offset(s.map, it.first) /\ it.to = get_offset(s.map, it.second)
    /\ it.second < Size(s.map) =>
        /\ it.second \in Ends(s) /\ it.first = SegStart(s, it.second)
        /\ it.rule = Info(s.map, it.second).rule

SegShown(s, it) ==
    IF it.second = Size(s.map) THEN {} ELSE {[from |-> it.from, to |-> it.to, rule |-> it.rule]}

LEMMA ShownIsItem ==
    ASSUME NEW s, Ordered(s.map), NEW it, SegStands(s, it)
    PROVE  SegShown(s, it) = At(SegItem(s), Size(s.map), it.second)
<1>1. CASE it.second = Size(s.map)
  BY <1>1 DEF SegShown, At
<1>2. CASE it.second # Size(s.map)
  <2>1. it.second \in 0 .. Size(s.map) - 1 /\ it.first \in 0 .. Size(s.map) - 1 /\ it.second < Size(s.map)
    BY <1>2, OffsetsAreInOrder DEF SegStands
  <2>2. /\ it.from = Info(s.map, it.first).offset /\ it.to = Info(s.map, it.second).offset
        /\ it.first = SegStart(s, it.second) /\ it.rule = Info(s.map, it.second).rule
    BY <2>1, OffsetsAreInOrder DEF SegStands
  <2>3. SegItem(s)[it.second] = [from |-> it.from, to |-> it.to, rule |-> it.rule]
    BY <2>1, <2>2 DEF SegItem
  <2> QED BY <1>2, <2>3 DEF SegShown, At
<1> QED BY <1>1, <1>2

\* seg_update_current moves a value by differences, from one break point to another.
LEMMA UpdateStands ==
    ASSUME NEW s, Ordered(s.map), NEW it,
           it.first \in 0 .. Size(s.map), it.second \in 0 .. Size(s.map),
           it.from = get_offset(s.map, it.first), it.to = get_offset(s.map, it.second),
           NEW second \in {Size(s.map)} \cup Ends(s), NEW first \in 0 .. second - 1,
           second < Size(s.map) => first = SegStart(s, second)
    PROVE  LET new == seg_update_current(s.map, it, first, second)
           IN  SegStands(s, new) /\ new.second = second
<1> DEFINE new == seg_update_current(s.map, it, first, second)
<1>1. second \in 1 .. Size(s.map) /\ first \in 0 .. Size(s.map) - 1 /\ first < second
  BY OffsetsAreInOrder DEF Ends, Selected
<1>2. new.first = first /\ new.second = second /\ new.rule = update_rule(s.map, second, it.rule)
  BY DEF seg_update_current
<1>3. /\ get_offset(s.map, it.first) \in Nat /\ get_offset(s.map, it.second) \in Nat
      /\ get_offset(s.map, first) \in Nat /\ get_offset(s.map, second) \in Nat
  BY <1>1, OffsetsAreInOrder
<1>4. new.from = get_offset(s.map, first) /\ new.to = get_offset(s.map, second)
  BY <1>3 DEF seg_update_current
<1>5. second < Size(s.map) => second \in Ends(s) /\ new.rule = Info(s.map, second).rule
  BY <1>1, <1>2 DEF update_rule
<1> HIDE DEF new
<1>6. SegStands(s, new)
  BY <1>1, <1>2, <1>4, <1>5 DEF SegStands
<1> QED BY <1>2, <1>6 DEF new

\* What seg_valid_offset accepts behind the beginning.
LEMMA ValidIsEnd ==
    ASSUME NEW s, Ordered(s.map), NEW i \in 1 .. Size(s.map)
    PROVE  seg_valid_offset(s.map, s.mask, i) <=> i \in {Size(s.map)} \cup Ends(s)
BY DEF seg_valid_offset, Ends, Selected, Ordered

LEMMA EndStands ==
    ASSUME NEW s, Ordered(s.map)
    PROVE  SegStands(s, seg_set_end(s.map)) /\ seg_set_end(s.map).second = Size(s.map)
<1>1. Size(s.map) \in Nat \ {0} /\ Size(s.map) - 1 \in 0 .. Size(s.map) - 1
  BY OffsetsAreInOrder
<1> QED BY <1>1, OffsetsAreInOrder DEF SegStands, seg_set_end

\* The next position that seg_increment takes, from any position i.
LEMMA NextEnd ==
    ASSUME NEW s, Ordered(s.map), NEW i \in 0 .. Size(s.map) - 1
    PROVE  LET next == Least({j \in i + 1 .. Size(s.map) : seg_valid_offset(s.map, s.mask, j)})
           IN  /\ next = Least({Size(s.map)} \cup Above(Ends(s), i))
               /\ next \in {Size(s.map)} \cup Ends(s)
               /\ next > i
               /\ \A j \in Ends(s) : j > i => next <= j
<1> DEFINE W == {Size(s.map)} \cup Above(Ends(s), i)
<1>1. Size(s.map) \in Nat \ {0} /\ Ends(s) \subseteq 1 .. Size(s.map) - 1
  BY OffsetsAreInOrder DEF Ends, Selected
<1>2. {j \in i + 1 .. Size(s.map) : seg_valid_offset(s.map, s.mask, j)} = W
  <2>1. \A j \in i + 1 .. Size(s.map) : j \in 1 .. Size(s.map)
    BY <1>1
  <2>2. \A j \in i + 1 .. Size(s.map) :
          seg_valid_offset(s.map, s.mask, j) <=> j \in {Size(s.map)} \cup Ends(s)
    BY <2>1, ValidIsEnd
  <2>3. \A j \in W : j \in i + 1 .. Size(s.map) /\ j \in {Size(s.map)} \cup Ends(s)
    BY <1>1 DEF Above
  <2>4. \A j \in i + 1 .. Size(s.map) : j \in {Size(s.map)} \cup Ends(s) => j \in W
    BY <1>1 DEF Above
  <2> HIDE DEF W
  <2> QED BY <2>2, <2>3, <2>4
<1>3. W \subseteq Nat /\ W # {}
  BY <1>1 DEF Above
<1>4. Least(W) \in W /\ \A j \in W : Least(W) <= j
  <2> HIDE DEF W
  <2> QED BY <1>3, LeastIs
<1>5. Least(W) \in {Size(s.map)} \cup Ends(s) /\ Least(W) > i
  BY <1>1, <1>4 DEF Above
<1>6. \A j \in Ends(s) : j > i => Least(W) <= j
  BY <1>4 DEF Above
<1> QED BY <1>2, <1>5, <1>6

\* Where a segment starts, of those that end behind an end k.
LEMMA StartIs ==
    ASSUME NEW s, Ordered(s.map), NEW i \in 1 .. Size(s.map) - 1, NEW k \in {0} \cup Ends(s), k < i,
           \A j \in Ends(s) : j < i => j <= k
    PROVE  Greatest({0} \cup {j \in Ends(s) : j < i}) = k
<1> DEFINE W == {0} \cup {j \in Ends(s) : j < i}
<1>1. Size(s.map) \in Nat \ {0} /\ Ends(s) \subseteq 1 .. Size(s.map) - 1
  BY OffsetsAreInOrder DEF Ends, Selected
<1>2. W \subseteq 0 .. Size(s.map) - 1 /\ k \in W
  BY <1>1
<1>3. \A j \in W : k >= j
  BY <1>1
<1>4. Size(s.map) - 1 \in Nat
  BY <1>1
<1> HIDE DEF W
<1>5. Greatest(W) = k
  BY <1>2, <1>3, <1>4, GreatestUnique
<1> QED BY <1>5 DEF W

LEMMA BeginStands ==
    ASSUME NEW s, Ordered(s.map), s.full \in BOOLEAN
    PROVE  LET new == seg_set_begin(s.map, s.mask, s.full)
           IN  SegStands(s, new) /\ new.second = Least({Size(s.map)} \cup Ends(s))
<1> DEFINE start == [first |-> 0, second |-> 0, from |-> 0, to |-> 0, rule |-> {}]
           second == Least({i \in 1 .. Size(s.map) : seg_valid_offset(s.map, s.mask, i)})
           first == IF s.full /\ second < Size(s.map) THEN 0 ELSE second - 1
<1>1. Size(s.map) \in Nat \ {0} /\ get_offset(s.map, 0) = 0 /\ Ends(s) \subseteq 1 .. Size(s.map) - 1
  BY OffsetsAreInOrder DEF Ends, Selected
<1>2. seg_set_begin(s.map, s.mask, s.full) = seg_update_current(s.map, start, first, second)
  BY DEF seg_set_begin, seg_increment
<1>3. Above(Ends(s), 0) = Ends(s)
  BY <1>1 DEF Above
<1>4. /\ second = Least({Size(s.map)} \cup Ends(s)) /\ second \in {Size(s.map)} \cup Ends(s)
      /\ second > 0 /\ \A j \in Ends(s) : second <= j
  <2>1. 0 \in 0 .. Size(s.map) - 1 /\ 0 + 1 = 1
    BY <1>1
  <2>2. \A j \in Ends(s) : j > 0
    BY <1>1
  <2> QED BY <2>1, <2>2, <1>3, NextEnd
<1> HIDE DEF second
<1>5. first \in 0 .. second - 1
  BY <1>1, <1>4
<1>6. second < Size(s.map) => first = SegStart(s, second)
  <2> SUFFICES ASSUME second < Size(s.map) PROVE first = SegStart(s, second)
    OBVIOUS
  <2>1. CASE s.full
    <3>1. first = 0 /\ second \in 1 .. Size(s.map) - 1
      BY <2>1, <1>1, <1>4
    <3>2. \A j \in Ends(s) : j < second => j <= 0
      BY <1>1, <1>4
    <3>3. Greatest({0} \cup {j \in Ends(s) : j < second}) = 0
      BY <3>1, <3>2, <1>4, StartIs
    <3> QED BY <2>1, <3>1, <3>3 DEF SegStart, Ends
  <2>2. CASE ~ s.full
    BY <2>2 DEF SegStart
  <2> QED BY <2>1, <2>2
<1> HIDE DEF first
<1>7. start.first \in 0 .. Size(s.map) /\ start.second \in 0 .. Size(s.map)
  BY <1>1
<1>8. start.from = get_offset(s.map, start.first) /\ start.to = get_offset(s.map, start.second)
  BY <1>1
<1> HIDE DEF start
<1>9. LET new == seg_update_current(s.map, start, first, second)
      IN  SegStands(s, new) /\ new.second = second
  BY <1>4, <1>5, <1>6, <1>7, <1>8, UpdateStands
<1> QED BY <1>2, <1>4, <1>9

LEMMA ForwardStands ==
    ASSUME NEW s, Ordered(s.map), s.full \in BOOLEAN, NEW it, SegStands(s, it), it.second < Size(s.map)
    PROVE  LET new == seg_increment(s.map, s.mask, s.full, it)
           IN  SegStands(s, new) /\ new.second = Least({Size(s.map)} \cup Above(Ends(s), it.second))
<1> DEFINE second == Least({i \in it.second + 1 .. Size(s.map) : seg_valid_offset(s.map, s.mask, i)})
           first == IF s.full /\ second < Size(s.map) THEN it.second ELSE second - 1
<1>1. /\ Size(s.map) \in Nat \ {0} /\ Ends(s) \subseteq 1 .. Size(s.map) - 1
      /\ it.second \in Ends(s) /\ it.second \in 1 .. Size(s.map) - 1 /\ it.first \in 0 .. Size(s.map) - 1
  BY OffsetsAreInOrder DEF Ends, Selected, SegStands
<1>2. seg_increment(s.map, s.mask, s.full, it) = seg_update_current(s.map, it, first, second)
  BY DEF seg_increment
<1>3. /\ second = Least({Size(s.map)} \cup Above(Ends(s), it.second)) /\ second \in {Size(s.map)} \cup Ends(s)
      /\ second > it.second /\ \A j \in Ends(s) : j > it.second => second <= j
  <2>1. it.second \in 0 .. Size(s.map) - 1
    BY <1>1
  <2> QED BY <2>1, NextEnd
<1> HIDE DEF second
<1>4. first \in 0 .. second - 1
  BY <1>1, <1>3
<1>5. second < Size(s.map) => first = SegStart(s, second)
  <2> SUFFICES ASSUME second < Size(s.map) PROVE first = SegStart(s, second)
    OBVIOUS
  <2>1. CASE s.full
    <3>1. first = it.second /\ second \in 1 .. Size(s.map) - 1
      BY <2>1, <1>1, <1>3
    <3>2. \A j \in Ends(s) : j < second => j <= it.second
      BY <1>1, <1>3
    <3>3. Greatest({0} \cup {j \in Ends(s) : j < second}) = it.second
      BY <3>1, <3>2, <1>1, <1>3, StartIs
    <3> QED BY <2>1, <3>1, <3>3 DEF SegStart, Ends
  <2>2. CASE ~ s.full
    BY <2>2 DEF SegStart
  <2> QED BY <2>1, <2>2
<1> HIDE DEF first
<1>6. it.first \in 0 .. Size(s.map) /\ it.second \in 0 .. Size(s.map)
  BY <1>1
<1>7. it.from = get_offset(s.map, it.first) /\ it.to = get_offset(s.map, it.second)
  BY DEF SegStands
<1>8. LET new == seg_update_current(s.map, it, first, second)
      IN  SegStands(s, new) /\ new.second = second
  BY <1>3, <1>4, <1>5, <1>6, <1>7, UpdateStands
<1> QED BY <1>2, <1>3, <1>8

\* The start that seg_set and seg_decrement look for with a full selection.
LEMMA StartIsLooked ==
    ASSUME NEW s, Ordered(s.map), NEW second \in 1 .. Size(s.map)
    PROVE  LET start == Greatest({i \in 0 .. second - 1 : seg_valid_offset(s.map, s.mask, i)})
           IN  /\ start \in 0 .. second - 1
               /\ start = Greatest({0} \cup {i \in Ends(s) : i < second})
               /\ {i \in 0 .. second - 1 : seg_valid_offset(s.map, s.mask, i)} \cup {0} =
                  {i \in 0 .. second - 1 : seg_valid_offset(s.map, s.mask, i)}
<1> DEFINE W == {i \in 0 .. second - 1 : seg_valid_offset(s.map, s.mask, i)}
<1>1. Size(s.map) \in Nat \ {0} /\ Ends(s) \subseteq 1 .. Size(s.map) - 1
  BY OffsetsAreInOrder DEF Ends, Selected
<1>2. 0 \in W
  BY DEF seg_valid_offset
<1>3. \A i \in 1 .. second - 1 : seg_valid_offset(s.map, s.mask, i) <=> i \in Ends(s)
  <2>1. \A i \in 1 .. second - 1 : i \in 1 .. Size(s.map) /\ i # Size(s.map)
    BY <1>1
  <2> QED BY <2>1, ValidIsEnd
<1>4. W = {0} \cup {i \in Ends(s) : i < second}
  <2>1. \A i \in W : i = 0 \/ (i \in Ends(s) /\ i < second)
    <3>1. \A i \in 0 .. second - 1 : i = 0 \/ (i \in 1 .. second - 1 /\ i < second)
      BY <1>1
    <3> QED BY <3>1, <1>3
  <2>2. \A i \in Ends(s) : i < second => i \in W
    <3>1. \A i \in Ends(s) : i < second => i \in 1 .. second - 1 /\ i \in 0 .. second - 1
      BY <1>1
    <3> QED BY <3>1, <1>3
  <2> HIDE DEF W
  <2> QED BY <2>1, <2>2, <1>2
<1>5. second - 1 \in Nat /\ W \subseteq 0 .. second - 1
  BY <1>1
<1>6. Greatest(W) \in W
  <2> HIDE DEF W
  <2> QED BY <1>2, <1>5, GreatestIs
<1>7. Greatest(W) \in 0 .. second - 1
  BY <1>5, <1>6
<1>8. W \cup {0} = W
  BY <1>2
<1> QED BY <1>4, <1>7, <1>8

LEMMA SetStands ==
    ASSUME NEW s, Ordered(s.map), s.full \in BOOLEAN, NEW p \in Nat
    PROVE  LET new == seg_set(s.map, s.mask, s.full, p)
           IN  /\ SegStands(s, new)
               /\ new.second = Least({Size(s.map)} \cup {i \in Ends(s) : SegReaches(SegItem(s)[i], p)})
<1> DEFINE W == {Size(s.map)} \cup {i \in 0 .. Size(s.map) - 1 :
                                      Info(s.map, i).offset > p /\ Info(s.map, i).rule \cap s.mask # {}}
           second == Least(W)
           first == IF s.full THEN Greatest({i \in 0 .. second - 1 : seg_valid_offset(s.map, s.mask, i)})
                    ELSE second - 1
           new == seg_set(s.map, s.mask, s.full, p)
<1>1. Size(s.map) \in Nat \ {0} /\ Ends(s) \subseteq 1 .. Size(s.map) - 1
  BY OffsetsAreInOrder DEF Ends, Selected
<1>2. /\ new.first = first /\ new.second = second /\ new.from = get_offset(s.map, first)
      /\ new.to = get_offset(s.map, second) /\ new.rule = update_rule(s.map, second, {})
  BY DEF seg_set
<1> HIDE DEF new
<1>3. W = {Size(s.map)} \cup {i \in Ends(s) : SegReaches(SegItem(s)[i], p)}
  <2>1. \A i \in 1 .. Size(s.map) - 1 : SegReaches(SegItem(s)[i], p) <=> Info(s.map, i).offset > p
    BY <1>1 DEF SegReaches, SegItem
  <2>2. \A i \in 0 .. Size(s.map) - 1 : Info(s.map, i).rule \cap s.mask # {} <=> i \in Ends(s)
    BY <1>1 DEF Ends, Selected, Ordered
  <2> QED BY <2>1, <2>2, <1>1
<1>4. W \subseteq Nat /\ W # {} /\ W \subseteq {Size(s.map)} \cup Ends(s)
  BY <1>1, <1>3
<1> HIDE DEF W
<1>5. second \in W
  BY <1>4, LeastIs
<1> HIDE DEF second
<1>6. second \in {Size(s.map)} \cup Ends(s) /\ second \in 1 .. Size(s.map)
  BY <1>1, <1>4, <1>5
<1>7. first \in 0 .. second - 1 /\ (second < Size(s.map) => first = SegStart(s, second))
  <2>1. CASE s.full
    <3>1. LET start == Greatest({i \in 0 .. second - 1 : seg_valid_offset(s.map, s.mask, i)})
          IN  start \in 0 .. second - 1 /\ start = Greatest({0} \cup {i \in Ends(s) : i < second})
      BY <1>6, StartIsLooked
    <3> QED BY <2>1, <3>1 DEF SegStart, Ends
  <2>2. CASE ~ s.full
    BY <2>2, <1>6 DEF SegStart
  <2> QED BY <2>1, <2>2
<1> HIDE DEF first
<1>8. first \in 0 .. Size(s.map) - 1 /\ first < second
  BY <1>1, <1>6, <1>7
<1>9. second < Size(s.map) => second \in Ends(s) /\ new.rule = Info(s.map, second).rule
  BY <1>1, <1>2, <1>6 DEF update_rule
<1>10. SegStands(s, new)
  BY <1>2, <1>6, <1>7, <1>8, <1>9 DEF SegStands
<1> QED BY <1>2, <1>3, <1>10 DEF new, second, W

\* The step backward ends where the step forward began.
LEMMA BackwardStands ==
    ASSUME NEW s, Ordered(s.map), s.full \in BOOLEAN, NEW it, SegStands(s, it),
           it.second # seg_set_begin(s.map, s.mask, s.full).second
    PROVE  LET new == seg_decrement(s.map, s.mask, s.full, it)
           IN  /\ SegStands(s, new) /\ new.second \in Ends(s)
               /\ it.second = Least({Size(s.map)} \cup Above(Ends(s), new.second))
<1> DEFINE begin == Least({Size(s.map)} \cup Ends(s))
           W == {1} \cup {i \in 1 .. it.second - 1 : seg_valid_offset(s.map, s.mask, i)}
           second == IF it.second <= 1 THEN it.second ELSE Greatest(W)
           first == IF s.full THEN Greatest({i \in 0 .. second - 1 : seg_valid_offset(s.map, s.mask, i)} \cup {0})
                    ELSE second - 1
<1>1. /\ Size(s.map) \in Nat \ {0} /\ Ends(s) \subseteq 1 .. Size(s.map) - 1
      /\ it.second \in 1 .. Size(s.map) /\ it.first \in 0 .. Size(s.map) - 1
      /\ it.second \in {Size(s.map)} \cup Ends(s)
  BY OffsetsAreInOrder DEF Ends, Selected, SegStands
<1>2. seg_decrement(s.map, s.mask, s.full, it) = seg_update_current(s.map, it, first, second)
  BY DEF seg_decrement
<1>3. begin # it.second
  BY BeginStands
<1>4. begin \in {Size(s.map)} \cup Ends(s) /\ \A j \in {Size(s.map)} \cup Ends(s) : begin <= j
  <2>1. {Size(s.map)} \cup Ends(s) \subseteq Nat /\ {Size(s.map)} \cup Ends(s) # {}
    BY <1>1
  <2> QED BY <2>1, LeastIs
<1> HIDE DEF begin
<1>5. begin \in 1 .. it.second - 1 /\ begin \in Ends(s) /\ ~(it.second <= 1)
  <2>1. begin <= it.second
    BY <1>1, <1>4
  <2>2. begin \in 1 .. Size(s.map)
    BY <1>1, <1>4
  <2>3. begin < it.second /\ begin < Size(s.map)
    BY <2>1, <2>2, <1>1, <1>3
  <2> QED BY <2>2, <2>3, <1>1, <1>4
<1>6. \A i \in 1 .. it.second - 1 : seg_valid_offset(s.map, s.mask, i) <=> i \in Ends(s)
  <2>1. \A i \in 1 .. it.second - 1 : i \in 1 .. Size(s.map) /\ i # Size(s.map)
    BY <1>1
  <2> QED BY <2>1, ValidIsEnd
<1>7. begin \in W
  BY <1>5, <1>6
<1>8. it.second \in Nat /\ W \subseteq 0 .. it.second
  BY <1>1
<1>9. Greatest(W) \in W /\ \A j \in W : Greatest(W) >= j
  <2> HIDE DEF W
  <2> QED BY <1>7, <1>8, GreatestIs
<1>10. second = Greatest(W)
  BY <1>5
<1>11. second \in W /\ second \in 1 .. it.second - 1 /\ second >= begin /\ \A j \in W : j <= second
  <2>1. W \subseteq 1 .. it.second - 1
    BY <1>1, <1>5
  <2>2. second \in W /\ \A j \in W : second >= j
    BY <1>9, <1>10
  <2> HIDE DEF W, second
  <2> QED BY <2>1, <2>2, <1>7
<1>12. second \in Ends(s)
  <2>1. CASE second = 1
    <3>1. begin = 1
      BY <2>1, <1>5, <1>11
    <3> QED BY <2>1, <3>1, <1>5
  <2>2. CASE second # 1
    <3>1. seg_valid_offset(s.map, s.mask, second)
      <4> HIDE DEF second
      <4> QED BY <2>2, <1>11
    <3> QED BY <3>1, <1>6, <1>11
  <2> QED BY <2>1, <2>2
<1>13. \A j \in Ends(s) : j < it.second => j <= second
  <2>1. \A j \in Ends(s) : j < it.second => j \in 1 .. it.second - 1
    BY <1>1
  <2>2. \A j \in Ends(s) : j < it.second => j \in W
    BY <2>1, <1>6
  <2> QED BY <2>2, <1>11
<1> HIDE DEF second, W
<1>14. it.second = Least({Size(s.map)} \cup Above(Ends(s), second))
  <2>1. \A j \in Ends(s) : j \in 0 .. Size(s.map) - 1
    BY <1>1
  <2>2. Size(s.map) \in Nat /\ second < it.second /\ Ends(s) \subseteq 0 .. Size(s.map) - 1
    BY <2>1, <1>1, <1>11
  <2> QED BY <2>2, <1>1, <1>12, <1>13, StepsMeet
<1>15. second \in 1 .. Size(s.map)
  BY <1>1, <1>11
<1>16. first \in 0 .. second - 1 /\ first = SegStart(s, second)
  <2>1. CASE s.full
    <3>1. LET start == Greatest({i \in 0 .. second - 1 : seg_valid_offset(s.map, s.mask, i)})
          IN  /\ start \in 0 .. second - 1 /\ start = Greatest({0} \cup {i \in Ends(s) : i < second})
              /\ {i \in 0 .. second - 1 : seg_valid_offset(s.map, s.mask, i)} \cup {0} =
                 {i \in 0 .. second - 1 : seg_valid_offset(s.map, s.mask, i)}
      BY <1>15, StartIsLooked
    <3> QED BY <2>1, <3>1 DEF SegStart, Ends
  <2>2. CASE ~ s.full
    BY <2>2, <1>15 DEF SegStart
  <2> QED BY <2>1, <2>2
<1> HIDE DEF first
<1>17. it.first \in 0 .. Size(s.map) /\ it.second \in 0 .. Size(s.map)
  BY <1>1
<1>18. it.from = get_offset(s.map, it.first) /\ it.to = get_offset(s.map, it.second)
  BY DEF SegStands
<1>19. LET new == seg_update_current(s.map, it, first, second)
       IN  SegStands(s, new) /\ new.second = second
  BY <1>12, <1>16, <1>17, <1>18, UpdateStands
<1> QED BY <1>2, <1>12, <1>14, <1>19

-----------------------------------------------------------------------------
(* The boundary_point_index_iterator *)

PointStands(s, it) ==
    /\ it.current \in 0 .. Size(s.map) /\ it.pos = get_offset(s.map, it.current)
    /\ it.current < Size(s.map) => it.current \in Stops(s) /\ it.rule = Info(s.map, it.current).rule

PointShown(s, it) == IF it.current = Size(s.map) THEN {} ELSE {[to |-> it.pos, rule |-> it.rule]}

LEMMA ShownIsPoint ==
    ASSUME NEW s, Ordered(s.map), NEW it, PointStands(s, it)
    PROVE  PointShown(s, it) = At(PointItem(s), Size(s.map), it.current)
<1>1. CASE it.current = Size(s.map)
  BY <1>1 DEF PointShown, At
<1>2. CASE it.current # Size(s.map)
  <2>1. it.current \in 0 .. Size(s.map) - 1 /\ it.current < Size(s.map)
    BY <1>2, OffsetsAreInOrder DEF PointStands
  <2>2. it.pos = Info(s.map, it.current).offset /\ it.rule = Info(s.map, it.current).rule
    BY <2>1, OffsetsAreInOrder DEF PointStands
  <2>3. PointItem(s)[it.current] = [to |-> it.pos, rule |-> it.rule]
    BY <2>1, <2>2 DEF PointItem
  <2> QED BY <1>2, <2>3 DEF PointShown, At
<1> QED BY <1>1, <1>2

LEMMA PointUpdateStands ==
    ASSUME NEW s, Ordered(s.map), NEW it,
           it.current \in 0 .. Size(s.map), it.pos = get_offset(s.map, it.current),
           NEW i \in {Size(s.map)} \cup Stops(s)
    PROVE  LET new == bp_update_current(s.map, it, i)
           IN  PointStands(s, new) /\ new.current = i
<1> DEFINE new == bp_update_current(s.map, it, i)
<1>1. i \in 0 .. Size(s.map)
  BY OffsetsAreInOrder DEF Stops, Selected
<1>2. new.current = i /\ new.rule = update_rule(s.map, i, it.rule)
  BY DEF bp_update_current
<1>3. get_offset(s.map, it.current) \in Nat /\ get_offset(s.map, i) \in Nat
  BY <1>1, OffsetsAreInOrder
<1>4. new.pos = get_offset(s.map, i)
  BY <1>3 DEF bp_update_current
<1>5. i < Size(s.map) => i \in Stops(s) /\ new.rule = Info(s.map, i).rule
  BY <1>1, <1>2 DEF update_rule
<1> HIDE DEF new
<1>6. PointStands(s, new)
  BY <1>1, <1>2, <1>4, <1>5 DEF PointStands
<1> QED BY <1>2, <1>6 DEF new

LEMMA ValidIsStop ==
    ASSUME NEW s, Ordered(s.map), NEW i \in 0 .. Size(s.map)
    PROVE  bp_valid_offset(s.map, s.mask, i) <=> i \in {Size(s.map)} \cup Stops(s)
<1>1. Size(s.map) \in Nat \ {0}
  BY DEF Ordered
<1>2. i + 1 >= Size(s.map) <=> i \in {Size(s.map), Size(s.map) - 1}
  BY <1>1
<1>3. i \in 1 .. Size(s.map) - 1 <=> i # 0 /\ i # Size(s.map)
  BY <1>1
<1> QED BY <1>2, <1>3 DEF bp_valid_offset, Stops, Selected

LEMMA PointEndsStand ==
    ASSUME NEW s, Ordered(s.map)
    PROVE  /\ PointStands(s, bp_set_begin(s.map)) /\ bp_set_begin(s.map).current = 0
           /\ 0 = Least({Size(s.map)} \cup Stops(s))
           /\ PointStands(s, bp_set_end(s.map)) /\ bp_set_end(s.map).current = Size(s.map)
<1>1. Size(s.map) \in Nat \ {0} /\ 0 \in Stops(s) /\ Info(s.map, 0).rule = {}
  BY DEF Ordered, Stops
<1>2. {Size(s.map)} \cup Stops(s) \subseteq Nat
  BY <1>1 DEF Stops, Selected
<1>3. \A j \in {Size(s.map)} \cup Stops(s) : 0 <= j
  BY <1>2
<1>4. Least({Size(s.map)} \cup Stops(s)) = 0
  BY <1>1, <1>2, <1>3, LeastUnique
<1>5. PointStands(s, bp_set_begin(s.map)) /\ PointStands(s, bp_set_end(s.map))
  BY <1>1, OffsetsAreInOrder DEF PointStands, bp_set_begin, bp_set_end
<1> QED BY <1>4, <1>5 DEF bp_set_begin, bp_set_end

LEMMA PointForwardStands ==
    ASSUME NEW s, Ordered(s.map), NEW it, PointStands(s, it), it.current # Size(s.map)
    PROVE  LET new == bp_increment(s.map, s.mask, it)
           IN  /\ PointStands(s, new) /\ it.current \in Stops(s)
               /\ new.current = Least({Size(s.map)} \cup Above(Stops(s), it.current))
<1> DEFINE W == {Size(s.map)} \cup {i \in it.current + 1 .. Size(s.map) : bp_valid_offset(s.map, s.mask, i)}
           i == Least(W)
<1>1. /\ Size(s.map) \in Nat \ {0} /\ Stops(s) \subseteq 0 .. Size(s.map) - 1
      /\ it.current \in 0 .. Size(s.map) - 1 /\ it.current \in 0 .. Size(s.map)
      /\ it.current \in Stops(s)
  BY OffsetsAreInOrder DEF Stops, Selected, PointStands
<1>2. W = {Size(s.map)} \cup Above(Stops(s), it.current)
  <2>1. \A j \in it.current + 1 .. Size(s.map) : j \in 0 .. Size(s.map)
    BY <1>1
  <2>2. \A j \in it.current + 1 .. Size(s.map) :
          bp_valid_offset(s.map, s.mask, j) <=> j \in {Size(s.map)} \cup Stops(s)
    BY <2>1, ValidIsStop
  <2>3. \A j \in Stops(s) : j > it.current <=> j \in it.current + 1 .. Size(s.map)
    BY <1>1
  <2> QED BY <2>2, <2>3 DEF Above
<1>3. W \subseteq Nat /\ W # {} /\ W \subseteq {Size(s.map)} \cup Stops(s)
  BY <1>1, <1>2 DEF Above
<1>4. i \in W
  <2> HIDE DEF W
  <2> QED BY <1>3, LeastIs
<1>5. i \in {Size(s.map)} \cup Stops(s)
  BY <1>3, <1>4
<1>6. i = Least({Size(s.map)} \cup Above(Stops(s), it.current))
  BY <1>2
<1>7. bp_increment(s.map, s.mask, it) = bp_update_current(s.map, it, i)
  BY DEF bp_increment
<1> HIDE DEF i
<1>8. LET new == bp_update_current(s.map, it, i)
      IN  PointStands(s, new) /\ new.current = i
  BY <1>1, <1>5, PointUpdateStands DEF PointStands
<1> QED BY <1>1, <1>6, <1>7, <1>8

LEMMA PointBackwardStands ==
    ASSUME NEW s, Ordered(s.map), NEW it, PointStands(s, it), it.current # 0
    PROVE  LET new == bp_decrement(s.map, s.mask, it)
           IN  /\ PointStands(s, new) /\ new.current \in Stops(s)
               /\ it.current = Least({Size(s.map)} \cup Above(Stops(s), new.current))
<1> DEFINE W == {0} \cup {i \in 0 .. it.current - 1 : bp_valid_offset(s.map, s.mask, i)}
           i == Greatest(W)
<1>1. /\ Size(s.map) \in Nat \ {0} /\ Stops(s) \subseteq 0 .. Size(s.map) - 1 /\ 0 \in Stops(s)
      /\ it.current \in 1 .. Size(s.map) /\ it.current \in 0 .. Size(s.map)
      /\ it.current \in {Size(s.map)} \cup Stops(s)
  BY OffsetsAreInOrder DEF Stops, Selected, PointStands
<1>2. \A j \in 0 .. it.current - 1 : bp_valid_offset(s.map, s.mask, j) <=> j \in Stops(s)
  <2>1. \A j \in 0 .. it.current - 1 : j \in 0 .. Size(s.map) /\ j # Size(s.map)
    BY <1>1
  <2> QED BY <2>1, ValidIsStop
<1>3. W \subseteq Stops(s) /\ W \subseteq 0 .. it.current - 1 /\ 0 \in W
  BY <1>1, <1>2
<1>4. \A j \in Stops(s) : j < it.current => j \in W
  <2>1. \A j \in Stops(s) : j < it.current => j \in 0 .. it.current - 1
    BY <1>1
  <2> QED BY <2>1, <1>2
<1>5. i \in W /\ \A j \in W : i >= j
  <2>1. it.current - 1 \in Nat
    BY <1>1
  <2> HIDE DEF W
  <2> QED BY <2>1, <1>3, GreatestIs
<1>6. i \in Stops(s) /\ i < it.current /\ \A j \in Stops(s) : j < it.current => j <= i
  <2>1. i \in 0 .. it.current - 1 /\ i \in Stops(s)
    BY <1>3, <1>5
  <2> HIDE DEF W, i
  <2> QED BY <2>1, <1>1, <1>4, <1>5
<1>7. bp_decrement(s.map, s.mask, it) = bp_update_current(s.map, it, i)
  BY DEF bp_decrement
<1> HIDE DEF i, W
<1>8. it.current = Least({Size(s.map)} \cup Above(Stops(s), i))
  <2>1. Size(s.map) \in Nat
    BY <1>1
  <2> QED BY <2>1, <1>1, <1>6, StepsMeet
<1>9. LET new == bp_update_current(s.map, it, i)
      IN  PointStands(s, new) /\ new.current = i
  BY <1>1, <1>6, PointUpdateStands DEF PointStands
<1> QED BY <1>6, <1>7, <1>8, <1>9

LEMMA PointSetStands ==
    ASSUME NEW s, Ordered(s.map), NEW p \in Nat, p <= s.map.end
    PROVE  LET new == bp_set(s.map, s.mask, p)
           IN  /\ PointStands(s, new)
               /\ new.current = Least({Size(s.map)} \cup {i \in Stops(s) : PointReaches(PointItem(s)[i], p)})
<1> DEFINE L == {Size(s.map) - 1} \cup {i \in 0 .. Size(s.map) - 1 : Info(s.map, i).offset >= p}
           lower == Least(L)
           W == {i \in lower .. Size(s.map) : bp_valid_offset(s.map, s.mask, i)}
           current == Least(W)
           new == bp_set(s.map, s.mask, p)
<1>1. /\ Size(s.map) \in Nat \ {0} /\ Stops(s) \subseteq 0 .. Size(s.map) - 1 /\ Size(s.map) - 1 \in Stops(s)
      /\ Info(s.map, Size(s.map) - 1).offset >= p
  BY OffsetsAreInOrder DEF Stops, Selected, Ordered
<1>2. /\ new.current = current /\ new.pos = p + (get_offset(s.map, current) - p)
      /\ new.rule = update_rule(s.map, current, {})
  BY DEF bp_set
<1> HIDE DEF new
<1>3. L \subseteq 0 .. Size(s.map) - 1 /\ L # {} /\ L \subseteq Nat
  BY <1>1
<1>4. \A i \in 0 .. Size(s.map) - 1 : i \in L <=> Info(s.map, i).offset >= p
  BY <1>1
<1>5. lower \in L /\ \A j \in L : lower <= j
  <2> HIDE DEF L
  <2> QED BY <1>3, LeastIs
<1>6. lower \in 0 .. Size(s.map) - 1 /\ \A i \in 0 .. Size(s.map) - 1 : i >= lower <=> Info(s.map, i).offset >= p
  <2>1. lower \in 0 .. Size(s.map) - 1 /\ Info(s.map, lower).offset >= p
    BY <1>3, <1>4, <1>5
  <2>2. \A i \in 0 .. Size(s.map) - 1 : Info(s.map, i).offset >= p => i >= lower
    BY <1>4, <1>5, <2>1
  <2> HIDE DEF L, lower
  <2>3. \A i \in 0 .. Size(s.map) - 1 : i >= lower => Info(s.map, i).offset >= p
    <3> TAKE i \in 0 .. Size(s.map) - 1
    <3>1. i = lower \/ lower < i \/ ~(i >= lower)
      BY <2>1
    <3>2. lower < i => Info(s.map, lower).offset < Info(s.map, i).offset
      BY <2>1 DEF Ordered
    <3>3. Info(s.map, i).offset \in Nat /\ Info(s.map, lower).offset \in Nat
      BY <2>1 DEF Ordered
    <3> QED BY <2>1, <3>1, <3>2, <3>3
  <2> QED BY <2>1, <2>2, <2>3
<1> HIDE DEF L, lower
<1>7. W = {Size(s.map)} \cup {i \in Stops(s) : PointReaches(PointItem(s)[i], p)}
  <2>1. \A i \in 0 .. Size(s.map) - 1 : PointReaches(PointItem(s)[i], p) <=> i >= lower
    BY <1>6 DEF PointReaches, PointItem
  <2>2. \A i \in lower .. Size(s.map) : bp_valid_offset(s.map, s.mask, i) <=> i \in {Size(s.map)} \cup Stops(s)
    <3>1. \A i \in lower .. Size(s.map) : i \in 0 .. Size(s.map)
      BY <1>1, <1>6
    <3> QED BY <3>1, ValidIsStop
  <2>3. Size(s.map) \in lower .. Size(s.map)
    BY <1>1, <1>6
  <2>4. \A i \in Stops(s) : i \in lower .. Size(s.map) <=> i >= lower
    BY <1>1, <1>6
  <2>5. \A i \in Stops(s) : i \in 0 .. Size(s.map) - 1
    BY <1>1
  <2> QED BY <2>1, <2>2, <2>3, <2>4, <2>5
<1>8. W \subseteq Nat /\ W # {} /\ W \subseteq {Size(s.map)} \cup Stops(s)
  BY <1>1, <1>7
<1>9. current \in W
  <2> HIDE DEF W
  <2> QED BY <1>8, LeastIs
<1>10. current \in {Size(s.map)} \cup Stops(s)
  BY <1>8, <1>9
<1>11. current = Least({Size(s.map)} \cup {i \in Stops(s) : PointReaches(PointItem(s)[i], p)})
  BY <1>7
<1> HIDE DEF current, W
<1>12. current \in 0 .. Size(s.map) /\ get_offset(s.map, current) \in Nat
  BY <1>1, <1>10, OffsetsAreInOrder
<1>13. new.pos = get_offset(s.map, current)
  BY <1>2, <1>12
<1>14. current < Size(s.map) => current \in Stops(s) /\ new.rule = Info(s.map, current).rule
  BY <1>1, <1>2, <1>10, <1>12 DEF update_rule
<1>15. PointStands(s, new)
  BY <1>2, <1>12, <1>13, <1>14 DEF PointStands
<1> QED BY <1>2, <1>11, <1>15 DEF new

-----------------------------------------------------------------------------
(* Both iterators in every state *)

\* The iterators stand at break points of their index that their rules select,
\* with the text of these break points.
Standing ==
    /\ segs = [map |-> segs.map, mask |-> segs.mask, full |-> segs.full]
    /\ Ordered(segs.map) /\ segs.full \in BOOLEAN
    /\ points = [map |-> points.map, mask |-> points.mask]
    /\ Ordered(points.map)
    /\ seg # None => SegStands(segs, seg)
    /\ point # None => PointStands(points, point)

LEMMA InitStanding == ASSUME TextsAreOrdered PROVE Init => Standing
<1> SUFFICES ASSUME Init PROVE Standing
  OBVIOUS
<1>1. PICK a \in Analyses : segs = NewSegs(a) /\ points = NewPoints(a) /\ seg = None /\ point = None
  BY DEF Init
<1>2. /\ segs.map = mapping(a) /\ segs.mask = Kinds /\ segs.full = FALSE
      /\ points.map = mapping(a) /\ points.mask = Kinds
  BY <1>1 DEF NewSegs, NewPoints
<1> QED BY <1>1, <1>2 DEF Standing, TextsAreOrdered, NewSegs, NewPoints

\* What a step does to one of the two, as parts of the invariant.
SegsFine(s) == s = [map |-> s.map, mask |-> s.mask, full |-> s.full] /\ Ordered(s.map) /\ s.full \in BOOLEAN
PointsFine(s) == s = [map |-> s.map, mask |-> s.mask] /\ Ordered(s.map)

LEMMA SetSegsStanding ==
    ASSUME Standing, NEW m, Ordered(m), NEW mask, NEW full \in BOOLEAN,
           SetSegs([map |-> m, mask |-> mask, full |-> full])
    PROVE  Standing'
BY DEF Standing, SetSegs, Invalidate

LEMMA SetPointsStanding ==
    ASSUME Standing, NEW m, Ordered(m), NEW mask, SetPoints([map |-> m, mask |-> mask])
    PROVE  Standing'
BY DEF Standing, SetPoints, Invalidate

\* Another text, other rules: of nine kinds.
OptionStep ==
    \/ \E a \in Remapped : SegsMap(a) \/ PointsMap(a)
    \/ \E mask \in SUBSET Kinds : SegsRule(mask) \/ PointsRule(mask)
    \/ \E full \in BOOLEAN : SegsFullSelect(full)
    \/ SegsFromPoints \/ SegsAssignPoints \/ PointsFromSegs \/ PointsAssignSegs

LEMMA OptionStanding == ASSUME TextsAreOrdered, Standing, OptionStep PROVE Standing'
<1>1. ASSUME NEW a \in Remapped, SegsMap(a) PROVE Standing'
  <2>1. Ordered(mapping(a))
    BY RemappedAssumption DEF TextsAreOrdered
  <2>2. [segs EXCEPT !.map = mapping(a)] = [map |-> mapping(a), mask |-> segs.mask, full |-> segs.full]
    BY DEF Standing
  <2> QED BY <1>1, <2>1, <2>2, SetSegsStanding DEF SegsMap, Standing
<1>2. ASSUME NEW a \in Remapped, PointsMap(a) PROVE Standing'
  <2>1. Ordered(mapping(a))
    BY RemappedAssumption DEF TextsAreOrdered
  <2>2. [points EXCEPT !.map = mapping(a)] = [map |-> mapping(a), mask |-> points.mask]
    BY DEF Standing
  <2> QED BY <1>2, <2>1, <2>2, SetPointsStanding DEF PointsMap, Standing
<1>3. ASSUME NEW mask \in SUBSET Kinds, SegsRule(mask) PROVE Standing'
  <2>1. [segs EXCEPT !.mask = mask] = [map |-> segs.map, mask |-> mask, full |-> segs.full]
    BY DEF Standing
  <2> QED BY <1>3, <2>1, SetSegsStanding DEF SegsRule, Standing
<1>4. ASSUME NEW mask \in SUBSET Kinds, PointsRule(mask) PROVE Standing'
  <2>1. [points EXCEPT !.mask = mask] = [map |-> points.map, mask |-> mask]
    BY DEF Standing
  <2> QED BY <1>4, <2>1, SetPointsStanding DEF PointsRule, Standing
<1>5. ASSUME NEW full \in BOOLEAN, SegsFullSelect(full) PROVE Standing'
  <2>1. [segs EXCEPT !.full = full] = [map |-> segs.map, mask |-> segs.mask, full |-> full]
    BY DEF Standing
  <2> QED BY <1>5, <2>1, SetSegsStanding DEF SegsFullSelect, Standing
<1>6. ASSUME SegsFromPoints PROVE Standing'
  BY <1>6, SetSegsStanding DEF SegsFromPoints, Standing
<1>7. ASSUME SegsAssignPoints PROVE Standing'
  <2>1. [segs EXCEPT !.map = points.map] = [map |-> points.map, mask |-> segs.mask, full |-> segs.full]
    BY DEF Standing
  <2> QED BY <1>7, <2>1, SetSegsStanding DEF SegsAssignPoints, Standing
<1>8. ASSUME PointsFromSegs PROVE Standing'
  BY <1>8, SetPointsStanding DEF PointsFromSegs, Standing
<1>9. ASSUME PointsAssignSegs PROVE Standing'
  <2>1. [points EXCEPT !.map = segs.map] = [map |-> segs.map, mask |-> points.mask]
    BY DEF Standing
  <2> QED BY <1>9, <2>1, SetPointsStanding DEF PointsAssignSegs, Standing
<1> QED BY <1>1, <1>2, <1>3, <1>4, <1>5, <1>6, <1>7, <1>8, <1>9 DEF OptionStep

LEMMA StandingIsSome ==
    ASSUME NEW s, NEW it
    PROVE  /\ SegStands(s, it) => it # None
           /\ PointStands(s, it) => it # None
<1>1. None.first = -1 /\ None.current = -1
  BY DEF None
<1>2. SegStands(s, it) => it.first # -1
  BY DEF SegStands
<1>3. PointStands(s, it) => it.current # -1
  BY DEF PointStands
<1> QED BY <1>1, <1>2, <1>3

\* Where each call on a segment_index leads.
SegStep ==
    \/ \E p \in Positions : SegFind(p)
    \/ SegBegin \/ SegEnd \/ SegForward \/ SegBackward

SegLeads ==
    /\ UNCHANGED <<segs, points>> /\ point' = None
    /\ SegStands(segs, seg')
    /\ \/ call'.name = "begin" /\ seg'.second = Least({Size(segs.map)} \cup Ends(segs))
       \/ call'.name = "end" /\ seg'.second = Size(segs.map)
       \/ /\ call'.name = "find"
          /\ seg'.second = Least({Size(segs.map)} \cup {i \in Ends(segs) : SegReaches(SegItem(segs)[i], call'.p)})
       \/ /\ call'.name = "++" /\ seg # None /\ seg.second \in Ends(segs)
          /\ seg'.second = Least({Size(segs.map)} \cup Above(Ends(segs), seg.second))
       \/ /\ call'.name = "--" /\ seg # None /\ seg'.second \in Ends(segs)
          /\ seg.second = Least({Size(segs.map)} \cup Above(Ends(segs), seg'.second))

LEMMA SegStepLeads == ASSUME Standing, SegStep PROVE SegLeads
<1>1. Ordered(segs.map) /\ segs.full \in BOOLEAN /\ (seg # None => SegStands(segs, seg))
  BY DEF Standing
<1>2. ASSUME NEW p \in Positions, SegFind(p) PROVE SegLeads
  <2>1. p \in Nat
    BY DEF Positions
  <2>2. seg' = seg_set(segs.map, segs.mask, segs.full, p) /\ call' = [name |-> "find", p |-> p]
        /\ UNCHANGED <<segs, points>> /\ point' = None
    BY <1>2 DEF SegFind, MoveSeg
  <2>3. call'.name = "find" /\ call'.p = p
    BY <2>2
  <2>4. /\ SegStands(segs, seg')
        /\ seg'.second = Least({Size(segs.map)} \cup {i \in Ends(segs) : SegReaches(SegItem(segs)[i], p)})
    BY <1>1, <2>1, <2>2, SetStands
  <2> QED BY <2>2, <2>3, <2>4 DEF SegLeads
<1>3. ASSUME SegBegin PROVE SegLeads
  <2>1. seg' = seg_set_begin(segs.map, segs.mask, segs.full) /\ call'.name = "begin"
        /\ UNCHANGED <<segs, points>> /\ point' = None
    BY <1>3 DEF SegBegin, MoveSeg, Call
  <2>2. SegStands(segs, seg') /\ seg'.second = Least({Size(segs.map)} \cup Ends(segs))
    BY <1>1, <2>1, BeginStands
  <2> QED BY <2>1, <2>2 DEF SegLeads
<1>4. ASSUME SegEnd PROVE SegLeads
  <2>1. seg' = seg_set_end(segs.map) /\ call'.name = "end"
        /\ UNCHANGED <<segs, points>> /\ point' = None
    BY <1>4 DEF SegEnd, MoveSeg, Call
  <2>2. SegStands(segs, seg') /\ seg'.second = Size(segs.map)
    BY <1>1, <2>1, EndStands
  <2> QED BY <2>1, <2>2 DEF SegLeads
<1>5. ASSUME SegForward PROVE SegLeads
  <2>1. seg' = seg_increment(segs.map, segs.mask, segs.full, seg) /\ call'.name = "++"
        /\ UNCHANGED <<segs, points>> /\ point' = None /\ seg # None /\ ~ SegIs(seg_set_end(segs.map))
    BY <1>5 DEF SegForward, MoveSeg, Call
  <2>2. SegStands(segs, seg) /\ seg.second # Size(segs.map)
    BY <1>1, <2>1, EndStands DEF SegIs
  <2>3. seg.second < Size(segs.map) /\ seg.second \in Ends(segs)
    BY <1>1, <2>2, OffsetsAreInOrder DEF SegStands
  <2>4. SegStands(segs, seg') /\ seg'.second = Least({Size(segs.map)} \cup Above(Ends(segs), seg.second))
    BY <1>1, <2>1, <2>2, <2>3, ForwardStands
  <2> QED BY <2>1, <2>3, <2>4 DEF SegLeads
<1>6. ASSUME SegBackward PROVE SegLeads
  <2>1. seg' = seg_decrement(segs.map, segs.mask, segs.full, seg) /\ call'.name = "--"
        /\ UNCHANGED <<segs, points>> /\ point' = None /\ seg # None
        /\ ~ SegIs(seg_set_begin(segs.map, segs.mask, segs.full))
    BY <1>6 DEF SegBackward, MoveSeg, Call
  <2>2. SegStands(segs, seg) /\ seg.second # seg_set_begin(segs.map, segs.mask, segs.full).second
    BY <1>1, <2>1 DEF SegIs
  <2>3. /\ SegStands(segs, seg') /\ seg'.second \in Ends(segs)
        /\ seg.second = Least({Size(segs.map)} \cup Above(Ends(segs), seg'.second))
    BY <1>1, <2>1, <2>2, BackwardStands
  <2> QED BY <2>1, <2>3 DEF SegLeads
<1> QED BY <1>2, <1>3, <1>4, <1>5, <1>6 DEF SegStep

\* The same for a boundary_point_index.
PointStep ==
    \/ \E p \in Positions : PointFind(p)
    \/ PointBegin \/ PointEnd \/ PointForward \/ PointBackward

PointLeads ==
    /\ UNCHANGED <<segs, points>> /\ seg' = None
    /\ PointStands(points, point')
    /\ \/ call'.name = "begin" /\ point'.current = Least({Size(points.map)} \cup Stops(points))
       \/ call'.name = "end" /\ point'.current = Size(points.map)
       \/ /\ call'.name = "find"
          /\ point'.current =
                Least({Size(points.map)} \cup {i \in Stops(points) : PointReaches(PointItem(points)[i], call'.p)})
       \/ /\ call'.name = "++" /\ point # None /\ point.current \in Stops(points)
          /\ point'.current = Least({Size(points.map)} \cup Above(Stops(points), point.current))
       \/ /\ call'.name = "--" /\ point # None /\ point'.current \in Stops(points)
          /\ point.current = Least({Size(points.map)} \cup Above(Stops(points), point'.current))

LEMMA PointStepLeads == ASSUME Standing, PointStep PROVE PointLeads
<1>1. Ordered(points.map) /\ (point # None => PointStands(points, point))
  BY DEF Standing
<1>2. ASSUME NEW p \in Positions, PointFind(p) PROVE PointLeads
  <2>1. p \in Nat
    BY DEF Positions
  <2>2. point' = bp_set(points.map, points.mask, p) /\ call' = [name |-> "find", p |-> p]
        /\ UNCHANGED <<segs, points>> /\ seg' = None /\ p <= points.map.end
    BY <1>2 DEF PointFind, MovePoint
  <2>3. call'.name = "find" /\ call'.p = p
    BY <2>2
  <2>4. /\ PointStands(points, point')
        /\ point'.current =
              Least({Size(points.map)} \cup {i \in Stops(points) : PointReaches(PointItem(points)[i], p)})
    BY <1>1, <2>1, <2>2, PointSetStands
  <2> QED BY <2>2, <2>3, <2>4 DEF PointLeads
<1>3. ASSUME PointBegin PROVE PointLeads
  <2>1. point' = bp_set_begin(points.map) /\ call'.name = "begin" /\ UNCHANGED <<segs, points>> /\ seg' = None
    BY <1>3 DEF PointBegin, MovePoint, Call
  <2>2. PointStands(points, point') /\ point'.current = Least({Size(points.map)} \cup Stops(points))
    BY <1>1, <2>1, PointEndsStand
  <2> QED BY <2>1, <2>2 DEF PointLeads
<1>4. ASSUME PointEnd PROVE PointLeads
  <2>1. point' = bp_set_end(points.map) /\ call'.name = "end" /\ UNCHANGED <<segs, points>> /\ seg' = None
    BY <1>4 DEF PointEnd, MovePoint, Call
  <2>2. PointStands(points, point') /\ point'.current = Size(points.map)
    BY <1>1, <2>1, PointEndsStand
  <2> QED BY <2>1, <2>2 DEF PointLeads
<1>5. ASSUME PointForward PROVE PointLeads
  <2>1. point' = bp_increment(points.map, points.mask, point) /\ call'.name = "++"
        /\ UNCHANGED <<segs, points>> /\ seg' = None /\ point # None /\ point.current # Size(points.map)
    BY <1>5 DEF PointForward, MovePoint, Call
  <2>2. /\ PointStands(points, point') /\ point.current \in Stops(points)
        /\ point'.current = Least({Size(points.map)} \cup Above(Stops(points), point.current))
    BY <1>1, <2>1, PointForwardStands
  <2> QED BY <2>1, <2>2 DEF PointLeads
<1>6. ASSUME PointBackward PROVE PointLeads
  <2>1. point' = bp_decrement(points.map, points.mask, point) /\ call'.name = "--"
        /\ UNCHANGED <<segs, points>> /\ seg' = None /\ point # None /\ point.current # 0
    BY <1>6 DEF PointBackward, MovePoint, Call
  <2>2. /\ PointStands(points, point') /\ point'.current \in Stops(points)
        /\ point.current = Least({Size(points.map)} \cup Above(Stops(points), point'.current))
    BY <1>1, <2>1, PointBackwardStands
  <2> QED BY <2>1, <2>2 DEF PointLeads
<1> QED BY <1>2, <1>3, <1>4, <1>5, <1>6 DEF PointStep

LEMMA NextIsOf == Next => OptionStep \/ SegStep \/ PointStep
BY DEF Next, OptionStep, SegStep, PointStep

LEMMA NextStanding == ASSUME TextsAreOrdered PROVE Standing /\ [Next]_vars => Standing'
<1> SUFFICES ASSUME Standing, [Next]_vars PROVE Standing'
  OBVIOUS
<1>1. CASE OptionStep
  BY <1>1, OptionStanding
<1>2. CASE SegStep
  BY <1>2, SegStepLeads DEF SegLeads, Standing
<1>3. CASE PointStep
  BY <1>3, PointStepLeads DEF PointLeads, Standing
<1>4. CASE UNCHANGED vars
  BY <1>4 DEF vars, Standing
<1> QED BY <1>1, <1>2, <1>3, <1>4, NextIsOf

\* Iterators always stand where a cursor can: their positions are in the index and
\* at what is selected, with the values of these positions, whatever calls were made.
THEOREM AlwaysStanding == ASSUME TextsAreOrdered PROVE Spec => []Standing
<1>1. Init => Standing
  BY InitStanding
<1>2. Standing /\ [Next]_vars => Standing'
  BY NextStanding
<1> QED BY <1>1, <1>2, PTL DEF Spec

-----------------------------------------------------------------------------
(* The two refinements of Cursor *)

LEMMA OptionInvalidates == OptionStep => seg' = None /\ point' = None /\ call' = Option
BY DEF OptionStep, SegsMap, PointsMap, SegsRule, PointsRule, SegsFullSelect, SegsFromPoints,
       SegsAssignPoints, PointsFromSegs, PointsAssignSegs, SetSegs, SetPoints, Invalidate

SegAt == IF seg = None THEN {}
         ELSE IF SegIs(seg_set_end(segs.map)) THEN {}
         ELSE {[from |-> seg.from, to |-> seg.to, rule |-> seg.rule]}

LEMMA SegAtIs ==
    ASSUME Ordered(segs.map), seg # None, SegStands(segs, seg)
    PROVE  SegAt = At(SegItem(segs), Size(segs.map), seg.second)
<1>1. SegAt = SegShown(segs, seg)
  BY EndStands DEF SegAt, SegShown, SegIs
<1> QED BY <1>1, ShownIsItem

LEMMA SegAtWillBe ==
    ASSUME Ordered(segs.map), UNCHANGED segs, SegStands(segs, seg')
    PROVE  SegAt' = At(SegItem(segs), Size(segs.map), seg'.second) /\ seg' # None
<1>1. seg' # None
  BY StandingIsSome
<1>2. SegAt' = SegShown(segs, seg')
  BY <1>1, EndStands DEF SegAt, SegShown, SegIs
<1>3. SegShown(segs, seg') = At(SegItem(segs), Size(segs.map), seg'.second)
  BY ShownIsItem
<1> QED BY <1>1, <1>2, <1>3

\* A call moves the iterator as Cursor does.
LEMMA SegLeadsOn ==
    ASSUME Standing, SegLeads
    PROVE  SegCursor!Next
<1> DEFINE F == SegItem(segs)
           n == Size(segs.map)
           V == Ends(segs)
<1>1. /\ Segments(segs) = Items(F, V) /\ InOrder(F, n) /\ V \subseteq 0 .. n - 1 /\ n \in Nat
      /\ Segments(segs') = Segments(segs)
  BY SegmentsAreItems DEF Standing, SegLeads
<1>2. SegAt' = At(F, n, seg'.second) /\ seg' # None
  BY SegAtWillBe DEF Standing, SegLeads
<1>3. seg # None => SegAt = At(F, n, seg.second)
  BY SegAtIs DEF Standing
<1>4. \A k \in V : At(F, n, k) = {F[k]} /\ F[k] \in Items(F, V)
  <2>1. \A k \in V : k # n
    BY <1>1
  <2> QED BY <2>1 DEF At, Items
<1>5. \A k \in V : At(F, n, Least({n} \cup Above(V, k))) = FirstOf(Behind(Items(F, V), At(F, n, k)))
  <2> HIDE DEF F, n, V
  <2> QED BY <1>1, StepIsNext, ZenonT(60)
<1>6. CASE call'.name = "begin" /\ seg'.second = Least({n} \cup V)
  <2>1. SegAt' = FirstOf(Items(F, V))
    <3> HIDE DEF F, n, V
    <3> QED BY <1>1, <1>2, <1>6, FirstIsLeast, ZenonT(60)
  <2>2. SegCursor!Begin
    BY <1>1, <1>2, <1>6, <2>1 DEF SegCursor!Begin, SegCursor!First, FirstOf, SegAt
  <2> QED BY <2>2, <1>1 DEF SegCursor!Next
<1>7. CASE call'.name = "end" /\ seg'.second = n
  <2>1. SegAt' = {}
    BY <1>2, <1>7 DEF At
  <2>2. SegCursor!Finish
    BY <1>2, <1>7, <2>1 DEF SegCursor!Finish, SegAt
  <2> QED BY <2>2, <1>1 DEF SegCursor!Next
<1>8. CASE call'.name = "find" /\ seg'.second = Least({n} \cup {i \in V : SegReaches(F[i], call'.p)})
  <2> DEFINE W == {i \in V : SegReaches(F[i], call'.p)}
  <2>1. SegAt' = FirstOf(Items(F, W))
    <3>1. W \subseteq 0 .. n - 1
      BY <1>1
    <3>2. seg'.second = Least({n} \cup W)
      BY <1>8
    <3> HIDE DEF F, n, V, W
    <3> QED BY <3>1, <3>2, <1>1, <1>2, FirstIsLeast
  <2>2. {i \in Items(F, V) : SegReaches(i, call'.p)} = Items(F, W)
    BY DEF Items
  <2>3. SegCursor!Find
    BY <1>1, <1>2, <1>8, <2>1, <2>2 DEF SegCursor!Find, SegCursor!First, FirstOf, SegAt
  <2> QED BY <2>3, <1>1 DEF SegCursor!Next
<1>9. CASE /\ call'.name = "++" /\ seg # None /\ seg.second \in V
           /\ seg'.second = Least({n} \cup Above(V, seg.second))
  <2>1. SegAt' = FirstOf(Behind(Items(F, V), SegAt))
    <3> HIDE DEF F, n, V
    <3> QED BY <1>2, <1>3, <1>9, <1>5
  <2>2. SegAt # {}
    BY <1>3, <1>4, <1>9
  <2>3. SegCursor!Forward
    BY <1>1, <1>2, <1>9, <2>1, <2>2
       DEF SegCursor!Forward, SegCursor!First, SegCursor!After, FirstOf, Behind, SegAt
  <2> QED BY <2>3, <1>1 DEF SegCursor!Next
<1>10. CASE /\ call'.name = "--" /\ seg # None /\ seg'.second \in V
           /\ seg.second = Least({n} \cup Above(V, seg'.second))
  <2>1. SegAt = FirstOf(Behind(Items(F, V), SegAt'))
    <3> HIDE DEF F, n, V
    <3> QED BY <1>2, <1>3, <1>10, <1>5
  <2>2. SegAt' # {} /\ SegAt' \subseteq Items(F, V)
    BY <1>2, <1>4, <1>10
  <2>3. SegCursor!Backward
    BY <1>1, <1>2, <1>10, <2>1, <2>2
       DEF SegCursor!Backward, SegCursor!First, SegCursor!After, FirstOf, Behind, SegAt
  <2> QED BY <2>3, <1>1 DEF SegCursor!Next
<1> QED BY <1>6, <1>7, <1>8, <1>9, <1>10 DEF SegLeads

\* Iterating over a segment_index in either direction, from either end or from
\* where find leads, visits exactly the selected segments, in order and each one
\* once: of any text and any rules, with and without full_select.
THEOREM SegmentsAreAlwaysWalked == ASSUME TextsAreOrdered PROVE Spec => SegmentsAreWalked
<1>1. Init => SegCursor!Init
  BY DEF Init, SegCursor!Init, Option, Call
<1>2. Standing /\ [Next]_vars => [SegCursor!Next]_SegCursor!vars
  <2> SUFFICES ASSUME Standing, [Next]_vars PROVE [SegCursor!Next]_SegCursor!vars
    OBVIOUS
  <2>1. CASE SegStep
    BY <2>1, SegStepLeads, SegLeadsOn
  <2>2. CASE OptionStep
    <3>1. SegCursor!Option
      BY <2>2, OptionInvalidates DEF SegCursor!Option, Option, Call
    <3> QED BY <3>1 DEF SegCursor!Next
  <2>3. CASE PointStep
    <3>1. seg' = None
      BY <2>3, PointStepLeads DEF PointLeads
    <3>2. SegCursor!Option
      BY <3>1 DEF SegCursor!Option, Option, Call
    <3> QED BY <3>2 DEF SegCursor!Next
  <2>4. CASE UNCHANGED vars
    <3>1. segs' = segs /\ seg' = seg /\ call' = call
      BY <2>4 DEF vars
    <3> QED BY <3>1 DEF SegCursor!vars, SegIs
  <2> QED BY <2>1, <2>2, <2>3, <2>4, NextIsOf
<1> QED BY <1>1, <1>2, AlwaysStanding, PTL DEF Spec, SegmentsAreWalked, SegCursor!Spec

PointAt == IF point = None THEN {}
         ELSE IF point.current = Size(points.map) THEN {}
         ELSE {[to |-> point.pos, rule |-> point.rule]}

LEMMA PointAtIs ==
    ASSUME Ordered(points.map), point # None, PointStands(points, point)
    PROVE  PointAt = At(PointItem(points), Size(points.map), point.current)
<1>1. PointAt = PointShown(points, point)
  BY DEF PointAt, PointShown
<1> QED BY <1>1, ShownIsPoint

LEMMA PointAtWillBe ==
    ASSUME Ordered(points.map), UNCHANGED points, PointStands(points, point')
    PROVE  PointAt' = At(PointItem(points), Size(points.map), point'.current) /\ point' # None
<1>1. point' # None
  BY StandingIsSome
<1>2. PointAt' = PointShown(points, point')
  BY <1>1 DEF PointAt, PointShown
<1>3. PointShown(points, point') = At(PointItem(points), Size(points.map), point'.current)
  BY ShownIsPoint
<1> QED BY <1>1, <1>2, <1>3

\* A call moves the iterator as Cursor does.
LEMMA PointLeadsOn ==
    ASSUME Standing, PointLeads
    PROVE  PointCursor!Next
<1> DEFINE F == PointItem(points)
           n == Size(points.map)
           V == Stops(points)
<1>1. /\ Points(points) = Items(F, V) /\ InOrder(F, n) /\ V \subseteq 0 .. n - 1 /\ n \in Nat
      /\ Points(points') = Points(points)
  BY PointsAreItems DEF Standing, PointLeads
<1>2. PointAt' = At(F, n, point'.current) /\ point' # None
  BY PointAtWillBe DEF Standing, PointLeads
<1>3. point # None => PointAt = At(F, n, point.current)
  BY PointAtIs DEF Standing
<1>4. \A k \in V : At(F, n, k) = {F[k]} /\ F[k] \in Items(F, V)
  <2>1. \A k \in V : k # n
    BY <1>1
  <2> QED BY <2>1 DEF At, Items
<1>5. \A k \in V : At(F, n, Least({n} \cup Above(V, k))) = FirstOf(Behind(Items(F, V), At(F, n, k)))
  <2> HIDE DEF F, n, V
  <2> QED BY <1>1, StepIsNext, ZenonT(60)
<1>6. CASE call'.name = "begin" /\ point'.current = Least({n} \cup V)
  <2>1. PointAt' = FirstOf(Items(F, V))
    <3> HIDE DEF F, n, V
    <3> QED BY <1>1, <1>2, <1>6, FirstIsLeast, ZenonT(60)
  <2>2. PointCursor!Begin
    BY <1>1, <1>2, <1>6, <2>1 DEF PointCursor!Begin, PointCursor!First, FirstOf, PointAt
  <2> QED BY <2>2, <1>1 DEF PointCursor!Next
<1>7. CASE call'.name = "end" /\ point'.current = n
  <2>1. PointAt' = {}
    BY <1>2, <1>7 DEF At
  <2>2. PointCursor!Finish
    BY <1>2, <1>7, <2>1 DEF PointCursor!Finish, PointAt
  <2> QED BY <2>2, <1>1 DEF PointCursor!Next
<1>8. CASE call'.name = "find" /\ point'.current = Least({n} \cup {i \in V : PointReaches(F[i], call'.p)})
  <2> DEFINE W == {i \in V : PointReaches(F[i], call'.p)}
  <2>1. PointAt' = FirstOf(Items(F, W))
    <3>1. W \subseteq 0 .. n - 1
      BY <1>1
    <3>2. point'.current = Least({n} \cup W)
      BY <1>8
    <3> HIDE DEF F, n, V, W
    <3> QED BY <3>1, <3>2, <1>1, <1>2, FirstIsLeast
  <2>2. {i \in Items(F, V) : PointReaches(i, call'.p)} = Items(F, W)
    BY DEF Items
  <2>3. PointCursor!Find
    BY <1>1, <1>2, <1>8, <2>1, <2>2 DEF PointCursor!Find, PointCursor!First, FirstOf, PointAt
  <2> QED BY <2>3, <1>1 DEF PointCursor!Next
<1>9. CASE /\ call'.name = "++" /\ point # None /\ point.current \in V
           /\ point'.current = Least({n} \cup Above(V, point.current))
  <2>1. PointAt' = FirstOf(Behind(Items(F, V), PointAt))
    <3> HIDE DEF F, n, V
    <3> QED BY <1>2, <1>3, <1>9, <1>5
  <2>2. PointAt # {}
    BY <1>3, <1>4, <1>9
  <2>3. PointCursor!Forward
    BY <1>1, <1>2, <1>9, <2>1, <2>2
       DEF PointCursor!Forward, PointCursor!First, PointCursor!After, FirstOf, Behind, PointAt
  <2> QED BY <2>3, <1>1 DEF PointCursor!Next
<1>10. CASE /\ call'.name = "--" /\ point # None /\ point'.current \in V
           /\ point.current = Least({n} \cup Above(V, point'.current))
  <2>1. PointAt = FirstOf(Behind(Items(F, V), PointAt'))
    <3> HIDE DEF F, n, V
    <3> QED BY <1>2, <1>3, <1>10, <1>5
  <2>2. PointAt' # {} /\ PointAt' \subseteq Items(F, V)
    BY <1>2, <1>4, <1>10
  <2>3. PointCursor!Backward
    BY <1>1, <1>2, <1>10, <2>1, <2>2
       DEF PointCursor!Backward, PointCursor!First, PointCursor!After, FirstOf, Behind, PointAt
  <2> QED BY <2>3, <1>1 DEF PointCursor!Next
<1> QED BY <1>6, <1>7, <1>8, <1>9, <1>10 DEF PointLeads

\* Iterating over a boundary_point_index visits exactly the selected break points
\* and both ends of the text, in the same way.
THEOREM PointsAreAlwaysWalked == ASSUME TextsAreOrdered PROVE Spec => PointsAreWalked
<1>1. Init => PointCursor!Init
  BY DEF Init, PointCursor!Init, Option, Call
<1>2. Standing /\ [Next]_vars => [PointCursor!Next]_PointCursor!vars
  <2> SUFFICES ASSUME Standing, [Next]_vars PROVE [PointCursor!Next]_PointCursor!vars
    OBVIOUS
  <2>1. CASE PointStep
    BY <2>1, PointStepLeads, PointLeadsOn
  <2>2. CASE OptionStep
    <3>1. PointCursor!Option
      BY <2>2, OptionInvalidates DEF PointCursor!Option, Option, Call
    <3> QED BY <3>1 DEF PointCursor!Next
  <2>3. CASE SegStep
    <3>1. point' = None
      BY <2>3, SegStepLeads DEF SegLeads
    <3>2. PointCursor!Option
      BY <3>1 DEF PointCursor!Option, Option, Call
    <3> QED BY <3>2 DEF PointCursor!Next
  <2>4. CASE UNCHANGED vars
    <3>1. points' = points /\ point' = point /\ call' = call
      BY <2>4 DEF vars
    <3> QED BY <3>1 DEF PointCursor!vars
  <2> QED BY <2>1, <2>2, <2>3, <2>4, NextIsOf
<1> QED BY <1>1, <1>2, AlwaysStanding, PTL DEF Spec, PointsAreWalked, PointCursor!Spec

-----------------------------------------------------------------------------
(* No text is lost *)

\* With full_select the segments of an index that a rule applies to at its end
\* are the whole text: each position is in one of them.
LEMMA PositionIsCovered ==
    ASSUME NEW s, Ordered(s.map), s.full = TRUE, Size(s.map) - 1 \in Ends(s), NEW p \in 0 .. s.map.end - 1
    PROVE  Cardinality({x \in Segments(s) : p \in x.from .. x.to - 1}) = 1
<1> DEFINE m == s.map
           B == {j \in Ends(s) : Info(m, j).offset > p}
           i == Least(B)
           Start(j) == Greatest({0} \cup {k \in Ends(s) : k < j})
<1>1. /\ Size(m) \in Nat \ {0} /\ Ends(s) \subseteq 1 .. Size(m) - 1 /\ Size(m) - 1 \in Nat
      /\ m.end = Info(m, Size(m) - 1).offset /\ m.end \in Nat
  BY OffsetsAreInOrder DEF Ends, Selected, Ordered
<1>2. \A j \in 0 .. Size(m) - 1 : Info(m, j).offset \in Nat
  BY DEF Ordered
<1>3. B \subseteq Ends(s) /\ B \subseteq Nat /\ Size(m) - 1 \in B
  <2>1. Info(m, Size(m) - 1).offset > p
    BY <1>1
  <2> QED BY <2>1, <1>1
<1>4. i \in B /\ \A j \in B : i <= j
  <2> HIDE DEF B
  <2> QED BY <1>3, LeastIs
<1>5. i \in Ends(s) /\ Info(m, i).offset > p /\ \A j \in Ends(s) : j < i => Info(m, j).offset <= p
  <2>1. i \in Ends(s) /\ Info(m, i).offset > p
    BY <1>4
  <2>2. ASSUME NEW j \in Ends(s), j < i PROVE Info(m, j).offset <= p
    <3>1. j \notin B
      <4> HIDE DEF B
      <4> QED BY <2>1, <2>2, <1>1, <1>3, <1>4
    <3> QED BY <3>1, <1>1, <1>2
  <2> QED BY <2>1, <2>2
<1> HIDE DEF i
<1>6. ASSUME NEW j \in Ends(s)
      PROVE  /\ Start(j) \in {0} \cup {k \in Ends(s) : k < j} /\ Start(j) \in 0 .. Size(m) - 1
             /\ \A k \in Ends(s) : k < j => Start(j) >= k
  <2> DEFINE W == {0} \cup {k \in Ends(s) : k < j}
  <2>1. W \subseteq 0 .. Size(m) - 1 /\ W # {}
    BY <1>1
  <2>2. Greatest(W) \in W /\ \A k \in W : Greatest(W) >= k
    <3> HIDE DEF W
    <3> QED BY <2>1, <1>1, GreatestIs
  <2> QED BY <2>1, <2>2
<1>7. ASSUME NEW j \in Ends(s)
      PROVE  SegItem(s)[j].from = Info(m, Start(j)).offset /\ SegItem(s)[j].to = Info(m, j).offset
  BY <1>1 DEF SegItem, SegStart, Ends
<1> HIDE DEF Start
<1>8. p \in SegItem(s)[i].from .. SegItem(s)[i].to - 1
  <2>1. Info(m, Start(i)).offset <= p
    <3>1. CASE Start(i) = 0
      BY <3>1 DEF Ordered
    <3>2. CASE Start(i) # 0
      BY <3>2, <1>5, <1>6
    <3> QED BY <3>1, <3>2
  <2>2. Info(m, i).offset \in Nat /\ Info(m, Start(i)).offset \in Nat
    BY <1>1, <1>2, <1>5, <1>6
  <2> QED BY <2>1, <2>2, <1>5, <1>7
<1>9. ASSUME NEW j \in Ends(s), p \in SegItem(s)[j].from .. SegItem(s)[j].to - 1
      PROVE  j = i
  <2>1. Info(m, Start(j)).offset \in Nat /\ Info(m, j).offset \in Nat /\ Info(m, i).offset \in Nat
    BY <1>1, <1>2, <1>5, <1>6
  <2>2. Info(m, Start(j)).offset <= p /\ p < Info(m, j).offset
    BY <2>1, <1>7, <1>9
  <2>3. ~(j < i)
    BY <2>1, <2>2, <1>5
  <2>4. ~(i < j)
    <3> SUFFICES ASSUME i < j PROVE FALSE
      OBVIOUS
    <3>1. Start(j) >= i /\ Start(j) \in 0 .. Size(m) - 1 /\ i \in 0 .. Size(m) - 1
      BY <1>1, <1>5, <1>6
    <3>2. Info(m, Start(j)).offset >= Info(m, i).offset
      <4>1. Start(j) = i \/ i < Start(j)
        BY <3>1
      <4> QED BY <4>1, <3>1, <2>1 DEF Ordered
    <3> QED BY <3>2, <2>1, <2>2, <1>5
  <2>5. j \in Int /\ i \in Int
    BY <1>1, <1>5
  <2> QED BY <2>3, <2>4, <2>5
<1>10. Segments(s) = Items(SegItem(s), Ends(s))
  BY SegmentsAreItems
<1> DEFINE F == SegItem(s)
<1> HIDE DEF F, m
<1>11. {x \in Items(F, Ends(s)) : p \in x.from .. x.to - 1} = {F[i]}
  BY <1>5, <1>8, <1>9 DEF Items, F
<1> QED BY <1>10, <1>11, FS_Singleton DEF F

\* Neither the iterators nor the segments lose any of the text, of any text, under
\* any rules and after any number of moves by differences.
THEOREM TextIsAlwaysKept == ASSUME TextsAreOrdered PROVE Spec => []TextIsKept
<1>1. Standing => ValuesMatchPositions
  <2> SUFFICES ASSUME Standing PROVE ValuesMatchPositions
    OBVIOUS
  <2>1. ASSUME seg # None
        PROVE  /\ seg.first < seg.second /\ seg.second <= Size(segs.map)
               /\ seg.from <= seg.to /\ seg.to <= segs.map.end
               /\ seg.to = get_offset(segs.map, seg.second)
               /\ seg.second < Size(segs.map) => seg.from = get_offset(segs.map, seg.first)
    <3>1. SegStands(segs, seg) /\ Ordered(segs.map)
      BY <2>1 DEF Standing
    <3>2. /\ seg.first \in 0 .. Size(segs.map) /\ seg.second \in 0 .. Size(segs.map)
          /\ Size(segs.map) \in 0 .. Size(segs.map) /\ seg.first < seg.second
          /\ seg.second <= Size(segs.map) /\ seg.first <= seg.second
      BY <3>1, OffsetsAreInOrder DEF SegStands
    <3>3. /\ get_offset(segs.map, seg.first) <= get_offset(segs.map, seg.second)
          /\ get_offset(segs.map, seg.second) <= get_offset(segs.map, Size(segs.map))
          /\ get_offset(segs.map, Size(segs.map)) = segs.map.end
      BY <3>1, <3>2, OffsetsAreInOrder
    <3> QED BY <3>1, <3>2, <3>3 DEF SegStands
  <2>2. ASSUME point # None
        PROVE  point.current <= Size(points.map) /\ point.pos = get_offset(points.map, point.current)
    BY <2>2, OffsetsAreInOrder DEF Standing, PointStands
  <2> QED BY <2>1, <2>2 DEF ValuesMatchPositions
<1>2. Standing => SegmentsCoverText
  <2> DEFINE s == [segs EXCEPT !.mask = Kinds, !.full = TRUE]
  <2> SUFFICES ASSUME Standing, segs.map.index[Size(segs.map)].rule # {}, Size(segs.map) > 1,
                      NEW p \in 0 .. segs.map.end - 1
               PROVE  Cardinality({x \in Segments(s) : p \in x.from .. x.to - 1}) = 1
    BY DEF SegmentsCoverText
  <2>1. s.map = segs.map /\ s.mask = Kinds /\ s.full = TRUE
    BY DEF Standing
  <2> HIDE DEF s
  <2>2. Size(segs.map) \in Nat /\ Size(segs.map) - 1 \in 1 .. Size(segs.map) - 1
    BY OffsetsAreInOrder DEF Standing
  <2>3. Info(segs.map, Size(segs.map) - 1).rule # {} /\ Info(segs.map, Size(segs.map) - 1).rule \subseteq Kinds
    <3>1. Size(segs.map) - 1 + 1 = Size(segs.map) /\ Size(segs.map) - 1 \in 0 .. Size(segs.map) - 1
      BY <2>2
    <3> QED BY <3>1 DEF Info, Standing, Ordered
  <2>4. Size(s.map) - 1 \in Ends(s)
    BY <2>1, <2>2, <2>3 DEF Ends, Selected
  <2>5. Ordered(s.map)
    BY <2>1 DEF Standing
  <2> QED BY <2>1, <2>4, <2>5, PositionIsCovered
<1>3. Standing => Ordered(segs.map) /\ Ordered(points.map)
  BY DEF Standing
<1> QED BY <1>1, <1>2, <1>3, AlwaysStanding, PTL DEF TextIsKept

-----------------------------------------------------------------------------
(* The hypothesis, of a text that ICU reads itself *)

LEMMA HeadAndTail ==
    ASSUME NEW x, NEW n \in Nat, NEW t, DOMAIN t = 1 .. n, t = [i \in 1 .. n |-> t[i]]
    PROVE  /\ Len(<<x>> \o t) = n + 1 /\ (<<x>> \o t)[1] = x
           /\ \A i \in 1 .. n : (<<x>> \o t)[i + 1] = t[i]
<1> DEFINE S == {x} \cup {t[i] : i \in 1 .. n}
<1>1. <<x>> \in Seq(S) /\ Len(<<x>>) = 1 /\ <<x>>[1] = x
  OBVIOUS
<1>2. t \in [1 .. n -> S]
  OBVIOUS
<1> HIDE DEF S
<1>3. t \in Seq(S) /\ Len(t) = n
  BY <1>2
<1> QED BY <1>1, <1>3, ConcatProperties

\* The index of a text in memory that ICU reads itself is in order when ICU ended
\* with the text.
THEOREM DirectTextsAreOrdered ==
    ASSUME NEW a \in Analyses, a.direct,
           Length(a.text) = IF Len(a.breaks) = 0 THEN 0 ELSE a.breaks[Len(a.breaks)].pos
    PROVE  Ordered(mapping(a))
<1> DEFINE m == mapping(a)
           n == Len(a.breaks)
           B == a.breaks
           rule(i) == IF a.type = "character" THEN Kinds ELSE B[i].status \cap Kinds
           tail == [i \in 1 .. n |-> [offset |-> B[i].pos, rule |-> rule(i)]]
<1>1. /\ B \in Seq([pos : Nat \ {0}, status : SUBSET (Kinds \cup {"other"})])
      /\ \A i, j \in 1 .. Len(B) : i < j => B[i].pos < B[j].pos
  BY AnalysesAssumption DEF Analysis
<1>2. m.index = <<[offset |-> 0, rule |-> {}]>> \o tail /\ m.end = Length(a.text)
  BY DEF mapping, do_map, map_direct
<1>3. m.end = IF n = 0 THEN 0 ELSE B[n].pos
  BY <1>2
<1> HIDE DEF m, B
<1>4. n \in Nat /\ \A i \in 1 .. n : B[i] \in [pos : Nat \ {0}, status : SUBSET (Kinds \cup {"other"})]
  <2> DEFINE S == [pos : Nat \ {0}, status : SUBSET (Kinds \cup {"other"})]
  <2>1. B \in Seq(S) /\ n = Len(B)
    BY <1>1 DEF B
  <2> HIDE DEF S, n
  <2>2. Len(B) \in Nat /\ B \in [1 .. Len(B) -> S]
    BY <2>1, LenProperties
  <2> QED BY <2>1, <2>2 DEF S
<1>5. \A i, j \in 1 .. n : i < j => B[i].pos < B[j].pos
  BY <1>1 DEF B
<1> HIDE DEF n
<1>6. \A i \in 1 .. n : B[i].pos \in Nat \ {0} /\ rule(i) \subseteq Kinds
  BY <1>4
<1> HIDE DEF rule
<1>7. \A i \in 1 .. n : tail[i].offset = B[i].pos /\ tail[i].rule = rule(i)
  OBVIOUS
<1>8. DOMAIN tail = 1 .. n /\ tail = [i \in 1 .. n |-> tail[i]]
  OBVIOUS
<1> HIDE DEF tail
<1>9. /\ Len(m.index) = n + 1 /\ m.index[1] = [offset |-> 0, rule |-> {}]
      /\ \A i \in 1 .. n : m.index[i + 1] = tail[i]
  BY <1>2, <1>4, <1>8, HeadAndTail
<1>10. /\ Size(m) = n + 1 /\ Info(m, 0).offset = 0 /\ Info(m, 0).rule = {}
       /\ \A i \in 1 .. n : Info(m, i).offset = B[i].pos /\ Info(m, i).rule \subseteq Kinds
  BY <1>6, <1>7, <1>9 DEF Size, Info
<1>11. \A i \in 0 .. n : i = 0 \/ i \in 1 .. n
  BY <1>4
<1>12. \A i \in 0 .. n : Info(m, i).offset \in Nat /\ Info(m, i).rule \subseteq Kinds
  BY <1>6, <1>10, <1>11
<1>13. \A i, j \in 0 .. n : i < j => Info(m, i).offset < Info(m, j).offset
  <2> SUFFICES ASSUME NEW i \in 0 .. n, NEW j \in 0 .. n, i < j
               PROVE  Info(m, i).offset < Info(m, j).offset
    OBVIOUS
  <2>1. j \in 1 .. n /\ Info(m, j).offset = B[j].pos /\ B[j].pos \in Nat \ {0}
    BY <1>4, <1>6, <1>10
  <2>2. CASE i = 0
    BY <2>1, <2>2, <1>10
  <2>3. CASE i \in 1 .. n
    BY <2>1, <2>3, <1>5, <1>10
  <2> QED BY <2>2, <2>3, <1>11
<1>14. Info(m, n).offset = m.end
  BY <1>3, <1>4, <1>10
<1>15. Size(m) - 1 = n /\ Size(m) \in Nat \ {0}
  BY <1>4, <1>10
<1>16. Ordered(m)
  BY <1>10, <1>12, <1>13, <1>14, <1>15 DEF Ordered
<1> QED BY <1>16 DEF m
=============================================================================
