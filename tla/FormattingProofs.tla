-------------------------- MODULE FormattingProofs --------------------------
(***************************************************************************)
(* Streams and the objects that say how they format, for any number of     *)
(* streams and objects and every sequence of uses, copies and ends.        *)
(***************************************************************************)
EXTENDS Formatting, IosInfo, SequenceTheorems, WellFoundedInduction, TLAPS

InfoTypeInv ==
    /\ heap \in [Objects -> InfoValues \cup {Free}]
    /\ pword \in [Streams -> Objects \cup {Null}]
    /\ callbacks \in [Streams -> Nat]
    /\ meant \in [Streams -> InfoValues]

\* The callback that deletes an object and copies it is registered before there
\* is one, and copyfmt takes both along.
CallbackIsRegistered == \A s \in Streams : pword[s] # Null => callbacks[s] > 0

InfoInv == InfoTypeInv /\ CallbackIsRegistered /\ InfoIsOwn

LEMMA InfoInitInv == IosInfoInit => InfoInv
  BY InfoAssumption
     DEF IosInfoInit, InfoInv, InfoTypeInv, CallbackIsRegistered, InfoIsOwn

\* A stream that has none gets an object nobody has.
LEMMA CreateInv ==
    ASSUME InfoInv, NEW s \in Streams, create(s)
    PROVE  InfoInv'
<1>1. PICK o \in Objects : /\ heap[o] = Free /\ heap' = [heap EXCEPT ![o] = Default]
                           /\ pword' = [pword EXCEPT ![s] = o]
  BY DEF create
<1>2. /\ pword[s] = Null /\ callbacks' = [callbacks EXCEPT ![s] = @ + 1] /\ meant' = meant
  BY DEF create
<1>3. InfoTypeInv'
  BY <1>1, <1>2, InfoAssumption DEF InfoInv, InfoTypeInv
<1>4. CallbackIsRegistered'
  BY <1>1, <1>2 DEF InfoInv, InfoTypeInv, CallbackIsRegistered
<1>5. \A t \in Streams : pword[t] # o
  BY <1>1, InfoAssumption DEF InfoInv, InfoTypeInv, InfoIsOwn
<1>6. InfoIsOwn'
  BY <1>1, <1>2, <1>5, InfoAssumption DEF InfoInv, InfoTypeInv, InfoIsOwn
<1> QED BY <1>3, <1>4, <1>6 DEF InfoInv

\* When the callbacks of a stream have seen its end, or that it is copied over,
\* its object is free and those of the others are as they were.
LEMMA ErasedOwn ==
    ASSUME InfoInv, NEW s \in Streams
    PROVE  /\ erased(heap, s) \in [Objects -> InfoValues \cup {Free}]
           /\ \A t \in Streams \ {s} : pword[t] # Null => erased(heap, s)[pword[t]] = meant[t]
  BY InfoAssumption DEF erased, InfoInv, InfoTypeInv, InfoIsOwn

LEMMA DestroyInv ==
    ASSUME InfoInv, NEW s \in Streams, destroy(s)
    PROVE  InfoInv'
<1>1. /\ heap' = erased(heap, s) /\ pword' = [pword EXCEPT ![s] = Null]
      /\ callbacks' = [callbacks EXCEPT ![s] = 0] /\ meant' = [meant EXCEPT ![s] = Default]
  BY DEF destroy
<1>2. InfoTypeInv'
  BY <1>1, ErasedOwn, InfoAssumption DEF InfoInv, InfoTypeInv
<1>3. CallbackIsRegistered'
  BY <1>1 DEF InfoInv, InfoTypeInv, CallbackIsRegistered
<1>4. InfoIsOwn'
  BY <1>1, ErasedOwn DEF InfoInv, InfoTypeInv, InfoIsOwn
<1> QED BY <1>2, <1>3, <1>4 DEF InfoInv

LEMMA ManipulateInv ==
    ASSUME InfoInv, NEW s \in Streams, NEW v \in InfoValues, manipulate(s, v)
    PROVE  InfoInv'
<1>1. /\ pword[s] # Null /\ heap' = [heap EXCEPT ![pword[s]] = v]
      /\ meant' = [meant EXCEPT ![s] = v] /\ UNCHANGED <<pword, callbacks>>
  BY DEF manipulate
<1>2. InfoTypeInv'
  BY <1>1 DEF InfoInv, InfoTypeInv
<1>3. \A t \in Streams \ {s} : pword[t] # pword[s]
  BY <1>1 DEF InfoInv, InfoIsOwn
<1>4. pword[s] \in Objects
  BY <1>1 DEF InfoInv, InfoTypeInv
<1>5. heap'[pword[s]] = v /\ \A o \in Objects \ {pword[s]} : heap'[o] = heap[o]
  BY <1>1, <1>4 DEF InfoInv, InfoTypeInv
<1>6. meant'[s] = v /\ \A t \in Streams \ {s} : meant'[t] = meant[t]
  BY <1>1 DEF InfoInv, InfoTypeInv
<1>7. InfoIsOwn'
  BY <1>1, <1>3, <1>4, <1>5, <1>6 DEF InfoInv, InfoTypeInv, InfoIsOwn
<1> QED BY <1>1, <1>2, <1>7 DEF InfoInv, CallbackIsRegistered

\* The copy that the last callback has made is new, and holds what the object of
\* the other stream does (ios_prop.hpp:53).
LEMMA CopiedOwn ==
    ASSUME NEW h \in [Objects -> InfoValues \cup {Free}], NEW to, NEW from,
           pword[from] # Null, callbacks[from] # 0, NEW c \in copied(h, to, from),
           h[pword[from]] \in InfoValues
    PROVE  /\ c.slot \in Objects /\ h[c.slot] = Free /\ c.heap[c.slot] = h[pword[from]]
           /\ c.heap \in [Objects -> InfoValues \cup {Free}]
           /\ \A o \in Objects : h[o] # Free => c.heap[o] = h[o]
<1> DEFINE free == {o \in Objects : h[o] = Free}
<1>1. PICK n \in (SUBSET free) \X free :
            /\ n[2] \in n[1]
            /\ c = [heap |-> [o \in Objects |-> IF o \in n[1] THEN h[pword[from]] ELSE h[o]],
                    slot |-> n[2]]
  BY DEF copied
<1> QED BY <1>1

LEMMA CopyfmtInv ==
    ASSUME InfoInv, NEW to \in Streams, NEW from \in Streams, copyfmt(to, from)
    PROVE  InfoInv'
<1> DEFINE h == erased(heap, to)
<1>1. to # from
  BY DEF copyfmt
<1>2. PICK c \in copied(h, to, from) :
            heap' = c.heap /\ pword' = [pword EXCEPT ![to] = c.slot]
  BY DEF copyfmt
<1>3. /\ callbacks' = [callbacks EXCEPT ![to] = callbacks[from]]
      /\ meant' = [meant EXCEPT ![to] = meant[from]]
  BY DEF copyfmt
<1>4. /\ h \in [Objects -> InfoValues \cup {Free}]
      /\ \A t \in Streams \ {to} : pword[t] # Null => h[pword[t]] = meant[t]
  BY ErasedOwn
<1> HIDE DEF h
<1>5. CASE pword[from] = Null
  <2>1. c.heap = h /\ c.slot = Null
    BY <1>5 DEF copied
  <2>2. InfoTypeInv'
    BY <1>2, <1>3, <1>4, <2>1 DEF InfoInv, InfoTypeInv
  <2>3. CallbackIsRegistered'
    BY <1>2, <1>3, <2>1 DEF InfoInv, InfoTypeInv, CallbackIsRegistered
  <2>4. meant[from] = Default
    BY <1>5 DEF InfoInv, InfoIsOwn
  <2>5. InfoIsOwn'
    BY <1>2, <1>3, <1>4, <2>1, <2>4 DEF InfoInv, InfoTypeInv, InfoIsOwn
  <2> QED BY <2>2, <2>3, <2>5 DEF InfoInv
<1>6. CASE pword[from] # Null
  <2>1. callbacks[from] # 0 /\ h[pword[from]] = meant[from] /\ meant[from] \in InfoValues
    BY <1>1, <1>4, <1>6 DEF InfoInv, InfoTypeInv, CallbackIsRegistered
  <2>2. /\ c.slot \in Objects /\ h[c.slot] = Free /\ c.heap[c.slot] = meant[from]
        /\ c.heap \in [Objects -> InfoValues \cup {Free}]
        /\ \A o \in Objects : h[o] # Free => c.heap[o] = h[o]
    BY <1>4, <1>6, <2>1, CopiedOwn
  <2>3. InfoTypeInv'
    BY <1>2, <1>3, <2>2 DEF InfoInv, InfoTypeInv
  <2>4. CallbackIsRegistered'
    BY <1>2, <1>3, <2>1 DEF InfoInv, InfoTypeInv, CallbackIsRegistered
  <2>5. \A t \in Streams \ {to} : pword[t] # Null => pword[t] # c.slot /\ c.heap[pword[t]] = meant[t]
    BY <1>4, <2>2, InfoAssumption DEF InfoInv, InfoTypeInv
  <2>6. InfoIsOwn'
    BY <1>2, <1>3, <2>2, <2>5, InfoAssumption DEF InfoInv, InfoTypeInv, InfoIsOwn
  <2> QED BY <2>3, <2>4, <2>6 DEF InfoInv
<1> QED BY <1>5, <1>6

LEMMA InfoNextInv == InfoInv /\ [IosInfoNext]_infoVars => InfoInv'
<1> SUFFICES ASSUME InfoInv, [IosInfoNext]_infoVars
             PROVE  InfoInv'
  OBVIOUS
<1>1. ASSUME NEW s \in Streams, create_fails(s)
      PROVE  InfoInv'
  BY <1>1 DEF create_fails, InfoInv, InfoTypeInv, CallbackIsRegistered, InfoIsOwn
<1>2. CASE UNCHANGED infoVars
  BY <1>2 DEF infoVars, InfoInv, InfoTypeInv, CallbackIsRegistered, InfoIsOwn
<1> QED BY <1>1, <1>2, CreateInv, DestroyInv, ManipulateInv, CopyfmtInv DEF IosInfoNext

\* However streams are used, copied and ended, no two share an ios_info and none
\* has a deleted one: each holds what its own stream was told.
THEOREM InfoIsAlwaysOwn == IosInfoSpec => []InfoIsOwn
<1>1. InfoInv => InfoIsOwn
  BY DEF InfoInv
<1> QED BY <1>1, InfoInitInv, InfoNextInv, PTL DEF IosInfoSpec
-----------------------------------------------------------------------------
(* The fields of a stream, and what sets them. *)

LEMMA OneField ==
    ASSUME NEW x, NEW y
    PROVE  DOMAIN (x :> y) = {x} /\ (x :> y)[x] = y
  BY DEF :>

LEMMA OverFields ==
    ASSUME NEW m, NEW i
    PROVE  /\ DOMAIN (m @@ i) = DOMAIN m \cup DOMAIN i
           /\ \A x \in DOMAIN m : (m @@ i)[x] = m[x]
           /\ \A x \in DOMAIN i \ DOMAIN m : (m @@ i)[x] = i[x]
  BY DEF @@

LEMMA NothingSettable == Settable(NoEffect)
  BY DEF Settable, NoEffect

LEMMA OneSettable ==
    ASSUME NEW x \in StreamFields \ {"loc", "good"}, NEW y,
           x = "float" => y \in Floats, x = "display" => y \in Displays
    PROVE  Settable(x :> y)
  BY DEF Settable, :>

LEMMA OverSettable ==
    ASSUME NEW m, NEW n, Settable(m), Settable(n)
    PROVE  Settable(m @@ n)
  BY DEF Settable, @@

\* Every manipulator of namespace as (formatting.hpp:134 on).
LEMMA ManipulatorSettable ==
    /\ \A x \in Displays : Settable(display(x))
    /\ \A x : /\ Settable(currency(x)) /\ Settable(date_style(x)) /\ Settable(time_style(x))
              /\ Settable(time_zone(x)) /\ Settable(ftime(x))
<1> USE DEF StreamFields, InfoFields
<1>1. \A x \in Displays : Settable(display(x))
  BY OneSettable DEF display
<1>2. \A x : /\ Settable(currency(x)) /\ Settable(date_style(x)) /\ Settable(time_style(x))
             /\ Settable(time_zone(x))
  BY OneSettable DEF currency, date_style, time_style, time_zone
<1>3. \A x : Settable(ftime(x))
  <2> TAKE x
  <2>1. Settable("pattern" :> x) /\ Settable("display" :> "strftime")
    BY OneSettable DEF Displays, DateDisplays
  <2> QED BY <2>1, OverSettable DEF ftime
<1> QED BY <1>1, <1>2, <1>3

\* The flags of an item (format.cpp:80) set fields of the stream as they should
\* be, and never its locale, which the flag "locale" sets apart.
LEMMA EffectSettable == \A fl : Settable(Effect(fl))
<1> TAKE fl
<1>1. ASSUME NEW key, NEW value PROVE Settable(set_flag_with_str(key, value))
  BY NothingSettable, ManipulatorSettable DEF set_flag_with_str
<1>2. ASSUME NEW key, NEW value PROVE Settable(set_one_flag(key, value))
  <2> DEFINE base == IF value \in {"hex", "oct"} THEN "base" :> value
                     ELSE CASE value = "sci" -> "float" :> "scientific"
                            [] value = "fix" -> "float" :> "fixed"
                            [] OTHER -> NoEffect
             money == CASE value = "iso" -> currency("iso") [] value = "nat" -> currency("national")
                        [] OTHER -> NoEffect
             dated == IF value \in DOMAIN Short THEN date_style(Short[value]) ELSE NoEffect
             timed == IF value \in DOMAIN Short THEN time_style(Short[value]) ELSE NoEffect
             number(field) == IF value \in DOMAIN try_to_int THEN field :> try_to_int[value]
                              ELSE NoEffect
  <2>1. Settable(base)
    <3>1. Settable("base" :> value) /\ Settable("float" :> "scientific") /\ Settable("float" :> "fixed")
      BY OneSettable DEF StreamFields, Floats
    <3> QED BY <3>1, NothingSettable
  <2>2. Settable(money) /\ Settable(dated) /\ Settable(timed)
    BY NothingSettable, ManipulatorSettable
  <2>3. Settable(number("width")) /\ Settable(number("precision"))
    BY NothingSettable, OneSettable DEF StreamFields
  <2>4. key \in {"left", "right"} => Settable("adjust" :> key)
    BY OneSettable DEF StreamFields
  <2>5. \A x \in {"number", "currency", "percent", "date", "time", "datetime", "spellout", "ordinal"} :
            Settable(display(x))
    BY ManipulatorSettable DEF Displays, DateDisplays
  <2>6. Settable(gmt) /\ Settable(local_time) /\ Settable(time_zone(value))
    BY ManipulatorSettable DEF gmt, local_time
  <2> DEFINE result ==
        CASE key = "num" -> base @@ display("number")
          [] key = "cur" -> money @@ display("currency")
          [] key = "per" -> display("percent")
          [] key = "date" -> dated @@ display("date")
          [] key = "time" -> timed @@ display("time")
          [] key = "dt" -> dated @@ timed @@ display("datetime")
          [] key = "spell" -> display("spellout")
          [] key = "ord" -> display("ordinal")
          [] key \in {"left", "right"} -> "adjust" :> key
          [] key = "gmt" -> gmt
          [] key = "local" -> local_time
          [] key = "tz" -> time_zone(value)
          [] key = "w" -> number("width")
          [] key = "p" -> number("precision")
          [] OTHER -> NoEffect
  <2>7. set_one_flag(key, value) = result
    BY DEF set_one_flag
  <2> HIDE DEF base, money, dated, timed, number
  <2>8. /\ Settable(base @@ display("number")) /\ Settable(money @@ display("currency"))
        /\ Settable(dated @@ display("date")) /\ Settable(timed @@ display("time"))
        /\ Settable(dated @@ timed @@ display("datetime"))
    BY <2>1, <2>2, <2>5, OverSettable
  <2>9. Settable(result)
    BY <2>3, <2>4, <2>5, <2>6, <2>8, NothingSettable
  <2> QED BY <2>7, <2>9
<1> QED BY <1>1, <1>2 DEF Effect

-----------------------------------------------------------------------------
(* What a format leaves of its stream. *)

\* What every item puts back, and what a format therefore keeps.
Restored == InfoFields \cup {"base", "float", "adjust"}
Kept == Restored \cup {"loc"}

IsStream(i) ==
    i = [x \in StreamFields |-> i[x]] /\ i["float"] \in Floats /\ i["display"] \in Displays

IsParser(d) ==
    /\ DOMAIN d = {"saved", "position", "restore_locale", "saved_locale", "own", "written"}
    /\ d.restore_locale \in BOOLEAN /\ d.written \in BOOLEAN

LEMMA FieldsKept ==
    /\ Kept = StreamFields \ {"width", "precision", "good"} /\ Restored \subseteq Kept
    /\ Kept \subseteq StreamFields /\ "loc" \in Kept /\ "loc" \notin Restored
  BY DEF Kept, Restored, StreamFields, InfoFields

LEMMA NewIsStream == \A l : IsStream(NewStream(l))
<1> TAKE l
<1> DEFINE own == [loc |-> l, base |-> "dec", float |-> "none", adjust |-> "none", width |-> 0,
                   precision |-> 6, good |-> TRUE]
<1>1. NewStream(l) = [x \in StreamFields |-> IF x \in DOMAIN own THEN own[x] ELSE ios_info[x]]
  BY DEF NewStream, StreamFields, InfoFields, ios_info, @@
<1>2. NewStream(l)["float"] = "none" /\ NewStream(l)["display"] = "posix"
  BY <1>1 DEF StreamFields, InfoFields, ios_info
<1> QED BY <1>1, <1>2 DEF IsStream, Floats, Displays

\* What manipulators and flags set leaves a stream with the same fields.
LEMMA SetIsStream ==
    ASSUME NEW m, Settable(m), NEW i, IsStream(i)
    PROVE  /\ IsStream(m @@ i) /\ (m @@ i)["loc"] = i["loc"]
  BY DEF Settable, IsStream, @@, StreamFields, InfoFields

LEMMA LocIsStream ==
    ASSUME NEW l, NEW i, IsStream(i)
    PROVE  /\ IsStream(("loc" :> l) @@ i) /\ (("loc" :> l) @@ i)["loc"] = l
           /\ \A x \in Restored : (("loc" :> l) @@ i)[x] = i[x]
  BY FieldsKept DEF IsStream, @@, :>, StreamFields, InfoFields

\* Writing uses up the width, and may fail.
WithWidth(i, v) == [i EXCEPT !.width = v]
WithGood(i, v) == [i EXCEPT !.good = v]

LEMMA TouchedIsStream ==
    ASSUME NEW i, IsStream(i), NEW v
    PROVE  /\ IsStream(WithWidth(i, v)) /\ IsStream(WithGood(i, v))
           /\ \A x \in Kept : WithWidth(i, v)[x] = i[x] /\ WithGood(i, v)[x] = i[x]
  BY FieldsKept DEF IsStream, StreamFields, WithWidth, WithGood

\* The format_parser's restore (format.cpp:72) puts back what the stream was at
\* the beginning of the item.
LEMMA RestoreGives ==
    ASSUME NEW i, IsStream(i), NEW d, IsParser(d), NEW s, IsStream(s),
           \A x \in Restored : d.saved[x] = s[x],
           (IF d.restore_locale THEN d.saved_locale ELSE i["loc"]) = s["loc"]
    PROVE  IsStream(restore(i, d)) /\ \A x \in Kept : restore(i, d)[x] = s[x]
<1>1. DOMAIN i = StreamFields
  BY DEF IsStream
<1>2. restore(i, d) = [x \in StreamFields |-> restore(i, d)[x]]
  BY <1>1 DEF restore
<1>3. \A x \in Restored : restore(i, d)[x] = s[x]
  BY <1>1, FieldsKept DEF restore, Restored
<1>4. restore(i, d)["loc"] = s["loc"]
  BY <1>1, FieldsKept DEF restore, Restored, InfoFields, IsParser
<1>5. "float" \in Restored /\ "display" \in Restored
  BY DEF Restored, InfoFields
<1> QED BY <1>2, <1>3, <1>4, <1>5 DEF IsStream, Kept

StreamTypes ==
    /\ ios = [t \in Threads |-> ios[t]] /\ todo = [t \in Threads |-> todo[t]]
    /\ start = [t \in Threads |-> start[t]] /\ item = [t \in Threads |-> item[t]]

\* While an item is at work its format_parser, or the stream, has what the stream
\* was when the format began; between two items the stream has it.
RestoreInv(t) ==
    /\ IsStream(ios[t])
    /\ todo[t] # None \/ item[t] # None => IsStream(start[t])
    /\ todo[t] # None /\ item[t] = None => \A x \in Kept : ios[t][x] = start[t][x]
    /\ item[t] # None =>
          /\ IsParser(item[t])
          /\ \A x \in Restored : item[t].saved[x] = start[t][x]
          /\ (IF item[t].restore_locale THEN item[t].saved_locale ELSE ios[t]["loc"]) = start[t]["loc"]

StreamInv == StreamTypes /\ \A t \in Threads : RestoreInv(t)

LEMMA StreamInitInv == Init => StreamInv
<1> SUFFICES ASSUME Init
             PROVE  StreamInv
  OBVIOUS
<1>1. StreamTypes
  BY DEF Init, StreamTypes
<1>2. ASSUME NEW t \in Threads PROVE RestoreInv(t)
  <2>1. PICK l : ios[t] = NewStream(l)
    BY DEF Init
  <2> QED BY <2>1, NewIsStream DEF Init, RestoreInv
<1> QED BY <1>1, <1>2 DEF StreamInv

\* Every thread works on its own stream.
Others(t) ==
    \A u \in Threads \ {t} : /\ ios'[u] = ios[u] /\ todo'[u] = todo[u]
                             /\ start'[u] = start[u] /\ item'[u] = item[u]

LEMMA OwnStream ==
    ASSUME StreamInv, NEW t \in Threads, StreamTypes', Others(t), RestoreInv(t)'
    PROVE  StreamInv'
<1>1. ASSUME NEW u \in Threads \ {t} PROVE RestoreInv(u)'
  BY DEF StreamInv, RestoreInv, Others
<1> QED BY <1>1 DEF StreamInv

\* A step that only uses up the width of a stream, or sets its state.
LEMMA TouchStep ==
    ASSUME StreamInv, NEW t \in Threads, NEW i, IsStream(i), \A x \in Kept : i[x] = ios[t][x],
           ios' = [ios EXCEPT ![t] = i], UNCHANGED <<start, item>>,
           todo' = todo \/ (item[t] = None /\ todo[t] # None /\ todo' = [todo EXCEPT ![t] = Tail(@)])
    PROVE  StreamInv'
<1>1. StreamTypes' /\ Others(t) /\ ios'[t] = i
  BY DEF StreamInv, StreamTypes, Others
<1>2. RestoreInv(t)'
  BY <1>1, FieldsKept DEF StreamInv, RestoreInv
<1> QED BY <1>1, <1>2, OwnStream

LEMMA WritingInv ==
    ASSUME StreamInv, NEW t \in Threads, PutPlain(t) \/ Create(t) \/ Format(t) \/ Parse(t)
    PROVE  StreamInv'
<1>1. UNCHANGED <<todo, start, item>>
  BY DEF PutPlain, Create, Format, Parse
<1>2. IsStream(ios[t])
  BY DEF StreamInv, RestoreInv
<1>3. \/ ios' = [ios EXCEPT ![t] = ios[t]]
      \/ ios' = [ios EXCEPT ![t] = [ios[t] EXCEPT !.width = 0]]
      \/ \E v : ios' = [ios EXCEPT ![t] = [ios[t] EXCEPT !.good = v]]
  <2>1. CASE PutPlain(t) \/ Format(t)
    BY <2>1 DEF PutPlain, Format, Finish
  <2>2. CASE Create(t)
    <3>1. ios' = ios \/ ios' = [ios EXCEPT ![t].good = FALSE]
      BY <2>2 DEF Create
    <3> QED BY <3>1 DEF StreamInv, StreamTypes
  <2>3. CASE Parse(t)
    <3>1. PICK v : ios' = [ios EXCEPT ![t].good = v]
      BY <2>3 DEF Parse
    <3> QED BY <3>1
  <2> QED BY <2>1, <2>2, <2>3
<1>4. CASE ios' = [ios EXCEPT ![t] = ios[t]]
  BY <1>1, <1>2, <1>4, TouchStep
<1>5. CASE ios' = [ios EXCEPT ![t] = [ios[t] EXCEPT !.width = 0]]
  <2> DEFINE i == WithWidth(ios[t], 0)
  <2>1. IsStream(i) /\ \A x \in Kept : i[x] = ios[t][x]
    BY <1>2, TouchedIsStream, Zenon
  <2>2. ios' = [ios EXCEPT ![t] = i]
    BY <1>5 DEF WithWidth
  <2> HIDE DEF i
  <2> QED BY <1>1, <2>1, <2>2, TouchStep
<1>6. ASSUME NEW v, ios' = [ios EXCEPT ![t] = [ios[t] EXCEPT !.good = v]]
      PROVE  StreamInv'
  <2> DEFINE i == WithGood(ios[t], v)
  <2>1. IsStream(i) /\ \A x \in Kept : i[x] = ios[t][x]
    BY <1>2, TouchedIsStream, Zenon
  <2>2. ios' = [ios EXCEPT ![t] = i]
    BY <1>6 DEF WithGood
  <2> HIDE DEF i
  <2> QED BY <1>1, <2>1, <2>2, TouchStep
<1> QED BY <1>3, <1>4, <1>5, <1>6

LEMMA UnwindInv ==
    ASSUME StreamInv, NEW t \in Threads, item[t] # None, UNCHANGED start,
           ios' = [ios EXCEPT ![t] = restore(@, item[t])],
           item' = [item EXCEPT ![t] = None],
           todo' = [todo EXCEPT ![t] = None] \/ todo' = [todo EXCEPT ![t] = Tail(@)]
    PROVE  StreamInv' /\ \A x \in Kept : ios'[t][x] = start[t][x]
<1>1. /\ IsStream(restore(ios[t], item[t]))
      /\ \A x \in Kept : restore(ios[t], item[t])[x] = start[t][x]
  BY RestoreGives DEF StreamInv, RestoreInv
<1>2. StreamTypes' /\ Others(t) /\ ios'[t] = restore(ios[t], item[t]) /\ item'[t] = None
  BY DEF StreamInv, StreamTypes, Others
<1>3. RestoreInv(t)'
  BY <1>1, <1>2 DEF StreamInv, RestoreInv
<1> QED BY <1>1, <1>2, <1>3, OwnStream

LEMMA FlagIsParsed ==
    ASSUME NEW d, IsParser(d), NEW f, NEW effect, NEW saved
    PROVE  LET e == flag_parsed(d, f, effect, saved)
           IN /\ IsParser(e) /\ e # None /\ e.saved = d.saved /\ e.saved_locale = saved
              /\ e.restore_locale = (d.restore_locale \/ sets_locale(f))
              /\ e.own = effect @@ d.own /\ e.written = d.written
<1> DEFINE e == flag_parsed(d, f, effect, saved)
<1>1. e = [saved |-> d.saved, position |-> e.position,
           restore_locale |-> d.restore_locale \/ sets_locale(f), saved_locale |-> saved,
           own |-> effect @@ d.own, written |-> d.written]
  BY DEF flag_parsed
<1> HIDE DEF e
<1>2. "saved" \in DOMAIN e
  BY <1>1
<1>3. e # None
  BY <1>2 DEF None
<1>4. sets_locale(f) \in BOOLEAN
  BY DEF sets_locale
<1>5. IsParser(e)
  BY <1>1, <1>4 DEF IsParser
<1> QED BY <1>1, <1>3, <1>5 DEF e

LEMMA SetFlagInv ==
    ASSUME StreamInv, NEW t \in Threads, SetFlag(t)
    PROVE  StreamInv' /\ (item'[t] = None => \A x \in Kept : ios'[t][x] = start[t][x])
<1> DEFINE f == Head(Head(todo[t]).flags)
           saved == IF item[t].restore_locale THEN item[t].saved_locale ELSE ios[t].loc
           effect == flag_effect(f, saved)
           d == flag_parsed(item[t], f, effect, saved)
<1>1. item[t] # None /\ UNCHANGED start
  BY DEF SetFlag
<1>2. CASE sets_locale(f) /\ saved.encoding = ""
  <2>1. Unwind(t)
    BY <1>2 DEF SetFlag
  <2> QED BY <1>1, <2>1, UnwindInv DEF Unwind
<1>3. CASE ~(sets_locale(f) /\ saved.encoding = "")
  <2>1. /\ ios' = [ios EXCEPT ![t] = effect @@ ios[t]] /\ item' = [item EXCEPT ![t] = d]
        /\ todo' = [todo EXCEPT ![t] = flag_read(todo[t])]
    BY <1>3 DEF SetFlag
  <2>2. /\ IsStream(ios[t]) /\ IsParser(item[t]) /\ IsStream(start[t])
        /\ \A x \in Restored : item[t].saved[x] = start[t][x]
        /\ saved = start[t]["loc"]
    BY <1>1 DEF StreamInv, RestoreInv
  <2>3. /\ IsParser(d) /\ d # None /\ d.saved = item[t].saved /\ d.saved_locale = saved
        /\ d.restore_locale = (item[t].restore_locale \/ sets_locale(f))
    BY <2>2, FlagIsParsed
  <2>4. /\ IsStream(effect @@ ios[t])
        /\ ~sets_locale(f) => (effect @@ ios[t])["loc"] = ios[t]["loc"]
    BY <2>2, EffectSettable, SetIsStream, LocIsStream DEF flag_effect
  <2> HIDE DEF d, effect, f
  <2>5. StreamTypes' /\ Others(t)
        /\ ios'[t] = effect @@ ios[t] /\ item'[t] = d /\ start'[t] = start[t]
    BY <1>1, <2>1 DEF StreamInv, StreamTypes, Others
  <2>6. (IF d.restore_locale THEN d.saved_locale ELSE ios'[t]["loc"]) = start[t]["loc"]
    BY <2>2, <2>3, <2>4, <2>5
  <2>7. RestoreInv(t)'
    BY <2>2, <2>3, <2>4, <2>5, <2>6 DEF RestoreInv
  <2> QED BY <2>3, <2>5, <2>7, OwnStream
<1> QED BY <1>2, <1>3

LEMMA ParameterIsWritten ==
    ASSUME NEW d, IsParser(d)
    PROVE  LET e == [d EXCEPT !.written = TRUE]
           IN /\ IsParser(e) /\ e # None /\ e.saved = d.saved /\ e.own = d.own /\ e.written
              /\ e.saved_locale = d.saved_locale /\ e.restore_locale = d.restore_locale
<1>1. [d EXCEPT !.written = TRUE] # None
  <2>1. "saved" \in DOMAIN [d EXCEPT !.written = TRUE]
    BY DEF IsParser
  <2> QED BY <2>1 DEF None
<1> QED BY <1>1 DEF IsParser

LEMMA ShowParameterInv ==
    ASSUME StreamInv, NEW t \in Threads, ShowParameter(t)
    PROVE  StreamInv' /\ (item'[t] = None => \A x \in Kept : ios'[t][x] = start[t][x])
<1>1. item[t] # None /\ UNCHANGED start
  BY DEF ShowParameter
<1>2. CASE Unwind(t)
  BY <1>1, <1>2, UnwindInv DEF Unwind
<1>3. CASE ~Unwind(t)
  <2> DEFINE d == [item[t] EXCEPT !.written = TRUE]
  <2>1. item' = [item EXCEPT ![t] = d] /\ todo' = todo
    BY <1>3 DEF ShowParameter
  <2>2. IsStream(ios'[t]) /\ ios'[t]["loc"] = ios[t]["loc"] /\ (\A u \in Threads \ {t} : ios'[u] = ios[u])
        /\ ios' = [u \in Threads |-> ios'[u]]
    <3> DEFINE w == IF ios[t].good THEN 0 ELSE ios[t].width
               i == WithWidth(ios[t], w)
    <3> HIDE DEF w
    <3>1. IsStream(ios[t])
      BY DEF StreamInv, RestoreInv
    <3>2. IsStream(i) /\ \A x \in Kept : i[x] = ios[t][x]
      BY <3>1, TouchedIsStream, Zenon
    <3>3. ios' = ios \/ ios' = [ios EXCEPT ![t] = i]
      BY <1>3 DEF ShowParameter, Put, w, WithWidth
    <3> HIDE DEF i
    <3> QED BY <3>1, <3>2, <3>3, FieldsKept DEF StreamInv, StreamTypes
  <2>3. /\ IsStream(ios[t]) /\ IsParser(item[t]) /\ IsStream(start[t])
        /\ \A x \in Restored : item[t].saved[x] = start[t][x]
        /\ (IF item[t].restore_locale THEN item[t].saved_locale ELSE ios[t]["loc"]) = start[t]["loc"]
    BY <1>1 DEF StreamInv, RestoreInv
  <2>4. /\ IsParser(d) /\ d # None /\ d.saved = item[t].saved
        /\ d.saved_locale = item[t].saved_locale /\ d.restore_locale = item[t].restore_locale
    BY <2>3, ParameterIsWritten
  <2> HIDE DEF d
  <2>5. StreamTypes' /\ Others(t) /\ item'[t] = d /\ start'[t] = start[t]
    BY <1>1, <2>1, <2>2 DEF StreamInv, StreamTypes, Others
  <2>6. RestoreInv(t)'
    BY <2>2, <2>3, <2>4, <2>5 DEF RestoreInv
  <2> QED BY <2>4, <2>5, <2>6, OwnStream
<1> QED BY <1>2, <1>3

LEMMA BeginItemInv ==
    ASSUME StreamInv, NEW t \in Threads, BeginItem(t)
    PROVE  StreamInv'
<1> DEFINE d == format_parser(ios[t])
<1>1. /\ todo[t] # None /\ item[t] = None /\ item' = [item EXCEPT ![t] = d]
      /\ UNCHANGED <<ios, todo, start>>
  BY DEF BeginItem
<1>2. /\ IsParser(d) /\ d.saved = ios[t] /\ d.restore_locale = FALSE
  BY DEF format_parser, IsParser
<1> HIDE DEF d
<1>3. StreamTypes' /\ Others(t) /\ item'[t] = d
  BY <1>1 DEF StreamInv, StreamTypes, Others
<1>4. RestoreInv(t)'
  BY <1>1, <1>2, <1>3, FieldsKept DEF StreamInv, RestoreInv
<1> QED BY <1>3, <1>4, OwnStream

LEMMA OutsideInv ==
    ASSUME StreamInv, NEW t \in Threads, Idle(t), UNCHANGED item,
           NEW i, IsStream(i), ios' = [ios EXCEPT ![t] = i],
           (todo' = todo /\ start' = start)
           \/ \E pieces : todo' = [todo EXCEPT ![t] = pieces] /\ start' = [start EXCEPT ![t] = i]
    PROVE  StreamInv'
<1>1. StreamTypes' /\ Others(t) /\ ios'[t] = i /\ item'[t] = None
  BY DEF StreamInv, StreamTypes, Others, Idle
<1>2. RestoreInv(t)'
  BY <1>1, FieldsKept DEF StreamInv, StreamTypes, RestoreInv, Idle
<1> QED BY <1>1, <1>2, OwnStream

LEMMA StreamNextInv == StreamInv /\ [Next]_vars => StreamInv'
<1> SUFFICES ASSUME StreamInv, [Next]_vars
             PROVE  StreamInv'
  OBVIOUS
<1>1. \A t \in Threads : IsStream(ios[t]) /\ ios = [ios EXCEPT ![t] = ios[t]]
  BY DEF StreamInv, StreamTypes, RestoreInv
<1>2. ASSUME NEW t \in Threads, NEW m \in Manipulators[t], Manipulate(t, m)
      PROVE  StreamInv'
  <2>1. IsStream(m @@ ios[t])
    BY <1>1, SetIsStream, ManipulatorsAssumption
  <2> QED BY <1>2, <2>1, OutsideInv DEF Manipulate, Begins
<1>3. ASSUME NEW t \in Threads, NEW f, Write(t, f)
      PROVE  StreamInv'
  BY <1>1, <1>3, OutsideInv DEF Write, Begins
<1>4. ASSUME NEW t \in Threads, NEW v, NEW target, PutValue(t, v) \/ Get(t, target)
      PROVE  StreamInv'
  BY <1>4 DEF PutValue, Get, StreamInv, StreamTypes, RestoreInv
<1>5. ASSUME NEW t \in Threads, WriteText(t)
      PROVE  StreamInv'
  <2> DEFINE w == IF ios[t].good THEN 0 ELSE ios[t].width
             i == WithWidth(ios[t], w)
  <2> HIDE DEF w
  <2>1. IsStream(i) /\ \A x \in Kept : i[x] = ios[t][x]
    <3>1. IsStream(ios[t])
      BY <1>1
    <3> QED BY <3>1, TouchedIsStream, Zenon
  <2>2. /\ ios' = [ios EXCEPT ![t] = i] /\ UNCHANGED <<start, item>>
        /\ item[t] = None /\ todo[t] # None /\ todo' = [todo EXCEPT ![t] = Tail(@)]
    BY <1>5 DEF WriteText, w, WithWidth
  <2> HIDE DEF i
  <2> QED BY <2>1, <2>2, TouchStep
<1>6. ASSUME NEW t \in Threads, EndItem(t)
      PROVE  StreamInv'
  BY <1>6, UnwindInv DEF EndItem
<1>7. CASE UNCHANGED vars
  BY <1>7 DEF vars, StreamInv, StreamTypes, RestoreInv
<1> QED BY <1>2, <1>3, <1>4, <1>5, <1>6, <1>7, WritingInv, BeginItemInv, SetFlagInv, ShowParameterInv
        DEF Next, Steps

\* However an item of a format ends, because it was written, or because a flag or
\* the parameter threw, the stream is as it was when the format began, but for
\* the width and the precision.
THEOREM StreamIsAlwaysRestored == Spec => StreamIsRestored
<1> DEFINE A == \A t \in Threads :
                  item[t] # None /\ item'[t] = None =>
                      \A f \in DOMAIN ios[t] \ {"width", "precision", "good"} : ios'[t][f] = start[t][f]
<1>1. StreamInv /\ [Next]_vars => [A]_vars
  <2> SUFFICES ASSUME StreamInv, Next, NEW t \in Threads, item[t] # None, item'[t] = None
               PROVE  \A x \in Kept : ios'[t][x] = start[t][x]
    BY FieldsKept DEF StreamInv, RestoreInv, IsStream
  <2>1. ASSUME NEW u \in Threads, NEW m, NEW v, NEW target, NEW f,
               \/ Manipulate(u, m) \/ PutValue(u, v) \/ Get(u, target) \/ Write(u, f)
               \/ PutPlain(u) \/ Create(u) \/ Format(u) \/ Parse(u) \/ WriteText(u)
        PROVE  item' = item
    BY <2>1 DEF Manipulate, PutValue, Get, Write, PutPlain, Create, Format, Parse, WriteText
  <2>2. PICK u \in Threads : BeginItem(u) \/ SetFlag(u) \/ ShowParameter(u) \/ EndItem(u)
    BY <2>1 DEF Next, Steps
  <2>3. u = t
    <3>1. \E d : item' = [item EXCEPT ![u] = d]
      BY <2>2 DEF BeginItem, SetFlag, ShowParameter, EndItem, Unwind
    <3> QED BY <3>1 DEF StreamInv, StreamTypes
  <2>4. ~BeginItem(t)
    BY DEF BeginItem
  <2>5. EndItem(t) => \A x \in Kept : ios'[t][x] = start[t][x]
    BY UnwindInv DEF EndItem
  <2> QED BY <2>2, <2>3, <2>4, <2>5, SetFlagInv, ShowParameterInv
<1> QED BY <1>1, StreamInitInv, StreamNextInv, PTL DEF Spec, StreamIsRestored

-----------------------------------------------------------------------------
(* What is read. *)

\* A set of natural numbers has a least one.
LEMMA LeastOf ==
    ASSUME NEW T, T \subseteq Nat, T # {}
    PROVE  \E x \in T : \A y \in T : x <= y
<1>1. IsWellFoundedOn({ss \in Nat \X Nat : ss[1] < ss[2]}, Nat)
  BY NatLessThanWellFounded DEF OpToRel
<1>2. PICK x \in T : \A y \in T : ~(<<y, x>> \in {ss \in Nat \X Nat : ss[1] < ss[2]})
  BY <1>1, WFMin
<1>3. ASSUME NEW y \in T PROVE x <= y
  <2>1. ~(<<y, x>> \in {ss \in Nat \X Nat : ss[1] < ss[2]})
    BY <1>2
  <2>2. x \in Nat /\ y \in Nat
    OBVIOUS
  <2> QED BY <2>1, <2>2
<1> QED BY <1>3

\* There is an end to the blanks, at the latest where the text ends.
LEMMA BlanksEnd ==
    ASSUME NEW s \in Seq(STRING)
    PROVE  first_not_blank(s) \in 1 .. Len(s) + 1
<1> DEFINE T == {q \in 1 .. Len(s) + 1 : q = Len(s) + 1 \/ s[q] \notin Blanks}
<1>1. Len(s) \in Nat
  OBVIOUS
<1>2. Len(s) + 1 \in T /\ T \subseteq Nat
  BY <1>1
<1>3. PICK q \in T : \A r \in T : q <= r
  BY <1>2, LeastOf
<1>4. /\ q \in 1 .. Len(s) + 1 /\ (q = Len(s) + 1 \/ s[q] \notin Blanks)
      /\ \A r \in 1 .. q - 1 : s[r] \in Blanks
  BY <1>1, <1>3
<1> HIDE DEF T
<1> QED BY <1>4 DEF first_not_blank

Types == {"unsigned_short", "unsigned_int", "long", "unsigned_long", "double"}

\* What is behind blanks and some characters is a text again.
LEMMA UnreadIsText ==
    ASSUME NEW s \in Seq(STRING), NEW n \in Nat, NEW tmp
    PROVE  unread(s, tmp, n) \in Seq(STRING)
<1>1. first_not_blank(s) \in 1 .. Len(s) + 1
  BY BlanksEnd
<1>2. \A k \in first_not_blank(s) + n .. Len(s) : k \in 1 .. Len(s)
  BY <1>1
<1> QED BY <1>1, <1>2, SubSeqProperties DEF unread

LEMMA BoundIs ==
    ASSUME NEW type, limits(type) \subseteq Int, NEW b \in limits(type)
    PROVE  /\ (\A n \in limits(type) : n <= b) => Top(type) = b
           /\ (\A n \in limits(type) : b <= n) => Bottom(type) = b
<1>1. ASSUME \A n \in limits(type) : n <= b PROVE Top(type) = b
  <2>1. Top(type) \in limits(type) /\ \A n \in limits(type) : n <= Top(type)
    BY <1>1 DEF Top
  <2>2. b \in Int /\ Top(type) \in Int /\ b <= Top(type) /\ Top(type) <= b
    BY <1>1, <2>1
  <2> QED BY <2>2
<1>2. ASSUME \A n \in limits(type) : b <= n PROVE Bottom(type) = b
  <2>1. Bottom(type) \in limits(type) /\ \A n \in limits(type) : Bottom(type) <= n
    BY <1>2 DEF Bottom
  <2>2. b \in Int /\ Bottom(type) \in Int /\ b <= Bottom(type) /\ Bottom(type) <= b
    BY <1>2, <2>1
  <2> QED BY <2>2
<1> QED BY <1>1, <1>2

\* The type of the variable, and the one the text is parsed to.
LEMMA TargetTypes ==
    /\ icu_format_type("unsigned_short") = "int32" /\ icu_format_type("unsigned_int") = "int64"
    /\ icu_format_type("long") = "int64" /\ icu_format_type("unsigned_long") = "uint64"
    /\ icu_format_type("double") = "double"
    /\ limits("int32") = -8 .. 7 /\ limits("int64") = -32 .. 31 /\ limits("uint64") = 0 .. 63
    /\ limits("unsigned_short") = 0 .. 3 /\ limits("unsigned_int") = 0 .. 15
    /\ limits("long") = -32 .. 31 /\ limits("unsigned_long") = 0 .. 63
  BY DEF icu_format_type, limits

LEMMA Bounds ==
    /\ Top("int32") = 7 /\ Top("int64") = 31 /\ Top("uint64") = 63
    /\ Top("unsigned_short") = 3 /\ Top("unsigned_int") = 15
    /\ Bottom("int32") = -8 /\ Bottom("int64") = -32 /\ Bottom("uint64") = 0
<1>1. Top("int32") = 7 /\ Bottom("int32") = -8
  <2>1. limits("int32") \subseteq Int /\ \A n \in limits("int32") : -8 <= n /\ n <= 7
    BY TargetTypes
  <2>2. 7 \in limits("int32") /\ -8 \in limits("int32")
    BY TargetTypes
  <2> QED BY <2>1, <2>2, BoundIs
<1>2. Top("int64") = 31 /\ Bottom("int64") = -32
  <2>1. limits("int64") \subseteq Int /\ \A n \in limits("int64") : -32 <= n /\ n <= 31
    BY TargetTypes
  <2>2. 31 \in limits("int64") /\ -32 \in limits("int64")
    BY TargetTypes
  <2> QED BY <2>1, <2>2, BoundIs
<1>3. Top("uint64") = 63 /\ Bottom("uint64") = 0
  <2>1. limits("uint64") \subseteq Int /\ \A n \in limits("uint64") : 0 <= n /\ n <= 63
    BY TargetTypes
  <2>2. 63 \in limits("uint64") /\ 0 \in limits("uint64")
    BY TargetTypes
  <2> QED BY <2>1, <2>2, BoundIs
<1>4. Top("unsigned_short") = 3
  <2>1. limits("unsigned_short") \subseteq Int /\ \A n \in limits("unsigned_short") : 0 <= n /\ n <= 3
    BY TargetTypes
  <2>2. 3 \in limits("unsigned_short") /\ 0 \in limits("unsigned_short")
    BY TargetTypes
  <2> QED BY <2>1, <2>2, BoundIs
<1>5. Top("unsigned_int") = 15
  <2>1. limits("unsigned_int") \subseteq Int /\ \A n \in limits("unsigned_int") : 0 <= n /\ n <= 15
    BY TargetTypes
  <2>2. 15 \in limits("unsigned_int") /\ 0 \in limits("unsigned_int")
    BY TargetTypes
  <2> QED BY <2>1, <2>2, BoundIs
<1> QED BY <1>1, <1>2, <1>3, <1>4, <1>5

\* What number_format::get_value and the cast let through is what the variable
\* can hold (icu/formatter.cpp:93, icu/numeric.cpp:251).
LEMMA NumbersFit ==
    ASSUME NEW target \in Types, NEW x \in Int
    PROVE  get_value(icu_format_type(target), x) /\ is_losless_castable(target, x) <=> x \in limits(target)
  BY Bounds, TargetTypes DEF Types, get_value, is_losless_castable

\* The same for a date, but for min() of double (icu/formatter.cpp:194).
LEMMA DatesFit ==
    ASSUME NEW target \in Types, target # "double", NEW x \in Int
    PROVE  date_in_limits(icu_format_type(target), x) /\ is_losless_castable(target, x)
                <=> x \in limits(target)
  BY Bounds, TargetTypes DEF Types, date_in_limits, is_losless_castable

\* What was read last from a stream, as ReadingIsExact has it.
HasRead(t) == last[t] # None /\ "before" \in DOMAIN last[t]
LossOf(t) ==
    HasRead(t) =>
        LET p == first_not_blank(last[t].before)
            s == last[t].before
        IN input[t] \in {SubSeq(s, p, Len(s)), SubSeq(s, p + last[t].n, Len(s))}
           /\ (~last[t].fail => input[t] = SubSeq(s, p + last[t].n, Len(s)))
           /\ last[t].eof = (input[t] = <<>>)
FitOf(t) ==
    HasRead(t) => (~last[t].date \/ last[t].target # "double" =>
                       last[t].fail = (last[t].n = 0 \/ last[t].x \notin limits(last[t].target)))

\* What is written or read is of a thread, and a number is read to a variable.
IsJob(j) ==
    j # None => /\ {"op", "value", "formatter"} \subseteq DOMAIN j
                /\ j.op \in {"put", "get"}
                /\ j.op = "get" => "target" \in DOMAIN j /\ j.target \in Types

ReadTypes ==
    /\ job = [t \in Threads |-> job[t]] /\ last = [t \in Threads |-> last[t]]
    /\ input \in [Threads -> Seq(STRING)]
    /\ \A t \in Threads : IsJob(job[t])

ReadInv == ReadTypes /\ \A t \in Threads : LossOf(t) /\ FitOf(t)

LEMMA ReadInitInv == Init => ReadInv
<1> SUFFICES ASSUME Init
             PROVE  ReadInv
  OBVIOUS
<1>1. \A t \in Threads : job[t] = None /\ last[t] = None
  BY DEF Init
<1>2. ReadTypes
  BY <1>1, ReadingAssumption DEF Init, ReadTypes, IsJob
<1> QED BY <1>1, <1>2 DEF ReadInv, LossOf, FitOf, HasRead

\* A step of another thread, and one that reads nothing.
LEMMA NothingRead ==
    ASSUME ReadInv, NEW t \in Threads, UNCHANGED input,
           NEW j, IsJob(j), job' = job \/ job' = [job EXCEPT ![t] = j],
           NEW r, "before" \notin DOMAIN r, last' = last \/ last' = [last EXCEPT ![t] = r]
    PROVE  ReadInv'
<1>1. ReadTypes'
  BY DEF ReadInv, ReadTypes
<1>2. ASSUME NEW u \in Threads PROVE LossOf(u)' /\ FitOf(u)'
  <2>1. CASE last'[u] = last[u]
    BY <2>1 DEF ReadInv, LossOf, FitOf, HasRead
  <2>2. CASE last'[u] # last[u]
    BY <2>2 DEF ReadInv, ReadTypes, LossOf, FitOf, HasRead
  <2> QED BY <2>1, <2>2
<1> QED BY <1>1, <1>2 DEF ReadInv

LEMMA PutRead ==
    ASSUME ReadInv, NEW t \in Threads, UNCHANGED input, NEW v, NEW asked, Put(t, v, asked)
    PROVE  ReadInv'
<1> DEFINE j == IF ios[t].good THEN [op |-> "put", value |-> v, asked |-> asked, formatter |-> None]
                ELSE None
<1>1. IsJob(j)
  BY DEF IsJob
<1>2. job' = [job EXCEPT ![t] = j] /\ last' = last
  BY DEF Put
<1> HIDE DEF j
<1>3. "before" \notin DOMAIN [asked |-> 0]
  OBVIOUS
<1> QED BY <1>1, <1>2, <1>3, NothingRead

LEMMA FinishRead ==
    ASSUME ReadInv, NEW t \in Threads, UNCHANGED input, NEW i, NEW text, Finish(t, i, text)
    PROVE  ReadInv'
<1> DEFINE r == [asked |-> job[t].asked, got |-> text]
<1>1. "before" \notin DOMAIN r
  OBVIOUS
<1>2. job' = [job EXCEPT ![t] = None] /\ last' = [last EXCEPT ![t] = r]
  BY DEF Finish
<1> HIDE DEF r
<1>3. IsJob(None)
  BY DEF IsJob
<1> QED BY <1>1, <1>2, <1>3, NothingRead

LEMMA CreateRead ==
    ASSUME ReadInv, NEW t \in Threads, Create(t)
    PROVE  ReadInv'
<1>1. UNCHANGED <<input, last>> /\ job[t] # None
  BY DEF Create
<1>2. IsJob(None)
  BY DEF IsJob
<1>3. \A f : IsJob([job[t] EXCEPT !.formatter = f])
  BY <1>1 DEF ReadInv, ReadTypes, IsJob
<1>4. job' = [job EXCEPT ![t] = None] \/ \E f : job' = [job EXCEPT ![t] = [job[t] EXCEPT !.formatter = f]]
  BY DEF Create
<1>5. "before" \notin DOMAIN [asked |-> 0]
  OBVIOUS
<1> QED BY <1>1, <1>2, <1>3, <1>4, <1>5, NothingRead

LEMMA GetRead ==
    ASSUME ReadInv, NEW t \in Threads, NEW target \in Targets[t], Get(t, target)
    PROVE  ReadInv'
<1>1. PICK v : job' = [job EXCEPT ![t] = [op |-> "get", target |-> target, formatter |-> None,
                                          value |-> v]]
  BY DEF Get
<1>2. IsJob([op |-> "get", target |-> target, formatter |-> None, value |-> v])
  BY ReadingAssumption DEF IsJob, Types
<1>3. UNCHANGED <<input, last>>
  BY DEF Get
<1>4. "before" \notin DOMAIN [asked |-> 0]
  OBVIOUS
<1> QED BY <1>1, <1>2, <1>3, <1>4, NothingRead

\* What Parse does for the n characters and the number x that ICU finds.
Parsed(t, n, x) ==
    LET type == icu_format_type(job[t].target)
        date == job[t].formatter.type \in {"date", "own_date"}
    IN IF n = 0 \/ ~(IF date THEN date_in_limits(type, x) ELSE get_value(type, x)) THEN 0 ELSE n
Fails(t, n, x) == Parsed(t, n, x) = 0 \/ ~is_losless_castable(job[t].target, x)
Rest(t, n, x) == unread(input[t], parsed_text(input[t]), Parsed(t, n, x))
Result(t, n, x) ==
    [target |-> job[t].target, date |-> job[t].formatter.type \in {"date", "own_date"},
     before |-> input[t], n |-> n, x |-> x, fail |-> Fails(t, n, x), eof |-> Rest(t, n, x) = <<>>]

LEMMA ParseReads ==
    ASSUME NEW t \in Threads, Parse(t)
    PROVE  /\ job[t] # None /\ job[t].op = "get" /\ job' = [job EXCEPT ![t] = None]
           /\ \E n \in 0 .. Len(parsed_text(input[t])), x \in Numbers :
                 /\ input' = [input EXCEPT ![t] = Rest(t, n, x)]
                 /\ last' = [last EXCEPT ![t] = Result(t, n, x)]
<1>1. job[t] # None /\ job[t].op = "get" /\ job' = [job EXCEPT ![t] = None]
  BY DEF Parse
<1>2. \E n \in 0 .. Len(parsed_text(input[t])), x \in Numbers :
        /\ input' = [input EXCEPT ![t] = Rest(t, n, x)]
        /\ last' = [last EXCEPT ![t] = Result(t, n, x)]
  BY ZenonT(40) DEF Parse, Rest, Result, Fails, Parsed
<1> QED BY <1>1, <1>2, Zenon

LEMMA ParseRead ==
    ASSUME ReadInv, NEW t \in Threads, Parse(t)
    PROVE  ReadInv'
<1> DEFINE s == input[t]
           tmp == parsed_text(s)
           target == job[t].target
           date == job[t].formatter.type \in {"date", "own_date"}
           parsed(n, x) == Parsed(t, n, x)
           fail(n, x) == Fails(t, n, x)
           rest(n, x) == Rest(t, n, x)
           read(n, x) == Result(t, n, x)
<1>1. job[t] # None /\ job[t].op = "get" /\ job' = [job EXCEPT ![t] = None]
  BY ParseReads
<1>2. PICK n \in 0 .. Len(tmp), x \in Numbers :
            input' = [input EXCEPT ![t] = rest(n, x)] /\ last' = [last EXCEPT ![t] = read(n, x)]
  BY ParseReads
<1>3. s \in Seq(STRING) /\ target \in Types /\ x \in Int /\ n \in Nat /\ parsed(n, x) \in {0, n}
  BY <1>1, ReadingAssumption DEF ReadInv, ReadTypes, IsJob, Parsed
<1>4. rest(n, x) \in Seq(STRING) /\ first_not_blank(s) \in Nat
  BY <1>3, UnreadIsText, BlanksEnd DEF Rest
<1> HIDE DEF tmp
<1>5. /\ rest(n, x) \in {SubSeq(s, first_not_blank(s), Len(s)), SubSeq(s, first_not_blank(s) + n, Len(s))}
      /\ ~fail(n, x) => rest(n, x) = SubSeq(s, first_not_blank(s) + n, Len(s))
  <2>1. rest(n, x) = SubSeq(s, first_not_blank(s) + parsed(n, x), Len(s))
    BY DEF Rest, unread
  <2>2. first_not_blank(s) + 0 = first_not_blank(s)
    BY <1>4
  <2>3. ~fail(n, x) => parsed(n, x) # 0
    BY DEF Fails
  <2> HIDE DEF rest, parsed, fail
  <2> QED BY <1>3, <2>1, <2>2, <2>3
<1>6. ~date \/ target # "double" => (fail(n, x) <=> n = 0 \/ x \notin limits(target))
  BY <1>3, NumbersFit, DatesFit DEF Fails, Parsed
<1>7. fail(n, x) \in BOOLEAN
  BY DEF Fails
<1>8. /\ last'[t] = read(n, x) /\ input'[t] = rest(n, x)
      /\ \A u \in Threads \ {t} : last'[u] = last[u] /\ input'[u] = input[u]
  BY <1>2 DEF ReadInv, ReadTypes
<1>9. LossOf(t)'
  <2>1. /\ last'[t].before = s /\ last'[t].n = n /\ last'[t].fail = fail(n, x)
        /\ last'[t].eof = (rest(n, x) = <<>>)
    BY <1>8 DEF Result
  <2> HIDE DEF read
  <2> QED BY <1>5, <1>8, <2>1 DEF LossOf
<1>10. FitOf(t)'
  <2>1. /\ last'[t].n = n /\ last'[t].x = x /\ last'[t].fail = fail(n, x)
        /\ last'[t].target = target /\ last'[t].date = date
    BY <1>8 DEF Result
  <2>2. ~date \/ target # "double" => fail(n, x) = (n = 0 \/ x \notin limits(target))
    BY <1>6, <1>7
  <2> HIDE DEF read
  <2> QED BY <2>1, <2>2 DEF FitOf
<1>11. ReadTypes'
  BY <1>1, <1>2, <1>4 DEF ReadInv, ReadTypes, IsJob
<1>12. \A u \in Threads \ {t} : LossOf(u)' /\ FitOf(u)'
  BY <1>8, ZenonT(40) DEF ReadInv, LossOf, FitOf, HasRead
<1> QED BY <1>9, <1>10, <1>11, <1>12 DEF ReadInv

LEMMA ReadNextInv == ReadInv /\ [Next]_vars => ReadInv'
<1> SUFFICES ASSUME ReadInv, [Next]_vars
             PROVE  ReadInv'
  OBVIOUS
<1>1. IsJob(None) /\ "before" \notin DOMAIN [asked |-> 0]
  BY DEF IsJob
<1>2. ASSUME NEW t \in Threads, UNCHANGED <<job, last, input>>
      PROVE  ReadInv'
  BY <1>1, <1>2, NothingRead
<1>3. ASSUME NEW t \in Threads,
             \/ \E m : Manipulate(t, m)
             \/ \E f : Write(t, f)
             \/ WriteText(t) \/ BeginItem(t) \/ EndItem(t)
      PROVE  ReadInv'
  BY <1>2, <1>3 DEF Manipulate, Write, WriteText, BeginItem, EndItem
<1>4. ASSUME NEW t \in Threads, SetFlag(t)
      PROVE  ReadInv'
  <2>1. UNCHANGED <<last, input>> /\ (job' = job \/ job' = [job EXCEPT ![t] = None])
    BY <1>4 DEF SetFlag, Unwind
  <2> QED BY <1>1, <2>1, NothingRead
<1>5. ASSUME NEW t \in Threads, ShowParameter(t)
      PROVE  ReadInv'
  <2>1. UNCHANGED input
    BY <1>5 DEF ShowParameter
  <2>2. \/ job' = [job EXCEPT ![t] = None] /\ UNCHANGED last
        \/ UNCHANGED <<job, last>>
        \/ \E v, asked : Put(t, v, asked)
    BY <1>5 DEF ShowParameter, Unwind
  <2> QED BY <1>1, <2>1, <2>2, NothingRead, PutRead
<1>6. ASSUME NEW t \in Threads, NEW v, PutValue(t, v)
      PROVE  ReadInv'
  BY <1>6, PutRead DEF PutValue
<1>7. ASSUME NEW t \in Threads, PutPlain(t) \/ Format(t)
      PROVE  ReadInv'
  BY <1>7, FinishRead DEF PutPlain, Format
<1>8. CASE UNCHANGED vars
  BY <1>8 DEF vars, ReadInv, ReadTypes, LossOf, FitOf, HasRead
<1> QED BY <1>3, <1>4, <1>5, <1>6, <1>7, <1>8, CreateRead, GetRead, ParseRead DEF Next, Steps

\* However often numbers and dates are read, a stream has lost the blanks and the
\* number, or nothing but blanks, and a number is read if and only if the
\* variable can hold it.
THEOREM ReadingIsAlwaysExact == Spec => []ReadingIsExact
<1>1. ReadInv => ReadingIsExact
  BY DEF ReadInv, ReadingIsExact, NothingIsLost, ReadIfItFits, LossOf, FitOf, HasRead
<1> QED BY <1>1, ReadInitInv, ReadNextInv, PTL DEF Spec

-----------------------------------------------------------------------------
(* What is shown. *)

\* What decides a text and its padding: a stream's fields but the state.
Decisive == StreamFields \ {"good"}

LEMMA AskedDepends ==
    ASSUME NEW i, NEW j, \A x \in Decisive : i[x] = j[x], NEW v
    PROVE  Padded(i, Asked(i, v)) = Padded(j, Asked(j, v))
<1>1. /\ i.loc = j.loc /\ i.base = j.base /\ i.float = j.float /\ i.adjust = j.adjust
      /\ i.width = j.width /\ i.precision = j.precision /\ i.display = j.display
      /\ i.currency = j.currency /\ i.date = j.date /\ i.time = j.time /\ i.zone = j.zone
      /\ i.pattern = j.pattern
  BY DEF Decisive, StreamFields, InfoFields
<1>2. padding(i) = padding(j)
  BY <1>1 DEF padding
<1>3. \A lang : Plain(i, lang) = Plain(j, lang)
  BY <1>1 DEF Plain
<1>4. do_real_put(i) = do_real_put(j)
  BY <1>1, <1>3 DEF do_real_put
<1>5. num_fmt_type(i) = num_fmt_type(j)
  BY <1>1 DEF num_fmt_type
<1>6. \A lang : date_pattern(i, lang) = date_pattern(j, lang)
  BY <1>1 DEF date_pattern
<1>7. use_parent(i, v) = use_parent(j, v)
  BY <1>1 DEF use_parent
<1>8. Asked(i, v) = Asked(j, v)
  BY <1>1, <1>3, <1>4, <1>5, <1>6, <1>7 DEF Asked
<1> QED BY <1>2, <1>8 DEF Padded

\* Every locale's formatters are its own language's: a cache that is kept by a
\* second locale of another language is a state this is not said of.
LocOk(l) == l.backend = "icu" => l.cache[2] = l.language
OwnCaches == \A t \in Threads : \A l \in Locales[t] : LocOk(l)

\* Formatters of numbers whose digits no stream sets keep those of the language.
CacheOk(c) ==
    /\ c = [numbers |-> c.numbers, date |-> c.date]
    /\ \A type \in DOMAIN c.numbers :
          /\ DOMAIN c.numbers[type] = {"set", "max", "min"}
          /\ type \notin {"number", "sci", "percent"} =>
                 c.numbers[type].max = NewNumberFormat.max /\ c.numbers[type].min = NewNumberFormat.min

Locs(t) ==
    /\ LocOk(ios[t]["loc"])
    /\ todo[t] # None \/ item[t] # None => LocOk(start[t]["loc"])
    /\ \A k \in DOMAIN cache[t] : CacheOk(cache[t][k])

\* Until the parameter of an item is written, its stream shows what the flags so
\* far have said, and else what it showed in the beginning.
ItemShows(t) ==
    item[t] # None /\ ~item[t].written =>
        LET asked == item[t].own @@ ("precision" :> ios[t]["precision"])
                        @@ ("width" :> item[t].saved.width) @@ start[t]
        IN job[t] = None /\ \A x \in Decisive : ios[t][x] = asked[x]

\* A formatter that has been made still writes what its stream asks for.
JobShows(t) ==
    job[t] # None =>
        /\ (todo[t] = None /\ item[t] = None) \/ (item[t] # None /\ item[t].written)
        /\ job[t].op = "put" =>
              /\ "asked" \in DOMAIN job[t] /\ job[t].asked = Padded(ios[t], Asked(ios[t], job[t].value))
              /\ job[t].formatter # None =>
                    /\ ios[t]["loc"].backend = "icu" /\ ~use_parent(ios[t], job[t].value)
                    /\ format(job[t].formatter, CacheOf(t), ios[t]["loc"].cache[2]) = job[t].asked.text

LastShown(t) ==
    last[t] # None /\ "asked" \in DOMAIN last[t] =>
        /\ last[t].got.text = last[t].asked.text
        /\ last[t].got.text.how # "money" => last[t].got = last[t].asked

ShownOf(t) == Locs(t) /\ ItemShows(t) /\ JobShows(t) /\ LastShown(t)

CacheType == cache = [t \in Threads |-> cache[t]]
ShownInv == StreamInv /\ ReadInv /\ CacheType /\ \A t \in Threads : ShownOf(t)

LEMMA ShownInitInv == OwnCaches /\ Init => ShownInv
<1> SUFFICES ASSUME OwnCaches, Init
             PROVE  ShownInv
  OBVIOUS
<1>1. StreamInv /\ ReadInv
  BY StreamInitInv, ReadInitInv
<1>2. CacheType
  BY DEF Init, CacheType, slot
<1>3. ASSUME NEW t \in Threads PROVE ShownOf(t)
  <2>1. /\ todo[t] = None /\ item[t] = None /\ job[t] = None /\ last[t] = None
        /\ cache[t] = <<>> /\ ios[t].loc \in Locales[t]
    BY DEF Init, slot
  <2>2. DOMAIN cache[t] = {}
    BY <2>1
  <2>3. Locs(t)
    BY <2>1, <2>2 DEF Locs, OwnCaches
  <2> QED BY <2>1, <2>3 DEF ShownOf, ItemShows, JobShows, LastShown
<1> QED BY <1>1, <1>2, <1>3 DEF ShownInv

\* A thread has a stream and a cache of its own.
OthersStay(t) ==
    \A u \in Threads \ {t} :
        /\ ios'[u] = ios[u] /\ cache'[u] = cache[u] /\ todo'[u] = todo[u] /\ start'[u] = start[u]
        /\ item'[u] = item[u] /\ job'[u] = job[u] /\ last'[u] = last[u]

LEMMA OtherShown ==
    ASSUME NEW t \in Threads, OthersStay(t), NEW u \in Threads \ {t}, ShownOf(u)
    PROVE  ShownOf(u)'
<1>1. Locs(u)'
  BY DEF ShownOf, Locs, OthersStay
<1>2. ItemShows(u)'
  BY DEF ShownOf, ItemShows, OthersStay
<1>3. CacheOf(u)' = CacheOf(u)
  BY DEF CacheOf, slot, OthersStay
<1>4. JobShows(u)'
  BY <1>3 DEF ShownOf, JobShows, OthersStay
<1>5. LastShown(u)'
  BY DEF ShownOf, LastShown, OthersStay
<1> QED BY <1>1, <1>2, <1>4, <1>5 DEF ShownOf

\* What a step of thread t is to show.
LEMMA OwnShown ==
    ASSUME ShownInv, NEW t \in Threads, [Next]_vars, OthersStay(t), CacheType', ShownOf(t)'
    PROVE  ShownInv'
<1>1. \A u \in Threads \ {t} : ShownOf(u)'
  BY OtherShown DEF ShownInv
<1> QED BY <1>1, StreamNextInv, ReadNextInv DEF ShownInv

LEMMA StayOthers ==
    ASSUME ShownInv, NEW t \in Threads,
           ios' = ios \/ \E i : ios' = [ios EXCEPT ![t] = i],
           cache' = cache \/ \E c : cache' = [cache EXCEPT ![t] = c],
           todo' = todo \/ \E pieces : todo' = [todo EXCEPT ![t] = pieces],
           start' = start \/ \E i : start' = [start EXCEPT ![t] = i],
           item' = item \/ \E d : item' = [item EXCEPT ![t] = d],
           job' = job \/ \E j : job' = [job EXCEPT ![t] = j],
           last' = last \/ \E r : last' = [last EXCEPT ![t] = r]
    PROVE  OthersStay(t) /\ CacheType'
  BY DEF ShownInv, StreamInv, StreamTypes, ReadInv, ReadTypes, CacheType, OthersStay

LEMMA NewCacheOk == CacheOk(NewCache)
  BY DEF CacheOk, NewCache

\* Adding an entry to a cache.
LEMMA CacheGrows ==
    ASSUME NEW cs, \A k \in DOMAIN cs : CacheOk(cs[k]), NEW key, NEW c, CacheOk(c)
    PROVE  /\ \A k \in DOMAIN ((key :> c) @@ cs) : CacheOk(((key :> c) @@ cs)[k])
           /\ key \in DOMAIN ((key :> c) @@ cs) /\ ((key :> c) @@ cs)[key] = c
  BY DEF @@, :>

\* The date formatter that formatter::create returns shows the date as asked for.
LEMMA DateCreated ==
    ASSUME NEW i, i.loc.backend = "icu", i.loc.cache[2] = i.loc.language, i.display \in DateDisplays,
           NEW c, CacheOk(c), NEW v, ~use_parent(i, v)
    PROVE  /\ CacheOk(create_formatter(i, c).cache)
           /\ format(create_formatter(i, c).formatter, create_formatter(i, c).cache, i.loc.cache[2])
                = Asked(i, v)
<1> DEFINE made == create_formatter(i, c)
           lang == i.loc.cache[2]
           own == lang \in NotSimple \/ (i.display = "strftime" /\ i.pattern = "")
           set == [set |-> TRUE, pattern |-> date_pattern(i, lang), zone |-> i.zone]
<1>1. Asked(i, v) = [how |-> "date", pattern |-> date_pattern(i, lang), zone |-> i.zone]
  BY DEF Asked
<1>2. CASE own
  <2>1. made = [cache |-> c, formatter |-> [type |-> "own_date",
                                            pattern |-> date_pattern(i, lang), zone |-> i.zone]]
    BY <1>2 DEF create_formatter
  <2> HIDE DEF made
  <2>2. CacheOk(made.cache) /\ format(made.formatter, made.cache, lang) = Asked(i, v)
    BY <1>1, <2>1 DEF format
  <2> QED BY <2>2 DEF made
<1>3. CASE ~own
  <2>1. made = [cache |-> [c EXCEPT !.date = set], formatter |-> [type |-> "date"]]
    BY <1>3 DEF create_formatter
  <2> HIDE DEF made, set
  <2>2. [c EXCEPT !.date = set] = [numbers |-> c.numbers, date |-> set]
    BY DEF CacheOk
  <2>3. CacheOk(made.cache)
    BY <2>1, <2>2 DEF CacheOk
  <2>4. format(made.formatter, made.cache, lang) = [how |-> "date", pattern |-> set.pattern, zone |-> set.zone]
    BY <2>1, <2>2 DEF format
  <2>5. set.pattern = date_pattern(i, lang) /\ set.zone = i.zone
    BY DEF set
  <2>6. format(made.formatter, made.cache, lang) = Asked(i, v)
    BY <1>1, <2>4, <2>5
  <2> QED BY <2>3, <2>6 DEF made
<1> QED BY <1>2, <1>3

LEMMA NumberCreated ==
    ASSUME NEW i, i.loc.backend = "icu", i.loc.cache[2] = i.loc.language,
           i.display \in Displays \ DateDisplays, i.float \in Floats,
           NEW c, CacheOk(c), NEW v, ~use_parent(i, v)
    PROVE  /\ CacheOk(create_formatter(i, c).cache)
           /\ format(create_formatter(i, c).formatter, create_formatter(i, c).cache, i.loc.cache[2])
                = Asked(i, v)
<1> DEFINE made == create_formatter(i, c)
           lang == i.loc.cache[2]
           type == num_fmt_type(i)
           own == i.display \in {"number", "percent"}
           digits == i.precision + (IF i.float = "scientific" THEN INTEGER_DIGITS ELSE 0)
           found == IF type \in DOMAIN c.numbers THEN c.numbers[type] ELSE NewNumberFormat
           nf == IF own THEN set_fraction_digits(found, i.float, i.precision) ELSE found
           numbers == (type :> nf) @@ c.numbers
<1>1. Asked(i, v) = [how |-> "number", type |-> type, max |-> IF own THEN digits ELSE NewNumberFormat.max,
                     min |-> IF own /\ i.float # "none" THEN digits ELSE 0, language |-> lang]
  BY DEF Asked
<1>2. made = [cache |-> [c EXCEPT !.numbers = numbers], formatter |-> [type |-> type]]
  BY DEF create_formatter
<1>3. [c EXCEPT !.numbers = numbers] = [numbers |-> numbers, date |-> c.date]
  BY DEF CacheOk
<1>4. own <=> type \in {"number", "sci", "percent"}
  BY DEF num_fmt_type, Displays, use_parent
<1>5. type \notin {"own_date", "date"}
  BY DEF num_fmt_type, Displays, use_parent
<1>6. DOMAIN found = {"set", "max", "min"} /\ (~own => found.max = NewNumberFormat.max /\ found.min = NewNumberFormat.min)
  BY <1>4 DEF CacheOk, NewNumberFormat
<1>7. /\ DOMAIN nf = {"set", "max", "min"}
      /\ nf.max = IF own THEN digits ELSE NewNumberFormat.max
      /\ nf.min = IF own /\ i.float # "none" THEN digits ELSE 0
  <2>1. CASE own
    BY <1>6, <2>1 DEF set_fraction_digits, Floats
  <2>2. CASE ~own
    BY <1>6, <2>2 DEF NewNumberFormat
  <2> QED BY <2>1, <2>2
<1> HIDE DEF nf, found, made, own, digits, type
<1>8. type \in DOMAIN numbers /\ numbers[type] = nf
  BY DEF @@, :>
<1>9. \A x \in DOMAIN numbers : x = type \/ (x \in DOMAIN c.numbers /\ numbers[x] = c.numbers[x])
  BY DEF @@, :>
<1> HIDE DEF numbers
<1>10. made.cache = [numbers |-> numbers, date |-> c.date] /\ made.formatter.type = type
  BY <1>2, <1>3
<1>11. CacheOk(made.cache)
  <2>1. \A x \in DOMAIN numbers :
          /\ DOMAIN numbers[x] = {"set", "max", "min"}
          /\ x \notin {"number", "sci", "percent"} =>
                 numbers[x].max = NewNumberFormat.max /\ numbers[x].min = NewNumberFormat.min
    BY <1>4, <1>7, <1>8, <1>9, SMTT(30) DEF CacheOk, NewNumberFormat
  <2> QED BY <1>10, <2>1 DEF CacheOk
<1>12. format(made.formatter, made.cache, lang) =
            [how |-> "number", type |-> type, max |-> nf.max, min |-> nf.min, language |-> lang]
  BY <1>5, <1>8, <1>10 DEF format
<1>13. format(made.formatter, made.cache, lang) = Asked(i, v)
  BY <1>1, <1>7, <1>12
<1> QED BY <1>11, <1>13 DEF made

\* Whatever a stream asks for.
LEMMA Created ==
    ASSUME NEW i, IsStream(i), i["loc"].backend = "icu", LocOk(i["loc"]), NEW c, CacheOk(c),
           NEW v, ~use_parent(i, v)
    PROVE  /\ CacheOk(create_formatter(i, c).cache)
           /\ format(create_formatter(i, c).formatter, create_formatter(i, c).cache, i["loc"].cache[2])
                = Asked(i, v)
<1>1. i.loc.backend = "icu" /\ i.loc.cache[2] = i.loc.language
  BY DEF LocOk
<1>2. i.display \in Displays /\ i.float \in Floats
  BY DEF IsStream
<1>3. CASE i.display \in DateDisplays
  BY <1>1, <1>3, DateCreated
<1>4. CASE i.display \notin DateDisplays
  BY <1>1, <1>2, <1>4, NumberCreated
<1> QED BY <1>3, <1>4

LEMMA CreateShown ==
    ASSUME ShownInv, NEW t \in Threads, Create(t)
    PROVE  ShownInv'
<1> DEFINE i == ios[t]
           made == create_formatter(i, CacheOf(t))
           used == IF i.display \in DateDisplays THEN "date" ELSE num_fmt_type(i)
           bad == WithGood(i, FALSE)
           cs == (i.loc.cache :> made.cache) @@ cache[t]
           j == [job[t] EXCEPT !.formatter = made.formatter]
<1>1. /\ job[t] # None /\ i["loc"].backend = "icu" /\ ~use_parent(i, job[t].value)
      /\ UNCHANGED <<todo, start, item, last>>
  BY DEF Create
<1>2. \/ ios' = [ios EXCEPT ![t] = bad] /\ job' = [job EXCEPT ![t] = None] /\ cache' = cache
      \/ cache' = [cache EXCEPT ![t] = cs] /\ job' = [job EXCEPT ![t] = j] /\ ios' = ios
  BY DEF Create, slot, WithGood
<1>3. /\ IsStream(i) /\ IsJob(job[t])
      /\ Locs(t) /\ ItemShows(t) /\ JobShows(t) /\ LastShown(t)
  BY DEF ShownInv, StreamInv, RestoreInv, ReadInv, ReadTypes, ShownOf
<1>4. CacheOk(CacheOf(t))
  BY <1>3, NewCacheOk DEF CacheOf, slot, Locs
<1>5. LocOk(i["loc"])
  BY <1>3 DEF Locs
<1>6. /\ CacheOk(made.cache)
      /\ format(made.formatter, made.cache, i["loc"].cache[2]) = Asked(i, job[t].value)
  BY <1>1, <1>3, <1>4, <1>5, Created
<1> HIDE DEF bad, cs, j, made
<1>7. OthersStay(t) /\ CacheType'
  BY <1>1, <1>2, StayOthers
<1>8. LastShown(t)'
  BY <1>1, <1>3 DEF LastShown
<1>9. ItemShows(t)'
  BY <1>1, <1>3 DEF ItemShows
<1>10. CASE ios' = [ios EXCEPT ![t] = bad] /\ job' = [job EXCEPT ![t] = None] /\ cache' = cache
  <2>1. ios'[t] = bad /\ job'[t] = None /\ cache'[t] = cache[t]
    BY <1>10 DEF ShownInv, StreamInv, StreamTypes, ReadInv, ReadTypes
  <2>2. bad["loc"] = i["loc"]
    BY <1>3, TouchedIsStream, FieldsKept DEF bad
  <2>3. Locs(t)' /\ JobShows(t)'
    BY <1>1, <1>3, <2>1, <2>2 DEF Locs, JobShows
  <2> QED BY <1>7, <1>8, <1>9, <2>3, OwnShown DEF ShownOf, Next, Steps
<1>11. CASE cache' = [cache EXCEPT ![t] = cs] /\ job' = [job EXCEPT ![t] = j] /\ ios' = ios
  <2>1. ios'[t] = i /\ job'[t] = j /\ cache'[t] = cs
    BY <1>11 DEF ShownInv, CacheType, ReadInv, ReadTypes
  <2>2. /\ \A k \in DOMAIN cs : CacheOk(cs[k])
        /\ i["loc"].cache \in DOMAIN cs /\ cs[i["loc"].cache] = made.cache
    <3>1. (\A k \in DOMAIN cache[t] : CacheOk(cache[t][k])) /\ CacheOk(made.cache)
      BY <1>3, <1>6 DEF Locs
    <3> QED BY <3>1, CacheGrows DEF cs
  <2>3. CacheOf(t)' = made.cache
    BY <2>1, <2>2 DEF CacheOf, slot
  <2>4. /\ j.formatter = made.formatter /\ j.op = job[t].op /\ j.value = job[t].value
        /\ "asked" \in DOMAIN job[t] => "asked" \in DOMAIN j /\ j.asked = job[t].asked
    BY <1>1, <1>3 DEF j, IsJob
  <2>5. Locs(t)'
    BY <1>1, <1>3, <2>1, <2>2 DEF Locs
  <2>6. Padded(i, Asked(i, job[t].value)).text = Asked(i, job[t].value)
    BY DEF Padded
  <2>7. JobShows(t)'
    BY <1>1, <1>3, <1>6, <2>1, <2>3, <2>4, <2>6 DEF JobShows
  <2> QED BY <1>7, <1>8, <1>9, <2>5, <2>7, OwnShown DEF ShownOf, Next, Steps
<1> QED BY <1>2, <1>10, <1>11

\* A number or a date that is begun.
LEMMA BegunShows ==
    ASSUME ShownInv, NEW t \in Threads, NEW v, NEW asked, Put(t, v, asked),
           asked = Padded(ios[t], Asked(ios[t], v)),
           UNCHANGED <<ios, todo, start, cache>>,
           (todo'[t] = None /\ item'[t] = None) \/ (item'[t] # None /\ item'[t].written)
    PROVE  JobShows(t)' /\ LastShown(t)'
<1> DEFINE j == [op |-> "put", value |-> v, asked |-> asked, formatter |-> None]
<1>1. last' = last /\ (job'[t] = None \/ job'[t] = j)
  BY DEF Put, ShownInv, ReadInv, ReadTypes
<1>2. LastShown(t)'
  BY <1>1 DEF ShownInv, ShownOf, LastShown
<1>3. /\ j.op = "put" /\ j.value = v /\ j.asked = asked /\ j.formatter = None
      /\ "asked" \in DOMAIN j
  OBVIOUS
<1> HIDE DEF j
<1>4. JobShows(t)'
  BY <1>1, <1>3 DEF JobShows
<1> QED BY <1>2, <1>4

\* A number or a date that is written.
LEMMA WrittenShows ==
    ASSUME ShownInv, NEW t \in Threads, NEW i, NEW text, Finish(t, i, text),
           job[t] # None, job[t].op = "put", i["loc"] = ios[t]["loc"],
           text.text = job[t].asked.text,
           text.text.how # "money" => text = job[t].asked,
           UNCHANGED <<cache, todo, start, item, input, ops, bound>>, Next
    PROVE  ShownInv'
<1> DEFINE r == [asked |-> job[t].asked, got |-> text]
<1>1. /\ last' = [last EXCEPT ![t] = r] /\ job' = [job EXCEPT ![t] = None]
      /\ ios' = [ios EXCEPT ![t] = i]
  BY DEF Finish
<1>2. last'[t] = r /\ job'[t] = None /\ ios'[t] = i
  BY <1>1 DEF ShownInv, StreamInv, StreamTypes, ReadInv, ReadTypes
<1>3. Locs(t) /\ ItemShows(t) /\ JobShows(t)
  BY DEF ShownInv, ShownOf
<1>4. Locs(t)' /\ JobShows(t)' /\ ItemShows(t)'
  BY <1>2, <1>3 DEF Locs, JobShows, ItemShows
<1>5. LastShown(t)'
  BY <1>2 DEF LastShown
<1> HIDE DEF r
<1>6. OthersStay(t) /\ CacheType'
  BY <1>1, StayOthers
<1> QED BY <1>4, <1>5, <1>6, OwnShown DEF ShownOf

LEMMA UsedUp ==
    ASSUME NEW i, IsStream(i)
    PROVE  [i EXCEPT !.width = 0]["loc"] = i["loc"]
<1>1. [i EXCEPT !.width = 0] = WithWidth(i, 0)
  BY DEF WithWidth
<1>2. \A x \in Kept : WithWidth(i, 0)[x] = i[x]
  BY TouchedIsStream, Zenon
<1> QED BY <1>1, <1>2, FieldsKept

LEMMA PutPlainShown ==
    ASSUME ShownInv, NEW t \in Threads, PutPlain(t)
    PROVE  ShownInv'
<1> DEFINE i == ios[t]
           none == [left |-> 0, right |-> 0]
           plain == IF i.loc.backend = "none" \/ i.loc.backend = "icu" THEN Plain(i, "C") ELSE do_real_put(i)
<1>1. /\ job[t] # None /\ job[t].op = "put"
      /\ i.loc.backend # "icu" \/ use_parent(i, job[t].value)
      /\ UNCHANGED <<cache, todo, bound, start, item, input, ops>> /\ Next
  BY DEF PutPlain, Next, Steps
<1>2. IsStream(i) /\ job[t].asked = Padded(i, Asked(i, job[t].value))
  BY <1>1 DEF ShownInv, StreamInv, RestoreInv, ShownOf, JobShows
<1>3. Asked(i, job[t].value) = plain
  BY <1>1 DEF Asked
<1>4. CASE i.loc.backend \notin {"none", "icu"} /\ ignores_width(i)
  <2>1. Finish(t, i, [text |-> do_real_put(i), padding |-> none])
    BY <1>4 DEF PutPlain
  <2>2. do_real_put(i).how = "money"
    BY <1>4 DEF do_real_put, ignores_width
  <2>3. plain = do_real_put(i)
    BY <1>4
  <2> QED BY <1>1, <1>2, <1>3, <2>1, <2>2, <2>3, WrittenShows DEF Padded
<1>5. CASE ~(i.loc.backend \notin {"none", "icu"} /\ ignores_width(i))
  <2>1. Finish(t, [i EXCEPT !.width = 0], Padded(i, plain))
    BY <1>5 DEF PutPlain
  <2>2. [i EXCEPT !.width = 0]["loc"] = i["loc"]
    BY <1>2, UsedUp
  <2> QED BY <1>1, <1>2, <1>3, <2>1, <2>2, WrittenShows
<1> QED BY <1>4, <1>5

LEMMA FormatShown ==
    ASSUME ShownInv, NEW t \in Threads, Format(t)
    PROVE  ShownInv'
<1> DEFINE i == ios[t]
           text == format(job[t].formatter, CacheOf(t), i.loc.cache[2])
<1>1. /\ job[t] # None /\ job[t].op = "put" /\ job[t].formatter # None
      /\ Finish(t, [i EXCEPT !.width = 0], Padded(i, text))
      /\ UNCHANGED <<cache, todo, bound, start, item, input, ops>> /\ Next
  BY DEF Format, Next, Steps
<1>2. /\ IsStream(i) /\ job[t].asked = Padded(i, Asked(i, job[t].value))
      /\ text = job[t].asked.text
  BY <1>1 DEF ShownInv, StreamInv, RestoreInv, ShownOf, JobShows
<1> HIDE DEF text
<1>3. Padded(i, Asked(i, job[t].value)).text = Asked(i, job[t].value)
  BY DEF Padded
<1>4. Padded(i, text) = job[t].asked
  BY <1>2, <1>3
<1>5. [i EXCEPT !.width = 0]["loc"] = i["loc"]
  BY <1>2, UsedUp
<1> QED BY <1>1, <1>4, <1>5, WrittenShows

LEMMA ParseShown ==
    ASSUME ShownInv, NEW t \in Threads, Parse(t)
    PROVE  ShownInv'
<1>1. /\ job[t] # None /\ job' = [job EXCEPT ![t] = None]
      /\ UNCHANGED <<cache, todo, start, item>> /\ Next
  BY DEF Parse, Next, Steps
<1>2. PICK v : ios' = [ios EXCEPT ![t].good = v]
  BY DEF Parse
<1>3. PICK r : last' = [last EXCEPT ![t] = r] /\ "asked" \notin DOMAIN r
  <2>1. \A n, x : "asked" \notin DOMAIN Result(t, n, x)
    BY DEF Result
  <2> QED BY <2>1, ParseReads
<1> DEFINE i == WithGood(ios[t], v)
<1>4. ios' = [ios EXCEPT ![t] = i]
  BY <1>2 DEF WithGood
<1>5. i["loc"] = ios[t]["loc"]
  <2>1. IsStream(ios[t])
    BY DEF ShownInv, StreamInv, RestoreInv
  <2> QED BY <2>1, TouchedIsStream, FieldsKept
<1> HIDE DEF i
<1>6. ios'[t] = i /\ last'[t] = r /\ job'[t] = None
  BY <1>1, <1>3, <1>4 DEF ShownInv, StreamInv, StreamTypes, ReadInv, ReadTypes
<1>7. OthersStay(t) /\ CacheType'
  BY <1>1, <1>3, <1>4, StayOthers
<1>8. Locs(t) /\ ItemShows(t) /\ JobShows(t)
  BY DEF ShownInv, ShownOf
<1>9. Locs(t)' /\ ItemShows(t)' /\ JobShows(t)' /\ LastShown(t)'
  BY <1>1, <1>3, <1>5, <1>6, <1>8 DEF Locs, ItemShows, JobShows, LastShown
<1> QED BY <1>1, <1>7, <1>9, OwnShown DEF ShownOf

\* Between two items, and outside of formats.
LEMMA NoItemShown ==
    ASSUME ShownInv, NEW t \in Threads, Next, OthersStay(t), CacheType', UNCHANGED <<cache, last>>,
           item'[t] = None, LocOk(ios'[t]["loc"]), todo'[t] # None => LocOk(start'[t]["loc"]),
           job'[t] = None
    PROVE  ShownInv'
<1>1. Locs(t)'
  BY DEF ShownInv, ShownOf, Locs
<1>2. ItemShows(t)' /\ JobShows(t)' /\ LastShown(t)'
  BY DEF ShownInv, ShownOf, ItemShows, JobShows, LastShown
<1> QED BY <1>1, <1>2, OwnShown DEF ShownOf

LEMMA OutsideShown ==
    ASSUME ShownInv, NEW t \in Threads,
           \/ \E m \in Manipulators[t] : Manipulate(t, m)
           \/ \E v \in Values : PutValue(t, v)
           \/ \E target \in Targets[t] : Get(t, target)
           \/ \E f \in Formats[t] : Write(t, f)
    PROVE  ShownInv'
<1>1. Next /\ Idle(t) /\ LocOk(ios[t]["loc"]) /\ IsStream(ios[t])
  BY DEF Next, Manipulate, PutValue, Get, Write, Begins,
         ShownInv, ShownOf, Locs, StreamInv, RestoreInv
<1>2. ASSUME NEW m \in Manipulators[t], Manipulate(t, m)
      PROVE  ShownInv'
  <2>1. /\ ios' = [ios EXCEPT ![t] = m @@ ios[t]]
        /\ UNCHANGED <<cache, todo, start, item, job, last>>
    BY <1>2 DEF Manipulate
  <2>2. (m @@ ios[t])["loc"] = ios[t]["loc"]
    BY <1>1, SetIsStream, ManipulatorsAssumption
  <2>3. OthersStay(t) /\ CacheType'
    BY <2>1, StayOthers
  <2>4. ios'[t] = m @@ ios[t]
    BY <2>1 DEF ShownInv, StreamInv, StreamTypes
  <2> QED BY <1>1, <2>1, <2>2, <2>3, <2>4, NoItemShown DEF Idle
<1>3. ASSUME NEW v \in Values, PutValue(t, v)
      PROVE  ShownInv'
  <2>1. /\ Put(t, v, Padded(ios[t], Asked(ios[t], v)))
        /\ UNCHANGED <<ios, cache, todo, start, item, last>>
    BY <1>3 DEF PutValue, Put
  <2>2. JobShows(t)' /\ LastShown(t)'
    BY <1>1, <2>1, BegunShows DEF Idle
  <2>3. Locs(t)' /\ ItemShows(t)'
    BY <1>1, <2>1 DEF ShownInv, ShownOf, Locs, ItemShows, Idle
  <2>4. \E j : job' = [job EXCEPT ![t] = j]
    BY <2>1 DEF Put
  <2>5. OthersStay(t) /\ CacheType'
    BY <2>1, <2>4, StayOthers
  <2> QED BY <1>1, <2>2, <2>3, <2>5, OwnShown DEF ShownOf
<1>4. ASSUME NEW target \in Targets[t], Get(t, target)
      PROVE  ShownInv'
  <2>1. PICK v : job' = [job EXCEPT ![t] = [op |-> "get", target |-> target, formatter |-> None,
                                            value |-> v]]
    BY <1>4 DEF Get
  <2>2. UNCHANGED <<ios, cache, todo, start, item, last>>
    BY <1>4 DEF Get
  <2>3. OthersStay(t) /\ CacheType'
    BY <2>1, <2>2, StayOthers
  <2>4. job'[t].op = "get"
    BY <2>1 DEF ShownInv, ReadInv, ReadTypes
  <2>5. ShownOf(t)'
    BY <1>1, <2>2, <2>4 DEF ShownInv, ShownOf, Locs, ItemShows, JobShows, LastShown, Idle
  <2> QED BY <1>1, <2>3, <2>5, OwnShown
<1>5. ASSUME NEW f \in Formats[t], Write(t, f)
      PROVE  ShownInv'
  <2>1. PICK pieces : todo' = [todo EXCEPT ![t] = pieces]
    BY <1>5 DEF Write
  <2>2. /\ start' = [start EXCEPT ![t] = ios[t]]
        /\ UNCHANGED <<ios, cache, item, job, last>>
    BY <1>5 DEF Write
  <2>3. OthersStay(t) /\ CacheType'
    BY <2>1, <2>2, StayOthers
  <2>4. start'[t] = ios[t]
    BY <2>2 DEF ShownInv, StreamInv, StreamTypes
  <2> QED BY <1>1, <2>2, <2>3, <2>4, NoItemShown DEF Idle
<1> QED BY <1>2, <1>3, <1>4, <1>5

LEMMA WriteTextShown ==
    ASSUME ShownInv, NEW t \in Threads, WriteText(t)
    PROVE  ShownInv'
<1> DEFINE w == IF ios[t].good THEN 0 ELSE ios[t].width
           i == WithWidth(ios[t], w)
<1> HIDE DEF w
<1>1. /\ item[t] = None /\ todo[t] # None /\ ios' = [ios EXCEPT ![t] = i]
      /\ todo' = [todo EXCEPT ![t] = Tail(todo[t])]
      /\ UNCHANGED <<cache, start, item, job, last>> /\ Next
  BY DEF WriteText, Next, Steps, w, WithWidth
<1>2. Locs(t) /\ JobShows(t) /\ IsStream(ios[t])
  BY DEF ShownInv, ShownOf, StreamInv, RestoreInv
<1>3. \A x \in Kept : i[x] = ios[t][x]
  BY <1>2, TouchedIsStream, Zenon
<1>4. i["loc"] = ios[t]["loc"]
  BY <1>3, FieldsKept
<1> HIDE DEF i
<1>5. ios'[t] = i
  BY <1>1 DEF ShownInv, StreamInv, StreamTypes
<1>6. OthersStay(t) /\ CacheType'
  BY <1>1, StayOthers
<1>7. job[t] = None
  BY <1>1, <1>2 DEF JobShows
<1> QED BY <1>1, <1>2, <1>4, <1>5, <1>6, <1>7, NoItemShown DEF Locs

LEMMA BeginItemShown ==
    ASSUME ShownInv, NEW t \in Threads, BeginItem(t)
    PROVE  ShownInv'
<1> DEFINE d == format_parser(ios[t])
           asked == d.own @@ ("precision" :> ios[t]["precision"]) @@ ("width" :> d.saved.width) @@ start[t]
<1>1. /\ item[t] = None /\ todo[t] # None /\ item' = [item EXCEPT ![t] = d]
      /\ UNCHANGED <<ios, cache, todo, start, job, last>> /\ Next
  BY DEF BeginItem, Next, Steps
<1>2. Locs(t) /\ JobShows(t) /\ LastShown(t) /\ IsStream(ios[t]) /\ IsStream(start[t])
      /\ \A x \in Kept : ios[t][x] = start[t][x]
  BY <1>1 DEF ShownInv, ShownOf, StreamInv, RestoreInv
<1>3. job[t] = None
  BY <1>1, <1>2 DEF JobShows
<1>4. d.own = NoEffect /\ d.saved = ios[t]
  BY DEF format_parser
<1> HIDE DEF d
<1>5. \A x \in Decisive : ios[t][x] = asked[x]
  <2>1. DOMAIN NoEffect = {}
    BY DEF NoEffect
  <2>2. /\ Decisive = Kept \cup {"width", "precision"}
        /\ "width" \notin Kept /\ "precision" \notin Kept
    BY FieldsKept DEF Decisive, StreamFields
  <2>3. asked["width"] = ios[t]["width"] /\ asked["precision"] = ios[t]["precision"]
    BY <1>4, <2>1 DEF @@, :>
  <2>4. \A x \in Kept : asked[x] = start[t][x]
    BY <1>2, <1>4, <2>1, <2>2, FieldsKept DEF @@, :>, IsStream
  <2> QED BY <1>2, <2>2, <2>3, <2>4
<1>6. item'[t] = d
  BY <1>1 DEF ShownInv, StreamInv, StreamTypes
<1>7. OthersStay(t) /\ CacheType'
  BY <1>1, StayOthers
<1>8. Locs(t)' /\ JobShows(t)' /\ LastShown(t)'
  BY <1>1, <1>2, <1>3 DEF Locs, JobShows, LastShown
<1>9. ItemShows(t)'
  BY <1>1, <1>3, <1>5, <1>6 DEF ItemShows
<1> QED BY <1>1, <1>7, <1>8, <1>9, OwnShown DEF ShownOf

\* The end of an item, of whatever kind.
LEMMA UnwindShown ==
    ASSUME ShownInv, NEW t \in Threads, Next, item[t] # None,
           ios' = [ios EXCEPT ![t] = restore(@, item[t])],
           item' = [item EXCEPT ![t] = None],
           todo' = [todo EXCEPT ![t] = None] \/ todo' = [todo EXCEPT ![t] = Tail(@)],
           (job[t] = None /\ job' = job) \/ job' = [job EXCEPT ![t] = None],
           UNCHANGED <<cache, start, last>>
    PROVE  ShownInv'
<1>1. \A x \in Kept : ios'[t][x] = start[t][x]
  BY UnwindInv DEF ShownInv
<1>2. ios'[t]["loc"] = start[t]["loc"]
  BY <1>1, FieldsKept
<1>3. LocOk(start[t]["loc"])
  BY DEF ShownInv, ShownOf, Locs
<1>4. item'[t] = None /\ job'[t] = None
  BY DEF ShownInv, StreamInv, StreamTypes, ReadInv, ReadTypes
<1>5. OthersStay(t) /\ CacheType'
  BY StayOthers
<1> QED BY <1>2, <1>3, <1>4, <1>5, NoItemShown

LEMMA EndItemShown ==
    ASSUME ShownInv, NEW t \in Threads, EndItem(t)
    PROVE  ShownInv'
<1>1. /\ Next /\ item[t] # None /\ job[t] = None
      /\ ios' = [ios EXCEPT ![t] = restore(@, item[t])] /\ item' = [item EXCEPT ![t] = None]
      /\ todo' = [todo EXCEPT ![t] = Tail(@)] /\ UNCHANGED <<cache, start, job, last>>
  BY DEF EndItem, Next, Steps
<1> QED BY <1>1, UnwindShown

\* The locale a flag sets has formatters of its own language.
LEMMA FlagLocale ==
    ASSUME NEW f, NEW saved, NEW i, IsStream(i), LocOk(i["loc"])
    PROVE  LocOk((flag_effect(f, saved) @@ i)["loc"])
<1>1. CASE sets_locale(f)
  <2> DEFINE l == generated(Word(f.value), saved.encoding)
  <2>1. LocOk(l)
    BY DEF LocOk, generated
  <2>2. flag_effect(f, saved) = ("loc" :> l)
    BY <1>1 DEF flag_effect
  <2> HIDE DEF l
  <2> QED BY <2>1, <2>2, LocIsStream
<1>2. CASE ~sets_locale(f)
  BY <1>2, EffectSettable, SetIsStream DEF flag_effect
<1> QED BY <1>1, <1>2

LEMMA SetFlagShown ==
    ASSUME ShownInv, NEW t \in Threads, SetFlag(t)
    PROVE  ShownInv'
<1> DEFINE f == Head(Head(todo[t]).flags)
           saved == IF item[t].restore_locale THEN item[t].saved_locale ELSE ios[t].loc
           effect == flag_effect(f, saved)
           d == flag_parsed(item[t], f, effect, saved)
           cs == (effect.loc.cache :> NewCache) @@ cache[t]
<1>1. item[t] # None /\ ~item[t].written /\ UNCHANGED <<start, last>> /\ Next
  BY DEF SetFlag, Next, Steps
<1>2. /\ Locs(t) /\ ItemShows(t) /\ LastShown(t) /\ IsStream(ios[t]) /\ IsStream(start[t])
      /\ IsParser(item[t])
  BY <1>1 DEF ShownInv, ShownOf, StreamInv, RestoreInv
<1>3. CASE sets_locale(f) /\ saved.encoding = ""
  <2>1. Unwind(t) /\ UNCHANGED cache
    BY <1>3 DEF SetFlag
  <2> QED BY <1>1, <2>1, UnwindShown DEF Unwind
<1>4. CASE ~(sets_locale(f) /\ saved.encoding = "")
  <2>1. /\ ios' = [ios EXCEPT ![t] = effect @@ ios[t]] /\ item' = [item EXCEPT ![t] = d]
        /\ todo' = [todo EXCEPT ![t] = flag_read(todo[t])] /\ job' = job
        /\ cache' = cache \/ cache' = [cache EXCEPT ![t] = cs]
    BY <1>4 DEF SetFlag, slot
  <2>2. /\ d # None /\ d.saved = item[t].saved /\ d.own = effect @@ item[t].own /\ d.written = item[t].written
    BY <1>2, FlagIsParsed
  <2>3. LocOk((effect @@ ios[t])["loc"])
    BY <1>2, FlagLocale DEF Locs
  <2>4. \A k \in DOMAIN cs : CacheOk(cs[k])
    <3> HIDE DEF effect
    <3>1. \A k \in DOMAIN cache[t] : CacheOk(cache[t][k])
      BY <1>2 DEF Locs
    <3> QED BY <3>1, NewCacheOk, CacheGrows
  <2> HIDE DEF effect, d, cs, f, saved
  <2>5. ios'[t] = effect @@ ios[t] /\ item'[t] = d /\ (cache'[t] = cache[t] \/ cache'[t] = cs)
    BY <2>1 DEF ShownInv, StreamInv, StreamTypes, CacheType
  <2>6. OthersStay(t) /\ CacheType'
    BY <1>1, <2>1, StayOthers
  <2>7. job[t] = None
    BY <1>1, <1>2 DEF ItemShows
  <2>8. Locs(t)' /\ JobShows(t)' /\ LastShown(t)'
    BY <1>1, <1>2, <2>1, <2>3, <2>4, <2>5, <2>7 DEF Locs, JobShows, LastShown
  <2>9. ItemShows(t)'
    <3> DEFINE width == "width" :> item[t].saved.width
               asked(i) == item[t].own @@ ("precision" :> i["precision"]) @@ width @@ start[t]
               said(i) == effect @@ item[t].own @@ ("precision" :> i["precision"]) @@ width @@ start[t]
    <3>1. \A x \in Decisive : ios[t][x] = asked(ios[t])[x]
      BY <1>1, <1>2 DEF ItemShows
    <3> HIDE DEF width
    <3>2. ASSUME NEW x \in Decisive
          PROVE  (effect @@ ios[t])[x] = said(effect @@ ios[t])[x]
      <4>1. x \in DOMAIN ios[t] /\ x \in DOMAIN start[t]
        BY <1>2 DEF IsStream, Decisive
      <4>2. CASE x \in DOMAIN effect
        BY <4>2 DEF @@
      <4>3. CASE x \notin DOMAIN effect /\ x = "precision"
        BY <3>1, <4>1, <4>3 DEF @@, :>
      <4>4. CASE x \notin DOMAIN effect /\ x # "precision"
        BY <3>1, <4>1, <4>4 DEF @@, :>
      <4> QED BY <4>2, <4>3, <4>4
    <3> QED BY <1>1, <2>1, <2>2, <2>5, <2>7, <3>2 DEF ItemShows, width
  <2> QED BY <1>1, <2>6, <2>8, <2>9, OwnShown DEF ShownOf
<1> QED BY <1>3, <1>4

LEMMA ShowParameterShown ==
    ASSUME ShownInv, NEW t \in Threads, ShowParameter(t)
    PROVE  ShownInv'
<1> DEFINE v == get(bound[t], item[t].position)
           d == [item[t] EXCEPT !.written = TRUE]
           width == "width" :> item[t].saved.width
           asked == item[t].own @@ ("precision" :> ios[t]["precision"]) @@ width @@ start[t]
<1>1. /\ item[t] # None /\ ~item[t].written /\ job[t] = None
      /\ UNCHANGED <<cache, start>> /\ Next
  BY DEF ShowParameter, Next, Steps
<1>2. /\ Locs(t) /\ ItemShows(t) /\ LastShown(t) /\ IsStream(ios[t]) /\ IsStream(start[t])
      /\ IsParser(item[t])
  BY <1>1 DEF ShownInv, ShownOf, StreamInv, RestoreInv
<1>3. CASE v.kind = "throws"
  <2>1. Unwind(t) /\ UNCHANGED last
    BY <1>3 DEF ShowParameter
  <2> QED BY <1>1, <2>1, UnwindShown DEF Unwind
<1>4. CASE v.kind # "throws"
  <2>1. item' = [item EXCEPT ![t] = d] /\ todo' = todo
    BY <1>4 DEF ShowParameter
  <2>2. d # None /\ d.written
    BY <1>2, ParameterIsWritten
  <2> HIDE DEF d, v
  <2>3. item'[t] = d /\ item'[t] # None /\ item'[t].written
    BY <2>1, <2>2 DEF ShownInv, StreamInv, StreamTypes
  <2>4. ItemShows(t)'
    BY <2>3 DEF ItemShows
  <2>5. CASE v.kind \in {"int", "float"}
    <3>1. Put(t, v, Padded(asked, Asked(asked, v))) /\ UNCHANGED ios
      BY <1>4, <2>5 DEF ShowParameter, v
    <3>2. \A x \in Decisive : asked[x] = ios[t][x]
      BY <1>1, <1>2 DEF ItemShows
    <3>3. Padded(asked, Asked(asked, v)) = Padded(ios[t], Asked(ios[t], v))
      BY <3>2, AskedDepends
    <3> HIDE DEF asked
    <3>4. JobShows(t)' /\ LastShown(t)'
      BY <1>1, <2>1, <2>3, <3>1, <3>3, BegunShows
    <3>5. Locs(t)'
      BY <1>1, <1>2, <2>1, <3>1 DEF Locs
    <3>6. \E j : job' = [job EXCEPT ![t] = j] /\ last' = last
      BY <3>1 DEF Put
    <3>7. OthersStay(t) /\ CacheType'
      BY <1>1, <2>1, <3>1, <3>6, StayOthers
    <3> QED BY <1>1, <2>4, <3>4, <3>5, <3>7, OwnShown DEF ShownOf
  <2>6. CASE v.kind \notin {"int", "float"}
    <3> DEFINE w == IF ios[t].good THEN 0 ELSE ios[t].width
               i == WithWidth(ios[t], w)
    <3> HIDE DEF w
    <3>1. ios' = [ios EXCEPT ![t] = i] /\ UNCHANGED <<job, last>>
      BY <1>4, <2>6 DEF ShowParameter, v, w, WithWidth
    <3>2. \A x \in Kept : i[x] = ios[t][x]
      BY <1>2, TouchedIsStream, Zenon
    <3>3. i["loc"] = ios[t]["loc"]
      BY <3>2, FieldsKept
    <3> HIDE DEF i
    <3>4. ios'[t] = i
      BY <3>1 DEF ShownInv, StreamInv, StreamTypes
    <3>5. OthersStay(t) /\ CacheType'
      BY <1>1, <2>1, <3>1, StayOthers
    <3>6. Locs(t)' /\ JobShows(t)' /\ LastShown(t)'
      BY <1>1, <1>2, <2>1, <3>1, <3>3, <3>4 DEF Locs, JobShows, LastShown
    <3> QED BY <1>1, <2>4, <3>5, <3>6, OwnShown DEF ShownOf
  <2> QED BY <2>5, <2>6
<1> QED BY <1>3, <1>4

LEMMA ShownNextInv == ShownInv /\ [Next]_vars => ShownInv'
<1> SUFFICES ASSUME ShownInv, [Next]_vars
             PROVE  ShownInv'
  OBVIOUS
<1>1. CASE UNCHANGED vars
  <2>1. CacheType'
    BY <1>1 DEF vars, ShownInv, CacheType
  <2>2. ASSUME NEW t \in Threads PROVE ShownOf(t)'
    BY <1>1 DEF vars, ShownInv, ShownOf, Locs, ItemShows, JobShows, LastShown, CacheOf
  <2> QED BY <2>1, <2>2, StreamNextInv, ReadNextInv DEF ShownInv
<1>2. CASE Next
  <2>1. PICK t \in Threads :
            \/ \E m \in Manipulators[t] : Manipulate(t, m)
            \/ \E v \in Values : PutValue(t, v)
            \/ \E target \in Targets[t] : Get(t, target)
            \/ \E f \in Formats[t] : Write(t, f)
            \/ Steps(t)
    BY <1>2 DEF Next
  <2>2. CASE Steps(t)
    BY <2>2, PutPlainShown, CreateShown, FormatShown, ParseShown, WriteTextShown, BeginItemShown,
       SetFlagShown, ShowParameterShown, EndItemShown DEF Steps
  <2> QED BY <2>1, <2>2, OutsideShown
<1> QED BY <1>1, <1>2

\* As long as every cache of formatters is of the language of its locale, numbers
\* and dates are written as their own stream, or format item, says: whatever
\* other threads, streams and items do with the formatters they share.
THEOREM AlwaysShownAsAsked ==
    ASSUME OwnCaches
    PROVE  Spec => []ShownAsAsked
<1>1. Init => ShownInv
  BY ShownInitInv
<1>2. ShownInv => ShownAsAsked
  BY DEF ShownInv, ShownOf, LastShown, ShownAsAsked
<1> QED BY <1>1, <1>2, ShownNextInv, PTL DEF Spec
====
