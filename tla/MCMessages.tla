----------------------------- MODULE MCMessages -----------------------------
(* Instances: two domains, two search paths, four folders; three encodings  *)
(* that give two letters beyond ASCII different codes, one of them lacking  *)
(* one.  Plural expressions are grown apart from the catalogs.              *)
EXTENDS Messages, PluralGrammar

e_acute == 301
sharp == 302

MCNormal == [n \in {"UTF-8", "utf8", "latin", "greek", "wide"} |-> IF n = "UTF-8" THEN "utf8" ELSE n]
MCTables ==
    [n \in {"utf8", "latin", "greek", "wide"} |->
        CASE n = "utf8"  -> (200 :> e_acute @@ 210 :> sharp)
          [] n = "latin" -> (200 :> sharp @@ 220 :> e_acute)
          [] n = "greek" -> (200 :> e_acute)
          [] n = "wide"  -> (e_acute :> e_acute @@ sharp :> sharp)]

a == 97
b == 98
c == 99

\* The table msgfmt writes: open addressing, in the order of the entries.
Place(mo_keys, size, table, i) ==
    LET h == Hash(mo_keys[i])
        incr == 1 + (h % (size - 2))
        pos(k) == 1 + (((h % size) + k * incr) % size)
        k == CHOOSE k \in 0 .. size - 1 : table[pos(k)] = 0
                                          /\ \A j \in 0 .. k - 1 : table[pos(j)] # 0
    IN [table EXCEPT ![pos(k)] = i]

HashTable(entries, size) ==
    IF size = 0 THEN <<>>
    ELSE FoldLeft(LAMBDA t, i : Place([j \in DOMAIN entries |-> CString(entries[j].key)], size, t, i),
                  [j \in 1 .. size |-> 0], [i \in DOMAIN entries |-> i])

\* A catalog in an encoding; mark tells its texts from those of another one.
Entry(enc, key, value) == [key |-> Encode(enc, key), value |-> Encode(enc, value)]
Catalog(enc, mark, plural, size) ==
    LET entries == <<Entry(enc, <<>>, <<mark>>),
                     Entry(enc, <<a>>, <<mark, e_acute>>),
                     Entry(enc, <<b, NUL, b, b>>, <<mark, NUL, NUL, sharp, mark>>),
                     Entry(enc, <<b, EOT, a>>, <<b, mark>>),
                     Entry(enc, <<b, a>>, <<a, mark>>),
                     Entry(enc, <<e_acute>>, <<sharp, mark>>)>>
    IN [valid |-> TRUE, charset |-> enc, plural |-> plural, entries |-> entries,
        hash |-> HashTable(entries, size)]

Broken == [valid |-> FALSE, charset |-> "", plural |-> FALSE, entries |-> <<>>, hash |-> <<>>]

\* No letter of its encoding has the code 210.
Undecodable ==
    [valid |-> TRUE, charset |-> "greek", plural |-> FALSE, hash |-> <<>>,
     entries |-> <<[key |-> <<>>, value |-> <<a>>], [key |-> <<a>>, value |-> <<a, 210>>]>>]

MCFolders == {<<"x", "Y", "v">>, <<"x", "", "v">>, <<"x", "Y", "">>, <<"x", "", "">>}
Slots(d) == {"p", "q"} \X MCFolders \X {d}
Mark(slot) == IF slot[1] = "p" THEN a ELSE c

Data(country, variant, enc) ==
    [language |-> "x", country |-> country, variant |-> variant, encoding |-> enc]
Info(enc, enc1, wide) ==
    messages_info(Data("Y", "v", enc), <<<<"d1", enc1>>, <<"d2">>>>, <<"p", "q">>, wide)
LatinKeys == messages_info(Data("Y", "", "utf8"), <<<<"d1", "latin">>, <<"d2", "latin">>>>, <<"q">>, FALSE)
Infos(enc1s) == {Info(enc, enc1, wide) : enc \in {"utf8", "greek"}, enc1 \in enc1s, wide \in BOOLEAN}

Ternary == <<"n", ">", "1", "?", "2", ":", "0">>
Unfinished == <<"n", "!">>

Setup(infos, fss, headers) ==
    {[info |-> i, files |-> f, header |-> h] : i \in infos, f \in fss, h \in headers}

\* Two catalogs for the first domain, anywhere, ...
TwoOf1 == {(s1 :> Catalog("utf8", a, TRUE, 7)) @@ (s2 :> Catalog("utf8", c, TRUE, 11)) :
              s1 \in Slots("d1"), s2 \in Slots("d1")}
\* ... one for each domain, in each encoding, with a hash table or without, ...
Here(d) == <<"q", <<"x", "Y", "">>, d>>
OneEach == {(Here("d1") :> Catalog(enc, a, TRUE, size)) @@ (Here(d2) :> Catalog("latin", b, TRUE, 7)) :
              enc \in {"utf8", "latin", "UTF-8"}, size \in {0, 7}, d2 \in {"d2", "d3"}}
\* ... one in a narrower encoding, ...
OneOf1 == {Here("d1") :> Catalog("greek", a, FALSE, 11)}
\* ... and one that can not be used, or only by narrow characters, beside,
\* before or behind a good one of either domain.
OneBad == {(s1 :> bad) @@ (s2 :> Catalog("utf8", c, FALSE, 7)) :
              bad \in {Broken, Undecodable}, s1 \in Slots("d1") \cup {Here("d2")}, s2 \in Slots("d1")}

MCSetups ==
    Setup({Info("utf8", "utf8", FALSE)}, TwoOf1, {Ternary})
    \cup Setup(Infos({"utf8", "latin"}) \cup {LatinKeys}, OneEach, {Ternary})
    \cup Setup(Infos({"utf8"}), OneOf1, {Ternary, Unfinished})
    \cup Setup({Info("utf8", "utf8", wide) : wide \in BOOLEAN}, OneBad, {Ternary})

Message(id, context, plural, n, copied) ==
    [id |-> id, context |-> context, plural |-> plural, n |-> n, copied |-> copied]
MCMessageSet ==
    {Message(id, ctx, NULL, 0, FALSE) : id \in {<<a>>, <<e_acute>>, <<sharp, a>>}, ctx \in {NULL, <<b>>}}
    \cup {Message(<<b>>, NULL, <<b, b>>, n, FALSE) : n \in {0, 1, 2}}
    \cup {Message(<<a>>, <<>>, <<>>, 2, TRUE)}

MCOperands == {Identity, Number(0), Number(10)}

MCInit == Init /\ expr = Identity
MCNext ==
    \/ expr = Identity /\ Next /\ UNCHANGED expr
    \/ phase = "off" /\ last = <<>> /\ Grow /\ UNCHANGED vars
MCSpec == MCInit /\ [][MCNext]_<<vars, expr>>
=============================================================================
