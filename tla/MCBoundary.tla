------------------------------ MODULE MCBoundary ------------------------------
EXTENDS BoundaryIndex, TLC

\* Characters of one or two units, one outside the BMP, one invalid.
a1 == [w |-> 1, u |-> 1]
a2 == [w |-> 2, u |-> 1]
a4 == [w |-> 4, u |-> 2]
w1 == [w |-> 1, u |-> 2]
bad == [w |-> 1, u |-> 0]

At1(p, s) == [pos |-> p, status |-> s]
Text(type, size, direct, text, breaks) ==
    [type |-> type, size |-> size, direct |-> direct, text |-> text, breaks |-> breaks]

\* In memory that ICU reads itself: none, one, or three break points with
\* every choice of rules for the last ones.
DirectTexts ==
    {Text("word", 2, TRUE, <<>>, <<>>), Text("character", 2, TRUE, <<a1>>, <<At1(1, {})>>)} \cup
    {Text("sentence", 1, TRUE, <<a1, a2>>, <<At1(1, r), At1(3, q)>>) :
        r \in {{"term"}, {"sep"}, {}}, q \in {{"term"}, {"sep"}}} \cup
    {Text("line", 2, TRUE, <<a1, a1, a1>>, <<At1(1, {"term"}), At1(2, r), At1(3, {"other"})>>) :
        r \in {{"sep"}, {"term", "sep"}}}

\* Converted for ICU: offsets are carried back to the source.
ConvertedTexts ==
    {Text("word", 1, FALSE, <<a2, a4, a1>>, <<At1(1, {"term"}), At1(4, {"sep"})>>),
     Text("word", 1, FALSE, <<a1, bad, a2, a1>>, <<At1(1, {"sep"}), At1(2, {"term"}), At1(3, {"term"})>>),
     Text("word", 4, FALSE, <<w1, a1, w1>>, <<At1(2, {"term"}), At1(3, {"sep"}), At1(5, {"term"})>>)}

MCRemapped == {Text("character", 2, TRUE, <<a1>>, <<At1(1, {})>>)}
MCAnalyses == DirectTexts \cup ConvertedTexts
=============================================================================
