---------------------------- MODULE MCFormatting ----------------------------
(* Three instances, one of which is chosen in the beginning (language):      *)
(* two threads that write and read, three streams that are copied, and the   *)
(* trees of format strings and strftime patterns.                            *)
EXTENDS Formatting, IosInfo

VARIABLES tree, language

Keys == {<<"k">>}
Words == {<<"{", "'">>}
QuotedTexts == {<<>>, <<"'", "}", ",">>, <<"x", "'">>}
Directives == {<<"text", "x">>, <<"text", "'">>, <<"text", "/">>} \cup ({"field"} \X {"d", "D", "c", "%"})
S == INSTANCE FormatStrings WITH Literals <- {"x", "{", "}", "'", ","}, MaxPieces <- 3, MaxFlags <- 2
StringsAreRead == S!StringsAreRead

English == install_formatting_facets(Classic, "en", "utf8")
Hebrew == install_formatting_facets(Classic, "he", "utf8")
Posix == create_formatting(Classic, "posix", "en", "utf8")
MCLocales == <<{English, Hebrew, Posix}, {English}>>

MCManipulators ==
    <<{display("number") @@ ("precision" :> 1) @@ ("width" :> 4),
       display("number") @@ ("base" :> "hex"), display("number") @@ ("float" :> "scientific"),
       display("currency") @@ ("width" :> 3), display("date") @@ gmt, ftime("") @@ ("adjust" :> "left"),
       display("spellout")},
      {display("number") @@ ("float" :> "fixed") @@ ("precision" :> 2),
       display("datetime") @@ date_style("full")}>>

MCValues == {[kind |-> "int"], [kind |-> "float"]}

\* {1,num=fix,p=2}{2,dt=l,tz=EET}x{1,per,w=4,left}
Mixed == <<"{", "1", ",", "num", "=", "fix", ",", "p", "=", "2", "}",
           "{", "2", ",", "dt", "=", "l", ",", "tz", "=", "EET", "}", "x",
           "{", "1", ",", "per", ",", "w", "=", "4", ",", "left", "}">>
\* {3}{0,cur=iso}{2,ftime='d',locale=he}{1,num}
Mixed2 == <<"{", "3", "}", "{", "0", ",", "cur", "=", "iso", "}",
            "{", "2", ",", "ftime", "=", "'", "d", "'", ",", "locale", "=", "he", "}", "{", "1", ",", "num", "}">>
\* {1,spell}{1,num}: the first item fails
Fails == <<"{", "1", ",", "spell", "}", "{", "1", ",", "num", "}">>
MCFormats ==
    <<{[text |-> Mixed, message |-> None, params |-> <<[kind |-> "float"], [kind |-> "int"]>>],
       [text |-> None, message |-> [l \in {"C", "en", "he"} |-> IF l = "he" THEN Mixed ELSE Mixed2],
        params |-> <<[kind |-> "int"], [kind |-> "int"], [kind |-> "string"]>>],
       [text |-> Mixed2, message |-> None,
        params |-> <<[kind |-> "int"], [kind |-> "throws"]>>],
       [text |-> Fails, message |-> None, params |-> <<[kind |-> "int"]>>]},
      {}>>
MCInputs == <<{<<" ", "n", "o", "\n", "p">>, <<"n", "o", "p", "q">>}, {<<>>}>>
MCTargets == <<{"unsigned_short", "unsigned_int", "long", "unsigned_long", "double"}, {}>>
MCNumbers == {-33, -9, -1, 0, 3, 4, 7, 15, 16, 31, 32, 63}

FormattingParts == <<tree, language, infoVars, vars>>
MCInit ==
    /\ tree = <<>> /\ language \in {"format", "strftime", "none", "copies"}
    /\ IosInfoInit
    /\ Init /\ (language # "none" => ios[1].loc = English /\ input[1] = <<"n", "o", "p", "q">>)
MCNext ==
    \/ language = "none" /\ Next /\ UNCHANGED <<tree, language, infoVars>>
    \/ language = "copies" /\ IosInfoNext /\ UNCHANGED <<tree, language, vars>>
    \/ S!StringsNext /\ UNCHANGED <<vars, infoVars>>
MCSpec == MCInit /\ [][MCNext]_FormattingParts
=============================================================================
