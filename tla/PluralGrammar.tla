---------------------------- MODULE PluralGrammar ----------------------------
(***************************************************************************)
(* What the plural expressions of catalogs are: the expressions of C, here *)
(* grown operator by operator, printed by the rules of precedence and      *)
(* given the value C gives them.  PluralForms must read what is printed    *)
(* and evaluate it to that value.                                          *)
(***************************************************************************)
EXTENDS PluralForms

CONSTANTS
    UnaryOperators, BinaryOperators,
    Operands,  \* the trees that are joined to the one grown
    MaxSize,   \* bound on the operators of a tree
    Counts     \* the values of n a tree is evaluated for

VARIABLE expr

\* Precedence: 7 for unary operators, 0 for the conditional.
Prec(e) ==
    CASE e[1] \in {"n", "number"} -> 8
      [] e[1] = "unary" -> 7
      [] e[1] = "binary" -> CHOOSE k \in 1 .. 6 :
            e[2] \in <<{"||"}, {"&&"}, {"==", "!="}, {"<", ">", "<=", ">="},
                       {"+", "-"}, {"*", "/", "%"}>>[k]
      [] e[1] = "if" -> 0

RECURSIVE Unparse(_, _), Size(_), CValue(_, _)

\* The tokens of a tree where operators of precedence min may stand, with the
\* parentheses it needs and no more.
Unparse(e, min) ==
    LET tokens ==
          CASE e[1] = "n" -> <<"n">>
            [] e[1] = "number" -> <<ToString(e[2])>>
            [] e[1] = "unary" -> <<e[2]>> \o Unparse(e[3], 7)
            [] e[1] = "binary" -> Unparse(e[3], Prec(e)) \o <<e[2]>> \o Unparse(e[4], Prec(e) + 1)
            [] e[1] = "if" -> Unparse(e[2], 1) \o <<"?">> \o Unparse(e[3], 0) \o <<":">>
                              \o Unparse(e[4], 0)
    IN IF Prec(e) < min THEN <<"(">> \o tokens \o <<")">> ELSE tokens

\* The characters of a token.
Spell(t) ==
    CASE t = "&&" -> <<"&", "&">> [] t = "||" -> <<"|", "|">> [] t = "<=" -> <<"<", "=">>
      [] t = ">=" -> <<">", "=">> [] t = "==" -> <<"=", "=">> [] t = "!=" -> <<"!", "=">>
      [] t = "10" -> <<"1", "0">> [] OTHER -> <<t>>

Tight(tokens) == FlattenSeq([i \in DOMAIN tokens |-> Spell(tokens[i])])
Spaced(tokens) == FlattenSeq([i \in DOMAIN tokens |-> Append(Spell(tokens[i]), " ")])

Size(e) ==
    CASE e[1] \in {"n", "number"} -> 0
      [] e[1] = "unary" -> 1 + Size(e[3])
      [] e[1] = "binary" -> 1 + Size(e[3]) + Size(e[4])
      [] e[1] = "if" -> 1 + Size(e[2]) + Size(e[3]) + Size(e[4])

\* Truncating division: |r| < |b|, and r is zero or has the sign of a.
Divided(op, a, b) ==
    LET abs(x) == IF x < 0 THEN -x ELSE x
        qr == {qr \in (-abs(a) .. abs(a)) \X (1 - abs(b) .. abs(b) - 1) :
                 /\ a = b * qr[1] + qr[2]
                 /\ qr[2] = 0 \/ (qr[2] < 0) = (a < 0)}
    IN {IF op = "/" THEN x[1] ELSE x[2] : x \in qr}

\* {v} for the value C gives e, {} where it gives none: a division by zero in
\* an operand that is evaluated.  && and || may leave the second one out.
CValue(e, n) ==
    CASE e[1] = "n" -> {n}
      [] e[1] = "number" -> {e[2]}
      [] e[1] = "unary" -> {IF e[2] = "!" THEN Bool(v = 0) ELSE -v : v \in CValue(e[3], n)}
      [] e[1] = "if" -> UNION {CValue(IF c # 0 THEN e[3] ELSE e[4], n) : c \in CValue(e[2], n)}
      [] e[1] = "binary" /\ e[2] \in {"&&", "||"} ->
            UNION {IF (a # 0) = (e[2] = "||") THEN {Bool(a # 0)}
                   ELSE {Bool(b # 0) : b \in CValue(e[4], n)} : a \in CValue(e[3], n)}
      [] e[1] = "binary" /\ e[2] \in {"/", "%"} ->
            UNION {UNION {Divided(e[2], a, b) : b \in CValue(e[4], n)} : a \in CValue(e[3], n)}
      [] OTHER -> UNION {{Apply2(e[2], a, b) : b \in CValue(e[4], n)} : a \in CValue(e[3], n)}

Grow ==
    /\ expr' \in {Unary(op, expr) : op \in UnaryOperators}
                 \cup UNION {{Binary(op, expr, x), Binary(op, x, expr)} :
                             op \in BinaryOperators, x \in Operands}
                 \cup UNION {{Conditional(expr, x, Identity), Conditional(x, expr, Identity),
                              Conditional(Identity, x, expr)} : x \in Operands}
    /\ Size(expr') <= MaxSize

-----------------------------------------------------------------------------
\* compile gives the tree back that was printed, with or without blanks.
CompileReadsExpression ==
    LET tokens == Unparse(expr, 0)
    IN compile(Tight(tokens)) = expr /\ compile(Spaced(tokens)) = expr

\* An expression that lost a token is rejected, unless what is left is the
\* print of a tree, up to parentheses it does not need.
AcceptsOnlyExpressions ==
    LET tokens == Unparse(expr, 0)
        Bare(ts) == SelectSeq(ts, LAMBDA t : t \notin {"(", ")"})
        Balanced(ts) == Len(SelectSeq(ts, LAMBDA t : t = "("))
                        = Len(SelectSeq(ts, LAMBDA t : t = ")"))
    IN \A i \in DOMAIN tokens :
          LET left == RemoveAt(tokens, i)
              e == compile(Spaced(left))
          IN e # Null => Balanced(left) /\ Bare(Unparse(e, 0)) = Bare(left)

\* Evaluating both operands of every operator, and taking the quotient and the
\* remainder of zero for zero, gives the value of C wherever C gives one.
EagerAgreesWithC == \A n \in Counts : CValue(expr, n) \subseteq {Eval(expr, n)}

\* The plural expressions of catalogs are C's: read, rejected and evaluated as
\* the three say.
ExpressionsAreExact == CompileReadsExpression /\ AcceptsOnlyExpressions /\ EagerAgreesWithC
=============================================================================
