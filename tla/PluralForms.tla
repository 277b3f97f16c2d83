----------------------------- MODULE PluralForms -----------------------------
(***************************************************************************)
(* The plural expression of a message catalog (src/src/shared/             *)
(* mo_lambda.cpp): its text is cut into tokens, parsed by recursive        *)
(* descent into an expression tree and evaluated for a count.  A text is a *)
(* sequence of characters; a tree is a tuple whose head tells its kind.    *)
(***************************************************************************)
EXTENDS Integers, SequencesExt

Null == <<"null">>                          \* the null expr_ptr
Identity == <<"n">>
Number(v) == <<"number", v>>
Unary(op, e) == <<"unary", op, e>>
Binary(op, l, r) == <<"binary", op, l, r>>
Conditional(c, t, f) == <<"if", c, t, f>>

-----------------------------------------------------------------------------
(* tokenizer *)

Blanks == {" ", "\t", "\n", "\r"}
DigitValue == [d \in {"0", "1", "2", "3"} |->
                 CASE d = "0" -> 0 [] d = "1" -> 1 [] d = "2" -> 2 [] d = "3" -> 3]
Digits == DOMAIN DigitValue
DoubleTokens == {"&&", "||", "<=", ">=", "==", "!="}

\* A token is its text; a number carries its value.
Token(t) == [token |-> t, value |-> 0]

\* The token at position p, which is not blank, and the position behind it.
\* The two character operators are tried before the single characters.
step(text, p) ==
    IF p < Len(text) /\ (text[p] \o text[p + 1]) \in DoubleTokens
    THEN [ahead |-> Token(text[p] \o text[p + 1]), to |-> p + 2]
    ELSE IF text[p] \in Digits
    THEN LET last == CHOOSE i \in p .. Len(text) :
                        /\ \A j \in p .. i : text[j] \in Digits
                        /\ i < Len(text) => text[i + 1] \notin Digits
         IN [ahead |-> [token |-> "NUM",
                        value |-> FoldLeft(LAMBDA v, d : 10 * v + DigitValue[d],
                                           0, SubSeq(text, p, last))],
             to    |-> last + 1]
    ELSE [ahead |-> Token(text[p]), to |-> p + 1]

\* All tokens that step() finds, one after the other.
Tokens(text) ==
    LET from[p \in 1 .. Len(text) + 1] ==
          IF p > Len(text) THEN <<>>
          ELSE IF text[p] \in Blanks THEN from[p + 1]
          ELSE <<step(text, p).ahead>> \o from[step(text, p).to]
    IN from[1]

\* tokenizer::next; get() also goes on to the tail, and stays at the end.
next(ts) == IF ts = <<>> THEN "END" ELSE Head(ts).token
Advance(ts) == IF ts = <<>> THEN ts ELSE Tail(ts)

-----------------------------------------------------------------------------
(* parser: every function gives the set of one pair of a tree and the tokens  *)
(* that it left, or the empty set where the code returns null.               *)

\* Faulty: addition binds as tight as multiplication.
level_Flat == <<{"||"}, {"&&"}, {"==", "!="}, {"<", ">", ">=", "<="}, {},
                {"*", "/", "%", "+", "-"}>>

\* level1 (binds least) to level6.
level == <<{"||"}, {"&&"}, {"==", "!="}, {"<", ">", ">=", "<="}, {"+", "-"},
           {"*", "/", "%"}>>

Parsed(e, ts) == [e |-> e, rest |-> ts]

\* What is parsed behind the next token, if that is t.
Expect(t, ts) == IF next(ts) = t THEN {Advance(ts)} ELSE {}

RECURSIVE cond_expr(_), unary_expr(_), Level(_, _), Chain(_, _)

value_expr(ts) ==
    IF next(ts) = "(" THEN
        UNION {{Parsed(r.e, rest) : rest \in Expect(")", r.rest)} : r \in cond_expr(Advance(ts))}
    ELSE IF next(ts) = "NUM" THEN {Parsed(Number(Head(ts).value), Advance(ts))}
    ELSE IF next(ts) = "n" THEN {Parsed(Identity, Advance(ts))}
    ELSE {}

unary_expr(ts) ==
    IF next(ts) \in {"!", "-"}
    THEN {Parsed(Unary(next(ts), r.e), r.rest) : r \in unary_expr(Advance(ts))}
    ELSE value_expr(ts)

\* l1 .. l6: an operand of the next level, then more of them, joined from the
\* left while an operator of this level is ahead.
Level(k, ts) ==
    IF k = 7 THEN unary_expr(ts) ELSE UNION {Chain(k, l) : l \in Level(k + 1, ts)}

Chain(k, left) ==
    IF next(left.rest) \notin level[k] THEN {left}
    ELSE UNION {Chain(k, Parsed(Binary(next(left.rest), left.e, r.e), r.rest)) :
                r \in Level(k + 1, Advance(left.rest))}

\* c ? t : f, and c alone if no question mark follows it.
cond_expr(ts) ==
    LET Rest(c) == UNION {{Parsed(Conditional(c.e, t.e, f.e), f.rest) :
                              f \in UNION {cond_expr(u) : u \in Expect(":", t.rest)}} :
                          t \in cond_expr(Advance(c.rest))}
    IN UNION {IF next(c.rest) # "?" THEN {c} ELSE Rest(c) : c \in Level(1, ts)}

Only(trees) == IF trees = {} THEN Null ELSE CHOOSE e \in trees : TRUE

\* parser::compile
compile(text) == Only({r.e : r \in {r \in cond_expr(Tokens(text)) : next(r.rest) = "END"}})

-----------------------------------------------------------------------------
(* evaluation *)

Bool(b) == IF b THEN 1 ELSE 0

\* C++ division rounds towards zero.
Quotient(a, b) ==
    LET abs(x) == IF x < 0 THEN -x ELSE x
        q == abs(a) \div abs(b)
    IN IF (a < 0) = (b < 0) THEN q ELSE -q
Remainder(a, b) == a - b * Quotient(a, b)

Apply1(op, v) == IF op = "!" THEN Bool(v = 0) ELSE -v

\* bin_factory; an operation on a zero second operand of / and % gives zero.
\* Precondition: no value leaves the range of long long.
Apply2(op, a, b) ==
    CASE op = "/" -> IF b = 0 THEN 0 ELSE Quotient(a, b)
      [] op = "%" -> IF b = 0 THEN 0 ELSE Remainder(a, b)
      [] op = "*" -> a * b
      [] op = "+" -> a + b
      [] op = "-" -> a - b
      [] op = ">" -> Bool(a > b)
      [] op = "<" -> Bool(a < b)
      [] op = ">=" -> Bool(a >= b)
      [] op = "<=" -> Bool(a <= b)
      [] op = "==" -> Bool(a = b)
      [] op = "!=" -> Bool(a # b)
      [] op = "&&" -> Bool(a # 0 /\ b # 0)
      [] op = "||" -> Bool(a # 0 \/ b # 0)

RECURSIVE Eval(_, _)
\* expr::operator(): both operands of every binary operator are evaluated.
Eval(e, n) ==
    CASE e[1] = "n" -> n
      [] e[1] = "number" -> e[2]
      [] e[1] = "unary" -> Apply1(e[2], Eval(e[3], n))
      [] e[1] = "binary" -> Apply2(e[2], Eval(e[3], n), Eval(e[4], n))
      [] e[1] = "if" -> IF Eval(e[2], n) # 0 THEN Eval(e[3], n) ELSE Eval(e[4], n)
=============================================================================
