----------------------------- MODULE ExprParse -------------------------------
(***************************************************************************)
(* The expression parser of parser.c: a Pratt parser over the tokens of one *)
(* expression, ended by EOF.  A tree node is a record whose field ty is     *)
(* filled by the type checker later.  The parser's state s is the position  *)
(* of the next token and the number of errors reported so far.              *)
(*                                                                         *)
(* Literals, names, prefix, postfix and binary operators, assignments, ?:,  *)
(* comma, subscripts, casts and sizeof; calls, members, strings, compound   *)
(* literals and _Alignof are left out.  A type name is one token here.      *)
(***************************************************************************)
EXTENDS CType, Sequences

Tok(k, v) == [kind |-> k, val |-> v]
P(k) == Tok(k, 0)
EOF == P("EOF")

LitNode(v, suffix) == [k |-> "lit", val |-> v, suf |-> suffix, ty |-> NoType]
IdentNode(x) == [k |-> "ident", name |-> x, ty |-> NoType]
UnopNode(o, e) == [k |-> "unop", op |-> o, arg |-> e, ty |-> NoType]
PostfixNode(o, e) == [k |-> "postfix", op |-> o, arg |-> e, ty |-> NoType]
BinopNode(o, x, y) == [k |-> "binop", op |-> o, l |-> x, r |-> y, ty |-> NoType]
AssignNode(o, x, y) == [k |-> "assign", op |-> o, l |-> x, r |-> y, ty |-> NoType]
TernaryNode(x, y, z) == [k |-> "ternary", c |-> x, t |-> y, f |-> z, ty |-> NoType]
CastNode(t, e) == [k |-> "cast", to |-> t, arg |-> e, ty |-> NoType]
CommaNode(x, y) == [k |-> "comma", l |-> x, r |-> y, ty |-> NoType]
SubscriptNode(x, y) == [k |-> "subscript", l |-> x, r |-> y, ty |-> NoType]
SizeofExprNode(e) == [k |-> "sizeof_expr", arg |-> e, ty |-> NoType]
SizeofTypeNode(t) == [k |-> "sizeof_type", to |-> t, ty |-> NoType]

CompoundOps ==
  {"+=", "-=", "*=", "/=", "%=", "&=", "|=", "^=", "<<=", ">>="}
AssignOps == CompoundOps \union {"="}

tok_lbp(k) ==
  CASE k = "," -> 10
    [] k \in AssignOps -> 20
    [] k = "?" -> 30
    [] k = "||" -> 40
    [] k = "&&" -> 50
    [] k = "|" -> 60
    [] k = "^" -> 70
    [] k = "&" -> 80
    [] k \in {"==", "!="} -> 90
    [] k \in {"<", "<=", ">", ">="} -> 100
    [] k \in {"<<", ">>"} -> 110
    [] k \in {"+", "-"} -> 120
    [] k \in {"*", "/", "%"} -> 130
    [] k \in {"(", "[", ".", "->", "++", "--"} -> 150
    [] OTHER -> 0

\* A mutation: assignment groups to the left.
AssignGroupsLeft(k) == tok_lbp(k)

\* What the right side of an assignment may hold: another assignment.
AssignRightBp(k) == tok_lbp(k) - 1

BinaryOps ==
  {"+", "-", "*", "/", "%", "&", "|", "^", "&&", "||", "==", "!=", "<", "<=",
   ">", ">=", "<<", ">>"}

PrefixOps == {"-", "!", "~", "&", "*", "++", "--"}

\* peek and advance: the lexer answers EOF for ever once it is reached.
peek(ts, s) == ts[s.p]
advance(ts, s) == IF s.p < Len(ts) THEN [s EXCEPT !.p = @ + 1] ELSE s
Error(s) == [s EXCEPT !.errs = @ + 1]

\* expect: a wrong token is reported and skipped.
expect(ts, s, k) ==
  IF peek(ts, s).kind = k THEN advance(ts, s) ELSE advance(ts, Error(s))

Parsed(n, s) == [n |-> n, s |-> s]

RECURSIVE parse_expr(_, _, _), nud(_, _, _), led(_, _, _, _), Climb(_, _, _, _)

\* A prefix operator applied to what binds tighter than it.
Prefix(ts, s, Node(_)) ==
  LET e == parse_expr(ts, s, 140) IN Parsed(Node(e.n), e.s)

\* ( expression )
Parenthesized(ts, s, Node(_)) ==
  LET e == parse_expr(ts, s, 0) IN Parsed(Node(e.n), expect(ts, e.s, ")"))

Itself(n) == n

nudSizeof(ts, s) ==
  LET in == advance(ts, s)
  IN IF peek(ts, s).kind # "(" THEN Prefix(ts, s, SizeofExprNode)
     ELSE IF peek(ts, in).kind = "type"
     THEN Parsed(SizeofTypeNode(peek(ts, in).val),
                 expect(ts, advance(ts, in), ")"))
     ELSE Parenthesized(ts, in, SizeofExprNode)

nudParen(ts, s) ==
  LET t == peek(ts, s)
      Cast(e) == CastNode(t.val, e)
  IN IF t.kind = "type"
     THEN Prefix(ts, expect(ts, advance(ts, s), ")"), Cast)
     ELSE Parenthesized(ts, s, Itself)

\* nud: token t, already consumed, starts an expression.  Unary + leaves no
\* node behind; an unexpected token is reported and stands for 0.
nud(ts, s, t) ==
  LET Unop(e) == UnopNode(t.kind, e)
  IN CASE t.kind = "int" -> Parsed(LitNode(t.val[1], t.val[2]), s)
       [] t.kind = "name" -> Parsed(IdentNode(t.val), s)
       [] t.kind \in PrefixOps -> Prefix(ts, s, Unop)
       [] t.kind = "+" -> Prefix(ts, s, Itself)
       [] t.kind = "sizeof" -> nudSizeof(ts, s)
       [] t.kind = "(" -> nudParen(ts, s)
       [] OTHER -> Parsed(LitNode(0, ""), Error(s))

ledTernary(ts, left, s) ==
  LET then == parse_expr(ts, s, 0)
      else == parse_expr(ts, expect(ts, then.s, ":"), tok_lbp("?") - 1)
  IN Parsed(TernaryNode(left, then.n, else.n), else.s)

\* led: token t, already consumed, continues the expression left.
led(ts, left, s, t) ==
  LET k == t.kind
      Right(bp) == parse_expr(ts, s, bp)
  IN CASE k \in BinaryOps ->
            LET e == Right(tok_lbp(k)) IN Parsed(BinopNode(k, left, e.n), e.s)
       [] k \in AssignOps ->
            LET e == Right(AssignRightBp(k))
            IN Parsed(AssignNode(k, left, e.n), e.s)
       [] k = "?" -> ledTernary(ts, left, s)
       [] k = "[" ->
            LET e == Right(0)
            IN Parsed(SubscriptNode(left, e.n), expect(ts, e.s, "]"))
       [] k \in {"++", "--"} -> Parsed(PostfixNode(k, left), s)
       [] k = "," ->
            LET e == Right(tok_lbp(",")) IN Parsed(CommaNode(left, e.n), e.s)
       [] OTHER -> Parsed(left, Error(s))

\* The loop of parse_expr, with left parsed so far.
Climb(ts, left, s, min_bp) ==
  LET t == peek(ts, s)
  IN IF tok_lbp(t.kind) <= min_bp THEN Parsed(left, s)
     ELSE LET e == led(ts, left, advance(ts, s), t)
          IN Climb(ts, e.n, e.s, min_bp)

parse_expr(ts, s, min_bp) ==
  LET e == nud(ts, advance(ts, s), peek(ts, s)) IN Climb(ts, e.n, e.s, min_bp)

-----------------------------------------------------------------------------
(* The expression grammar of C99 6.5, as the way to write a tree down with  *)
(* no parenthesis too many.                                                 *)

BinaryLevels ==
  << {"||"}, {"&&"}, {"|"}, {"^"}, {"&"}, {"==", "!="}, {"<", "<=", ">", ">="},
     {"<<", ">>"}, {"+", "-"}, {"*", "/", "%"} >>

\* comma 0, assignment 1, conditional 2, then the binary levels from 3,
\* cast 13, unary 14, postfix 15, primary 16
Level(n) ==
  CASE n.k = "comma" -> 0
    [] n.k = "assign" -> 1
    [] n.k = "ternary" -> 2
    [] n.k = "binop" ->
         2 + CHOOSE i \in 1 .. Len(BinaryLevels) : n.op \in BinaryLevels[i]
    [] n.k = "cast" -> 13
    [] n.k \in {"unop", "sizeof_expr", "sizeof_type"} -> 14
    [] n.k \in {"postfix", "subscript"} -> 15
    [] OTHER -> 16

RECURSIVE Written(_, _)

Body(n) ==
  CASE n.k = "lit" -> <<Tok("int", <<n.val, n.suf>>)>>
    [] n.k = "ident" -> <<Tok("name", n.name)>>
    [] n.k = "unop" ->
         <<P(n.op)>> \o Written(n.arg, IF n.op \in {"++", "--"} THEN 14 ELSE 13)
    [] n.k = "postfix" -> Written(n.arg, 15) \o <<P(n.op)>>
    [] n.k = "binop" ->
         Written(n.l, Level(n)) \o <<P(n.op)>> \o Written(n.r, Level(n) + 1)
    [] n.k = "assign" -> Written(n.l, 14) \o <<P(n.op)>> \o Written(n.r, 1)
    [] n.k = "ternary" ->
         Written(n.c, 3) \o <<P("?")>> \o Written(n.t, 0) \o <<P(":")>>
           \o Written(n.f, 2)
    [] n.k = "cast" ->
         <<P("("), Tok("type", n.to), P(")")>> \o Written(n.arg, 13)
    [] n.k = "comma" -> Written(n.l, 0) \o <<P(",")>> \o Written(n.r, 1)
    [] n.k = "subscript" ->
         Written(n.l, 15) \o <<P("[")>> \o Written(n.r, 0) \o <<P("]")>>
    [] n.k = "sizeof_expr" -> <<P("sizeof")>> \o Written(n.arg, 14)
    [] n.k = "sizeof_type" ->
         <<P("sizeof"), P("("), Tok("type", n.to), P(")")>>

\* Tree n where the grammar asks for level at least.
Written(n, level) ==
  IF Level(n) >= level THEN Body(n) ELSE <<P("(")>> \o Body(n) \o <<P(")")>>
=============================================================================
