------------------------------- MODULE MCExpr --------------------------------
(* Expressions for Expr, on a machine with 2-bit char, 4-bit int and 8-bit  *)
(* long and registers: every operator on every pair of types, two levels    *)
(* deep for the operators whose operand form matters, every assignment, the *)
(* casts, pointers into an array, and side effects behind && || ?: and ,.   *)
(* The trees under Syntax, all pairs of operators, are only parsed, whole   *)
(* and with one token left out.                                             *)
EXTENDS Expr

MCBits == 1 :> 2 @@ 2 :> 3 @@ 4 :> 4 @@ 8 :> 8
MCVarType ==
  "c" :> TChar @@ "i" :> TInt @@ "u" :> TUInt @@ "l" :> TLong @@ "m" :> TULong
  @@ "a" :> ArrayOf(TInt, 2) @@ "p" :> type_pointer(TInt)
MCAddrOf ==
  "c" :> 8 @@ "i" :> 12 @@ "u" :> 16 @@ "l" :> 24 @@ "m" :> 32 @@ "a" :> 96
  @@ "p" :> 48

MCStarts ==
  8 :> {0, 1, 2, 3} @@ 12 :> {0, 2, 7, 8, 15} @@ 16 :> {0, 3, 9, 15}
  @@ 24 :> {2, 100, 128, 255} @@ 32 :> {1, 20, 200} @@ 96 :> {5} @@ 100 :> {14}
  @@ 48 :> {96, 100}

V(x) == IdentNode(x)
L(v) == LitNode(v, "")
B(o, x, y) == BinopNode(o, x, y)

Scalars == {"c", "i", "u", "l", "m"}

Pairs == {B(o, V(x), V(y)) : o \in BinaryOps, x \in Scalars, y \in Scalars}

Inner == {"+", "*", "&", ">>", "<", "-"}
Outer == {"+", "/", ">>", "<", "==", "||"}
Triples == {<<"c", "i", "u">>, <<"u", "u", "l">>, <<"u", "i", "m">>, <<"c", "c", "i">>}
Nested ==
  {B(o1, B(o2, V(t[1]), V(t[2])), V(t[3])) : o1 \in Outer, o2 \in Inner, t \in Triples}
  \union
  {B(o1, V(t[3]), B(o2, V(t[1]), V(t[2])))
     : o1 \in Outer, o2 \in {"+", "-", "<"}, t \in Triples}

Assigned ==
  {AssignNode(o, V(x), V(y))
     : o \in AssignOps, x \in Scalars, y \in {"c", "i", "u", "l"}}
  \union {AssignNode("=", V(x), B("+", V("u"), V("i"))) : x \in {"c", "u", "l", "m"}}

Types == {TChar, TInt, TUInt, TLong, TULong, Basic("ushort"), Basic("uchar")}
OneOperand ==
  {UnopNode(o, V(x)) : o \in {"-", "!", "~", "++", "--"}, x \in Scalars}
  \union {PostfixNode(o, V(x)) : o \in {"++", "--"}, x \in Scalars}
  \union {CastNode(t, V(x)) : t \in Types, x \in Scalars}
  \union {CastNode(t, CastNode(s, V(x))) : s \in Types, t \in Types, x \in Scalars}
  \union {CastNode(t, B("*", V("u"), V("u"))) : t \in Types}
  \union {CastNode(t, UnopNode("++", V(x))) : t \in Types, x \in Scalars}

Branches ==
  {TernaryNode(V("c"), V(x), V(y)) : x \in Scalars, y \in Scalars}
  \union {B(o, V("c"), AssignNode("=", V("i"), V("l"))) : o \in {"&&", "||"}}
  \union {CommaNode(PostfixNode("++", V("u")), B(o, V("u"), V("i")))
            : o \in {"+", "<", "&&"}}
  \union {TernaryNode(B(o, V("i"), UnopNode("--", V("u"))), PostfixNode("++", V("c")),
                      AssignNode("+=", V("l"), V("c"))) : o \in {"&&", "||"}}

Deref(e) == UnopNode("*", e)
PointerTrees ==
  {SubscriptNode(V("a"), V("c")), SubscriptNode(V("p"), V("c")), Deref(V("a")),
   AssignNode("=", SubscriptNode(V("a"), V("c")), V("i")),
   Deref(B("+", V("p"), V("c"))), Deref(B("+", V("c"), V("p"))),
   Deref(B("-", V("p"), V("c"))), AssignNode("+=", V("p"), V("c")),
   AssignNode("=", Deref(PostfixNode("++", V("p"))), V("i")),
   AssignNode("=", V("p"), UnopNode("&", SubscriptNode(V("a"), V("c")))),
   B("-", V("p"), UnopNode("&", SubscriptNode(V("a"), V("c")))),
   B("==", V("p"), V("a")), B("<", V("p"), UnopNode("&", SubscriptNode(V("a"), L(1)))),
   AssignNode("+=", Deref(V("p")), V("u")), UnopNode("--", Deref(V("p"))),
   SizeofExprNode(V("a")), SizeofExprNode(B("+", V("c"), V("c"))),
   SizeofExprNode(Deref(V("a"))), SizeofTypeNode(TULong)}

\* Two operators in every arrangement.
X == V("i")
Fill(e) ==
  {B(o, e, X) : o \in BinaryOps} \union {B(o, X, e) : o \in BinaryOps}
  \union {TernaryNode(e, X, X), TernaryNode(X, e, X), TernaryNode(X, X, e),
          AssignNode("=", X, e), AssignNode("-=", X, e), CommaNode(e, X),
          CommaNode(X, e), SubscriptNode(e, X), SubscriptNode(X, e),
          PostfixNode("++", e), CastNode(TLong, e)}
  \union {UnopNode(o, e) : o \in {"-", "*", "&", "++"}}

MCTrees == Pairs \union Nested \union Assigned \union OneOperand \union Branches
           \union PointerTrees
MCParses == UNION {Fill(e) : e \in Fill(X)}
=============================================================================
