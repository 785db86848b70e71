---------------------------- MODULE MCControlFlow ----------------------------
(* Programs for ControlFlow: loops, ifs and switches over every jump, nested  *)
(* two deep, with && || ?: conditions, goto into and out of loops, and a       *)
(* switch whose cases are inside a loop; declarations, pragmas, and texts that *)
(* are no longer what was written.                                           *)
EXTENDS Statements

A(i) == Atom(i)
And(l, r) == [k |-> "and", l |-> l, r |-> r]
Or(l, r) == [k |-> "or", l |-> l, r |-> r]
Cond(c, t, e) == [k |-> "ternary", c |-> c, t |-> t, e |-> e]
Lit(v) == [k |-> "int", val |-> v]
Minus(e) == [k |-> "minus", arg |-> e]

Do(i) == [k |-> "expr", e |-> A(i)]
Block(s) == [k |-> "compound", stmts |-> s]
If(c, t, e) == [k |-> "if", c |-> c, then |-> t, else |-> e]
While(c, b) == [k |-> "while", c |-> c, body |-> b]
DoWhile(c, b) == [k |-> "do", c |-> c, body |-> b]
For(i, c, n, b) == [k |-> "for", init |-> i, c |-> c, incr |-> n, body |-> b]
Switch(c, b) == [k |-> "switch", c |-> c, body |-> b]
Case(e, s) == [k |-> "case", e |-> e, stmt |-> s]
Default(s) == [k |-> "default", stmt |-> s]
Goto(n) == [k |-> "goto", name |-> n]
Lab(n, s) == [k |-> "label", name |-> n, stmt |-> s]
Break == [k |-> "break"]
Continue == [k |-> "continue"]
Return == [k |-> "return", e |-> None]
ReturnE(i) == [k |-> "return", e |-> A(i)]

Leaves(i) == {EmptyBlock, Do(i), Break, Continue, ReturnE(i)}
Guarded(i) == Leaves(i) \union {If(A(i), x, Do(i + 1)) : x \in Leaves(i + 1)}

Conditions(i) ==
  {A(i), And(A(i), A(i + 1)), Or(A(i), A(i + 1)),
   Cond(A(i), A(i + 1), Or(A(i + 2), A(i))), And(Or(A(i), A(i + 1)), A(i + 2))}

Loops(i, bodies) ==
  {While(A(i), b) : b \in bodies} \union {DoWhile(A(i), b) : b \in bodies}
  \union {For(Do(i + 1), A(i), A(i + 2), b) : b \in bodies}
  \union {For(None, None, None, b) : b \in bodies}

Switches(i, bodies) ==
  {Switch(A(i), Block(<<Case(Lit(0), b), Do(i + 1), Default(Do(i + 2)),
                        Case(Minus(Lit(1)), Break)>>)) : b \in bodies}
  \union {Switch(A(i), Block(<<Do(i + 1), Case(Lit(1), b)>>)) : b \in bodies}

\* A construct in a construct, each followed by something to see.
Nested(i, bodies) ==
  {Block(<<b, Do(i + 8)>>) : b \in Loops(i, bodies) \union Switches(i, bodies)}

Conditional ==
  {Block(<<If(c, Do(4), e), While(c, Do(5)), Do(6)>>) : c \in Conditions(1), e \in {None, Do(7)}}

Jumps ==
  { Block(<<Lab(101, Do(1)), If(A(2), Goto(102), None),
            While(A(3), Block(<<Lab(102, Do(4)), If(A(5), Goto(101), Continue), Do(6)>>)),
            Goto(103), Do(7), Lab(103, Return)>>),
    Switch(A(1), Block(<<Case(Lit(0), DoWhile(A(2), Block(<<Do(3), Case(Lit(1), Do(4)),
                                                           Default(Do(5))>>)))>>)),
    \* a switch in a case, with a case of the same value
    Switch(A(1), Block(<<Case(Lit(0), Switch(A(2), Block(<<Case(Lit(1), Do(3)), Break>>))),
                         Case(Lit(1), Do(4)), Default(Break)>>)),
    \* jumps out of, and into, a switch
    Block(<<Switch(A(1), Block(<<Case(Lit(1), Goto(104)), Lab(105, Do(2)),
                                Default(Lab(106, Do(3)))>>)),
            If(A(4), Goto(105), None), Lab(104, Do(5))>>) }

\* An else between two ifs; declarations.
Decl(e) == [k |-> "decl", e |-> e]

Others ==
  { If(A(1), If(A(2), Do(3), None), Do(4)),
    Block(<<Decl(None), For(Decl(A(1)), A(2), A(3), Block(<<Decl(A(4)), Continue>>)),
            Switch(A(5), Block(<<Case(Lit(0), Case(Lit(1), Do(6))), Default(EmptyBlock)>>)),
            Return>>) }

AllPrograms ==
  Nested(1, Guarded(3))
  \union Nested(1, {Block(<<b, Do(20)>>) : b \in Loops(10, Leaves(12)) \union Switches(10, Leaves(12))})
  \union Conditional \union Jumps \union Others

-----------------------------------------------------------------------------
(* Texts *)

T(kind) == [k |-> kind]
E(e) ==
  IF e = None THEN << >>
  ELSE IF e.k = "atom" THEN <<[k |-> "ident", id |-> e.id]>> ELSE <<[k |-> "expr", e |-> e]>>
Name(name) == [k |-> "ident", id |-> name]
P(e) == <<T("(")>> \o E(e) \o <<T(")")>>

RECURSIVE Text(_)
Text(n) ==
  CASE n = EmptyBlock -> <<T(";")>>
    [] n.k = "compound" ->
         <<T("{")>> \o FlattenSeq([i \in DOMAIN n.stmts |-> Text(n.stmts[i])]) \o <<T("}")>>
    [] n.k = "none" -> <<T(";")>>
    [] n.k = "decl" -> <<n>>
    [] n.k = "expr" -> E(n.e) \o <<T(";")>>
    [] n.k = "if" -> <<T("if")>> \o P(n.c) \o Text(n.then)
                       \o (IF n.else = None THEN << >> ELSE <<T("else")>> \o Text(n.else))
    [] n.k \in {"while", "switch"} -> <<T(n.k)>> \o P(n.c) \o Text(n.body)
    [] n.k = "do" -> <<T("do")>> \o Text(n.body) \o <<T("while")>> \o P(n.c) \o <<T(";")>>
    [] n.k = "for" -> <<T("for"), T("(")>> \o Text(n.init) \o E(n.c) \o <<T(";")>>
                        \o E(n.incr) \o <<T(")")>> \o Text(n.body)
    [] n.k = "return" -> <<T("return")>> \o E(n.e) \o <<T(";")>>
    [] n.k \in {"break", "continue"} -> <<T(n.k), T(";")>>
    [] n.k = "goto" -> <<T("goto"), Name(n.name), T(";")>>
    [] n.k = "label" -> <<Name(n.name), T(":")>> \o Text(n.stmt)
    [] n.k = "case" -> <<T("case")>> \o E(n.e) \o <<T(":")>> \o Text(n.stmt)
    [] n.k = "default" -> <<T("default"), T(":")>> \o Text(n.stmt)

Body(n) == IF n.k = "compound" THEN Text(n) ELSE <<T("{")>> \o Text(n) \o <<T("}")>>

Pragma == <<T("_Pragma"), T("("), T("str"), T(")")>>

\* One token missing, or another one in its place.
Without(t) == {SubSeq(t, 1, i - 1) \o SubSeq(t, i + 1, Len(t)) : i \in DOMAIN t}
With(t, kind) == {[t EXCEPT ![i] = T(kind)] : i \in DOMAIN t}
Mutilated(t) == Without(t) \union UNION {With(t, kind) : kind \in {";", "}", "case", "continue"}}

Written == {Body(n) : n \in AllPrograms}

Broken == UNION {Mutilated(Body(n)) : n \in Others \union Jumps
                   \union {Block(<<If(A(1), ReturnE(2), Do(3)), DoWhile(A(4), Break),
                                   Return, If(A(5), Do(6), None)>>)}}
  \union {<<T("{"), T("return"), T("if"), T("("), T(")"), T(";"), T("}")>>}

\* A _Pragma, with and without its parts, in front of the first statement.
WithPragmas ==
  {<<T("{")>> \o p \o Tail(Body(n)) :
     p \in {Pragma, Append(Pragma, T(";"))} \union Without(Pragma), n \in Others}

AllTexts == {WithReading(t) : t \in Written \union Broken \union WithPragmas}

SomeValues == {0, 1, -1}
=============================================================================
