-------------------------------- MODULE CStmt --------------------------------
(***************************************************************************)
(* Statements by C99 6.8: the grammar as a table, read from left to right,   *)
(* an else taken by the nearest if, and the constraints on jumps.  A text    *)
(* has one reading or none.                                                 *)
(*                                                                          *)
(* A loose reading also has what tinyc accepts beyond C99: a case or default *)
(* without a statement before the end of a block, a declaration where a      *)
(* statement is asked for, and a _Pragma without its string.                *)
(***************************************************************************)
EXTENDS StmtTree, SequencesExt

Ahead(t, i) == IF i <= Len(t) THEN t[i].k ELSE "EOF"

\* _Pragma ( "..." ) is gone before there is a syntax (6.10.9).  The loose
\* reading does without the string and the parentheses.
PragmaLength(t, loose) ==
  CASE [i \in 1 .. 4 |-> Ahead(t, i)] = <<"_Pragma", "(", "str", ")">> -> 4
    [] loose /\ [i \in 1 .. 3 |-> Ahead(t, i)] = <<"_Pragma", "(", ")">> -> 3
    [] loose /\ Ahead(t, 1) = "_Pragma" /\ Ahead(t, 2) # "(" -> 1
    [] OTHER -> 0

RECURSIVE NoPragmas(_, _)
NoPragmas(t, loose) ==
  IF t = << >> THEN t
  ELSE IF PragmaLength(t, loose) > 0
       THEN NoPragmas(SubSeq(t, PragmaLength(t, loose) + 1, Len(t)), loose)
       ELSE <<Head(t)>> \o NoPragmas(Tail(t), loose)

Symbols == {"S", "items", "E", "E?", "init", "else?", "labelled", "name"}

\* What a symbol is made of, by the tokens at i: symbols, kinds of tokens, and
\* "token", one whose content matters.
Rule(t, symbol, i, loose) ==
  LET first == Ahead(t, i)
  IN CASE symbol = "S" ->
            (CASE first = ";" -> <<";">>
               [] first = "{" -> <<"{", "items", "}">>
               [] first = "decl" -> IF loose THEN <<"token">> ELSE <<"statement">>
               [] first = "if" -> <<"if", "(", "E", ")", "S", "else?">>
               [] first \in {"while", "switch"} -> <<first, "(", "E", ")", "S">>
               [] first = "do" -> <<"do", "S", "while", "(", "E", ")", ";">>
               [] first = "for" -> <<"for", "(", "init", "E?", ";", "E?", ")", "S">>
               [] first = "return" -> <<"return", "E?", ";">>
               [] first \in {"break", "continue"} -> <<first, ";">>
               [] first = "goto" -> <<"goto", "name", ";">>
               [] first = "case" -> <<"case", "E", ":", "labelled">>
               [] first = "default" -> <<"default", ":", "labelled">>
               [] first = "ident" /\ Ahead(t, i + 1) = ":" -> <<"name", ":", "S">>
               [] OTHER -> <<"E", ";">>)
       [] symbol = "items" -> IF first = "}" THEN << >>
                              ELSE IF first = "decl" THEN <<"token", "items">>
                              ELSE <<"S", "items">>
       [] symbol = "E" -> IF first = "(" THEN <<"(", "E", ")">>
                          ELSE IF first \in {"ident", "expr"} THEN <<"token">>
                          ELSE <<"expression">>
       [] symbol = "E?" -> IF first \in {";", ")"} THEN << >> ELSE <<"E">>
       [] symbol = "init" -> IF first = "decl" THEN <<"token">> ELSE <<"E?", ";">>
       [] symbol = "else?" -> IF first = "else" THEN <<"else", "S">> ELSE << >>
       [] symbol = "labelled" -> IF loose /\ first = "}" THEN << >> ELSE <<"S">>
       [] symbol = "name" -> IF first = "ident" THEN <<"token">> ELSE <<"identifier">>

\* The tree of a symbol, from those of its parts.
Tree(t, symbol, i, parts) ==
  LET first == Ahead(t, i)
  IN CASE symbol = "S" ->
            (CASE first = ";" -> EmptyBlock
               [] first = "{" -> [k |-> "compound", stmts |-> parts[1]]
               [] first = "decl" -> parts[1]
               [] first = "ident" /\ Ahead(t, i + 1) = ":" -> Node("label", parts)
               [] first \in {"ident", "expr", "("} -> Node("expr", parts)
               [] OTHER -> Node(first, parts))
       [] symbol = "items" -> IF parts = << >> THEN << >> ELSE <<parts[1]>> \o parts[2]
       [] symbol = "E" -> IF first = "ident" THEN Atom(parts[1].id)
                          ELSE IF first = "expr" THEN parts[1].e ELSE parts[1]
       [] symbol = "init" /\ first # "decl" -> IF parts[1] = None THEN None ELSE Node("expr", parts)
       [] symbol = "labelled" /\ parts = << >> -> EmptyBlock
       [] symbol = "name" -> parts[1].id
       [] OTHER -> IF parts = << >> THEN None ELSE parts[1]

\* A statement at the start of t and the position behind it, 0 if there is none.
Reading(t, loose) ==
  LET fail == [tree |-> None, to |-> 0]
      read[symbol \in Symbols, i \in 1 .. Len(t) + 1] ==
        LET Then(sofar, part, one) ==
              IF part \in Symbols
              THEN IF one.to = 0 THEN fail
                   ELSE [tree |-> Append(sofar.tree, one.tree), to |-> one.to]
              ELSE IF part = "token"
                   THEN [tree |-> Append(sofar.tree, t[sofar.to]), to |-> sofar.to + 1]
              ELSE IF part = Ahead(t, sofar.to) THEN [sofar EXCEPT !.to = @ + 1]
              ELSE fail
            Whole(parts) ==
              IF parts.to = 0 THEN fail
              ELSE [tree |-> Tree(t, symbol, i, parts.tree), to |-> parts.to]
        IN  Whole(FoldLeft(LAMBDA sofar, part :
                             IF sofar.to = 0 THEN fail
                             ELSE Then(sofar, part,
                                       IF part \in Symbols THEN read[part, sofar.to] ELSE fail),
                           [tree |-> << >>, to |-> i], Rule(t, symbol, i, loose)))
  IN  read["S", 1]

\* Jumps and labels in n that have not met the statement they belong to.
RECURSIVE Strays(_)
Strays(n) ==
  LET inside == UNION {Strays(Inner(n)[i]) : i \in DOMAIN Inner(n)}
  IN CASE n.k \in {"while", "do", "for"} -> inside \ {"break", "continue"}
       [] n.k = "switch" -> inside \ {"break", "case", "default"}
       [] n.k \in {"break", "continue", "case", "default"} -> inside \union {n.k}
       [] OTHER -> inside

RECURSIVE Names(_, _)
Names(n, kind) ==
  (IF n.k = kind THEN {n.name} ELSE {})
    \union UNION {Names(Inner(n)[i], kind) : i \in DOMAIN Inner(n)}

\* 6.8.1, 6.8.4.2, 6.8.6.
Lawful(n) == Strays(n) = {} /\ Names(n, "goto") \subseteq Names(n, "label")

\* The function body that a text is, or None.
CReading(text, loose) ==
  LET t == NoPragmas(text, loose)
      r == Reading(t, loose)
  IN  IF Ahead(t, 1) = "{" /\ r.to = Len(t) + 1 /\ Lawful(r.tree) THEN r.tree ELSE None
=============================================================================
