------------------------------- MODULE StmtTree -------------------------------
(***************************************************************************)
(* Tokens and trees of statements.  A token is a record whose k is its kind; *)
(* an identifier has an id, and an expression that ExprParse would read (one *)
(* that does not begin with an identifier), or a declaration that Declarator *)
(* would, is one token with its tree e.  A tree is a record whose k is its   *)
(* AST kind.                                                                 *)
(***************************************************************************)
EXTENDS Integers, Sequences

None == [k |-> "none"]
Atom(id) == [k |-> "atom", id |-> id]
EmptyBlock == [k |-> "compound", stmts |-> << >>]

\* A node of a kind with its parts, in the order in which they are read.
Node(kind, v) ==
  CASE kind = "if" -> [k |-> kind, c |-> v[1], then |-> v[2], else |-> v[3]]
    [] kind \in {"while", "switch"} -> [k |-> kind, c |-> v[1], body |-> v[2]]
    [] kind = "do" -> [k |-> kind, body |-> v[1], c |-> v[2]]
    [] kind = "for" -> [k |-> kind, init |-> v[1], c |-> v[2], incr |-> v[3], body |-> v[4]]
    [] kind \in {"return", "expr"} -> [k |-> kind, e |-> v[1]]
    [] kind = "case" -> [k |-> kind, e |-> v[1], stmt |-> v[2]]
    [] kind = "default" -> [k |-> kind, stmt |-> v[1]]
    [] kind = "label" -> [k |-> kind, name |-> v[1], stmt |-> v[2]]
    [] kind = "goto" -> [k |-> kind, name |-> v[1]]
    [] kind \in {"break", "continue"} -> [k |-> kind]
    [] kind = "call" -> [k |-> kind, l |-> v[1], r |-> v[2]]

Parts(kind) ==
  CASE kind = "for" -> 4
    [] kind = "if" -> 3
    [] kind \in {"while", "switch", "do", "case", "label", "call"} -> 2
    [] kind \in {"return", "expr", "default", "goto"} -> 1
    [] OTHER -> 0

\* The statements directly inside one.
Inner(n) ==
  CASE n.k = "compound" -> n.stmts
    [] n.k = "if" -> <<n.then, n.else>>
    [] n.k \in {"while", "do", "for", "switch"} -> <<n.body>>
    [] n.k \in {"case", "default", "label"} -> <<n.stmt>>
    [] OTHER -> << >>
=============================================================================
