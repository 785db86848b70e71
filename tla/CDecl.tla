--------------------------------- MODULE CDecl --------------------------------
(***************************************************************************)
(* What declarations mean in C, and how they are written.                   *)
(*                                                                         *)
(* A C type is a sequence of derivations, the outermost first, over a base:  *)
(* "x is a pointer to an array of int" is <<ptr, array>> over int.  A        *)
(* declarator writes its derivations around the name, so that what is        *)
(* nearest to the name is outermost; a pointer below an array or function    *)
(* needs parentheses (C99 6.7.5).                                           *)
(***************************************************************************)
EXTENDS Declarator, FiniteSets, SequencesExt

Ptr(qual) == [k |-> "ptr", qual |-> qual]
Array(token) == [k |-> "array", token |-> token]
Func(params, variadic) == [k |-> "func", params |-> params, variadic |-> variadic]

CType(derivs, base) == [derivs |-> derivs, base |-> base]
Plain(k, name, qual) == CType(<< >>, [k |-> k, name |-> name, qual |-> qual])
Derived(derivs, type) == CType(derivs \o type.derivs, type.base)

\* A declarator: its name, its derivations, and how many of those nearest to
\* the name stand in parentheses that nothing requires (-1: none).
Dcl(name, derivs, parens) == [name |-> name, derivs |-> derivs, parens |-> parens]

\* Specifiers: the tokens and the type they stand for.
Spec99(tokens, type) == [tokens |-> tokens, type |-> type]

QualsOf(qual) == IF qual = 1 THEN <<"const">> ELSE IF qual = 2 THEN <<"volatile">> ELSE << >>

\* The tokens of a declarator and of a parameter list.
RECURSIVE Wrap(_, _, _, _)
ParamTokens(f) ==
  LET one(p) == p.specs.tokens \o Wrap(p.dcl, p.dcl.derivs, 0,
                                       IF p.dcl.name = "" THEN << >> ELSE <<p.dcl.name>>)
      listed == FlattenSeq([i \in DOMAIN f.params |->
                              (IF i = 1 THEN << >> ELSE <<",">>) \o one(f.params[i])])
  IN <<"(">> \o listed \o (IF f.variadic THEN <<",", "...">> ELSE << >>) \o <<")">>

\* d: derivations not written yet; n: how many are; t: the tokens so far.
Wrap(dcl, d, n, t) ==
  LET body == IF dcl.parens = n THEN <<"(">> \o t \o <<")">> ELSE t
      stacked == n > 0 /\ dcl.derivs[n].k = "ptr" /\ dcl.parens # n
      inner == IF stacked THEN <<"(">> \o body \o <<")">> ELSE body
  IN IF d = << >> THEN body
     ELSE CASE d[1].k = "ptr" -> Wrap(dcl, Tail(d), n + 1, <<"*">> \o QualsOf(d[1].qual) \o body)
            [] d[1].k = "array" -> Wrap(dcl, Tail(d), n + 1, inner \o <<d[1].token>>)
            [] d[1].k = "func" -> Wrap(dcl, Tail(d), n + 1, inner \o ParamTokens(d[1]))

DclTokens(dcl) == Wrap(dcl, dcl.derivs, 0, IF dcl.name = "" THEN << >> ELSE <<dcl.name>>)

\* The derivations as a type has them: parameters by their types.
RECURSIVE Meaning(_)
Meaning(derivs) ==
  [i \in DOMAIN derivs |->
     IF derivs[i].k # "func" THEN derivs[i]
     ELSE [k |-> "func", variadic |-> derivs[i].variadic,
           params |-> LET ps == derivs[i].params
                          type(p) == Derived(Meaning(p.dcl.derivs), p.specs.type)
                      IN IF Len(ps) = 1 /\ type(ps[1]) = Plain("scalar", "void", 0)
                         THEN << >> ELSE [j \in DOMAIN ps |-> type(ps[j])]]]

\* A declaration: a storage class, specifiers and declarators.
Declaration(storage, specs, dcls) ==
  [tokens |-> storage \o specs.tokens
              \o FlattenSeq([i \in DOMAIN dcls |->
                               (IF i = 1 THEN << >> ELSE <<",">>) \o DclTokens(dcls[i])])
              \o <<";">>,
   means |-> [i \in DOMAIN dcls |->
                [name |-> dcls[i].name,
                 kind |-> IF storage = <<"typedef">> THEN "typedef" ELSE "var",
                 type |-> Derived(Meaning(dcls[i].derivs), specs.type)]]]

\* A valid program, and its struct members by tag; a sequence of tokens.
Valid(declarations, members) ==
  [tokens |-> FlattenSeq([i \in DOMAIN declarations |-> declarations[i].tokens]),
   valid |-> TRUE, members |-> members,
   means |-> FlattenSeq([i \in DOMAIN declarations |-> declarations[i].means])]
Arbitrary(tokens) == [tokens |-> tokens, valid |-> FALSE]

-----------------------------------------------------------------------------
(* What the parser's types stand for *)

RECURSIVE Denote(_, _)
Denote(h, t) ==
  LET node == At(h, t)
      below(d) == Derived(<<d>>, Denote(h, node.sub))
  IN IF t # NULL /\ node.k \notin {"ptr", "array", "unsized", "func"}
     THEN Plain(node.k, node.name, node.qual)
     ELSE CASE t = NULL -> Plain("NULL", "", 0)
            [] node.k = "ptr" -> below(Ptr(node.qual))
            [] node.k = "array" ->
                 below(Array(CHOOSE a \in ArrayTokens : NumberOf[a] = node.n))
            [] node.k = "unsized" -> below(Array("[]"))
            [] node.k = "func" ->
                 below([k |-> "func", variadic |-> node.n % 2 = 1,
                        params |-> [i \in DOMAIN node.params |-> Denote(h, node.params[i][2])]])

\* Between declarations.
AtRest == stack = << >>
ReadOn == tok # "EOF"

\* The body of the tag has been read.
Defined(k, tag) == \E i \in 1 .. pos - 3 :
  TokenAt(i) = k /\ TokenAt(i + 1) = tag /\ TokenAt(i + 2) = "{"

MembersMean(node) ==
  LET wanted == program.members[node.name]
  IN /\ Len(node.params) = Len(wanted)
     /\ \A i \in DOMAIN wanted :
          IF node.k = "enum" THEN node.params[i] = wanted[i]
          ELSE /\ node.params[i][1] = wanted[i].name /\ node.params[i][3] = wanted[i].width
               /\ Denote(heap, node.params[i][2]) = wanted[i].type

-----------------------------------------------------------------------------
(* Properties *)

\* DeclaredAsC: every name a valid program has declared so far has the type C
\* gives it, after all that was declared since: parse_declarator's patching
\* of shared nodes, type_qualify's copies and struct bodies that complete a
\* type in place never give or leave a name another type; and every copy of a
\* struct or union type is complete with its members once its body is read.
DeclaredAsC ==
  program.valid /\ AtRest =>
    /\ ~errors
    /\ Len(decls) <= Len(program.means) /\ (~ReadOn => Len(decls) = Len(program.means))
    /\ \A i \in DOMAIN decls :
         /\ decls[i].name = program.means[i].name /\ decls[i].kind = program.means[i].kind
         /\ Denote(heap, decls[i].type) = program.means[i].type
    /\ \A i \in DOMAIN heap.nodes :
         LET node == heap.nodes[i]
         IN node.k \in TagTokens \union {"enum"} /\ node.name # "" =>
              /\ (node.n = 0) = Defined(node.k, node.name)
              /\ node.n = 0 => MembersMean(node)

\* Ends: whatever the tokens, every loop of the parser makes progress and it
\* comes to the end of its input.
Ends == <>(stack = << >> /\ tok = "EOF")
=============================================================================
