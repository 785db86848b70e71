-------------------------------- MODULE Scopes -------------------------------
(***************************************************************************)
(* The names of a translation unit, as the three passes that resolve them   *)
(* see them: the parser (which must tell a typedef name from any other to   *)
(* parse at all), the semantic analysis (which takes a name's type from its *)
(* symbol) and the IR generator (which takes an object's address).  Each    *)
(* keeps a chain of scopes of its own and pushes, defines and pops at       *)
(* places of its own.                                                       *)
(*                                                                         *)
(* An action is one construct of a valid C program, in the order of the     *)
(* text; it does to each chain what that pass does at the construct.  The   *)
(* passes run one after the other, but none reads another's chain, so       *)
(* walking them side by side shows the same chains.  c is what C99 6.2.1    *)
(* says, a stack of scopes with one entity for each name.                   *)
(*                                                                         *)
(* Left out: tags, labels, members, and block-scope declarations with       *)
(* static, extern or a function type.                                       *)
(***************************************************************************)
EXTENDS Integers, Sequences, FiniteSets

CONSTANTS
  Names,      \* identifiers
  NoName,     \* none of them
  MaxIds,     \* a bound: declarations of entities with an identity
  MaxDepth    \* a bound: scopes open at once

ASSUME ScopesAssumption ==
  NoName \notin Names /\ MaxIds \in Nat /\ MaxDepth \in Nat \ {0}

VARIABLES
  c,        \* scopes of C: [kind, fn, names, unsure], innermost last
  parser,   \* Scope chain of the parser: name -> kind, innermost last
  sema,     \* SScope chain: name -> entity
  ir,       \* VScope chain: name -> address
  pending,  \* the variable whose initializer is being read, or NoName
  ids       \* entities with an identity so far

vars == <<c, parser, sema, ir, pending, ids>>

Undeclared == [kind |-> "undeclared", name |-> NoName, id |-> 0]

-----------------------------------------------------------------------------
(* Scope chains *)

Empty == [x \in {} |-> Undeclared]
With(table, x, v) == [y \in DOMAIN table \union {x} |-> IF y = x THEN v ELSE table[y]]

\* A new symbol goes to the front of its bucket in the innermost scope, so
\* that it hides an older one of its name there.
Define(chain, x, v) == [chain EXCEPT ![Len(chain)] = With(@, x, v)]

\* The chain with n scopes fewer.
Popped(chain, n) == SubSeq(chain, 1, Len(chain) - n)

\* The symbol found going outwards, or absent.
Lookup(chain, x, absent) ==
  LET holders == {i \in 1 .. Len(chain) : x \in DOMAIN chain[i]}
  IN IF holders = {} THEN absent
     ELSE chain[CHOOSE i \in holders : \A j \in holders : j <= i][x]

-----------------------------------------------------------------------------
(* C *)

\* unsure: names of this scope the passes need not agree about with C any
\* more, see LeaveFor and EnumRef.
CScope(kind, fn, names) == [kind |-> kind, fn |-> fn, names |-> names, unsure |-> {}]
Inner == c[Len(c)]
AtFile == Len(c) = 1

\* An object or function of file scope is the same one however often it is
\* declared; any other declaration makes a new entity.
Entity(kind, x) ==
  [kind |-> kind, name |-> x,
   id |-> IF AtFile /\ kind \in {"var", "func"} THEN 0 ELSE ids + 1]
Numbered(e) == ids' = (IF e.id = 0 THEN ids ELSE e.id) /\ ids' <= MaxIds

\* A declaration statement is allowed in a block or at file scope, and a
\* name stands for one entity in a scope.
CanDeclare(e) ==
  /\ pending = NoName
  /\ Inner.kind # "for"
  /\ e.name \in DOMAIN Inner.names => AtFile /\ Inner.names[e.name] = e

Declared(scopes, e) ==
  [scopes EXCEPT ![Len(scopes)].names = With(@, e.name, e),
                 ![Len(scopes)].unsure = @ \ {e.name}]

CLookup(x) == Lookup([i \in 1 .. Len(c) |-> c[i].names], x, Undeclared)

\* irv_global by name, or the alloca of a local variable
Address(e) == [global |-> e.id = 0, name |-> e.name, id |-> e.id]

-----------------------------------------------------------------------------
Init ==
  /\ c = <<CScope("file", NoName, Empty)>>
  /\ parser = <<Empty>>
  /\ sema = <<Empty>>
  /\ ir = <<Empty>>
  /\ pending = NoName
  /\ ids = 0

\* A variable up to its initializer: the IR generator defines it here, as C
\* does.
BeginVar(x) ==
  LET e == Entity("var", x)
  IN /\ CanDeclare(e) /\ Numbered(e)
     /\ c' = Declared(c, e)
     /\ ir' = Define(ir, x, Address(e))
     /\ pending' = x
     /\ UNCHANGED <<parser, sema>>

\* A mutation: only a typedef is a symbol to the parser.
EndVarUnnoticed ==
  /\ pending # NoName
  /\ sema' = Define(sema, pending, CLookup(pending))
  /\ pending' = NoName
  /\ UNCHANGED <<c, parser, ir, ids>>

\* After the initializer, if any: the parser and the analysis define it now.
EndVar ==
  /\ pending # NoName
  /\ parser' = Define(parser, pending, "var")
  /\ sema' = Define(sema, pending, CLookup(pending))
  /\ pending' = NoName
  /\ UNCHANGED <<c, ir, ids>>

\* A prototype at file scope is an AST_VAR_DECL of function type.
Prototype(f) ==
  LET e == Entity("func", f)
  IN /\ AtFile /\ CanDeclare(e)
     /\ c' = Declared(c, e)
     /\ parser' = Define(parser, f, "var")
     /\ sema' = Define(sema, f, e)
     /\ ir' = Define(ir, f, Address(e))
     /\ UNCHANGED <<pending, ids>>

Typedef(x) ==
  LET e == Entity("typedef", x)
  IN /\ CanDeclare(e) /\ Numbered(e)
     /\ c' = Declared(c, e)
     /\ parser' = Define(parser, x, "typedef")
     /\ sema' = Define(sema, x, e)
     /\ UNCHANGED <<ir, pending>>

\* A mutation: the list of declarations holds no AST_ENUM_DECL.
EnumConstUnlisted(x) ==
  LET e == Entity("enum", x)
  IN /\ CanDeclare(e) /\ Numbered(e)
     /\ c' = Declared(c, e)
     /\ parser' = Define(parser, x, "enum")
     /\ UNCHANGED <<sema, ir, pending>>

\* enum { x }.  A use of x becomes a literal in the analysis: the IR
\* generator never sees one.
EnumConst(x) ==
  LET e == Entity("enum", x)
  IN /\ CanDeclare(e) /\ Numbered(e)
     /\ c' = Declared(c, e)
     /\ parser' = Define(parser, x, "enum")
     /\ sema' = Define(sema, x, e)
     /\ UNCHANGED <<ir, pending>>

\* A declaration that only names an enum type declared before, with its
\* constant e: parse_decl_list makes an AST_ENUM_DECL of it again, and the
\* analysis defines the constant again, in the scope it is in now.
EnumRef(e) ==
  /\ pending = NoName /\ Inner.kind # "for"
  /\ sema' = Define(sema, e.name, e)
  /\ c' = [c EXCEPT ![Len(c)].unsure = @ \union {e.name}]
  /\ UNCHANGED <<parser, ir, pending, ids>>

EnumsDeclared ==
  UNION {{c[i].names[x] : x \in {y \in DOMAIN c[i].names : c[i].names[y].kind = "enum"}}
           : i \in 1 .. Len(c)}

-----------------------------------------------------------------------------
\* A function definition, up to its body: f is defined by the analysis, the
\* parser does so after the body, the IR generator never.  The parameters
\* get a scope and the body another one.
EnterFunc(f, params) ==
  LET e == Entity("func", f)
      Param(p) == [kind |-> "var", name |-> p, id |-> ids + 1]
      entities == [p \in params |-> Param(p)]
  IN /\ AtFile /\ CanDeclare(e)
     /\ params = {} \/ ids < MaxIds
     /\ ids' = IF params = {} THEN ids ELSE ids + 1
     /\ c' = Append(Declared(c, e), CScope("body", f, entities))
     /\ parser' = Append(Append(parser, [p \in params |-> "var"]), Empty)
     /\ sema' = Append(Append(Define(sema, f, e), entities), Empty)
     /\ ir' = Append(Append(ir, [p \in params |-> Address(Param(p))]), Empty)
     /\ UNCHANGED pending

LeaveFunc ==
  /\ pending = NoName /\ Inner.kind = "body"
  /\ c' = Popped(c, 1)
  /\ parser' = Define(Popped(parser, 2), Inner.fn, "func")
  /\ sema' = Popped(sema, 2)
  /\ ir' = Popped(ir, 2)
  /\ UNCHANGED <<pending, ids>>

EnterBlock ==
  /\ pending = NoName /\ ~AtFile /\ Len(c) < MaxDepth
  /\ c' = Append(c, CScope("block", NoName, Empty))
  /\ parser' = Append(parser, Empty)
  /\ sema' = Append(sema, Empty)
  /\ ir' = Append(ir, Empty)
  /\ UNCHANGED <<pending, ids>>

\* A mutation: the analysis does not restore its scope.
LeaveBlockUnrestored ==
  /\ pending = NoName /\ Inner.kind = "block"
  /\ c' = Popped(c, 1)
  /\ parser' = Popped(parser, 1)
  /\ ir' = Popped(ir, 1)
  /\ UNCHANGED <<sema, pending, ids>>

LeaveBlock ==
  /\ pending = NoName /\ Inner.kind = "block"
  /\ c' = Popped(c, 1)
  /\ parser' = Popped(parser, 1)
  /\ sema' = Popped(sema, 1)
  /\ ir' = Popped(ir, 1)
  /\ UNCHANGED <<pending, ids>>

\* for (int x = ...: C and the IR generator have a scope for it, the parser
\* and the analysis declare x in the scope around.
EnterFor(x) ==
  LET e == Entity("var", x)
  IN /\ pending = NoName /\ ~AtFile /\ Len(c) < MaxDepth /\ Numbered(e)
     /\ c' = Append(c, CScope("for", NoName, With(Empty, x, e)))
     /\ ir' = Define(Append(ir, Empty), x, Address(e))
     /\ pending' = x
     /\ UNCHANGED <<parser, sema>>

\* A mutation: the IR generator does not restore its scope.
LeaveForUnrestored ==
  /\ pending = NoName /\ Inner.kind = "for"
  /\ c' = [Popped(c, 1) EXCEPT ![Len(c) - 1].unsure =
             @ \union Inner.unsure \union DOMAIN Inner.names]
  /\ UNCHANGED <<parser, sema, ir, pending, ids>>

\* After it, x and what such loops in it declared stay in two of the chains.
LeaveFor ==
  /\ pending = NoName /\ Inner.kind = "for"
  /\ c' = [Popped(c, 1) EXCEPT ![Len(c) - 1].unsure =
             @ \union Inner.unsure \union DOMAIN Inner.names]
  /\ ir' = Popped(ir, 1)
  /\ UNCHANGED <<parser, sema, pending, ids>>

Next ==
  \/ \E x \in Names : BeginVar(x) \/ Prototype(x) \/ Typedef(x) \/ EnumConst(x)
                      \/ EnterFor(x)
  \/ EndVar
  \/ \E e \in EnumsDeclared : EnumRef(e)
  \/ \E f \in Names, params \in {{}} \union {{p} : p \in Names} : EnterFunc(f, params)
  \/ LeaveFunc \/ EnterBlock \/ LeaveBlock \/ LeaveFor

Spec == Init /\ [][Next]_vars

-----------------------------------------------------------------------------
(* Properties *)

Entities == [kind : {"var", "func", "typedef", "enum"}, name : Names, id : 0 .. MaxIds]

\* How many scopes a pass holds for the constructs of C up to the i-th: one
\* for each, but for a for statement only if it opens one there, and another
\* for the parameters.
Depth(scopes, i, forOpens) ==
  Cardinality({j \in 1 .. i : forOpens \/ scopes[j].kind # "for"})
    + Cardinality({j \in 1 .. i : scopes[j].kind = "body"})

\* Every table holds symbols, and each pass is as deep in its chain as the
\* open constructs say: it pops exactly what it pushed.
TypeOK ==
  /\ pending \in Names \union {NoName} /\ ids \in 0 .. MaxIds
  /\ \A i \in 1 .. Len(c) : \A x \in DOMAIN c[i].names :
       c[i].names[x] \in Entities /\ c[i].names[x].name = x
  /\ \A i \in 1 .. Len(sema) : \A x \in DOMAIN sema[i] : sema[i][x] \in Entities
  /\ Len(parser) = Depth(c, Len(c), FALSE)
  /\ Len(sema) = Depth(c, Len(c), FALSE)
  /\ Len(ir) = Depth(c, Len(c), TRUE)

\* A name whose for statement is over while the block around it is not, or
\* an enum constant made known again, with no declaration of it further in.
Unsure(x) ==
  \E i \in 1 .. Len(c) :
    x \in c[i].unsure /\ \A j \in i + 1 .. Len(c) : x \notin DOMAIN c[j].names

\* Everywhere in a program, in initializers and in and after for statements
\* too, the IR generator (irgen.c:67-99, 734-749) takes the address of the
\* object or function C means by a name; a name it does not know is global.
SameObject ==
  \A x \in Names : CLookup(x).kind \in {"var", "func"} =>
    Lookup(ir, x, Address([name |-> x, id |-> 0])) = Address(CLookup(x))

\* The analysis (sema.c:46-54) takes the type, or the constant, of the entity
\* C means; but for the name being initialized and the unsure ones.
SameSymbol ==
  \A x \in Names \ {pending} : ~Unsure(x) =>
    Lookup(sema, x, Undeclared) = CLookup(x)

\* The parser (parser.c:308-326) takes exactly the typedef names of C for
\* types: a variable, function or constant of the name hides a typedef and
\* the end of its scope brings the typedef back; but for the name being
\* initialized and the unsure ones, as in SameSymbol.
TypedefNames ==
  \A x \in Names \ {pending} : ~Unsure(x) =>
    (Lookup(parser, x, "none") = "typedef") = (CLookup(x).kind = "typedef")
=============================================================================
