------------------------------ MODULE Declarator ------------------------------
(***************************************************************************)
(* Declarations as src/src/parser.c reads them: specifiers, struct, union    *)
(* and enum bodies, and declarators, which build a type from the inside out. *)
(*                                                                         *)
(* The recursive descent is a stack of frames, one per active call; `at' is  *)
(* where a frame goes on, `ret' what the call it waited for returned.       *)
(* parse_declarator cannot know the base of a declarator in parentheses when *)
(* it reads it: it builds on NULL and patches the NULL afterwards.           *)
(*                                                                         *)
(* An array bound, a bit-field width and an enumerator's value are one token *)
(* here ("[2]", ":3", "=5"): expressions are read by ExprParse.  Left out:   *)
(* function bodies, initializers, attributes, typeof, restrict, inline.      *)
(***************************************************************************)
EXTENDS TypeTable

CONSTANTS
  Programs,   \* inputs: records with a field `tokens'
  Idents,     \* the tokens that are identifiers
  NumberOf    \* the token of a bound, width or value -> its number

ASSUME InputAssumption ==
  /\ {"EOF", ""} \intersect Idents = {}
  /\ \A p \in Programs : p.tokens \in Seq(STRING)

VARIABLES
  program,
  pos,      \* next token
  stack,    \* active calls, innermost first
  ret,      \* what the last call returned
  heap,     \* the type table and its nodes
  scope,    \* file scope: [name, kind, type], oldest first
  tags,     \* tag scope: tag -> type
  decls,    \* declarations in the AST: [name, kind, type]
  errors,   \* a diagnostic was given
  changed   \* nodes that were changed after they were made

parse_vars == <<program, pos, stack, ret, errors>>
name_vars == <<scope, tags, decls>>
vars == <<parse_vars, heap, name_vars, changed>>

-----------------------------------------------------------------------------
(* Tokens *)

TokenAt(i) == IF i <= Len(program.tokens) THEN program.tokens[i] ELSE "EOF"
tok == TokenAt(pos)

StorageTokens == {"typedef", "static", "extern", "auto", "register"}
QualBit(t) == IF t = "const" THEN 1 ELSE 2
QualTokens == {"const", "volatile"}
SpecTokens == {"void", "bool", "char", "short", "int", "long", "float", "double",
               "signed", "unsigned"}
TagTokens == {"struct", "union"}

\* Symbols of a name, and the one a lookup finds: the newest.
SymbolsOf(x) == {i \in DOMAIN scope : scope[i].name = x}
symbol(x) == scope[CHOOSE i \in SymbolsOf(x) : \A j \in SymbolsOf(x) : j <= i]

is_typedef_name(x) == x \in Idents /\ SymbolsOf(x) # {} /\ symbol(x).kind = "typedef"

is_type_start ==
  \/ tok \in StorageTokens \union QualTokens \union SpecTokens \union TagTokens \union {"enum"}
  \/ is_typedef_name(tok)

Skip(n) == pos' = pos + n
Report(wrong) == errors' = (errors \/ wrong)

\* A mutation: the end is passed.
ExpectPastEnd(t) ==
  /\ pos' = pos + 1
  /\ Report(tok # t)

\* A wrong token is reported and skipped; the end is not passed.
expect(t) ==
  /\ pos' = (IF tok = "EOF" THEN pos ELSE pos + 1)
  /\ Report(tok # t)

-----------------------------------------------------------------------------
(* Frames *)

Specs == [f |-> "specs", at |-> "loop", storage |-> "", qual |-> 0, flags |-> {},
          base |-> NULL, seen |-> FALSE]
DeclList == [f |-> "list", at |-> "specs", ds |-> Specs, base |-> NULL]
Body(type, k) == [f |-> k, at |-> "loop", type |-> type, base |-> NULL, members |-> << >>]
Declarator(base) == [f |-> "declarator", at |-> "stars", base |-> base, quals |-> << >>,
                     name |-> "", group |-> NULL]
Suffix(inner) == [f |-> "suffix", at |-> "loop", inner |-> inner, params |-> << >>,
                  variadic |-> FALSE]

top == Head(stack)
In(f, at) == stack # << >> /\ top.f = f /\ top.at = at

Become(frame) == stack' = <<frame>> \o Tail(stack) /\ UNCHANGED ret
Call(frame, callee) == stack' = <<callee, frame>> \o Tail(stack) /\ UNCHANGED ret
Return(result) == stack' = Tail(stack) /\ ret' = result

\* What calls return: a type, with a declarator's name; or specifiers.
Result(type, name) == [type |-> type, name |-> name, ds |-> Specs]

-----------------------------------------------------------------------------
(* parse_decl_spec *)

SameNames == UNCHANGED name_vars
SameChanges == UNCHANGED changed
OnlyParsing == UNCHANGED <<program, heap>> /\ SameNames /\ SameChanges

\* One token, good or reported, of a specifier list that goes on as `frame'.
Specifier(good, frame) ==
  /\ Become(IF good THEN frame ELSE top)
  /\ Skip(1) /\ Report(~good) /\ OnlyParsing

SpecStorage ==
  /\ In("specs", "loop") /\ tok \in StorageTokens
  /\ Specifier(top.storage \in {"", tok}, [top EXCEPT !.storage = tok])

SpecQual ==
  /\ In("specs", "loop") /\ tok \in QualTokens
  /\ Specifier(TRUE, [top EXCEPT !.qual = With(@, QualBit(tok))])

\* void, bool and float exclude a type seen before; only they are remembered
\* as one.
SpecWhole ==
  /\ In("specs", "loop") /\ tok \in {"void", "bool", "float"}
  /\ Specifier(~top.seen, [top EXCEPT !.flags = @ \union {tok}, !.seen = TRUE])

SpecPart ==
  /\ In("specs", "loop") /\ tok \in {"char", "short", "int", "double", "signed", "unsigned"}
  /\ Specifier(tok \notin top.flags, [top EXCEPT !.flags = @ \union {tok}])

SpecLong ==
  /\ In("specs", "loop") /\ tok = "long"
  /\ Specifier("long2" \notin top.flags,
               [top EXCEPT !.flags = @ \union {IF "long" \in @ THEN "long2" ELSE "long"}])

SpecTypedefName ==
  /\ In("specs", "loop") /\ is_typedef_name(tok) /\ ~top.seen
  /\ Specifier(TRUE, [top EXCEPT !.base = symbol(tok).type, !.seen = TRUE])

SpecDuplicateTag ==
  /\ In("specs", "loop") /\ tok \in TagTokens \union {"enum"} /\ top.seen
  /\ Specifier(FALSE, top)

\* struct, union or enum: the type its tag stands for, or a new one; then its
\* body if there is one.  The frame waits at "tag".
SpecTag ==
  /\ In("specs", "loop") /\ tok \in TagTokens \union {"enum"} /\ ~top.seen
  /\ LET tagged == TokenAt(pos + 1) \in Idents
         tag == IF tagged THEN TokenAt(pos + 1) ELSE ""
         after == IF tagged THEN pos + 2 ELSE pos + 1
         known == tagged /\ tag \in DOMAIN tags /\ heap.nodes[tags[tag]].k = tok
         made == IF known THEN Made(heap, tags[tag]) ELSE NewTagged(heap, tok, tag)
         waiting == [top EXCEPT !.at = "tag"]
     IN  /\ heap' = made.heap
         /\ tags' = IF tagged
                    THEN [x \in DOMAIN tags \union {tag} |->
                            IF x = tag THEN made.type ELSE tags[x]]
                    ELSE tags
         /\ IF TokenAt(after) = "{"
            THEN /\ pos' = after + 1
                 /\ Call(waiting, Body(made.type, IF tok = "enum" THEN "enum" ELSE "members"))
            ELSE /\ pos' = after
                 /\ stack' = <<waiting>> \o Tail(stack) /\ ret' = Result(made.type, "")
  /\ UNCHANGED <<program, errors, scope, decls>> /\ SameChanges

SpecTagged ==
  /\ In("specs", "tag")
  /\ Become([top EXCEPT !.at = "loop", !.base = ret.type, !.seen = TRUE])
  /\ UNCHANGED <<pos, errors>> /\ OnlyParsing

SpecsDone ==
  /\ In("specs", "loop")
  /\ ~is_type_start \/ (is_typedef_name(tok) /\ top.seen)
  /\ Return([Result(NULL, "") EXCEPT !.ds = top])
  /\ UNCHANGED <<pos, errors>> /\ OnlyParsing

\* The types of specifier lists: the first whose flags are all there.
SpecTable ==
  << <<{"void"}, "void">>, <<{"bool"}, "bool">>, <<{"float"}, "float">>,
     <<{"double", "long"}, "ldouble">>, <<{"double"}, "double">>,
     <<{"char", "unsigned"}, "uchar">>, <<{"char", "signed"}, "schar">>, <<{"char"}, "char">>,
     <<{"short", "unsigned"}, "ushort">>, <<{"short"}, "short">>,
     <<{"long2", "unsigned"}, "ullong">>, <<{"long2"}, "llong">>,
     <<{"long", "unsigned"}, "ulong">>, <<{"long"}, "long">>,
     <<{"signed"}, "int">>, <<{"unsigned"}, "uint">>, <<{}, "int">> >>

resolve_type_spec(ds) ==
  LET fits == {i \in DOMAIN SpecTable : SpecTable[i][1] \subseteq ds.flags}
  IN IF ds.base # NULL THEN ds.base
     ELSE Scalar(SpecTable[CHOOSE i \in fits : \A j \in fits : i <= j][2])

\* The default branch at the end: signed and unsigned together.
BadSpec(ds) ==
  /\ ds.base = NULL
  /\ {"signed", "unsigned"} \subseteq ds.flags
  /\ ds.flags \subseteq {"signed", "unsigned", "int"}

\* The type every declarator of the list starts from.
Base(ds) == IF ds.qual = 0 THEN Made(heap, resolve_type_spec(ds))
            ELSE type_qualify(heap, resolve_type_spec(ds), ds.qual)

-----------------------------------------------------------------------------
(* struct, union and enum bodies *)

\* The loop of parse_struct_union: another member declaration, or the end,
\* where the type is completed in place.
Member ==
  /\ In("members", "loop") /\ tok \notin {"}", "EOF"}
  /\ Call([top EXCEPT !.at = "specs"], Specs)
  /\ UNCHANGED <<pos, errors>> /\ OnlyParsing

MemberSpecs ==
  /\ In("members", "specs")
  /\ LET b == Base(ret.ds) IN Become([top EXCEPT !.at = "next", !.base = b.type])
                           /\ heap' = b.heap
  /\ Report(BadSpec(ret.ds))
  /\ UNCHANGED <<program, pos>> /\ SameNames /\ SameChanges

\* No declarator: a struct or union without a name is a member of its own.
MemberUnnamed ==
  /\ In("members", "next") /\ tok = ";"
  /\ LET own == At(heap, top.base).k \in TagTokens
     IN Become([top EXCEPT !.at = "loop",
                           !.members = IF own THEN Append(@, <<"", top.base, -1>>) ELSE @])
  /\ expect(";") /\ OnlyParsing

MemberDeclarator ==
  /\ In("members", "next") /\ tok # ";"
  /\ Call([top EXCEPT !.at = "declarator"], Declarator(top.base))
  /\ UNCHANGED <<pos, errors>> /\ OnlyParsing

WidthTokens == {":2", ":3"}

\* A member, with its width if it has one.
MemberDone ==
  /\ In("members", "declarator")
  /\ LET wide == tok \in WidthTokens
     IN  /\ Become([top EXCEPT !.at = "more",
                               !.members = Append(@, <<ret.name, ret.type,
                                                       IF wide THEN NumberOf[tok] ELSE -1>>)])
         /\ Skip(IF wide THEN 1 ELSE 0)
  /\ Report(FALSE) /\ OnlyParsing

MemberMore ==
  /\ In("members", "more")
  /\ Become([top EXCEPT !.at = IF tok = "," THEN "next" ELSE "loop"])
  /\ IF tok = "," THEN Skip(1) /\ Report(FALSE) ELSE expect(";")
  /\ OnlyParsing

\* A mutation: the members go to a new type of the same tag.
CompleteCopy(type, members) ==
  Allocate(heap, [heap.nodes[type] EXCEPT !.n = 0, !.params = members]).heap

Completed(type, members) == Complete(heap, type, members)

BodyDone ==
  /\ In("members", "loop") \/ In("enum", "loop") \/ In("enum", "close")
  /\ tok \in {"}", "EOF"} \/ top.at = "close"
  /\ expect("}")
  /\ heap' = Completed(top.type, top.members)
  /\ changed' = changed \union {top.type}
  /\ Return(Result(top.type, ""))
  /\ UNCHANGED program /\ SameNames

ValueTokens == {"=5"}

\* One more than the enumerator before it, unless it says otherwise.
NextValue(members) ==
  IF members = << >> THEN 0 ELSE members[Len(members)][2] + 1

\* An enumerator, which becomes a symbol; without a comma it is the last.
Enumerator ==
  /\ In("enum", "loop") /\ tok \in Idents
  /\ LET given == TokenAt(pos + 1) \in ValueTokens
         then == TokenAt(IF given THEN pos + 2 ELSE pos + 1)
         value == IF given THEN NumberOf[TokenAt(pos + 1)] ELSE NextValue(top.members)
     IN  /\ Become([top EXCEPT !.at = IF then = "," THEN "loop" ELSE "close",
                               !.members = Append(@, <<tok, value>>)])
         /\ pos' = pos + (IF given THEN 2 ELSE 1) + (IF then = "," THEN 1 ELSE 0)
  /\ scope' = Append(scope, [name |-> tok, kind |-> "enum", type |-> Scalar("int")])
  /\ UNCHANGED <<program, errors, heap, tags, decls>> /\ SameChanges

\* A mutation: what is not an enumerator is not skipped.
NotAnEnumeratorStaying ==
  /\ In("enum", "loop") /\ tok \notin Idents \union {"}", "EOF"}
  /\ Become(top) /\ Skip(0) /\ Report(TRUE) /\ OnlyParsing

NotAnEnumerator ==
  /\ In("enum", "loop") /\ tok \notin Idents \union {"}", "EOF"}
  /\ Become(top) /\ Skip(1) /\ Report(TRUE) /\ OnlyParsing

-----------------------------------------------------------------------------
(* parse_declarator *)

Star ==
  /\ In("declarator", "stars") /\ tok = "*" /\ Len(top.quals) < 16
  /\ Become([top EXCEPT !.quals = Append(@, 0)])
  /\ Skip(1) /\ Report(FALSE) /\ OnlyParsing

StarQual ==
  /\ In("declarator", "stars") /\ tok \in QualTokens /\ top.quals # << >>
  /\ Become([top EXCEPT !.quals[Len(top.quals)] = With(@, QualBit(tok))])
  /\ Skip(1) /\ Report(FALSE) /\ OnlyParsing

StarsDone ==
  /\ In("declarator", "stars")
  /\ tok # "*" \/ Len(top.quals) = 16
  /\ tok \notin QualTokens \/ top.quals = << >>
  /\ Become([top EXCEPT !.at = "point"])
  /\ UNCHANGED <<pos, errors>> /\ OnlyParsing

\* The pointers on the base, the last star's first.
Point ==
  /\ In("declarator", "point") /\ top.quals # << >>
  /\ LET n == Len(top.quals)
         made == type_pointer(heap, top.base, top.quals[n])
     IN  /\ Become([top EXCEPT !.base = made.type, !.quals = SubSeq(@, 1, n - 1)])
         /\ heap' = made.heap
  /\ UNCHANGED <<program, pos, errors>> /\ SameNames /\ SameChanges

\* A declarator in parentheses, parsed on NULL.
Group ==
  /\ In("declarator", "point") /\ top.quals = << >> /\ tok = "("
  /\ Call([top EXCEPT !.at = "group"], Declarator(NULL))
  /\ Skip(1) /\ Report(FALSE) /\ OnlyParsing

\* A name, or an abstract declarator, and its suffixes.
Direct ==
  /\ In("declarator", "point") /\ top.quals = << >> /\ tok # "("
  /\ LET named == tok \in Idents
     IN  /\ Call([top EXCEPT !.at = "suffix", !.name = IF named THEN tok ELSE ""],
                 Suffix(top.base))
         /\ Skip(IF named THEN 1 ELSE 0)
  /\ Report(FALSE) /\ OnlyParsing

DirectDone ==
  /\ In("declarator", "suffix")
  /\ Return(Result(ret.type, top.name))
  /\ UNCHANGED <<pos, errors>> /\ OnlyParsing

\* The closing parenthesis, then the suffixes that belong to the base.
GroupDone ==
  /\ In("declarator", "group")
  /\ Call([top EXCEPT !.at = "patch", !.name = ret.name, !.group = ret.type],
          Suffix(top.base))
  /\ expect(")") /\ OnlyParsing

Open(t) == At(heap, t).k \in {"ptr", "func", "array", "unsized"} /\ At(heap, t).sub = NULL

\* The walk that looks for the NULL: it stops at the first node.
PatchGroup ==
  /\ In("declarator", "patch")
  /\ Return(Result(IF top.group = NULL THEN ret.type ELSE top.group, top.name))
  /\ IF top.group # NULL /\ Open(top.group)
       THEN /\ heap' = Patch(heap, top.group, ret.type)
            /\ changed' = changed \union {top.group}
       ELSE UNCHANGED <<heap, changed>>
  /\ UNCHANGED <<program, pos, errors>> /\ SameNames

-----------------------------------------------------------------------------
(* parse_declarator_suffix *)

ArrayTokens == {"[2]", "[3]"}

SuffixArray ==
  /\ In("suffix", "loop") /\ tok \in ArrayTokens \union {"[]"}
  /\ LET made == IF tok = "[]" THEN type_array_unsized(heap, top.inner)
                 ELSE type_array(heap, top.inner, NumberOf[tok])
     IN Become([top EXCEPT !.inner = made.type]) /\ heap' = made.heap
  /\ Skip(1) /\ Report(FALSE)
  /\ UNCHANGED program /\ SameNames /\ SameChanges

SuffixFunction ==
  /\ In("suffix", "loop") /\ tok = "("
  /\ Become([top EXCEPT !.at = IF TokenAt(pos + 1) = ")" THEN "close" ELSE "param",
                        !.params = << >>, !.variadic = FALSE])
  /\ Skip(1) /\ Report(FALSE) /\ OnlyParsing

Ellipsis ==
  /\ In("suffix", "param") /\ tok = "..."
  /\ Become([top EXCEPT !.at = "close", !.variadic = TRUE])
  /\ Skip(1) /\ Report(FALSE) /\ OnlyParsing

Param ==
  /\ In("suffix", "param") /\ tok # "..."
  /\ Call([top EXCEPT !.at = "specs"], Specs)
  /\ UNCHANGED <<pos, errors>> /\ OnlyParsing

ParamSpecs ==
  /\ In("suffix", "specs")
  /\ LET b == Base(ret.ds)
     IN Call([top EXCEPT !.at = "declarator"], Declarator(b.type)) /\ heap' = b.heap
  /\ Report(BadSpec(ret.ds))
  /\ UNCHANGED <<program, pos>> /\ SameNames /\ SameChanges

ParamDone ==
  /\ In("suffix", "declarator")
  /\ Become([top EXCEPT !.at = IF tok = "," THEN "param" ELSE "close",
                        !.params = Append(@, <<ret.name, ret.type>>)])
  /\ Skip(IF tok = "," THEN 1 ELSE 0) /\ Report(FALSE) /\ OnlyParsing

\* A single unnamed void is no parameter.
Params(params) ==
  IF Len(params) = 1 /\ At(heap, params[1][2]).name = "void" /\ params[1][1] = ""
  THEN << >> ELSE params

FunctionDone ==
  /\ In("suffix", "close")
  /\ expect(")")
  /\ LET made == type_func(heap, top.inner, Params(top.params), top.variadic)
     IN Become([top EXCEPT !.at = "loop", !.inner = made.type]) /\ heap' = made.heap
  /\ UNCHANGED program /\ SameNames /\ SameChanges

SuffixDone ==
  /\ In("suffix", "loop") /\ tok \notin ArrayTokens \union {"[]", "("}
  /\ Return(Result(top.inner, ""))
  /\ UNCHANGED <<pos, errors>> /\ OnlyParsing

-----------------------------------------------------------------------------
(* parse_decl_list, and the loop of parser_parse *)

TopDeclaration ==
  /\ stack = << >> /\ tok # "EOF" /\ is_type_start
  /\ stack' = <<Specs, DeclList>>
  /\ UNCHANGED <<pos, errors, ret>> /\ OnlyParsing

TopSkip ==
  /\ stack = << >> /\ tok # "EOF" /\ ~is_type_start
  /\ Skip(1) /\ Report(TRUE)
  /\ UNCHANGED <<stack, ret>> /\ OnlyParsing

\* A declaration of a type alone ends at once.
ListBase ==
  /\ In("list", "specs")
  /\ LET b == Base(ret.ds)
         frame == [top EXCEPT !.at = "declarator", !.ds = ret.ds, !.base = b.type]
     IN  /\ heap' = b.heap
         /\ IF tok = ";" THEN Return(Result(NULL, "")) /\ Skip(1)
            ELSE Call(frame, Declarator(b.type)) /\ UNCHANGED pos
  /\ Report(BadSpec(ret.ds))
  /\ UNCHANGED program /\ SameNames /\ SameChanges

\* A typedef name or a variable.
ListDeclared ==
  /\ In("list", "declarator") /\ ret.name # ""
  /\ LET kind == IF top.ds.storage = "typedef" THEN "typedef" ELSE "var"
         entry == [name |-> ret.name, kind |-> kind, type |-> ret.type]
     IN  decls' = Append(decls, entry) /\ scope' = Append(scope, entry)
  /\ Become([top EXCEPT !.at = "more"])
  /\ UNCHANGED <<program, pos, errors, heap, tags>> /\ SameChanges

\* An abstract declarator is passed over, and so is the comma after it.
ListUnnamed ==
  /\ In("list", "declarator") /\ ret.name = ""
  /\ Become([top EXCEPT !.at = IF tok = "," THEN "more" ELSE "end"])
  /\ Skip(IF tok = "," THEN 1 ELSE 0) /\ Report(FALSE) /\ OnlyParsing

ListMore ==
  /\ In("list", "more") /\ tok = ","
  /\ Call([top EXCEPT !.at = "declarator"], Declarator(top.base))
  /\ Skip(1) /\ Report(FALSE) /\ OnlyParsing

ListEnd ==
  /\ In("list", "end") \/ (In("list", "more") /\ tok # ",")
  /\ Return(Result(NULL, ""))
  /\ expect(";") /\ OnlyParsing

-----------------------------------------------------------------------------

Init ==
  /\ program \in Programs
  /\ pos = 1 /\ stack = << >> /\ ret = Result(NULL, "") /\ errors = FALSE
  /\ heap = NoTypes
  /\ scope = << >> /\ tags = [x \in {} |-> NULL] /\ decls = << >>
  /\ changed = {}

ReadSpecs ==
  \/ SpecStorage \/ SpecQual \/ SpecWhole \/ SpecPart \/ SpecLong \/ SpecTypedefName
  \/ SpecDuplicateTag \/ SpecTag \/ SpecTagged \/ SpecsDone
ReadBody ==
  \/ Member \/ MemberSpecs \/ MemberUnnamed \/ MemberDeclarator \/ MemberDone \/ MemberMore
  \/ Enumerator \/ NotAnEnumerator \/ BodyDone
ReadDeclarator ==
  \/ Star \/ StarQual \/ StarsDone \/ Point \/ Group \/ GroupDone \/ PatchGroup \/ Direct \/ DirectDone
  \/ SuffixArray \/ SuffixFunction \/ Ellipsis \/ Param \/ ParamSpecs \/ ParamDone
  \/ FunctionDone \/ SuffixDone
ReadList == TopDeclaration \/ TopSkip \/ ListBase \/ ListDeclared \/ ListUnnamed
            \/ ListMore \/ ListEnd

Next == ReadSpecs \/ ReadBody \/ ReadDeclarator \/ ReadList

\* The parser is one loop: it goes on while it can.
Spec == Init /\ [][Next]_vars /\ WF_vars(Next)

-----------------------------------------------------------------------------

\* The types there are: the static scalars and the nodes of the arena.
Types(h) == (-Len(ScalarNames) .. -1) \union DOMAIN h.nodes
Symbol(kinds) == [name : Idents, kind : kinds, type : Types(heap)]

\* TypeOK: the parser stands inside its input; symbols, declarations, tags and
\* the nodes of the type table refer to types that exist, and only a node may
\* still wait, on NULL, for the type it is derived from; a bucket holds nodes
\* of the arena.
TypeOK ==
  /\ pos \in 1 .. Len(program.tokens) + 1
  /\ errors \in BOOLEAN
  /\ scope \in Seq(Symbol({"typedef", "var", "enum"})) /\ decls \in Seq(Symbol({"typedef", "var"}))
  /\ DOMAIN tags \subseteq Idents
  /\ \A x \in DOMAIN tags :
       /\ tags[x] \in DOMAIN heap.nodes
       /\ heap.nodes[tags[x]].k \in TagTokens \union {"enum"}
  /\ \A t \in DOMAIN heap.nodes : heap.nodes[t].sub \in Types(heap) \union {NULL}
  /\ changed \subseteq DOMAIN heap.nodes
  /\ \A s \in Slots : \A i \in DOMAIN heap.buckets[s] : heap.buckets[s][i] \in DOMAIN heap.nodes

\* InternedOnce: two nodes of the table that were not changed since they were
\* made differ, so that pointer equality is type equality among them
\* (type.h:4): the four constructors find every one of them again under the
\* key it was made with.
InTable(t) == \E s \in Slots : \E i \in DOMAIN heap.buckets[s] : heap.buckets[s][i] = t
InternedOnce ==
  \A t, u \in DOMAIN heap.nodes \ changed :
    InTable(t) /\ InTable(u) /\ heap.nodes[t] = heap.nodes[u] => t = u
=============================================================================
