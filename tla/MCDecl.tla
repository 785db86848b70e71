-------------------------------- MODULE MCDecl --------------------------------
(* Valid declarations built from C types, in every order of specifiers and   *)
(* with shared, nested and grouped derivations, and short token sequences    *)
(* that need not be declarations at all.                                    *)
EXTENDS CDecl

MCSlots == {0, 1}
\* A coarse hash: many keys share a bucket.
MCHash(a, b) == (a + (b \div 2)) % 2
MCIdents == {"x", "y", "z", "T", "P", "S", "A"}
MCNumberOf == [t \in {"[2]", "[3]", ":2", ":3", "=5"} |->
                 IF t \in {"[2]", ":2"} THEN 2 ELSE IF t = "=5" THEN 5 ELSE 3]

-----------------------------------------------------------------------------
(* Specifiers: the lists of C99 6.7.2p2, in every order *)

Scalars99 ==
  { <<"void", {"void"}>>, <<"bool", {"bool"}>>, <<"float", {"float"}>>,
    <<"double", {"double"}>>, <<"ldouble", {"long", "double"}>>,
    <<"char", {"char"}>>, <<"schar", {"signed", "char"}>>, <<"uchar", {"unsigned", "char"}>>,
    <<"int", {"int"}>>, <<"int", {"signed"}>>, <<"int", {"signed", "int"}>>,
    <<"uint", {"unsigned"}>>, <<"uint", {"unsigned", "int"}>> }
  \union
  UNION { { <<w[1], w[2]>>, <<w[1], w[2] \union {"int"}>>,
            <<w[1], w[2] \union {"signed"}>>, <<w[1], w[2] \union {"signed", "int"}>>,
            <<"u" \o w[1], w[2] \union {"unsigned"}>>,
            <<"u" \o w[1], w[2] \union {"unsigned", "int"}>> } :
          w \in { <<"short", {"short"}>>, <<"long", {"long"}>>,
                  <<"llong", {"long", "second long"}>> } }

Keyword(w) == IF w = "second long" THEN "long" ELSE w
Orders(words) == {[i \in DOMAIN q |-> Keyword(q[i])] : q \in SetToSeqs(words)}

\* A qualifier and a storage class may stand anywhere among them.
ScalarPrograms ==
  UNION { { Valid(<<Declaration(st, Spec99(o, Plain("scalar", s[1], q[2])),
                                <<Dcl("x", IF s[1] = "void" THEN <<Ptr(0)>> ELSE << >>, -1)>>)>>,
                  << >>) :
              o \in Orders(s[2] \union q[1]), st \in {<<"typedef">>, << >>} } :
          s \in Scalars99, q \in {<<{}, 0>>, <<{"const"}, 1>>} }

-----------------------------------------------------------------------------
(* Declarators *)

CInt == Spec99(<<"int">>, Plain("scalar", "int", 0))
CChar == Spec99(<<"char">>, Plain("scalar", "char", 0))
ConstInt == Spec99(<<"const", "int">>, Plain("scalar", "int", 1))
CVoid == Spec99(<<"void">>, Plain("scalar", "void", 0))
StructS == Spec99(<<"struct", "S">>, Plain("struct", "S", 0))
ConstS == Spec99(<<"struct", "S", "const">>, Plain("struct", "S", 1))

Parameter(specs, name, derivs) == [specs |-> specs, dcl |-> Dcl(name, derivs, -1)]
OfVoid == Func(<<Parameter(CVoid, "", << >>)>>, FALSE)
OfInt == Func(<<Parameter(CInt, "", << >>)>>, FALSE)
OfChar == Func(<<Parameter(CChar, "", << >>)>>, FALSE)
OfNamed == Func(<<Parameter(CInt, "z", << >>), Parameter(CChar, "", <<Ptr(1)>>)>>, TRUE)
OfCallback == Func(<<Parameter(CInt, "z", <<Ptr(0), OfInt>>)>>, FALSE)

Two == Array("[2]")
Three == Array("[3]")

\* Derivations whose parentheses hold one derivation, next to the name.
Derivations ==
  { << >>, <<Ptr(0)>>, <<Ptr(1)>>, <<Ptr(0), Ptr(0)>>, <<Two>>, <<Three>>,
    <<Array("[]"), Ptr(0)>>, <<Func(<< >>, FALSE)>>, <<OfVoid>>, <<OfInt>>, <<OfChar>>,
    <<OfNamed, Ptr(0)>>, <<OfCallback>>, <<Ptr(0), Two>>, <<Ptr(1), Two, Ptr(0)>>,
    <<Ptr(0), OfInt>>, <<Ptr(0), OfChar>>, <<Ptr(0), OfVoid, Ptr(0)>>, <<Two, Ptr(0)>> }

\* The parentheses that are needed, and more around what is next to the name.
Spellings(x) == {Dcl(x, d, -1) : d \in Derivations} \union {Dcl(x, d, 0) : d \in Derivations}
                \union {Dcl(x, d, 1) : d \in {e \in Derivations : e # << >>}}

SingleDeclarators == { Valid(<<Declaration(<< >>, s, <<d>>)>>, << >>) :
                         s \in {CInt, ConstInt}, d \in Spellings("x") }

\* Two names from one list or from two declarations.
Lists == { Valid(<<Declaration(<< >>, CInt, <<Dcl("x", a, -1), Dcl("y", b, -1)>>)>>, << >>) :
             a \in Derivations, b \in Derivations }
Few == {<<Ptr(0)>>, <<Two>>, <<OfInt>>, <<Ptr(0), OfInt>>, <<Ptr(0), Two>>, <<OfCallback>>}
Pairs == { Valid(<<Declaration(<< >>, s, <<Dcl("x", a, -1)>>),
                   Declaration(<< >>, t, <<Dcl("y", b, -1), Dcl("z", a, -1)>>)>>, << >>) :
             s \in {CInt, ConstInt}, t \in {CInt, CChar}, a \in Few, b \in Few }

\* Typedef names as bases, of a pointer and of a function too.
TypedefPrograms ==
  { Valid(<<Declaration(<<"typedef">>, CInt, <<Dcl("T", a, -1)>>),
            Declaration(<< >>, Spec99(<<"T">>, Derived(Meaning(a), CInt.type)),
                        <<Dcl("x", b, -1), Dcl("y", c, -1)>>)>>, << >>) :
      a \in {<< >>, <<Ptr(0)>>, <<OfInt>>, <<Ptr(0), OfInt>>, <<Two>>},
      b \in {<<Ptr(0)>>, <<Ptr(0), Two>>}, c \in {<<Ptr(0)>>, <<Ptr(1)>>, <<Ptr(0), OfVoid>>} }

-----------------------------------------------------------------------------
(* Types with a tag *)

Body99(declarations) == <<"{">> \o FlattenSeq(declarations) \o <<"}">>
MemberDcl(specs, name, derivs, width) ==
  [tokens |-> specs.tokens \o DclTokens(Dcl(name, derivs, -1))
              \o (IF width = "" THEN << >> ELSE <<width>>) \o <<";">>,
   means |-> [name |-> name, type |-> Derived(Meaning(derivs), specs.type),
              width |-> IF width = "" THEN -1 ELSE MCNumberOf[width]]]
Defining(k, tag, members) ==
  Spec99(<<k, tag>> \o Body99([i \in DOMAIN members |-> members[i].tokens]), Plain(k, tag, 0))
Means(members) == [i \in DOMAIN members |-> members[i].means]

\* A list cell, defined before or after it is named, and copied as const.
Cells == { <<MemberDcl(StructS, "x", <<Ptr(0)>>, ""), MemberDcl(CInt, "y", << >>, w)>> :
             w \in {"", ":3"} }
         \union { <<MemberDcl(CInt, "x", <<Ptr(0), OfInt>>, ""),
                    MemberDcl(StructS, "y", <<Ptr(0), Two>>, "")>> }

StructPrograms ==
  { Valid(<<Declaration(<< >>, StructS, <<Dcl("x", a, -1)>>),
            Declaration(<< >>, Defining("struct", "S", m), <<Dcl("y", b, -1)>>),
            Declaration(<< >>, t, <<Dcl("z", b, -1)>>)>>, [S |-> Means(m)]) :
      m \in Cells, a \in {<<Ptr(0)>>, <<Ptr(0), OfInt>>, <<OfInt, Ptr(0)>>},
      b \in {<< >>, <<Ptr(0)>>, <<Ptr(0), Two>>}, t \in {StructS, ConstS} }
  \union
  { Valid(<<Declaration(<< >>, Defining("union", "A", m), <<Dcl("x", << >>, -1)>>)>>,
          [A |-> Means(m), S |-> << >>]) :
      m \in { <<MemberDcl(CInt, "y", <<Two>>, ""), MemberDcl(CChar, "z", <<Three>>, "")>>,
              <<MemberDcl(CInt, "y", << >>, ":2"), MemberDcl(CInt, "", << >>, ":3")>> } }

Enumerators == { <<<<"y", "">>>>, <<<<"y", "=5">>, <<"z", "">>>>,
                 <<<<"y", "">>, <<"z", "=5">>, <<"P", "">>>>, <<<<"y", "">>, <<"z", "">>, <<"P", "">>>> }
\* The value of the i-th: its own, or what the last one with its own and the
\* distance to it give.
ValueOf(es, i) ==
  LET own == {j \in 1 .. i : es[j][2] # ""}
      last == CHOOSE j \in own : \A k \in own : k <= j
  IN IF own = {} THEN i - 1 ELSE MCNumberOf[es[last][2]] + i - last
EnumPrograms ==
  { Valid(<<Declaration(<< >>,
              Spec99(<<"enum", "A", "{">>
                     \o FlattenSeq([i \in DOMAIN es |->
                          <<es[i][1]>> \o (IF es[i][2] = "" THEN << >> ELSE <<es[i][2]>>)
                          \o (IF i < Len(es) THEN <<",">> ELSE last)])
                     \o <<"}">>, Plain("enum", "A", 0)),
              <<Dcl("x", <<Ptr(0)>>, -1)>>)>>,
          [A |-> [i \in DOMAIN es |-> <<es[i][1], ValueOf(es, i)>>]]) :
      es \in Enumerators, last \in {<< >>, <<",">>} }

-----------------------------------------------------------------------------
(* Any tokens *)

MaxTokens == 4
AnyTokens(start, alphabet) ==
  {Arbitrary(start \o t) : t \in UNION {[1 .. n -> alphabet] : n \in 0 .. MaxTokens}}
Broken ==
  AnyTokens(<<"struct", "{">>, {"struct", "S", "{", "}", ";", ",", ":2", "int"})
  \union AnyTokens(<<"int">>, {"int", "x", "(", ")", "*", ",", "[2]", "..."})
  \union AnyTokens(<<"enum">>, {"enum", "{", "}", "x", "=5", ",", ";"})
  \union AnyTokens(<< >>, {"typedef", "const", "signed", "unsigned", "float", "T", ";"})

MCPrograms ==
  ScalarPrograms \union SingleDeclarators \union Lists \union Pairs \union TypedefPrograms
    \union StructPrograms \union EnumPrograms \union Broken

\* An array of arrays.
MatrixPrograms ==
  { Valid(<<Declaration(<< >>, s, <<Dcl("x", << >>, -1), Dcl("y", <<Two, Three>>, -1)>>)>>, << >>) :
      s \in {CInt, CChar} }
=============================================================================
