------------------------------ MODULE MCDriver -------------------------------
(* Instance of Driver for TLC: every short text over a few small alphabets,   *)
(* one for each part of the lexer, compiled to stdout; and some texts with    *)
(* every mode and output.                                                    *)
EXTENDS CLex

UpTo(n, S) == UNION {[1 .. k -> S] : k \in 0 .. n}
Starting(first, rest) == {Chars(f) \o r : f \in first, r \in rest}

Operators == UpTo(3, CharSet("+-=<>.& "))
Comments == UpTo(5, CharSet("/*a\n"))
Markers == UpTo(4, CharSet("#a \n"))
Strings == Starting({"\"", "L\""}, UpTo(4, CharSet("\"\\nx1")))
Characters ==
  Starting({"'", "L'", "'\\7"}, UpTo(4, CharSet("'\\n07")))
    \union Starting({"'\\3", "L'\\3", "\"\\3"}, UpTo(3, CharSet("'\"7")))
Broken == Starting({"\"", "'", "a\n'", "/*"}, UpTo(3, CharSet("\"'\n@*/")))
Numbers == Starting({"0", "1", "."}, UpTo(3, CharSet("018.e+ulf")))
HexNumbers == Starting({"0x", "0X1"}, UpTo(3, CharSet("a.p-1L")))
KeywordTexts ==
  {Chars(kw_table[k]) : k \in DOMAIN kw_table}
    \union {Chars(SubSeq(kw_table[k], 1, Len(kw_table[k]) - 1)) : k \in DOMAIN kw_table}
    \union {Chars(kw_table[k] \o c) : k \in DOMAIN kw_table, c \in {"_", "s"}}
MCTexts == Operators \union Comments \union Markers \union Strings \union Characters
             \union Broken \union Numbers \union HexNumbers \union KeywordTexts

Few == {Chars("int x;"), Chars("\"a"), Chars("@"), Chars("x/*")}
MCInputs ==
  [text : MCTexts, mode : {"compile"}, output : {"stdout"}]
    \union [text : Few, mode : Modes, output : Outputs]
=============================================================================
