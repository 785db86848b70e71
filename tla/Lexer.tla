-------------------------------- MODULE Lexer --------------------------------
(***************************************************************************)
(* src/src/lexer.c: the text of a translation unit, read token by token as  *)
(* the parser asks for them, with one token of lookahead.  The text is a    *)
(* sequence of characters (strings of length 1); a token is its kind, its   *)
(* extent and the position that every later diagnostic about it will show.  *)
(*                                                                          *)
(* Left out: the value of a number (strtoull, strtod), which of the         *)
(* spellings of a keyword name the same kind, the interning of names         *)
(* (StrTab), the characters for which TLA+ has no string (not ASCII, vertical *)
(* tab, back quote), and the width of an escape (a hexadecimal one overflows  *)
(* an int).                                                                 *)
(***************************************************************************)
EXTENDS Naturals, Sequences, FiniteSetsExt

CONSTANT BUF  \* capacity of the buffer for the characters of a string literal

ASSUME LexerAssumption == BUF \in Nat

VARIABLES
  text,      \* l->src
  lex,       \* the cursor and what was reported on the way: a LexState
  has_peek,
  peeked     \* l->peeked

lexVars == <<text, lex, has_peek, peeked>>

Shown == [at : Nat, line : Nat, col : Int]  \* where a diagnostic points
LexState == [cur : Nat \ {0}, line : Nat, col : Int, errors : Seq(Shown), warnings : Seq(Shown)]

lexer_init == [cur |-> 1, line |-> 1, col |-> 1, errors |-> << >>, warnings |-> << >>]

-----------------------------------------------------------------------------
(* Characters *)

Chars(s) == [i \in 1 .. Len(s) |-> SubSeq(s, i, i)]
CharSet(s) == {SubSeq(s, i, i) : i \in 1 .. Len(s)}

Space == {" ", "\t", "\r", "\n", "\f"}
Digit == CharSet("0123456789")
Letter == CharSet("ABCDEFGHIJKLMNOPQRSTUVWXYZabcdefghijklmnopqrstuvwxyz_")
Sign == {"+", "-"}
Unsigned == {"u", "U"}
Long == {"l", "L"}
IntSuffix == Unsigned \union Long

NUL == ""  \* what reading beyond the end gives
Newline == "\n"
Quote == "\""

\* Character codes: the printable characters in their order (32 to 95 and 97 to
\* 126), and what the letters of the escapes stand for.
Printable ==
  " !\"#$%&'()*+,-./0123456789:;<=>?@ABCDEFGHIJKLMNOPQRSTUVWXYZ[\\]^_"
Lowercase == "abcdefghijklmnopqrstuvwxyz{|}~"
IndexIn(s, c) == CHOOSE i \in 1 .. Len(s) : SubSeq(s, i, i) = c
EscapeCode == [a |-> 7, b |-> 8, t |-> 9, n |-> 10, v |-> 11, f |-> 12, r |-> 13]
CodeOf ==
  [c \in CharSet(Printable) \union CharSet(Lowercase) \union {"\t", "\n", "\f", "\r", NUL} |->
     CASE c \in CharSet(Printable) -> 31 + IndexIn(Printable, c)
       [] c \in CharSet(Lowercase) -> 96 + IndexIn(Lowercase, c)
       [] c = "\t" -> 9 [] c = "\n" -> 10 [] c = "\f" -> 12 [] c = "\r" -> 13 [] c = NUL -> 0]
DigitValue ==
  [c \in Digit \union CharSet("abcdef") \union CharSet("ABCDEF") |->
     CASE c \in Digit -> IndexIn("0123456789", c) - 1
       [] c \in CharSet("abcdef") -> IndexIn("abcdef", c) + 9
       [] c \in CharSet("ABCDEF") -> IndexIn("ABCDEF", c) + 9]

Character == DOMAIN CodeOf \ {NUL}
HexDigit == DOMAIN DigitValue
OctalDigit == {c \in Digit : DigitValue[c] < 8}

At(i) == IF i <= Len(text) THEN text[i] ELSE NUL

\* The characters of i .. j - 1.
Word(i, j) == LET word[k \in i .. j] == IF k = i THEN "" ELSE word[k - 1] \o text[k - 1] IN word[j]

\* n turns of a loop.  One that stops before leaves its state alone from then on.
Turns(Turn(_), start, n) ==
  LET state[k \in 0 .. n] == IF k = 0 THEN start ELSE Turn(state[k - 1]) IN state[n]

\* The first place from i on whose character is not in S.
Stop(i, S) == Min({k \in i .. Len(text) + 1 : k = Len(text) + 1 \/ text[k] \notin S})

-----------------------------------------------------------------------------
(* The cursor *)

at_end(l) == l.cur > Len(text)
peekc(l) == At(l.cur)
peekc2(l) == At(l.cur + 1)

\* A mutation: a character after a newline is counted from 0.
AdvToFromZero(l, j) ==
  LET newlines == {k \in l.cur .. j - 1 : At(k) = Newline}
  IN  [l EXCEPT !.cur  = j,
                !.line = @ + Cardinality(newlines),
                !.col  = IF newlines = {} THEN @ + (j - l.cur) ELSE j - Max(newlines) - 1]

\* adv, repeated until the cursor is at j.
AdvTo(l, j) ==
  LET newlines == {k \in l.cur .. j - 1 : At(k) = Newline}
  IN  [l EXCEPT !.cur  = j,
                !.line = @ + Cardinality(newlines),
                !.col  = IF newlines = {} THEN @ + (j - l.cur) ELSE j - Max(newlines)]

\* The place where the lexer is, or was in the state s.
Here(s) == [at |-> s.cur, line |-> s.line, col |-> s.col]

\* diag_emit(DIAG_ERROR) at the place s was.
Report(l, s) == [l EXCEPT !.errors = Append(@, Here(s))]

\* mktok, for what was read from s on.
mktok(l, kind, s) ==
  [kind |-> kind, from |-> s.cur, to |-> l.cur, line |-> s.line, col |-> s.col,
   suffix |-> {}, value |-> << >>]
Read(l, tok) == [l |-> l, tok |-> tok]
errtok(l, s) == LET r == Report(l, s) IN Read(r, mktok(r, "ERROR", s))

-----------------------------------------------------------------------------
(* Whitespace, comments, line markers *)

CommentEnds(i) == {k \in i .. Len(text) - 1 : text[k] = "*" /\ text[k + 1] = "/"}

\* The first place inside a block comment.
InComment(l) == l.cur + 2

LineEnd(i) == Min({k \in i .. Len(text) + 1 : k > Len(text) \/ text[k] = Newline})

\* One turn of the loop: it stops where no case applies, which is so at the end.
SkipTurn(l) ==
  CASE peekc(l) \in Space -> AdvTo(l, Stop(l.cur, Space))
    [] peekc(l) = "#" \/ (peekc(l) = "/" /\ peekc2(l) = "/") -> AdvTo(l, LineEnd(l.cur))
    [] peekc(l) = "/" /\ peekc2(l) = "*" ->
         LET ends == CommentEnds(InComment(l))
         IN  IF ends # {} THEN AdvTo(l, Min(ends) + 2) ELSE Report(AdvTo(l, Len(text) + 1), l)
    [] OTHER -> l

skip_ws(l) == Turns(SkipTurn, l, Len(text))

-----------------------------------------------------------------------------
(* Numbers *)

Fraction(i, S) == IF At(i) = "." THEN Stop(i + 1, S) ELSE i
Exponent(i, marks) ==
  IF At(i) \in marks THEN Stop(IF At(i + 1) \in Sign THEN i + 2 ELSE i + 1, Digit) ELSE i

\* The loop over the suffix: [to, flags].
SuffixTurn(x) ==
  CASE At(x.to) \in Unsigned -> [to |-> x.to + 1, flags |-> x.flags \union {"U"}]
    [] At(x.to) \in Long /\ At(x.to + 1) \in Long -> [to |-> x.to + 2, flags |-> x.flags \union {"LL"}]
    [] At(x.to) \in Long /\ At(x.to + 1) \notin Long -> [to |-> x.to + 1, flags |-> x.flags \union {"L"}]
    [] OTHER -> x
SuffixFlags(i) == Turns(SuffixTurn, [to |-> i, flags |-> {}], Len(text)).flags

\* [to, float]: the extent of a number without its suffix.
HexBody(i) ==
  LET fraction == Fraction(Stop(i + 2, HexDigit), HexDigit)
      exponent == Exponent(fraction, {"p", "P"})
  IN  [to |-> exponent, float |-> exponent # Stop(i + 2, HexDigit)]
DecimalBody(i) ==
  LET fraction == Fraction(Stop(i, Digit), Digit)
      exponent == Exponent(fraction, {"e", "E"})
  IN  [to |-> exponent, float |-> exponent # Stop(i, Digit)]
OctalBody(i) == [to |-> Stop(i, OctalDigit), float |-> FALSE]

NumberBody(i) ==
  CASE At(i) = "0" /\ At(i + 1) \in {"x", "X"} -> HexBody(i)
    [] At(i) = "0" /\ At(i + 1) \in OctalDigit -> OctalBody(i)
    [] OTHER -> DecimalBody(i)

scan_num(s) ==
  LET n == NumberBody(s.cur)
      to == IF ~n.float THEN Stop(n.to, IntSuffix)
            ELSE IF At(n.to) \in {"f", "F", "l", "L"} THEN n.to + 1 ELSE n.to
      l == AdvTo(s, to)
  IN  Read(l, [mktok(l, IF n.float THEN "FLOAT_LIT" ELSE "INT_LIT", s) EXCEPT
                 !.suffix = IF n.float THEN {} ELSE SuffixFlags(n.to)])
-----------------------------------------------------------------------------
(* Character constants and strings *)

\* The value of the digits of i .. j - 1.
Value(i, j, base) ==
  LET value[k \in i .. j] == IF k = i THEN 0 ELSE base * value[k - 1] + DigitValue[At(k - 1)]
  IN  value[j]

\* scan_esc, on the character after the backslash: [to, code, warns], with the
\* places where it warns of an unknown escape: it has read the character by then.
Escaped(to, code) == [to |-> to, code |-> code, warns |-> << >>]

\* An octal escape has at most three digits.
OctalEnd(i) == Min({i + 3, Stop(i, OctalDigit)})

\* A mutation: the character after the backslash is taken without looking.
AfterUnlooked(i) == i + 1

\* adv stays where it is at the end of the text.
After(i) == Min({i + 1, Len(text) + 1})

scan_esc(i) ==
  CASE At(i) \in DOMAIN EscapeCode -> Escaped(i + 1, EscapeCode[At(i)])
    [] At(i) \in {"\\", "'", Quote} -> Escaped(i + 1, CodeOf[At(i)])
    [] At(i) = "0" -> Escaped(i + 1, 0)
    [] At(i) = "x" -> Escaped(Stop(i + 1, HexDigit), Value(i + 1, Stop(i + 1, HexDigit), 16))
    [] At(i) \in OctalDigit \ {"0"} -> Escaped(OctalEnd(i), Value(i, OctalEnd(i), 8))
    [] OTHER -> [to |-> After(i), code |-> CodeOf[At(i)], warns |-> <<After(i)>>]

\* One character of a literal, escaped or not.
OneChar(i) ==
  IF At(i) = "\\" THEN scan_esc(i + 1) ELSE Escaped(i + 1, CodeOf[At(i)])

\* The loop of scan_str: where it is, the characters in the buffer, the warnings.
\* Once the buffer is full, characters are dropped, and a backslash is dropped
\* without its escape.
StringTurn(b) ==
  IF b.to > Len(text) \/ At(b.to) \in {Quote, Newline} THEN b
  ELSE IF Len(b.codes) = BUF THEN [b EXCEPT !.to = @ + 1]
  ELSE LET c == OneChar(b.to)
       IN  [to |-> c.to, codes |-> Append(b.codes, c.code % 256), warns |-> b.warns \o c.warns]
StringBody(i) == Turns(StringTurn, [to |-> i, codes |-> << >>, warns |-> << >>], Len(text))

\* diag_emit(DIAG_WARNING) at each of the places ws, on the way from s to l.
Warned(l, s, ws) == [l EXCEPT !.warnings = @ \o [k \in DOMAIN ws |-> Here(AdvTo(s, ws[k]))]]

\* s is the start of the token, i the place of the opening quote.
scan_str(s, i) ==
  LET body == StringBody(i + 1)
      closed == At(body.to) = Quote
      l == Warned(AdvTo(s, IF closed THEN body.to + 1 ELSE body.to), s, body.warns)
  IN  IF closed
      THEN Read(l, [mktok(l, "STR_LIT", s) EXCEPT !.value = body.codes])
      ELSE errtok(l, s)

scan_chr(s, i) ==
  LET c == OneChar(i + 1)
      closed == At(c.to) = "'"
      l == Warned(AdvTo(s, IF closed THEN c.to + 1 ELSE c.to), s, c.warns)
  IN  IF i + 1 > Len(text) \/ At(i + 1) = "'" THEN errtok(AdvTo(s, i + 1), s)
      ELSE IF closed THEN Read(l, [mktok(l, "CHAR_LIT", s) EXCEPT !.value = <<c.code>>])
      ELSE errtok(l, s)

-----------------------------------------------------------------------------
(* Words *)

kw_table ==
  <<"_Alignof", "_Bool", "_Complex", "_Imaginary", "_Nonnull", "_Noreturn", "_Nullable",
    "_Pragma", "__asm", "__asm__", "__attribute__", "__builtin_va_list", "__const",
    "__const__", "__extension__", "__inline", "__inline__", "__restrict", "__restrict__",
    "__signed", "__signed__", "__typeof__", "__volatile", "__volatile__", "asm", "auto",
    "break", "case", "char", "const", "continue", "default", "do", "double", "else",
    "enum", "extern", "float", "for", "goto", "if", "inline", "int", "long", "register",
    "restrict", "return", "short", "signed", "sizeof", "static", "struct", "switch",
    "typedef", "union", "unsigned", "void", "volatile", "while">>

\* strncmp(word, name, length of the word) < 0, and = 0.
IsPrefix(word, name) == Len(word) <= Len(name) /\ SubSeq(name, 1, Len(word)) = word
Before(word, name) ==
  LET w == Chars(word)
      n == Chars(name)
      code(i) == IF i <= Len(n) THEN CodeOf[n[i]] ELSE 0
      differ == {i \in 1 .. Len(w) : CodeOf[w[i]] # code(i)}
  IN  differ # {} /\ CodeOf[w[Min(differ)]] < code(Min(differ))

\* A mutation: the search goes on above a longer name that begins with the word.
GoesBelowStrict(word, name) == Before(word, name)

\* The search goes on below mid: also if the name is longer and begins with the word.
GoesBelow(word, name) == Before(word, name) \/ IsPrefix(word, name)

\* lookup_keyword: one turn of the binary search between lo and hi.
LookupTurn(word, x) ==
  IF x.lo > x.hi THEN x
  ELSE LET mid == (x.lo + x.hi) \div 2
           name == kw_table[mid + 1]
       IN  IF IsPrefix(word, name) /\ Len(name) = Len(word)
           THEN [lo |-> mid + 1, hi |-> mid, kind |-> name]
           ELSE IF GoesBelow(word, name) THEN [x EXCEPT !.hi = mid - 1]
           ELSE [x EXCEPT !.lo = mid + 1]
lookup_keyword(word) ==
  LET Turn(x) == LookupTurn(word, x)
      n == Len(kw_table)
  IN  Turns(Turn, [lo |-> 0, hi |-> n - 1, kind |-> "IDENT"], n).kind

scan_word(s) ==
  LET l == AdvTo(s, Stop(s.cur, Letter \union Digit))
  IN  Read(l, mktok(l, lookup_keyword(Word(s.cur, l.cur)), s))

-----------------------------------------------------------------------------
(* Punctuators, and the dispatch on the first character *)

PunctStart == CharSet("+-*/%&|^!=<>.(){}[];,~?:")

\* The second characters that make a punctuator longer.
Second(c) ==
  CASE c \in {"+", "&", "|", "<", ">"} -> {c, "="}
    [] c = "-" -> {"-", "=", ">"}
    [] c \in {"*", "/", "%", "^", "!", "="} -> {"="}
    [] OTHER -> {}

\* Where a punctuator that starts at i ends.
PunctEnd(i) ==
  CASE At(i) = "." -> IF At(i + 1) = "." /\ At(i + 2) = "." THEN i + 3 ELSE i + 1
    [] At(i) \in {"<", ">"} /\ At(i + 1) = At(i) /\ At(i + 2) = "=" -> i + 3
    [] OTHER -> IF At(i + 1) \in Second(At(i)) THEN i + 2 ELSE i + 1

scan_punct(s) == LET l == AdvTo(s, PunctEnd(s.cur)) IN Read(l, mktok(l, "PUNCT", s))

scan_token(l) ==
  LET s == skip_ws(l)
      c == peekc(s)
  IN  IF at_end(s) THEN Read(s, mktok(s, "EOF", s))
      ELSE CASE c = "L" /\ peekc2(s) = Quote -> scan_str(s, s.cur + 1)
             [] c = "L" /\ peekc2(s) = "'" -> scan_chr(s, s.cur + 1)
             [] c \in Letter /\ ~(c = "L" /\ peekc2(s) \in {Quote, "'"}) -> scan_word(s)
             [] c \in Digit \/ (c = "." /\ peekc2(s) \in Digit) -> scan_num(s)
             [] c = Quote -> scan_str(s, s.cur)
             [] c = "'" -> scan_chr(s, s.cur)
             [] c \in PunctStart /\ ~(c = "." /\ peekc2(s) \in Digit) -> scan_punct(s)
             [] OTHER -> errtok(AdvTo(s, s.cur + 1), s)

-----------------------------------------------------------------------------
(* The two operations *)

NoToken == [kind |-> "none", from |-> 0, to |-> 0, line |-> 0, col |-> 0,
            suffix |-> {}, value |-> << >>]

\* What the next call of lexer_next or lexer_peek answers.
Answer == IF has_peek THEN Read(lex, peeked) ELSE scan_token(lex)

lexer_next ==
  /\ lex' = Answer.l
  /\ has_peek' = FALSE
  /\ UNCHANGED <<text, peeked>>

lexer_peek ==
  /\ lex' = Answer.l
  /\ peeked' = Answer.tok
  /\ has_peek' = TRUE
  /\ UNCHANGED text
=============================================================================
