-------------------------------- MODULE CLex ---------------------------------
(***************************************************************************)
(* What C99 6.4 says the tokens of a text are: at each place the longest    *)
(* sequence of characters that is a token.  Nothing here follows the        *)
(* lexer's control; each kind of token is a predicate on an interval         *)
(* i .. j - 1 of the text.  A text is judged by its verdict:                *)
(*   "error"   a quote or a comment is left open, or a character fits nothing*)
(*   "unsure"  a constraint the lexer does not check, a meaning left to the *)
(*             implementation, or one of the departures named below         *)
(*   "tokens"  otherwise                                                    *)
(***************************************************************************)
EXTENDS Driver, TLC

Follows(i, s) == i + Len(s) - 1 <= Len(text) /\ Word(i, i + Len(s)) = s

All(i, j, S) == \A k \in i .. j - 1 : At(k) \in S
Some(i, j, S) == j > i /\ All(i, j, S)

\* 6.4.2, 6.4.8: identifiers and preprocessing numbers.
IsWord(i, j) == At(i) \in Letter /\ Some(i, j, Letter \union Digit)
IsNumber(i, j) ==
  /\ At(i) \in Digit \/ (At(i) = "." /\ j > i + 1 /\ At(i + 1) \in Digit)
  /\ \A k \in i + 1 .. j - 1 :
       \/ At(k) \in Letter \union Digit \union {"."}
       \/ At(k) \in Sign /\ At(k - 1) \in CharSet("eEpP")

\* 6.4.4.1: integer constants, i .. k - 1 the digits and k .. j - 1 the suffix.
HexPrefix(i) == At(i) = "0" /\ At(i + 1) \in {"x", "X"}
IsDigits(i, k) ==
  \/ At(i) # "0" /\ Some(i, k, Digit)
  \/ At(i) = "0" /\ Some(i, k, OctalDigit)
  \/ HexPrefix(i) /\ Some(i + 2, k, HexDigit)
SuffixOf ==
  ("" :> {}) @@ [s \in {"u", "U"} |-> {"U"}] @@ [s \in {"l", "L"} |-> {"L"}]
    @@ [s \in {"ll", "LL"} |-> {"LL"}]
    @@ [s \in {"ul", "uL", "Ul", "UL", "lu", "lU", "Lu", "LU"} |-> {"U", "L"}]
    @@ [s \in {"ull", "uLL", "Ull", "ULL", "llu", "llU", "LLu", "LLU"} |-> {"U", "LL"}]
IntegerSplits(i, j) ==
  {k \in i + 1 .. j : IsDigits(i, k) /\ Word(k, j) \in DOMAIN SuffixOf}

\* 6.4.4.2: floating constants.
IsMantissa(i, k, S) ==
  /\ Some(i, k, S \union {"."})
  /\ Cardinality({m \in i .. k - 1 : At(m) = "."}) <= 1
  /\ \E m \in i .. k - 1 : At(m) \in S
IsExponent(k, m, marks) ==
  At(k) \in marks /\ (Some(k + 1, m, Digit) \/ (At(k + 1) \in Sign /\ Some(k + 2, m, Digit)))
IsFloating(i, j) ==
  \E k \in i + 1 .. j : \E m \in {j - 1, j} :
    /\ m = j \/ At(m) \in CharSet("fFlL")
    /\ m >= k
    /\ \/ IsMantissa(i, k, Digit) /\ IsExponent(k, m, {"e", "E"})
       \/ IsMantissa(i, k, Digit) /\ k = m /\ \E n \in i .. k - 1 : At(n) = "."
       \/ HexPrefix(i) /\ k > i + 2 /\ IsMantissa(i + 2, k, HexDigit) /\ IsExponent(k, m, {"p", "P"})

\* 6.4.4.4, 6.4.5: the characters between quotes, one after another.
SimpleEscape == CharSet("abfnrtv\\'\"?")
IsEscape(i, j) ==
  At(i) = "\\" /\ \/ j = i + 2 /\ At(i + 1) \in SimpleEscape
                  \/ j \in i + 2 .. i + 4 /\ All(i + 1, j, OctalDigit)
                  \/ At(i + 1) = "x" /\ Some(i + 2, j, HexDigit)
EscapeEnd(i) ==
  LET ends == {j \in i + 2 .. Len(text) + 1 : IsEscape(i, j)} IN IF ends = {} THEN 0 ELSE Max(ends)
CharEnd(i) == IF At(i) = "\\" THEN EscapeEnd(i) ELSE i + 1
CharCode(i, j) ==
  IF At(i) # "\\" THEN CodeOf[At(i)]
  ELSE CASE At(i + 1) \in DOMAIN EscapeCode -> EscapeCode[At(i + 1)]
         [] At(i + 1) \in CharSet("\\'\"?") -> CodeOf[At(i + 1)]
         [] At(i + 1) = "x" -> Value(i + 2, j, 16)
         [] At(i + 1) \in OctalDigit -> Value(i + 1, j, 8)

\* [verdict, to, codes]: what is between the quotes from i on.
RECURSIVE Quoted(_, _)
Quoted(i, quote) ==
  IF At(i) = quote THEN [verdict |-> "tokens", to |-> i + 1, codes |-> << >>]
  ELSE IF At(i) \in {NUL, "\n"} THEN [verdict |-> "error", to |-> i, codes |-> << >>]
  ELSE IF CharEnd(i) = 0 THEN [verdict |-> "unsure", to |-> i + 1, codes |-> << >>]
  ELSE LET rest == Quoted(CharEnd(i), quote)
       IN  [rest EXCEPT !.codes = <<CharCode(i, CharEnd(i))>> \o @]

\* 6.4.6, without the digraphs.
Punctuators ==
  {"[", "]", "(", ")", "{", "}", ".", "->", "++", "--", "&", "*", "+", "-", "~", "!", "/",
   "%", "<<", ">>", "<", ">", "<=", ">=", "==", "!=", "^", "|", "&&", "||", "?", ":", ";",
   "...", "=", "*=", "/=", "%=", "+=", "-=", "<<=", ">>=", "&=", "^=", "|=", ","}
IsPunctuator(i, j) == j <= i + 3 /\ Word(i, j) \in Punctuators

-----------------------------------------------------------------------------
(* Departures of the lexer *)

\* 010.5 and 01e5 are floating constants; the lexer stops after the octal digits.
OctalFloat(i, j) == At(i) = "0" /\ At(i + 1) \in OctalDigit /\ IsFloating(i, j)
\* \012 is one character; the lexer reads a NUL and then two digits.
NulThenDigit(i, j) == \E k \in i .. j - 3 :
                        At(k) = "\\" /\ At(k + 1) = "0" /\ At(k + 2) \in OctalDigit
\* An escape of more than a byte is not C; the lexer keeps the low byte of it in a
\* string, and all of it in a character constant.
TooBig(codes) == \E k \in DOMAIN codes : codes[k] > 255
\* '\377' has the value of a char, which is -1: char is signed.  The lexer keeps 255.
NegativeChar(i, codes) == At(i) = "'" /\ \E k \in DOMAIN codes : codes[k] \in 128 .. 255
\* A character constant may not hold a newline; the lexer takes one.
NewlineConstant(i) == Follows(i, "'\n'")
\* A string that fills the buffer is cut, and ends at the next quote, escaped or not.
TooLong(codes) == Len(codes) > BUF
\* Only a # that begins a line is a line marker; the lexer skips from any.
StrayHash(i) == At(i) = "#" /\ \E k \in 1 .. i - 1 : At(k) # "\n" /\ \A m \in k .. i : At(m) # "\n"

-----------------------------------------------------------------------------
(* The reading *)

\* After the whitespace, comments and line markers from i on; 0: a comment is open.
RECURSIVE Blank(_)
Blank(i) ==
  CASE At(i) \in Space -> Blank(i + 1)
    [] (At(i) = "#" /\ ~StrayHash(i)) \/ Follows(i, "//") ->
         Blank(Min({j \in i .. Len(text) + 1 : At(j) \in {"\n", NUL}}))
    [] Follows(i, "/*") ->
         LET ends == {j \in i + 4 .. Len(text) + 1 : Follows(j - 2, "*/")}
         IN  IF ends = {} THEN 0 ELSE Blank(Min(ends))
    [] OTHER -> i

Longest(i, Is(_, _)) ==
  LET ends == {j \in i + 1 .. Len(text) + 1 : Is(i, j)} IN IF ends = {} THEN 0 ELSE Max(ends)

Lexeme(verdict, kind, i, j, suffix, value) ==
  [verdict |-> verdict,
   tok |-> [kind |-> kind, from |-> i, to |-> j, suffix |-> suffix, value |-> value]]

LiteralAt(i, open) ==  \* open: the place of the quote
  LET q == Quoted(open + 1, At(open))
      kind == IF At(open) = "'" THEN "CHAR_LIT" ELSE "STR_LIT"
      unsure == \/ kind = "STR_LIT" /\ TooLong(q.codes)
                \/ NewlineConstant(open) \/ TooBig(q.codes) \/ NegativeChar(i, q.codes)
                \/ /\ q.verdict = "tokens"
                   /\ NulThenDigit(i, q.to) \/ (kind = "CHAR_LIT" /\ Len(q.codes) > 1)
      empty == q.verdict = "tokens" /\ kind = "CHAR_LIT" /\ q.codes = << >>
  IN  Lexeme(IF unsure THEN "unsure" ELSE IF empty THEN "error" ELSE q.verdict,
             kind, i, q.to, {}, q.codes)

NumberAt(i) ==
  LET j == Longest(i, IsNumber)
      splits == IntegerSplits(i, j)
  IN  CASE splits # {} ->
             LET k == CHOOSE k \in splits : TRUE
             IN  Lexeme("tokens", "INT_LIT", i, j, SuffixOf[Word(k, j)], << >>)
        [] splits = {} /\ IsFloating(i, j) /\ ~OctalFloat(i, j) ->
             Lexeme("tokens", "FLOAT_LIT", i, j, {}, << >>)
        [] OTHER -> Lexeme("unsure", "none", i, j, {}, << >>)

WordAt(i) ==
  LET j == Longest(i, IsWord)
      word == Word(i, j)
      keyword == \E k \in DOMAIN kw_table : kw_table[k] = word
  IN  Lexeme("tokens", IF keyword THEN word ELSE "IDENT", i, j, {}, << >>)

LexemeAt(i) ==
  CASE At(i) = NUL -> Lexeme("tokens", "EOF", i, i, {}, << >>)
    [] At(i) \in {"\"", "'"} -> LiteralAt(i, i)
    [] At(i) = "L" /\ At(i + 1) \in {"\"", "'"} -> LiteralAt(i, i + 1)
    [] At(i) \in Letter /\ ~(At(i) = "L" /\ At(i + 1) \in {"\"", "'"}) -> WordAt(i)
    [] Longest(i, IsNumber) # 0 -> NumberAt(i)
    [] Longest(i, IsPunctuator) # 0 /\ Longest(i, IsNumber) = 0 ->
         Lexeme("tokens", "PUNCT", i, Longest(i, IsPunctuator), {}, << >>)
    [] StrayHash(i) -> Lexeme("unsure", "none", i, i, {}, << >>)
    [] OTHER -> Lexeme("error", "none", i, i + 1, {}, << >>)

\* [verdict, toks]: the tokens from i on, the end of the text included.
RECURSIVE Reading(_)
ReadAfter(x) ==
  CASE x.verdict # "tokens" -> [verdict |-> x.verdict, toks |-> << >>]
    [] x.verdict = "tokens" /\ x.tok.kind = "EOF" -> [verdict |-> "tokens", toks |-> <<x.tok>>]
    [] OTHER -> [Reading(x.tok.to) EXCEPT !.toks = <<x.tok>> \o @]
Reading(i) ==
  LET b == Blank(i)
  IN  IF b = 0 THEN [verdict |-> "error", toks |-> << >>] ELSE ReadAfter(LexemeAt(b))

-----------------------------------------------------------------------------
(* The tokens the driver reads are those *)

Meaning == Reading(1)
Plain(toks) ==
  [i \in DOMAIN toks |-> [kind |-> toks[i].kind, from |-> toks[i].from, to |-> toks[i].to,
                          suffix |-> toks[i].suffix, value |-> toks[i].value]]
Ended == [kind |-> "EOF", from |-> Len(text) + 1, to |-> Len(text) + 1,
          suffix |-> {}, value |-> << >>]
AllRead == phase \notin {"start", "lex", "parse"} /\ ~failed
Consumed == IF job.mode = "tokens" THEN Plain(taken) ELSE Append(Plain(taken), Ended)

Agrees(m) ==
  /\ m.verdict = "tokens" => Consumed = m.toks /\ lex.errors = << >>
  /\ m.verdict = "error" => lex.errors # << >>

\* Whatever the order in which the parser peeks and advances, the tokens it
\* gets are those of C99 6.4 (CLex): the longest each time, keywords found by
\* the binary search, escapes decoded; and a text that has no such reading is
\* reported.
ReadAsC == AllRead => Agrees(Meaning)
=============================================================================
