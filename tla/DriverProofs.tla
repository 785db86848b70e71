----------------------------- MODULE DriverProofs -----------------------------
(***************************************************************************)
(* The lexer under the driver, for every text, every buffer and every order  *)
(* in which the parser peeks and advances: it stays in the text and always   *)
(* knows the line and the column it is at, and what it hands out and reports *)
(* says so (Placed).  And for every run of the passes the exit status tells  *)
(* of every error.                                                          *)
(***************************************************************************)
EXTENDS Driver, SharedFacts, FiniteSetTheorems, SequenceTheorems

-----------------------------------------------------------------------------
(* Places *)

End == Len(text) + 1

\* What a diagnostic says of the place i.
PlaceOf(i) == [at |-> i, line |-> LineOf(i), col |-> ColumnOf(i)]
Places == {PlaceOf(i) : i \in 1 .. End}

\* The places from i on where it is right to warn of an unknown escape.
Warnable(i) == {j \in i .. End : BehindUnknownEscape(j)}
WarnPlaces == {PlaceOf(j) : j \in Warnable(1)}

\* The lexer stands in the text and knows where it is, and so did it at every
\* error and at every warning.
Placed(l) ==
  /\ l = [cur |-> l.cur, line |-> LineOf(l.cur), col |-> ColumnOf(l.cur),
          errors |-> l.errors, warnings |-> l.warnings]
  /\ l.cur \in 1 .. End
  /\ l.errors \in Seq(Places) /\ l.warnings \in Seq(WarnPlaces)

\* A token knows where it starts.
TokenPlaced(t) == t \in TokenType /\ t.line = LineOf(t.from) /\ t.col = ColumnOf(t.from)

TextOK == text \in Seq(Character)

Kinds == {"INT_LIT", "FLOAT_LIT", "CHAR_LIT", "STR_LIT", "IDENT", "PUNCT", "EOF", "ERROR", "none"}
           \union {kw_table[k] : k \in DOMAIN kw_table}

LEMMA EndFacts ==
  ASSUME TextOK
  PROVE  End \in Nat /\ End = Len(text) + 1
BY DEF TextOK, End

-----------------------------------------------------------------------------
(* Least and greatest *)

LEMMA MinFacts ==
  ASSUME NEW T \in SUBSET Nat, T # {}
  PROVE  Min(T) \in T /\ \A y \in T : Min(T) <= y
<1>1. PICK d \in T : \A y \in T : d <= y
  BY SmallestNumber
<1>2. QED
  BY <1>1, Zenon DEF Min

LEMMA MaxFacts ==
  ASSUME NEW n \in Nat, NEW T \in SUBSET (0 .. n), T # {}
  PROVE  Max(T) \in T /\ \A y \in T : y <= Max(T)
<1> DEFINE R == {k \in 0 .. n : n - k \in T}
<1>1. R \in SUBSET Nat /\ R # {}
  <2>1. PICK y \in T : TRUE
    OBVIOUS
  <2>2. y \in 0 .. n /\ n - (n - y) = y /\ n - y \in 0 .. n
    OBVIOUS
  <2>3. n - y \in R
    BY <2>1, <2>2
  <2>4. R \in SUBSET Nat
    OBVIOUS
  <2>5. QED
    BY <2>3, <2>4
<1>2. PICK d \in R : \A y \in R : d <= y
  <2> HIDE DEF R
  <2>1. QED
    BY <1>1, SmallestNumber
<1>3. n - d \in T /\ \A y \in T : n - d >= y
  <2>1. ASSUME NEW y \in T
        PROVE  n - d >= y
    <3>1. y \in 0 .. n /\ n - (n - y) = y
      OBVIOUS
    <3>2. n - y \in R
      BY <3>1
    <3>3. d <= n - y /\ d \in 0 .. n
      BY <1>2, <3>2
    <3>4. QED
      BY <3>1, <3>3
  <2>2. QED
    BY <1>2, <2>1
<1>4. Max(T) \in T /\ \A y \in T : Max(T) >= y
  <2> HIDE DEF R
  <2>1. QED
    BY <1>3, Zenon DEF Max
<1>5. QED
  BY <1>4

\* Where a run of characters stops.
LEMMA StopFacts ==
  ASSUME TextOK, NEW i \in 1 .. End, NEW S
  PROVE  Stop(i, S) \in i .. End
<1> DEFINE T == {k \in i .. Len(text) + 1 : k = Len(text) + 1 \/ text[k] \notin S}
<1>1. T \in SUBSET Nat /\ End \in T
  BY DEF TextOK, End
<1> HIDE DEF T
<1>2. Min(T) \in T
  BY <1>1, MinFacts
<1>3. QED
  BY <1>2 DEF Stop, T, End

LEMMA LineEndFacts ==
  ASSUME TextOK, NEW i \in 1 .. End
  PROVE  LineEnd(i) \in i .. End
<1> DEFINE T == {k \in i .. Len(text) + 1 : k > Len(text) \/ text[k] = Newline}
<1>1. T \in SUBSET Nat /\ End \in T
  BY DEF TextOK, End
<1> HIDE DEF T
<1>2. Min(T) \in T
  BY <1>1, MinFacts
<1>3. QED
  BY <1>2 DEF LineEnd, T, End

\* The characters before the stop.
LEMMA StopAll ==
  ASSUME TextOK, NEW i \in 1 .. End, NEW S
  PROVE  \A k \in i .. Stop(i, S) - 1 : At(k) \in S
<1> DEFINE T == {k \in i .. Len(text) + 1 : k = Len(text) + 1 \/ text[k] \notin S}
<1>1. T \in SUBSET Nat /\ End \in T
  BY DEF TextOK, End
<1>2. Stop(i, S) = Min(T)
  BY DEF Stop
<1>3. \A k \in i .. Len(text) : k \notin T => At(k) \in S
  BY DEF At, TextOK
<1> HIDE DEF T
<1>4. \A y \in T : Min(T) <= y
  BY <1>1, MinFacts
<1>5. Stop(i, S) \in i .. End /\ End = Len(text) + 1 /\ End \in Nat
  BY StopFacts, EndFacts
<1> SUFFICES ASSUME NEW k \in i .. Stop(i, S) - 1 PROVE At(k) \in S
  OBVIOUS
<1>6. k \in i .. Len(text) /\ k < Min(T) /\ k \in Nat
  BY <1>2, <1>5
<1>7. k \notin T
  BY <1>1, <1>2, <1>4, <1>5, <1>6
<1> QED BY <1>3, <1>6, <1>7

\* A place that holds a character is before the end.
LEMMA CharInside ==
  ASSUME TextOK, NEW i \in Nat, At(i) # NUL
  PROVE  i + 1 <= End
BY DEF At, TextOK, End

-----------------------------------------------------------------------------
(* Character codes *)

LEMMA IndexFacts ==
  ASSUME NEW s, NEW c \in CharSet(s)
  PROVE  IndexIn(s, c) \in Nat /\ IndexIn(s, c) >= 1
<1>1. PICK k \in 1 .. Len(s) : SubSeq(s, k, k) = c
  BY DEF CharSet
<1>2. IndexIn(s, c) \in 1 .. Len(s)
  BY <1>1, Zenon DEF IndexIn
<1> QED BY <1>2

LEMMA CodeOfFacts ==
  NUL \in DOMAIN CodeOf /\ \A c \in DOMAIN CodeOf : CodeOf[c] \in Nat
<1> DEFINE A == CharSet(Printable)
           B == CharSet(Lowercase)
           C == {"\t", "\n", "\f", "\r", NUL}
           a(c) == 31 + IndexIn(Printable, c)
           b(c) == 96 + IndexIn(Lowercase, c)
           p4(c) == c = "\t"
           p5(c) == c = "\n"
           p6(c) == c = "\f"
           p7(c) == c = "\r"
           p8(c) == c = NUL
<1>1. CodeOf = [c \in A \union B \union C |->
                  CASE c \in A -> a(c) [] c \in B -> b(c) [] p4(c) -> 9 [] p5(c) -> 10
                    [] p6(c) -> 12 [] p7(c) -> 13 [] p8(c) -> 0]
  BY Zenon DEF CodeOf
<1>2. NUL \in C
  BY Zenon
<1>3. \A c \in A : a(c) \in Nat
  BY IndexFacts
<1>4. \A c \in B : b(c) \in Nat
  BY IndexFacts
<1>5. \A c \in C : p4(c) \/ p5(c) \/ p6(c) \/ p7(c) \/ p8(c)
  BY Zenon
<1> HIDE DEF A, B, C, a, b, p4, p5, p6, p7, p8
<1>6. ASSUME NEW c \in A \union B \union C PROVE CodeOf[c] \in Nat
  <2>1. \/ c \in A /\ CodeOf[c] = a(c)
        \/ c \in B /\ CodeOf[c] = b(c)
        \/ CodeOf[c] \in {9, 10, 12, 13, 0}
    BY <1>1, <1>5, <1>6
  <2> QED BY <1>3, <1>4, <2>1
<1>7. DOMAIN CodeOf = A \union B \union C
  BY <1>1
<1> QED BY <1>2, <1>6, <1>7

LEMMA DigitFacts ==
  Digit \subseteq DOMAIN DigitValue /\ \A c \in DOMAIN DigitValue : DigitValue[c] \in Nat
<1> DEFINE B == CharSet("abcdef")
           C == CharSet("ABCDEF")
           a(c) == IndexIn("0123456789", c) - 1
           b(c) == IndexIn("abcdef", c) + 9
           d(c) == IndexIn("ABCDEF", c) + 9
<1>1. DigitValue = [c \in Digit \union B \union C |->
                      CASE c \in Digit -> a(c) [] c \in B -> b(c) [] c \in C -> d(c)]
  BY Zenon DEF DigitValue
<1>2. (\A c \in Digit : a(c) \in Nat) /\ (\A c \in B : b(c) \in Nat) /\ (\A c \in C : d(c) \in Nat)
  BY IndexFacts DEF Digit
<1> HIDE DEF B, C, a, b, d
<1>3. ASSUME NEW c \in Digit \union B \union C PROVE DigitValue[c] \in Nat
  <2>1. \/ c \in Digit /\ DigitValue[c] = a(c)
        \/ c \in B /\ DigitValue[c] = b(c)
        \/ c \in C /\ DigitValue[c] = d(c)
    BY <1>1, <1>3
  <2> QED BY <1>2, <2>1
<1>4. DOMAIN DigitValue = Digit \union B \union C
  BY <1>1
<1> QED BY <1>3, <1>4

\* The characters of a text have codes, and so has what is read at its end.
LEMMA CharCode ==
  ASSUME TextOK, NEW i \in Nat \ {0}
  PROVE  CodeOf[At(i)] \in Nat
<1>1. i <= Len(text) => text[i] \in Character
  BY DEF TextOK
<1>2. At(i) \in DOMAIN CodeOf
  <2>1. At(i) \in Character \/ At(i) = NUL
    BY <1>1 DEF At
  <2> QED BY <2>1, CodeOfFacts DEF Character
<1> QED BY <1>2, CodeOfFacts

-----------------------------------------------------------------------------
(* adv *)

LEMMA NewlinesBefore ==
  ASSUME TextOK, NEW i \in 1 .. End, NEW j \in i .. End
  PROVE  /\ {k \in 1 .. j - 1 : text[k] = Newline} =
              {k \in 1 .. i - 1 : text[k] = Newline} \union {k \in i .. j - 1 : At(k) = Newline}
         /\ {k \in 1 .. i - 1 : text[k] = Newline} \intersect {k \in i .. j - 1 : At(k) = Newline} = {}
         /\ IsFiniteSet({k \in 1 .. i - 1 : text[k] = Newline})
         /\ IsFiniteSet({k \in i .. j - 1 : At(k) = Newline})
<1>1. \A k \in i .. j - 1 : At(k) = text[k]
  BY DEF At, TextOK, End
<1>2. \A m, n \in Int : IsFiniteSet(m .. n)
  BY FS_Interval
<1>3. IsFiniteSet(1 .. i - 1) /\ IsFiniteSet(i .. j - 1)
  BY <1>2 DEF TextOK, End
<1>4. /\ IsFiniteSet({k \in 1 .. i - 1 : text[k] = Newline})
      /\ IsFiniteSet({k \in i .. j - 1 : At(k) = Newline})
  BY <1>3, FS_Subset
<1>5. QED
  BY <1>1, <1>4 DEF TextOK, End

LEMMA PlaceNumbers ==
  ASSUME TextOK, NEW i \in 1 .. End
  PROVE  LineOf(i) \in Nat /\ ColumnOf(i) \in Nat
<1> DEFINE before == {k \in 1 .. i - 1 : text[k] = Newline}
           zb == {0} \union before
<1>1. End \in Nat /\ i \in Nat /\ i >= 1 /\ i \in i .. End
  BY EndFacts
<1>2. IsFiniteSet(before)
  BY <1>1, NewlinesBefore
<1>3. LineOf(i) = 1 + Cardinality(before) /\ ColumnOf(i) = i - Max(zb)
  BY DEF LineOf, ColumnOf
<1>4. zb \in SUBSET (0 .. i - 1) /\ zb # {} /\ i - 1 \in Nat
  BY <1>1
<1> HIDE DEF zb, before
<1>5. Cardinality(before) \in Nat
  BY <1>2, FS_CardinalityType
<1>6. Max(zb) \in zb
  BY <1>4, MaxFacts
<1>7. Max(zb) \in 0 .. i - 1
  BY <1>4, <1>6
<1> QED BY <1>1, <1>3, <1>5, <1>7

LEMMA AdvToPlaced ==
  ASSUME TextOK, NEW l, Placed(l), NEW j \in l.cur .. End
  PROVE  Placed(AdvTo(l, j)) /\ AdvTo(l, j).cur = j /\ j \in 1 .. End
<1> DEFINE i == l.cur
           before == {k \in 1 .. i - 1 : text[k] = Newline}
           after == {k \in 1 .. j - 1 : text[k] = Newline}
           newlines == {k \in i .. j - 1 : At(k) = Newline}
<1>1. i \in 1 .. End /\ j \in 1 .. End /\ i \in Nat /\ j \in Nat /\ i <= j /\ End \in Nat
  BY DEF Placed, TextOK, End
<1>2. /\ after = before \union newlines /\ before \intersect newlines = {}
      /\ IsFiniteSet(before) /\ IsFiniteSet(newlines)
  BY <1>1, NewlinesBefore
<1>3. LineOf(j) = LineOf(i) + Cardinality(newlines)
  <2>1. Cardinality(after) = Cardinality(before) + Cardinality(newlines)
    <3> HIDE DEF before, after, newlines
    <3>1. Cardinality(before \intersect newlines) = 0
      BY <1>2, FS_EmptySet, Zenon
    <3>2. Cardinality(before \union newlines)
            = Cardinality(before) + Cardinality(newlines) - Cardinality(before \intersect newlines)
      BY <1>2, FS_Union
    <3>3. Cardinality(before) \in Nat /\ Cardinality(newlines) \in Nat
      BY <1>2, FS_CardinalityType
    <3>4. after = before \union newlines
      BY <1>2
    <3>5. QED
      BY <3>1, <3>2, <3>3, <3>4
  <2>2. LineOf(j) = 1 + Cardinality(after) /\ LineOf(i) = 1 + Cardinality(before)
    BY DEF LineOf
  <2>3. Cardinality(before) \in Nat /\ Cardinality(newlines) \in Nat
    BY <1>2, FS_CardinalityType
  <2> HIDE DEF before, after, newlines, i
  <2>4. QED
    BY <2>1, <2>2, <2>3
<1>4. ColumnOf(j) = IF newlines = {} THEN ColumnOf(i) + (j - i) ELSE j - Max(newlines)
  <2> DEFINE zb == {0} \union before
             za == {0} \union after
  <2>1. ColumnOf(j) = j - Max(za) /\ ColumnOf(i) = i - Max(zb)
    BY DEF ColumnOf
  <2>2. zb \in SUBSET (0 .. End) /\ za \in SUBSET (0 .. End) /\ newlines \in SUBSET (0 .. End)
    BY <1>1
  <2>3. /\ Max(za) \in za /\ \A y \in za : y <= Max(za)
        /\ Max(zb) \in zb /\ \A y \in zb : y <= Max(zb)
    <3> HIDE DEF before, after, newlines
    <3>1. QED
      BY <1>1, <2>2, MaxFacts
  <2>4. CASE newlines = {}
    <3>1. za = zb
      BY <1>2, <2>4
    <3>2. Max(zb) \in Nat
      BY <2>2, <2>3, <1>1
    <3> HIDE DEF za, zb, newlines, i
    <3>3. QED
      BY <1>1, <2>1, <2>4, <3>1, <3>2
  <2>5. CASE newlines # {}
    <3> DEFINE m == Max(newlines)
    <3>1. m \in newlines /\ \A y \in newlines : y <= m
      <4> HIDE DEF newlines
      <4>1. QED
        BY <1>1, <2>2, <2>5, MaxFacts
    <3>2. m \in za /\ m >= i /\ m \in Nat
      BY <1>1, <1>2, <3>1
    <3>3. \A y \in zb : y < i
      BY <1>1
    <3>4. Max(za) \in Nat /\ m <= Max(za)
      BY <2>2, <2>3, <3>2, <1>1
    <3>5. Max(za) \in newlines
      <4>1. Max(za) \in zb \/ Max(za) \in newlines
        BY <1>2, <2>3
      <4>2. Max(za) \notin zb
        BY <3>2, <3>3, <3>4, <1>1
      <4>3. QED
        BY <4>1, <4>2
    <3>6. Max(za) <= m
      BY <3>1, <3>5
    <3>7. Max(za) = m
      BY <3>2, <3>4, <3>6
    <3>8. QED
      BY <2>1, <2>5, <3>7
  <2>6. QED
    BY <2>4, <2>5
<1>5. AdvTo(l, j) = [cur |-> j, line |-> LineOf(j), col |-> ColumnOf(j),
                     errors |-> l.errors, warnings |-> l.warnings]
  <2>1. l.line = LineOf(i) /\ l.col = ColumnOf(i)
    BY DEF Placed
  <2>2. l = [cur |-> l.cur, line |-> l.line, col |-> l.col,
             errors |-> l.errors, warnings |-> l.warnings]
    BY DEF Placed
  <2>3. AdvTo(l, j) = [cur |-> j, line |-> l.line + Cardinality(newlines),
                       col |-> IF newlines = {} THEN l.col + (j - l.cur) ELSE j - Max(newlines),
                       errors |-> l.errors, warnings |-> l.warnings]
    <3> DEFINE a == l.line + Cardinality(newlines)
               b == IF newlines = {} THEN l.col + (j - l.cur) ELSE j - Max(newlines)
    <3>1. AdvTo(l, j) = [l EXCEPT !.cur = j, !.line = a, !.col = b]
      BY Zenon DEF AdvTo
    <3> HIDE DEF a, b
    <3>2. AdvTo(l, j) = [cur |-> j, line |-> a, col |-> b, errors |-> l.errors, warnings |-> l.warnings]
      BY <2>2, <3>1
    <3>3. QED
      BY <3>2, Zenon DEF a, b
  <2> HIDE DEF newlines, i
  <2>4. QED
    BY <1>3, <1>4, <2>1, <2>3, Zenon DEF i
<1>6. l.errors \in Seq(Places) /\ l.warnings \in Seq(WarnPlaces)
  BY DEF Placed
<1> HIDE DEF i, before, after, newlines
<1>7. QED
  BY <1>1, <1>5, <1>6 DEF Placed

-----------------------------------------------------------------------------
(* Loops *)

\* A loop: n times a step from a set into itself.
Loop(s, S, f, start, n) ==
  s \in [0 .. n -> S] /\ \A k \in 0 .. n : s[k] = IF k = 0 THEN start ELSE f[s[k - 1]]

LEMMA LoopExists ==
  ASSUME NEW S, NEW f \in [S -> S], NEW start \in S, NEW n \in Nat
  PROVE  \E s : Loop(s, S, f, start, n)
<1> DEFINE Good(s, m) == /\ s \in [0 .. m -> S]
                         /\ \A k \in 0 .. m : s[k] = IF k = 0 THEN start ELSE f[s[k - 1]]
           P == {m \in 0 .. n : \E s : Good(s, m)}
<1>1. 0 \in P
  <2>1. Good([k \in 0 .. 0 |-> start], 0)
    OBVIOUS
  <2> HIDE DEF Good
  <2>2. 0 \in 0 .. n
    OBVIOUS
  <2> QED BY <2>1, <2>2
<1>2. ASSUME NEW d \in 1 .. n, d - 1 \in P
      PROVE  d \in P
  <2>1. PICK s : Good(s, d - 1)
    BY <1>2
  <2> DEFINE t == [k \in 0 .. d |-> IF k = d THEN f[s[d - 1]] ELSE s[k]]
  <2>2. s \in [0 .. d - 1 -> S] /\ \A k \in 0 .. d - 1 : s[k] = IF k = 0 THEN start ELSE f[s[k - 1]]
    BY <2>1
  <2>3. t \in [0 .. d -> S]
    <3>1. s[d - 1] \in S
      BY <2>2
    <3>2. f[s[d - 1]] \in S
      BY <3>1
    <3> QED BY <2>2, <3>2
  <2>4. ASSUME NEW k \in 0 .. d
        PROVE  t[k] = IF k = 0 THEN start ELSE f[t[k - 1]]
    <3>1. CASE k = 0
      BY <2>2, <3>1
    <3>2. CASE k # 0 /\ k = d
      <4>1. t[k - 1] = s[d - 1]
        BY <3>2
      <4> QED BY <3>2, <4>1
    <3>3. CASE k # 0 /\ k # d
      <4>1. k \in 0 .. d - 1 /\ k - 1 \in 0 .. d - 1 /\ k - 1 # d /\ k - 1 \in 0 .. d
        BY <3>3
      <4>2. t[k] = s[k] /\ t[k - 1] = s[k - 1]
        BY <3>3, <4>1
      <4>3. s[k] = f[s[k - 1]]
        BY <2>2, <3>3, <4>1
      <4> QED BY <3>3, <4>2, <4>3
    <3> QED BY <3>1, <3>2, <3>3
  <2> HIDE DEF t
  <2>5. Good(t, d)
    BY <2>3, <2>4
  <2>6. d \in 0 .. n
    OBVIOUS
  <2> HIDE DEF Good
  <2> QED BY <2>5, <2>6
<1>3. n \in P
  <2> HIDE DEF P
  <2> QED BY <1>1, <1>2, UpTo
<1>4. \E s : Good(s, n)
  BY <1>3
<1> QED BY <1>4, Zenon DEF Loop

-----------------------------------------------------------------------------
(* skip_ws *)

LEMMA ReportPlaced ==
  ASSUME TextOK, NEW l, Placed(l), NEW s, Placed(s)
  PROVE  Placed(Report(l, s)) /\ Report(l, s).cur = l.cur
<1> DEFINE e == [at |-> s.cur, line |-> s.line, col |-> s.col]
<1>1. e \in Places
  <2>1. s.line = LineOf(s.cur) /\ s.col = ColumnOf(s.cur) /\ s.cur \in 1 .. End
    BY DEF Placed
  <2>2. e = PlaceOf(s.cur)
    BY <2>1 DEF PlaceOf
  <2>3. QED
    BY <2>1, <2>2 DEF Places
<1> HIDE DEF e
<1>2. Append(l.errors, e) \in Seq(Places)
  BY <1>1 DEF Placed
<1>3. Report(l, s) = [cur |-> l.cur, line |-> LineOf(l.cur), col |-> ColumnOf(l.cur),
                      errors |-> Append(l.errors, e), warnings |-> l.warnings]
  <2> DEFINE a == Append(l.errors, e)
             b == LineOf(l.cur)
             c == ColumnOf(l.cur)
  <2>1. Report(l, s) = [l EXCEPT !.errors = a]
    BY DEF Report, Here, e
  <2>2. l = [cur |-> l.cur, line |-> b, col |-> c, errors |-> l.errors, warnings |-> l.warnings]
    BY DEF Placed
  <2> HIDE DEF a, b, c
  <2>3. Report(l, s) = [cur |-> l.cur, line |-> b, col |-> c, errors |-> a, warnings |-> l.warnings]
    BY <2>1, <2>2
  <2>4. QED
    BY <2>3, Zenon DEF a, b, c
<1>4. l.cur \in 1 .. End /\ l.warnings \in Seq(WarnPlaces)
  BY DEF Placed
<1>5. QED
  BY <1>2, <1>3, <1>4 DEF Placed

\* One turn.
LEMMA SkipTurnPlaced ==
  ASSUME TextOK, NEW l, Placed(l)
  PROVE  Placed(SkipTurn(l))
<1> DEFINE ends == CommentEnds(InComment(l))
<1>1. End \in Nat /\ End = Len(text) + 1 /\ l.cur \in 1 .. End
  BY EndFacts DEF Placed
<1>2. Placed(AdvTo(l, Stop(l.cur, Space))) /\ Placed(AdvTo(l, LineEnd(l.cur)))
  <2>1. Stop(l.cur, Space) \in l.cur .. End /\ LineEnd(l.cur) \in l.cur .. End
    BY <1>1, StopFacts, LineEndFacts
  <2>2. QED
    BY <2>1, AdvToPlaced
<1>3. ASSUME ends # {}
      PROVE  Placed(AdvTo(l, Min(ends) + 2))
  <2>1. \A k \in ends : k \in Nat /\ k >= l.cur /\ k + 2 <= End
    BY <1>1 DEF CommentEnds, InComment
  <2>2. ends \in SUBSET Nat
    BY <2>1
  <2> HIDE DEF ends
  <2>3. Min(ends) \in ends
    BY <1>3, <2>2, MinFacts
  <2>4. Min(ends) + 2 \in l.cur .. End
    BY <1>1, <2>1, <2>3
  <2>5. QED
    BY <2>4, AdvToPlaced
<1>4. Placed(Report(AdvTo(l, Len(text) + 1), l))
  <2>1. Len(text) + 1 \in l.cur .. End
    BY <1>1
  <2>2. Placed(AdvTo(l, Len(text) + 1))
    BY <2>1, AdvToPlaced
  <2>3. QED
    BY <2>2, ReportPlaced
<1>5. \/ SkipTurn(l) = l
      \/ SkipTurn(l) = AdvTo(l, Stop(l.cur, Space))
      \/ SkipTurn(l) = AdvTo(l, LineEnd(l.cur))
      \/ SkipTurn(l) = IF ends # {} THEN AdvTo(l, Min(ends) + 2)
                       ELSE Report(AdvTo(l, Len(text) + 1), l)
  <2> DEFINE a == AdvTo(l, Stop(l.cur, Space))
             b == AdvTo(l, LineEnd(l.cur))
             c == IF ends # {} THEN AdvTo(l, Min(ends) + 2) ELSE Report(AdvTo(l, Len(text) + 1), l)
             p == peekc(l) \in Space
             q == peekc(l) = "#" \/ (peekc(l) = "/" /\ peekc2(l) = "/")
             r == peekc(l) = "/" /\ peekc2(l) = "*"
  <2>1. SkipTurn(l) = CASE p -> a [] q -> b [] r -> c [] OTHER -> l
    BY Zenon DEF SkipTurn
  <2> HIDE DEF a, b, c, p, q, r
  <2>2. SkipTurn(l) \in {a, b, c, l}
    BY <2>1
  <2>3. QED
    BY <2>2, Zenon DEF a, b, c
<1> HIDE DEF ends
<1>6. QED
  BY <1>2, <1>3, <1>4, <1>5, Zenon

\* The turns of the loop define a function.
LEMMA SkipExists ==
  ASSUME NEW start, NEW n \in Nat
  PROVE  \E s : s = [k \in 0 .. n |-> IF k = 0 THEN start ELSE SkipTurn(s[k - 1])]
<1> DEFINE P == {m \in 0 .. n : \E s : s = [k \in 0 .. m |-> IF k = 0 THEN start
                                                          ELSE SkipTurn(s[k - 1])]}
<1>1. 0 \in P
  <2> DEFINE s == [k \in 0 .. 0 |-> start]
  <2>1. s = [k \in 0 .. 0 |-> IF k = 0 THEN start ELSE SkipTurn(s[k - 1])]
    OBVIOUS
  <2> HIDE DEF s
  <2>2. 0 \in 0 .. n
    OBVIOUS
  <2>3. QED
    BY <2>1, <2>2
<1>2. ASSUME NEW d \in 1 .. n, d - 1 \in P
      PROVE  d \in P
  <2>1. PICK s : s = [k \in 0 .. d - 1 |-> IF k = 0 THEN start ELSE SkipTurn(s[k - 1])]
    BY <1>2
  <2> DEFINE t == [k \in 0 .. d |-> IF k = d THEN SkipTurn(s[d - 1]) ELSE s[k]]
  <2>2. ASSUME NEW k \in 0 .. d
        PROVE  t[k] = IF k = 0 THEN start ELSE SkipTurn(t[k - 1])
    <3>1. CASE k = 0
      BY <2>1, <3>1
    <3>2. CASE k # 0 /\ k = d
      <4>1. t[k - 1] = s[d - 1]
        BY <3>2
      <4>2. QED
        BY <3>2, <4>1
    <3>3. CASE k # 0 /\ k # d
      <4>1. k \in 0 .. d - 1 /\ k - 1 \in 0 .. d - 1 /\ k - 1 # d
        BY <3>3
      <4>2. t[k] = s[k] /\ t[k - 1] = s[k - 1]
        BY <3>3, <4>1
      <4>3. s[k] = SkipTurn(s[k - 1])
        BY <2>1, <3>3, <4>1
      <4>4. QED
        BY <3>3, <4>2, <4>3
    <3>4. QED
      BY <3>1, <3>2, <3>3
  <2>3. t = [k \in 0 .. d |-> IF k = 0 THEN start ELSE SkipTurn(t[k - 1])]
    BY <2>2
  <2> HIDE DEF t
  <2>4. d \in 0 .. n
    OBVIOUS
  <2>5. QED
    BY <2>3, <2>4
<1>3. \A k \in 0 .. n : k \in P
  <2> HIDE DEF P
  <2>1. QED
    BY <1>1, <1>2, UpTo
<1>4. QED
  BY <1>3

LEMMA SkipPlaced ==
  ASSUME TextOK, NEW l, Placed(l)
  PROVE  Placed(skip_ws(l))
<1> DEFINE n == Len(text)
           w == CHOOSE s : s = [k \in 0 .. n |-> IF k = 0 THEN l ELSE SkipTurn(s[k - 1])]
           P == {k \in 0 .. n : Placed(w[k])}
<1>1. skip_ws(l) = w[n]
  BY DEF skip_ws, Turns
<1>2. n \in Nat
  BY DEF TextOK
<1>3. w = [k \in 0 .. n |-> IF k = 0 THEN l ELSE SkipTurn(w[k - 1])]
  <2> HIDE DEF n
  <2>1. QED
    BY <1>2, SkipExists
<1> HIDE DEF w, n
<1>4. 0 \in P
  BY <1>2, <1>3
<1>5. ASSUME NEW k \in 1 .. n, k - 1 \in P
      PROVE  k \in P
  <2>1. w[k] = SkipTurn(w[k - 1])
    BY <1>2, <1>3
  <2>2. QED
    BY <1>2, <1>5, <2>1, SkipTurnPlaced
<1>6. \A k \in 0 .. n : k \in P
  <2> HIDE DEF P
  <2>1. QED
    BY <1>2, <1>4, <1>5, UpTo
<1>7. QED
  BY <1>1, <1>2, <1>6

-----------------------------------------------------------------------------
(* Tokens *)

\* What a scanner gives is right about places.
ReadPlaced(r) == Placed(r.l) /\ TokenPlaced(r.tok)

LEMMA ReadGives ==
  ASSUME NEW l, Placed(l), NEW t, TokenPlaced(t)
  PROVE  ReadPlaced(Read(l, t))
<1>1. Read(l, t).l = l /\ Read(l, t).tok = t
  BY DEF Read
<1>2. QED
  BY <1>1, Zenon DEF ReadPlaced

\* A token with its fields written out.
TokenOf(l, kind, s, x, v) ==
  [kind |-> kind, from |-> s.cur, to |-> l.cur, line |-> s.line, col |-> s.col,
   suffix |-> x, value |-> v]

LEMMA MktokWith ==
  ASSUME NEW l, NEW kind, NEW s, NEW x
  PROVE  /\ [mktok(l, kind, s) EXCEPT !.suffix = x] = TokenOf(l, kind, s, x, << >>)
         /\ [mktok(l, kind, s) EXCEPT !.value = x] = TokenOf(l, kind, s, {}, x)
<1> DEFINE from == s.cur
           to == l.cur
           line == s.line
           col == s.col
           nothing == {}
           empty == << >>
           R(y, v) == [kind |-> kind, from |-> from, to |-> to, line |-> line, col |-> col,
                       suffix |-> y, value |-> v]
<1>1. mktok(l, kind, s) = R(nothing, empty)
  BY Zenon DEF mktok
<1>2. TokenOf(l, kind, s, x, << >>) = R(x, empty) /\ TokenOf(l, kind, s, {}, x) = R(nothing, x)
  BY Zenon DEF TokenOf
<1> HIDE DEF from, to, line, col, nothing, empty
<1>3. [R(nothing, empty) EXCEPT !.suffix = x] = R(x, empty)
  OBVIOUS
<1>4. [R(nothing, empty) EXCEPT !.value = x] = R(nothing, x)
  OBVIOUS
<1> HIDE DEF R
<1> QED BY <1>1, <1>2, <1>3, <1>4, Zenon

LEMMA TokenFacts ==
  ASSUME TextOK, NEW l, Placed(l), NEW kind \in Kinds, NEW s, Placed(s)
  PROVE  /\ TokenPlaced(mktok(l, kind, s))
         /\ \A x \in SUBSET {"U", "L", "LL"} : TokenPlaced([mktok(l, kind, s) EXCEPT !.suffix = x])
         /\ \A x \in Seq(Nat) :
              (kind = "STR_LIT" => x \in Seq(0 .. 255) /\ Len(x) <= BUF)
                => TokenPlaced([mktok(l, kind, s) EXCEPT !.value = x])
<1>1. /\ s.cur \in Nat /\ l.cur \in Nat /\ s.line = LineOf(s.cur) /\ s.col = ColumnOf(s.cur)
      /\ s.line \in Nat /\ s.col \in Nat
  <2>1. s.cur \in 1 .. End /\ l.cur \in 1 .. End /\ End \in Nat
    BY EndFacts DEF Placed
  <2>2. s.line = LineOf(s.cur) /\ s.col = ColumnOf(s.cur)
    BY DEF Placed
  <2>3. LineOf(s.cur) \in Nat /\ ColumnOf(s.cur) \in Nat
    BY <2>1, PlaceNumbers
  <2> QED BY <2>1, <2>2, <2>3
<1> DEFINE from == s.cur
           to == l.cur
           line == s.line
           col == s.col
           R(x, v) == TokenOf(l, kind, s, x, v)
<1>2. ASSUME NEW x \in SUBSET {"U", "L", "LL"}, NEW v \in Seq(Nat),
             kind = "STR_LIT" => v \in Seq(0 .. 255) /\ Len(v) <= BUF
      PROVE  TokenPlaced(R(x, v))
  <2> HIDE DEF from, to, line, col
  <2>0. R(x, v) = [kind |-> kind, from |-> from, to |-> to, line |-> line, col |-> col,
                   suffix |-> x, value |-> v]
    BY Zenon DEF TokenOf, from, to, line, col
  <2> HIDE DEF R
  <2>1. from \in Nat /\ to \in Nat /\ line \in Nat /\ col \in Nat
    BY <1>1, Zenon DEF from, to, line, col
  <2>2. R(x, v) \in TokenRecord
    BY <2>0, <2>1 DEF TokenRecord, Kinds
  <2>3. R(x, v).kind = kind /\ R(x, v).value = v
    BY <2>0
  <2>4. R(x, v) \in TokenType
    BY <1>2, <2>2, <2>3, Zenon DEF TokenType
  <2>5. R(x, v).line = line /\ R(x, v).col = col /\ R(x, v).from = from
    BY <2>0
  <2>6. line = LineOf(from) /\ col = ColumnOf(from)
    BY <1>1, Zenon DEF from, line, col
  <2> QED BY <2>4, <2>5, <2>6, Zenon DEF TokenPlaced
<1>3. mktok(l, kind, s) = R({}, << >>)
  BY Zenon DEF mktok, TokenOf
<1>4. ASSUME NEW x PROVE [mktok(l, kind, s) EXCEPT !.suffix = x] = R(x, << >>)
  BY MktokWith
<1>5. ASSUME NEW v PROVE [mktok(l, kind, s) EXCEPT !.value = v] = R({}, v)
  BY MktokWith
<1>6. << >> \in Seq(Nat) /\ << >> \in Seq(0 .. 255) /\ Len(<< >>) <= BUF
  BY LexerAssumption
<1> HIDE DEF R
<1>7. {} \in SUBSET {"U", "L", "LL"}
  OBVIOUS
<1>8. TokenPlaced(R({}, << >>))
  BY <1>2, <1>6, <1>7
<1>9. \A x \in SUBSET {"U", "L", "LL"} : TokenPlaced(R(x, << >>))
  BY <1>2, <1>6
<1>10. \A v \in Seq(Nat) : (kind = "STR_LIT" => v \in Seq(0 .. 255) /\ Len(v) <= BUF)
                              => TokenPlaced(R({}, v))
  BY <1>2, <1>7
<1>11. TokenPlaced(mktok(l, kind, s))
  BY <1>3, <1>8, Zenon
<1>12. \A x \in SUBSET {"U", "L", "LL"} : TokenPlaced([mktok(l, kind, s) EXCEPT !.suffix = x])
  BY <1>4, <1>9, Zenon
<1>13. \A v \in Seq(Nat) : (kind = "STR_LIT" => v \in Seq(0 .. 255) /\ Len(v) <= BUF)
                              => TokenPlaced([mktok(l, kind, s) EXCEPT !.value = v])
  BY <1>5, <1>10, Zenon
<1> QED BY <1>11, <1>12, <1>13, Zenon

LEMMA KindsIn ==
  \A k \in {"INT_LIT", "FLOAT_LIT", "CHAR_LIT", "STR_LIT", "IDENT", "PUNCT", "EOF", "ERROR", "none"} :
    k \in Kinds
BY DEF Kinds

LEMMA ErrorToken ==
  ASSUME TextOK, NEW l, Placed(l), NEW s, Placed(s)
  PROVE  ReadPlaced(errtok(l, s))
<1>1. Placed(Report(l, s))
  BY ReportPlaced
<1>2. TokenPlaced(mktok(Report(l, s), "ERROR", s))
  BY <1>1, KindsIn, TokenFacts
<1>3. errtok(l, s) = Read(Report(l, s), mktok(Report(l, s), "ERROR", s))
  BY Zenon DEF errtok
<1>4. ReadPlaced(Read(Report(l, s), mktok(Report(l, s), "ERROR", s)))
  BY <1>1, <1>2, ReadGives
<1>5. QED
  BY <1>3, <1>4, Zenon

LEMMA WarningPlaced ==
  ASSUME TextOK, NEW s, Placed(s), NEW j \in Warnable(s.cur)
  PROVE  Here(AdvTo(s, j)) \in WarnPlaces
<1>1. j \in s.cur .. End /\ BehindUnknownEscape(j)
  BY DEF Warnable
<1> DEFINE l == AdvTo(s, j)
<1>2. Placed(l) /\ l.cur = j /\ j \in 1 .. End
  BY <1>1, AdvToPlaced
<1> HIDE DEF l
<1>3. l.line = LineOf(j) /\ l.col = ColumnOf(j)
  BY <1>2 DEF Placed
<1>4. Here(l) = PlaceOf(j)
  BY <1>2, <1>3 DEF Here, PlaceOf
<1>5. j \in Warnable(1)
  BY <1>1, <1>2 DEF Warnable
<1> QED BY <1>4, <1>5 DEF WarnPlaces, l

LEMMA WarnedPlaced ==
  ASSUME TextOK, NEW l, Placed(l), NEW s, Placed(s), NEW ws \in Seq(Warnable(s.cur))
  PROVE  Placed(Warned(l, s, ws)) /\ Warned(l, s, ws).cur = l.cur
<1> DEFINE b == LineOf(l.cur)
           c == ColumnOf(l.cur)
           more == [k \in DOMAIN ws |-> Here(AdvTo(s, ws[k]))]
           w == l.warnings \o more
<1>1. l = [cur |-> l.cur, line |-> b, col |-> c, errors |-> l.errors, warnings |-> l.warnings]
  BY DEF Placed
<1>2. Warned(l, s, ws) = [l EXCEPT !.warnings = w]
  BY DEF Warned
<1>3. more \in Seq(WarnPlaces)
  <2>1. Len(ws) \in Nat /\ DOMAIN ws = 1 .. Len(ws)
    BY LenProperties
  <2>2. \A k \in 1 .. Len(ws) : Here(AdvTo(s, ws[k])) \in WarnPlaces
    <3>1. \A k \in 1 .. Len(ws) : ws[k] \in Warnable(s.cur)
      BY ElementOfSeq
    <3> QED BY <3>1, WarningPlaced
  <2>3. more = [k \in 1 .. Len(ws) |-> Here(AdvTo(s, ws[k]))]
    BY <2>1, Zenon
  <2> HIDE DEF more
  <2> QED BY <2>1, <2>2, <2>3, IsASeq
<1> HIDE DEF b, c, more
<1>4. w \in Seq(WarnPlaces)
  BY <1>3 DEF Placed
<1> HIDE DEF w
<1>5. Warned(l, s, ws) = [cur |-> l.cur, line |-> b, col |-> c, errors |-> l.errors, warnings |-> w]
  BY <1>1, <1>2
<1>6. l.cur \in 1 .. End /\ l.errors \in Seq(Places)
  BY DEF Placed
<1>7. QED
  BY <1>4, <1>5, <1>6 DEF Placed, b, c

-----------------------------------------------------------------------------
(* Numbers *)

LEMMA NotNul ==
  /\ NUL \notin {"p", "P", "e", "E", "x", "X", "f", "F", "l", "L"} /\ NUL \notin Sign
  /\ NUL # "." /\ NUL # "0" /\ NUL # "'" /\ NUL # "\\" /\ NUL # Quote
BY DEF NUL, Sign, Quote

LEMMA FractionFacts ==
  ASSUME TextOK, NEW i \in 1 .. End, NEW S
  PROVE  Fraction(i, S) \in i .. End
<1>1. End \in Nat
  BY EndFacts
<1>2. CASE At(i) = "."
  <2>1. At(i) # NUL
    BY <1>2, NotNul
  <2>2. i + 1 \in 1 .. End
    BY <1>1, <2>1, CharInside
  <2>3. Stop(i + 1, S) \in i + 1 .. End
    BY <2>2, StopFacts
  <2>4. Fraction(i, S) = Stop(i + 1, S)
    BY <1>2 DEF Fraction
  <2>5. QED
    BY <1>1, <2>3, <2>4
<1>3. CASE At(i) # "."
  BY <1>1, <1>3 DEF Fraction
<1>4. QED
  BY <1>2, <1>3

LEMMA ExponentFacts ==
  ASSUME TextOK, NEW i \in 1 .. End, NEW marks, NUL \notin marks
  PROVE  Exponent(i, marks) \in i .. End
<1>1. End \in Nat
  BY EndFacts
<1>2. CASE At(i) \in marks
  <2> DEFINE j == IF At(i + 1) \in Sign THEN i + 2 ELSE i + 1
  <2>1. i + 1 \in 1 .. End
    BY <1>1, <1>2, CharInside
  <2>2. j \in i .. End /\ j \in 1 .. End
    <3>1. CASE At(i + 1) \in Sign
      <4>1. At(i + 1) # NUL
        BY <3>1, NotNul
      <4>2. i + 1 + 1 <= End
        BY <2>1, <4>1, CharInside
      <4>3. QED
        BY <1>1, <2>1, <3>1, <4>2
    <3>2. CASE At(i + 1) \notin Sign
      BY <1>1, <2>1, <3>2
    <3>3. QED
      BY <3>1, <3>2
  <2>3. Exponent(i, marks) = Stop(j, Digit)
    BY <1>2 DEF Exponent
  <2> HIDE DEF j
  <2>4. Stop(j, Digit) \in j .. End
    BY <2>2, StopFacts
  <2>5. QED
    BY <1>1, <2>2, <2>3, <2>4
<1>3. CASE At(i) \notin marks
  BY <1>1, <1>3 DEF Exponent
<1>4. QED
  BY <1>2, <1>3

LEMMA NumberBodyFacts ==
  ASSUME TextOK, NEW i \in 1 .. End
  PROVE  NumberBody(i).to \in i .. End
<1>1. End \in Nat
  BY EndFacts
<1>2. ASSUME At(i) = "0" /\ At(i + 1) \in {"x", "X"}
      PROVE  HexBody(i).to \in i .. End
  <2>1. At(i) # NUL /\ At(i + 1) # NUL
    BY <1>2, NotNul
  <2>2. i + 1 \in 1 .. End
    BY <1>1, <2>1, CharInside
  <2>3. i + 1 + 1 <= End
    BY <2>1, <2>2, CharInside
  <2>4. i + 2 \in 1 .. End
    BY <1>1, <2>2, <2>3
  <2> DEFINE a == Stop(i + 2, HexDigit)
             b == Fraction(a, HexDigit)
  <2>5. a \in i + 2 .. End
    BY <2>4, StopFacts
  <2>6. HexBody(i).to = Exponent(b, {"p", "P"})
    BY DEF HexBody
  <2> HIDE DEF a
  <2>7. b \in a .. End
    BY <1>1, <2>4, <2>5, FractionFacts
  <2> HIDE DEF b
  <2>8. NUL \notin {"p", "P"}
    BY NotNul
  <2>9. Exponent(b, {"p", "P"}) \in b .. End
    BY <1>1, <2>4, <2>5, <2>7, <2>8, ExponentFacts
  <2>10. QED
    BY <1>1, <2>4, <2>5, <2>6, <2>7, <2>9
<1>3. DecimalBody(i).to \in i .. End
  <2> DEFINE a == Stop(i, Digit)
             b == Fraction(a, Digit)
  <2>5. a \in i .. End
    BY StopFacts
  <2>6. DecimalBody(i).to = Exponent(b, {"e", "E"})
    BY DEF DecimalBody
  <2> HIDE DEF a
  <2>7. b \in a .. End
    BY <1>1, <2>5, FractionFacts
  <2> HIDE DEF b
  <2>8. NUL \notin {"e", "E"}
    BY NotNul
  <2>9. Exponent(b, {"e", "E"}) \in b .. End
    BY <1>1, <2>5, <2>7, <2>8, ExponentFacts
  <2>10. QED
    BY <1>1, <2>5, <2>6, <2>7, <2>9
<1>4. OctalBody(i).to \in i .. End
  BY StopFacts DEF OctalBody
<1>5. \/ At(i) = "0" /\ At(i + 1) \in {"x", "X"} /\ NumberBody(i) = HexBody(i)
      \/ NumberBody(i) = OctalBody(i)
      \/ NumberBody(i) = DecimalBody(i)
  <2> DEFINE a == HexBody(i)
             b == OctalBody(i)
             c == DecimalBody(i)
             p == At(i) = "0" /\ At(i + 1) \in {"x", "X"}
             q == At(i) = "0" /\ At(i + 1) \in OctalDigit
  <2>1. NumberBody(i) = CASE p -> a [] q -> b [] OTHER -> c
    BY Zenon DEF NumberBody
  <2> HIDE DEF a, b, c, p, q
  <2>2. (p /\ NumberBody(i) = a) \/ NumberBody(i) = b \/ NumberBody(i) = c
    BY <2>1
  <2>3. QED
    BY <2>2, Zenon DEF a, b, c, p
<1>6. QED
  BY <1>2, <1>3, <1>4, <1>5

Suffixes == [to : Nat, flags : SUBSET {"U", "L", "LL"}]

LEMMA SuffixTurnIn ==
  ASSUME NEW x \in Suffixes PROVE SuffixTurn(x) \in Suffixes
<1> DEFINE a == [to |-> x.to + 1, flags |-> x.flags \union {"U"}]
           b == [to |-> x.to + 2, flags |-> x.flags \union {"LL"}]
           c == [to |-> x.to + 1, flags |-> x.flags \union {"L"}]
           p == At(x.to) \in Unsigned
           q == At(x.to) \in Long /\ At(x.to + 1) \in Long
           r == At(x.to) \in Long /\ At(x.to + 1) \notin Long
<1>1. SuffixTurn(x) = CASE p -> a [] q -> b [] r -> c [] OTHER -> x
  BY Zenon DEF SuffixTurn
<1>2. a \in Suffixes /\ b \in Suffixes /\ c \in Suffixes
  BY DEF Suffixes
<1> HIDE DEF a, b, c, p, q, r
<1> QED BY <1>1, <1>2

LEMMA SuffixFlagsIn ==
  ASSUME TextOK, NEW i \in Nat
  PROVE  SuffixFlags(i) \in SUBSET {"U", "L", "LL"}
<1> DEFINE n == Len(text)
           l == [to |-> i, flags |-> {}]
           w == CHOOSE s : s = [k \in 0 .. n |-> IF k = 0 THEN l ELSE SuffixTurn(s[k - 1])]
           f == [x \in Suffixes |-> SuffixTurn(x)]
           P == {k \in 0 .. n : w[k] \in Suffixes}
<1>1. SuffixFlags(i) = w[n].flags
  BY DEF SuffixFlags, Turns
<1>2. n \in Nat
  BY DEF TextOK
<1>3. l \in Suffixes
  BY DEF Suffixes
<1>4. f \in [Suffixes -> Suffixes] /\ \A x \in Suffixes : f[x] = SuffixTurn(x)
  BY SuffixTurnIn
<1> HIDE DEF f, n, l, w
<1>5. PICK s \in [0 .. n -> Suffixes] : \A k \in 0 .. n : s[k] = IF k = 0 THEN l ELSE f[s[k - 1]]
  <2>1. f \in [Suffixes -> Suffixes]
    BY <1>4
  <2> HIDE DEF P
  <2>2. \E s : Loop(s, Suffixes, f, l, n)
    BY <1>2, <1>3, <2>1, LoopExists
  <2> QED BY <2>2, Zenon DEF Loop
<1>6. s = [k \in 0 .. n |-> IF k = 0 THEN l ELSE SuffixTurn(s[k - 1])]
  <2>1. ASSUME NEW k \in 0 .. n PROVE s[k] = IF k = 0 THEN l ELSE SuffixTurn(s[k - 1])
    <3>1. k # 0 => s[k - 1] \in Suffixes
      BY <1>2, <1>5
    <3> QED BY <1>4, <1>5, <3>1
  <2> QED BY <1>5, <2>1
<1>7. w = [k \in 0 .. n |-> IF k = 0 THEN l ELSE SuffixTurn(w[k - 1])]
  BY <1>6, Zenon DEF w
<1>8. 0 \in P
  BY <1>2, <1>3, <1>7
<1>9. ASSUME NEW k \in 1 .. n, k - 1 \in P PROVE k \in P
  <2>1. w[k] = SuffixTurn(w[k - 1])
    BY <1>2, <1>7
  <2> QED BY <1>2, <1>9, <2>1, SuffixTurnIn
<1>10. n \in P
  <2> HIDE DEF P
  <2> QED BY <1>2, <1>8, <1>9, UpTo
<1> QED BY <1>1, <1>10 DEF Suffixes

LEMMA NumberPlaced ==
  ASSUME TextOK, NEW s, Placed(s)
  PROVE  ReadPlaced(scan_num(s))
<1> DEFINE n == NumberBody(s.cur)
           suffixed == IF ~n.float THEN Stop(n.to, IntSuffix)
                       ELSE IF At(n.to) \in {"f", "F", "l", "L"} THEN n.to + 1 ELSE n.to
           l == AdvTo(s, suffixed)
           kind == IF n.float THEN "FLOAT_LIT" ELSE "INT_LIT"
           flags == IF n.float THEN {} ELSE SuffixFlags(n.to)
<1>1. scan_num(s) = Read(l, [mktok(l, kind, s) EXCEPT !.suffix = flags])
  BY Zenon DEF scan_num
<1>2. End \in Nat /\ s.cur \in 1 .. End
  BY EndFacts DEF Placed
<1>3. n.to \in s.cur .. End
  BY <1>2, NumberBodyFacts
<1> HIDE DEF n
<1>4. suffixed \in s.cur .. End
  <2>1. n.to \in 1 .. End
    BY <1>2, <1>3
  <2>2. Stop(n.to, IntSuffix) \in n.to .. End
    BY <2>1, StopFacts
  <2>3. At(n.to) \in {"f", "F", "l", "L"} => n.to + 1 <= End
    <3>1. At(n.to) \in {"f", "F", "l", "L"} => At(n.to) # NUL
      BY NotNul
    <3>2. QED
      BY <2>1, <3>1, CharInside
  <2>4. QED
    BY <1>2, <1>3, <2>1, <2>2, <2>3
<1> HIDE DEF suffixed
<1>5. Placed(l)
  BY <1>4, AdvToPlaced
<1>6. kind \in Kinds /\ flags \in SUBSET {"U", "L", "LL"}
  <2>1. kind \in Kinds
    BY KindsIn
  <2>2. n.to \in Nat
    BY <1>2, <1>3
  <2>3. SuffixFlags(n.to) \in SUBSET {"U", "L", "LL"}
    BY <2>2, SuffixFlagsIn
  <2> QED BY <2>1, <2>3
<1> HIDE DEF l, kind, flags
<1>7. TokenPlaced([mktok(l, kind, s) EXCEPT !.suffix = flags])
  BY <1>5, <1>6, TokenFacts
<1>8. QED
  BY <1>1, <1>5, <1>7, ReadGives

-----------------------------------------------------------------------------
(* Values of digits *)

\* s holds the values of the digits from i on, up to each place.
Values(s, i, j, base) ==
  s = [k \in i .. j |-> IF k = i THEN 0 ELSE base * s[k - 1] + DigitValue[At(k - 1)]]

LEMMA ValueExists ==
  ASSUME NEW i \in Nat, NEW n \in Nat, NEW base
  PROVE  \E s : Values(s, i, i + n, base)
<1> DEFINE Next1(x, k) == base * x + DigitValue[At(k - 1)]
           P == {m \in 0 .. n : \E s : s = [k \in i .. i + m |-> IF k = i THEN 0 ELSE Next1(s[k - 1], k)]}
<1>1. 0 \in P
  <2> DEFINE s == [k \in i .. i + 0 |-> 0]
  <2>1. s = [k \in i .. i + 0 |-> IF k = i THEN 0 ELSE Next1(s[k - 1], k)]
    <3> HIDE DEF Next1
    <3> QED OBVIOUS
  <2> HIDE DEF s, Next1
  <2>2. 0 \in 0 .. n
    OBVIOUS
  <2>3. QED
    BY <2>1, <2>2
<1> HIDE DEF Next1
<1>2. ASSUME NEW d \in 1 .. n, d - 1 \in P
      PROVE  d \in P
  <2> DEFINE e == i + d
  <2>0. i + (d - 1) = e - 1 /\ e \in Nat /\ e > i
    OBVIOUS
  <2>1. PICK s : s = [k \in i .. e - 1 |-> IF k = i THEN 0 ELSE Next1(s[k - 1], k)]
    BY <1>2, <2>0
  <2> HIDE DEF e
  <2> DEFINE t == [k \in i .. e |-> IF k = e THEN Next1(s[e - 1], e) ELSE s[k]]
  <2>2. ASSUME NEW k \in i .. e
        PROVE  t[k] = IF k = i THEN 0 ELSE Next1(t[k - 1], k)
    <3>1. CASE k = i
      BY <2>0, <2>1, <3>1
    <3>2. CASE k # i /\ k = e
      <4>1. t[k - 1] = s[e - 1]
        BY <2>0, <3>2
      <4>2. QED
        BY <2>0, <3>2, <4>1
    <3>3. CASE k # i /\ k # e
      <4>1. k \in i .. e - 1 /\ k - 1 \in i .. e - 1 /\ k - 1 # e
        BY <2>0, <3>3
      <4>2. t[k] = s[k] /\ t[k - 1] = s[k - 1]
        BY <2>0, <3>3, <4>1
      <4>3. s[k] = Next1(s[k - 1], k)
        BY <2>1, <3>3, <4>1
      <4>4. QED
        BY <3>3, <4>2, <4>3
    <3>4. QED
      BY <3>1, <3>2, <3>3
  <2>3. t = [k \in i .. e |-> IF k = i THEN 0 ELSE Next1(t[k - 1], k)]
    BY <2>2
  <2> HIDE DEF t
  <2>4. d \in 0 .. n
    OBVIOUS
  <2>5. QED
    BY <2>3, <2>4 DEF e
<1>3. \A k \in 0 .. n : k \in P
  <2> HIDE DEF P
  <2>1. QED
    BY <1>1, <1>2, UpTo
<1>4. n \in P
  <2> HIDE DEF P
  <2> QED BY <1>3
<1>5. \E s : s = [k \in i .. i + n |-> IF k = i THEN 0 ELSE Next1(s[k - 1], k)]
  BY <1>4
<1>6. QED
  BY <1>5, Zenon DEF Next1, Values

LEMMA ValueNumber ==
  ASSUME NEW i \in Nat, NEW j \in Nat, i <= j, NEW base \in Nat,
         \A k \in i .. j - 1 : At(k) \in DOMAIN DigitValue
  PROVE  Value(i, j, base) \in Nat
<1> DEFINE n == j - i
           w == CHOOSE s : Values(s, i, j, base)
           P == {m \in 0 .. n : w[i + m] \in Nat}
<1>1. Value(i, j, base) = w[j]
  BY Zenon DEF Value, Values
<1>2. n \in Nat /\ i + n = j
  OBVIOUS
<1>3. w = [k \in i .. j |-> IF k = i THEN 0 ELSE base * w[k - 1] + DigitValue[At(k - 1)]]
  <2>1. \E s : Values(s, i, i + n, base)
    <3> HIDE DEF n
    <3> QED BY <1>2, ValueExists
  <2>2. \E s : Values(s, i, j, base)
    BY <1>2, <2>1
  <2>3. Values(w, i, j, base)
    BY <2>2, Zenon
  <2> QED BY <2>3 DEF Values
<1> HIDE DEF w, n
<1>4. 0 \in P
  BY <1>2, <1>3
<1>5. ASSUME NEW m \in 1 .. n, m - 1 \in P PROVE m \in P
  <2>1. i + m \in i .. j /\ i + m # i /\ (i + m) - 1 = i + (m - 1) /\ (i + m) - 1 \in i .. j - 1
    BY <1>2
  <2>2. w[i + m] = base * w[i + (m - 1)] + DigitValue[At(i + (m - 1))]
    BY <1>3, <2>1
  <2>3. w[i + (m - 1)] \in Nat /\ DigitValue[At(i + (m - 1))] \in Nat
    BY <1>5, <2>1, DigitFacts
  <2>4. \A x, y \in Nat : base * x + y \in Nat
    OBVIOUS
  <2>5. w[i + m] \in Nat
    BY <2>2, <2>3, <2>4
  <2> QED BY <2>5
<1>6. \A k \in 0 .. n : k \in P
  <2> HIDE DEF P
  <2> QED BY <1>2, <1>4, <1>5, UpTo
<1>7. n \in P
  BY <1>2, <1>6
<1> QED BY <1>1, <1>2, <1>7

-----------------------------------------------------------------------------
(* Literals *)

LEMMA AfterInside ==
  ASSUME TextOK, NEW i \in 1 .. End
  PROVE  After(i) \in i .. End
<1> DEFINE T == {i + 1, Len(text) + 1}
<1>1. End \in Nat /\ End = Len(text) + 1
  BY EndFacts
<1>2. T \in SUBSET Nat /\ T # {} /\ End \in T /\ After(i) = Min(T) /\ \A y \in T : y >= i
  BY <1>1 DEF After
<1> HIDE DEF T
<1>3. Min(T) \in T /\ Min(T) <= End
  BY <1>2, MinFacts
<1>4. After(i) \in Nat /\ After(i) >= i /\ After(i) <= End
  BY <1>2, <1>3
<1> QED BY <1>1, <1>4

\* There is a warning if and only if the escape is not known.
LEMMA EscapeWarns ==
  ASSUME NEW i
  PROVE  \/ scan_esc(i).warns = << >>
         \/ scan_esc(i).warns = <<After(i)>> /\ At(i) \notin KnownEscape
<1> DEFINE p1 == At(i) \in DOMAIN EscapeCode
           p2 == At(i) \in {"\\", "'", Quote}
           p3 == At(i) = "0"
           p4 == At(i) = "x"
           p5 == At(i) \in OctalDigit \ {"0"}
           x1 == Escaped(i + 1, EscapeCode[At(i)])
           x2 == Escaped(i + 1, CodeOf[At(i)])
           x3 == Escaped(i + 1, 0)
           x4 == Escaped(Stop(i + 1, HexDigit), Value(i + 1, Stop(i + 1, HexDigit), 16))
           x5 == Escaped(OctalEnd(i), Value(i, OctalEnd(i), 8))
           x6 == [to |-> After(i), code |-> CodeOf[At(i)], warns |-> <<After(i)>>]
<1>1. scan_esc(i) = CASE p1 -> x1 [] p2 -> x2 [] p3 -> x3 [] p4 -> x4 [] p5 -> x5 [] OTHER -> x6
  BY Zenon DEF scan_esc
<1>2. /\ x1.warns = << >> /\ x2.warns = << >> /\ x3.warns = << >> /\ x4.warns = << >>
      /\ x5.warns = << >> /\ x6.warns = <<After(i)>>
  BY DEF Escaped
<1>3. At(i) \in KnownEscape => p1 \/ p2 \/ p3 \/ p4 \/ p5
  <2>1. DOMAIN EscapeCode = {"a", "b", "t", "n", "v", "f", "r"}
    BY DEF EscapeCode
  <2> QED BY <2>1, Zenon DEF KnownEscape
<1> HIDE DEF p1, p2, p3, p4, p5, x1, x2, x3, x4, x5, x6
<1>4. \/ scan_esc(i) \in {x1, x2, x3, x4, x5}
      \/ scan_esc(i) = x6 /\ ~p1 /\ ~p2 /\ ~p3 /\ ~p4 /\ ~p5
  BY <1>1
<1> QED BY <1>2, <1>3, <1>4, Zenon

LEMMA EscapeInside ==
  ASSUME TextOK, NEW i \in 1 .. End
  PROVE  scan_esc(i).to \in i .. End /\ scan_esc(i).code \in Nat
<1> DEFINE p1 == At(i) \in DOMAIN EscapeCode
           p2 == At(i) \in {"\\", "'", Quote}
           p3 == At(i) = "0"
           p4 == At(i) = "x"
           p5 == At(i) \in OctalDigit \ {"0"}
           x1 == Escaped(i + 1, EscapeCode[At(i)])
           x2 == Escaped(i + 1, CodeOf[At(i)])
           x3 == Escaped(i + 1, 0)
           x4 == Escaped(Stop(i + 1, HexDigit), Value(i + 1, Stop(i + 1, HexDigit), 16))
           x5 == Escaped(OctalEnd(i), Value(i, OctalEnd(i), 8))
           x6 == [to |-> After(i), code |-> CodeOf[At(i)], warns |-> <<After(i)>>]
<1>1. scan_esc(i) = CASE p1 -> x1 [] p2 -> x2 [] p3 -> x3 [] p4 -> x4 [] p5 -> x5 [] OTHER -> x6
  BY Zenon DEF scan_esc
<1>2. /\ x1.to = i + 1 /\ x2.to = i + 1 /\ x3.to = i + 1 /\ x4.to = Stop(i + 1, HexDigit)
      /\ x5.to = OctalEnd(i) /\ x6.to = After(i)
  BY DEF Escaped
<1>3. /\ x1.code = EscapeCode[At(i)] /\ x2.code = CodeOf[At(i)] /\ x3.code = 0
      /\ x4.code = Value(i + 1, Stop(i + 1, HexDigit), 16)
      /\ x5.code = Value(i, OctalEnd(i), 8) /\ x6.code = CodeOf[At(i)]
  BY DEF Escaped
<1>4. p1 \/ p2 \/ p3 \/ p4 => At(i) # NUL
  <2>1. NUL \notin DOMAIN EscapeCode
    BY DEF NUL, EscapeCode
  <2>2. QED
    BY <2>1, NotNul, Zenon DEF p1, p2, p3, p4
<1>5. End \in Nat /\ End = Len(text) + 1
  BY EndFacts
<1>6. After(i) \in i .. End /\ OctalEnd(i) \in i .. End /\ OctalEnd(i) <= Stop(i, OctalDigit)
  <2>1. Stop(i, OctalDigit) \in i .. End
    BY StopFacts
  <2> DEFINE U == {i + 3, Stop(i, OctalDigit)}
  <2>2. U \in SUBSET Nat
    BY <1>5, <2>1
  <2>3. OctalEnd(i) = Min(U)
    BY DEF OctalEnd
  <2>4. Stop(i, OctalDigit) \in U
    OBVIOUS
  <2>5. \A y \in U : y >= i
    BY <1>5, <2>1
  <2> HIDE DEF U
  <2>6. Min(U) \in U /\ Min(U) <= Stop(i, OctalDigit)
    BY <2>2, <2>4, MinFacts
  <2>7. Min(U) \in Nat /\ Min(U) >= i
    BY <2>2, <2>5, <2>6
  <2>8. QED
    BY <1>5, <2>1, <2>3, <2>6, <2>7, AfterInside
<1>7. p1 \/ p2 \/ p3 \/ p4 => i + 1 \in i .. End /\ Stop(i + 1, HexDigit) \in i + 1 .. End
  <2> HIDE DEF p1, p2, p3, p4
  <2> SUFFICES ASSUME p1 \/ p2 \/ p3 \/ p4
               PROVE  i + 1 \in i .. End /\ Stop(i + 1, HexDigit) \in i + 1 .. End
    OBVIOUS
  <2>1. i + 1 <= End
    BY <1>4, CharInside
  <2>2. i + 1 \in 1 .. End
    BY <1>5, <2>1
  <2>3. QED
    BY <1>5, <2>2, StopFacts
<1>8. p1 => x1.code \in Nat
  <2>1. \A c \in DOMAIN EscapeCode : EscapeCode[c] \in Nat
    BY DEF EscapeCode
  <2> QED BY <1>3, <2>1, Zenon DEF p1
<1>9. x2.code \in Nat /\ x6.code \in Nat
  BY <1>3, CharCode
<1>10. p4 => x4.code \in Nat
  <2> DEFINE j == Stop(i + 1, HexDigit)
  <2> SUFFICES ASSUME p4 PROVE x4.code \in Nat
    OBVIOUS
  <2>1. i + 1 \in i .. End /\ j \in i + 1 .. End
    BY <1>7
  <2>2. \A k \in i + 1 .. j - 1 : At(k) \in HexDigit
    BY <1>5, <2>1, StopAll
  <2> HIDE DEF j
  <2>3. \A k \in i + 1 .. j - 1 : At(k) \in DOMAIN DigitValue
    BY <2>2 DEF HexDigit
  <2>4. i + 1 \in Nat /\ j \in Nat /\ i + 1 <= j /\ 16 \in Nat
    BY <1>5, <2>1
  <2>5. Value(i + 1, j, 16) \in Nat
    BY <2>3, <2>4, ValueNumber
  <2> QED BY <1>3, <2>5, Zenon DEF j
<1>11. x5.code \in Nat
  <2> DEFINE j == OctalEnd(i)
  <2>1. \A k \in i .. Stop(i, OctalDigit) - 1 : At(k) \in OctalDigit
    BY StopAll
  <2>2. j \in i .. End /\ j <= Stop(i, OctalDigit)
    BY <1>6
  <2>3. OctalDigit \subseteq DOMAIN DigitValue
    BY DigitFacts DEF OctalDigit
  <2>4. Stop(i, OctalDigit) \in i .. End
    BY StopFacts
  <2> HIDE DEF j
  <2>5. \A k \in i .. j - 1 : k \in i .. Stop(i, OctalDigit) - 1
    BY <1>5, <2>2, <2>4
  <2>6. \A k \in i .. j - 1 : At(k) \in DOMAIN DigitValue
    BY <2>1, <2>3, <2>5
  <2>7. i \in Nat /\ j \in Nat /\ i <= j /\ 8 \in Nat
    BY <1>5, <2>2
  <2>8. Value(i, j, 8) \in Nat
    BY <2>6, <2>7, ValueNumber
  <2> QED BY <1>3, <2>8, Zenon DEF j
<1> HIDE DEF p1, p2, p3, p4, p5, x1, x2, x3, x4, x5, x6
<1>12. \/ p1 /\ scan_esc(i) = x1
       \/ p2 /\ scan_esc(i) = x2
       \/ p3 /\ scan_esc(i) = x3
       \/ p4 /\ scan_esc(i) = x4
       \/ scan_esc(i) \in {x5, x6}
  BY <1>1
<1> DEFINE Good(x) == x.to \in i .. End /\ x.code \in Nat
<1>13. (p1 => Good(x1)) /\ (p2 => Good(x2)) /\ (p3 => Good(x3))
  BY <1>2, <1>7, <1>3, <1>8, <1>9
<1>14. p4 => Good(x4)
  <2> SUFFICES ASSUME p4 PROVE Good(x4)
    OBVIOUS
  <2>1. x4.to \in i + 1 .. End
    BY <1>2, <1>7
  <2>2. x4.to \in i .. End
    BY <1>5, <2>1
  <2>3. QED
    BY <1>3, <1>10, <2>2
<1>15. Good(x5) /\ Good(x6)
  BY <1>2, <1>6, <1>3, <1>9, <1>11
<1> HIDE DEF Good
<1>16. Good(scan_esc(i))
  BY <1>12, <1>13, <1>14, <1>15, Zenon
<1>17. QED
  BY <1>16 DEF Good

\* A warning of the escape behind the backslash at i is behind that escape.
LEMMA EscapeWarnable ==
  ASSUME TextOK, NEW i \in 1 .. Len(text), At(i) = "\\"
  PROVE  scan_esc(i + 1).warns \in Seq(Warnable(i))
<1> DEFINE j == After(i + 1)
           warns == scan_esc(i + 1).warns
<1>1. End \in Nat /\ End = Len(text) + 1 /\ i + 1 \in 1 .. End
  BY EndFacts
<1>2. j \in i .. End
  <2>1. j \in i + 1 .. End
    BY <1>1, AfterInside
  <2> HIDE DEF j
  <2> QED BY <1>1, <2>1
<1>3. text[i] = "\\"
  <2>1. At(i) = text[i]
    BY <1>1 DEF At
  <2> QED BY <2>1, Zenon
<1>4. warns = << >> \/ (warns = <<j>> /\ At(i + 1) \notin KnownEscape)
  BY EscapeWarns, Zenon
<1>5. At(i + 1) \notin KnownEscape => j \in Warnable(i)
  BY <1>2, <1>3, Zenon DEF Warnable, BehindUnknownEscape
<1> HIDE DEF j, warns
<1>6. CASE warns = << >>
  <2>1. << >> \in Seq(Warnable(i))
    BY EmptySeq
  <2> QED BY <1>6, <2>1, Zenon DEF warns
<1>7. CASE warns = <<j>> /\ At(i + 1) \notin KnownEscape
  <2>1. j \in Warnable(i)
    BY <1>5, <1>7, Zenon
  <2>2. <<j>> \in Seq(Warnable(i))
    BY <2>1
  <2> QED BY <1>7, <2>2, Zenon DEF warns
<1> QED BY <1>4, <1>6, <1>7

LEMMA OneCharInside ==
  ASSUME TextOK, NEW i \in 1 .. Len(text)
  PROVE  OneChar(i).to \in i .. End /\ OneChar(i).code \in Nat /\ OneChar(i).warns \in Seq(Warnable(i))
<1>1. End \in Nat /\ End = Len(text) + 1
  BY EndFacts
<1>2. i + 1 \in 1 .. End /\ i + 1 \in i .. End
  BY <1>1
<1>3. scan_esc(i + 1).to \in i + 1 .. End /\ scan_esc(i + 1).code \in Nat
  BY <1>2, EscapeInside
<1>4. CASE At(i) = "\\"
  <2>1. OneChar(i) = scan_esc(i + 1)
    BY <1>4, Zenon DEF OneChar
  <2>2. scan_esc(i + 1).to \in i .. End
    BY <1>1, <1>2, <1>3
  <2>3. scan_esc(i + 1).warns \in Seq(Warnable(i))
    BY <1>4, EscapeWarnable, Zenon
  <2>4. QED
    BY <1>3, <2>1, <2>2, <2>3, Zenon
<1>5. CASE At(i) # "\\"
  <2> DEFINE code == CodeOf[At(i)]
  <2>1. OneChar(i) = [to |-> i + 1, code |-> code, warns |-> << >>]
    BY <1>5, Zenon DEF OneChar, Escaped
  <2>2. code \in Nat
    BY <1>1, CharCode
  <2>3. << >> \in Seq(Warnable(i))
    BY EmptySeq
  <2> HIDE DEF code
  <2>4. QED
    BY <1>2, <2>1, <2>2, <2>3
<1>6. QED
  BY <1>4, <1>5

\* The buffer of a string is filled by a loop that stays in the text.
InBody(i, b) ==
  /\ b = [to |-> b.to, codes |-> b.codes, warns |-> b.warns]
  /\ b.to \in i .. End
  /\ b.codes \in Seq(0 .. 255) /\ Len(b.codes) <= BUF
  /\ b.warns \in Seq(Warnable(i))

\* From a place on there is no more to warn of than from an earlier one.
LEMMA WarnableLater ==
  ASSUME NEW i \in Nat, NEW j \in Nat, i <= j, TextOK, NEW ws \in Seq(Warnable(j))
  PROVE  ws \in Seq(Warnable(i))
<1>1. Warnable(j) \subseteq Warnable(i)
  BY EndFacts DEF Warnable
<1> QED BY <1>1, SeqMonotonic, Zenon

LEMMA StringTurnInside ==
  ASSUME TextOK, NEW i \in 1 .. End, NEW b, InBody(i, b)
  PROVE  InBody(i, StringTurn(b))
<1>1. End \in Nat /\ End = Len(text) + 1 /\ b.to \in i .. End
      /\ b = [to |-> b.to, codes |-> b.codes, warns |-> b.warns]
      /\ b.codes \in Seq(0 .. 255) /\ Len(b.codes) <= BUF /\ b.warns \in Seq(Warnable(i))
  BY EndFacts DEF InBody
<1> DEFINE p == b.to > Len(text) \/ At(b.to) \in {Quote, Newline}
           q == Len(b.codes) = BUF
           c == OneChar(b.to)
           codes == Append(b.codes, c.code % 256)
           warns == b.warns \o c.warns
<1>2. StringTurn(b) = IF p THEN b ELSE IF q THEN [b EXCEPT !.to = @ + 1]
                      ELSE [to |-> c.to, codes |-> codes, warns |-> warns]
  BY Zenon DEF StringTurn
<1>3. CASE p
  BY <1>2, <1>3
<1>4. CASE ~p /\ q
  <2>1. StringTurn(b) = [b EXCEPT !.to = b.to + 1]
    BY <1>2, <1>4
  <2>2. StringTurn(b) = [to |-> b.to + 1, codes |-> b.codes, warns |-> b.warns]
    BY <1>1, <2>1
  <2>3. ~(b.to > Len(text))
    BY <1>4
  <2>4. b.to + 1 \in i .. End
    BY <1>1, <2>3
  <2>5. QED
    BY <1>1, <2>2, <2>4 DEF InBody
<1>5. CASE ~p /\ ~q
  <2>1. StringTurn(b) = [to |-> c.to, codes |-> codes, warns |-> warns]
    BY <1>2, <1>5
  <2>2. ~(b.to > Len(text))
    BY <1>5
  <2>3. b.to \in 1 .. Len(text)
    BY <1>1, <2>2
  <2>4. c.to \in b.to .. End /\ c.code \in Nat /\ c.warns \in Seq(Warnable(b.to))
    BY <2>3, OneCharInside
  <2> HIDE DEF c
  <2>5. c.to \in i .. End
    BY <1>1, <2>4
  <2>6. codes \in Seq(0 .. 255) /\ Len(codes) <= BUF
    <3> DEFINE byte == c.code % 256
    <3>1. byte \in 0 .. 255
      <4>1. c.code \in Nat
        BY <2>4
      <4> QED BY <4>1
    <3> HIDE DEF byte
    <3>2. Len(b.codes) \in Nat /\ Len(b.codes) # BUF
      BY <1>1, <1>5
    <3>3. Append(b.codes, byte) \in Seq(0 .. 255) /\ Len(Append(b.codes, byte)) = Len(b.codes) + 1
      BY <1>1, <3>1
    <3>4. Len(b.codes) + 1 <= BUF
      BY <1>1, <3>2, LexerAssumption
    <3> QED BY <3>3, <3>4, Zenon DEF byte
  <2>7. warns \in Seq(Warnable(i))
    <3>1. c.warns \in Seq(Warnable(i))
      BY <1>1, <2>4, WarnableLater
    <3> QED BY <1>1, <3>1
  <2> HIDE DEF codes, warns
  <2>8. QED
    BY <2>1, <2>5, <2>6, <2>7 DEF InBody
<1>6. QED
  BY <1>3, <1>4, <1>5

LEMMA StringExists ==
  ASSUME NEW start, NEW n \in Nat
  PROVE  \E s : s = [k \in 0 .. n |-> IF k = 0 THEN start ELSE StringTurn(s[k - 1])]
<1> DEFINE P == {m \in 0 .. n : \E s : s = [k \in 0 .. m |-> IF k = 0 THEN start
                                                          ELSE StringTurn(s[k - 1])]}
<1>1. 0 \in P
  <2> DEFINE s == [k \in 0 .. 0 |-> start]
  <2>1. s = [k \in 0 .. 0 |-> IF k = 0 THEN start ELSE StringTurn(s[k - 1])]
    OBVIOUS
  <2> HIDE DEF s
  <2>2. 0 \in 0 .. n
    OBVIOUS
  <2>3. QED
    BY <2>1, <2>2
<1>2. ASSUME NEW d \in 1 .. n, d - 1 \in P
      PROVE  d \in P
  <2>1. PICK s : s = [k \in 0 .. d - 1 |-> IF k = 0 THEN start ELSE StringTurn(s[k - 1])]
    BY <1>2
  <2> DEFINE t == [k \in 0 .. d |-> IF k = d THEN StringTurn(s[d - 1]) ELSE s[k]]
  <2>2. ASSUME NEW k \in 0 .. d
        PROVE  t[k] = IF k = 0 THEN start ELSE StringTurn(t[k - 1])
    <3>1. CASE k = 0
      BY <2>1, <3>1
    <3>2. CASE k # 0 /\ k = d
      <4>1. t[k - 1] = s[d - 1]
        BY <3>2
      <4>2. QED
        BY <3>2, <4>1
    <3>3. CASE k # 0 /\ k # d
      <4>1. k \in 0 .. d - 1 /\ k - 1 \in 0 .. d - 1 /\ k - 1 # d
        BY <3>3
      <4>2. t[k] = s[k] /\ t[k - 1] = s[k - 1]
        BY <3>3, <4>1
      <4>3. s[k] = StringTurn(s[k - 1])
        BY <2>1, <3>3, <4>1
      <4>4. QED
        BY <3>3, <4>2, <4>3
    <3>4. QED
      BY <3>1, <3>2, <3>3
  <2>3. t = [k \in 0 .. d |-> IF k = 0 THEN start ELSE StringTurn(t[k - 1])]
    BY <2>2
  <2> HIDE DEF t
  <2>4. d \in 0 .. n
    OBVIOUS
  <2>5. QED
    BY <2>3, <2>4
<1>3. \A k \in 0 .. n : k \in P
  <2> HIDE DEF P
  <2>1. QED
    BY <1>1, <1>2, UpTo
<1>4. QED
  BY <1>3

LEMMA StringInside ==
  ASSUME TextOK, NEW i \in 1 .. End
  PROVE  InBody(i, StringBody(i))
<1> DEFINE n == Len(text)
           l == [to |-> i, codes |-> << >>, warns |-> << >>]
           w == CHOOSE s : s = [k \in 0 .. n |-> IF k = 0 THEN l ELSE StringTurn(s[k - 1])]
           P == {k \in 0 .. n : InBody(i, w[k])}
<1>1. StringBody(i) = w[n]
  BY DEF StringBody, Turns
<1>2. n \in Nat /\ End = n + 1
  BY DEF TextOK, End
<1>3. w = [k \in 0 .. n |-> IF k = 0 THEN l ELSE StringTurn(w[k - 1])]
  <2> HIDE DEF n, l
  <2>1. QED
    BY <1>2, StringExists
<1>4. InBody(i, l)
  BY <1>2, LexerAssumption DEF InBody
<1> HIDE DEF w, n, l
<1>5. 0 \in P
  BY <1>2, <1>3, <1>4
<1>6. ASSUME NEW k \in 1 .. n, k - 1 \in P
      PROVE  k \in P
  <2>1. w[k] = StringTurn(w[k - 1])
    BY <1>2, <1>3
  <2>2. QED
    BY <1>2, <1>6, <2>1, StringTurnInside
<1>7. \A k \in 0 .. n : k \in P
  <2> HIDE DEF P
  <2>1. QED
    BY <1>2, <1>5, <1>6, UpTo
<1>8. InBody(i, w[n])
  BY <1>2, <1>7
<1>9. QED
  BY <1>1, <1>8, Zenon

LEMMA BytesAreNumbers == ASSUME NEW v \in Seq(0 .. 255) PROVE v \in Seq(Nat)
<1>1. 0 .. 255 \subseteq Nat
  OBVIOUS
<1> QED BY <1>1, SeqMonotonic, Zenon

LEMMA StringPlaced ==
  ASSUME TextOK, NEW s, Placed(s), NEW i \in s.cur .. End, At(i) # NUL
  PROVE  ReadPlaced(scan_str(s, i))
<1> DEFINE body == StringBody(i + 1)
           closed == At(body.to) = Quote
           stop == IF closed THEN body.to + 1 ELSE body.to
           l == Warned(AdvTo(s, stop), s, body.warns)
<1>1. End \in Nat /\ End = Len(text) + 1 /\ s.cur \in 1 .. End
  BY EndFacts DEF Placed
<1>2. i + 1 \in 1 .. End
  BY <1>1, CharInside
<1>3. /\ body.to \in i + 1 .. End /\ body.warns \in Seq(Warnable(i + 1))
      /\ body.codes \in Seq(0 .. 255) /\ Len(body.codes) <= BUF
  BY <1>2, StringInside, Zenon DEF InBody
<1>4. scan_str(s, i) = IF closed THEN Read(l, [mktok(l, "STR_LIT", s) EXCEPT !.value = body.codes])
                       ELSE errtok(l, s)
  BY Zenon DEF scan_str
<1> HIDE DEF body
<1>5. closed => body.to + 1 <= End
  <2>1. closed => At(body.to) # NUL
    BY NotNul
  <2>2. body.to \in Nat
    BY <1>2, <1>3
  <2>3. QED
    BY <2>1, <2>2, CharInside
<1> HIDE DEF closed
<1>6. stop \in s.cur .. End
  BY <1>1, <1>2, <1>3, <1>5
<1> HIDE DEF stop
<1>7. Placed(AdvTo(s, stop))
  BY <1>6, AdvToPlaced
<1>8. Placed(l)
  <2>1. s.cur \in Nat /\ i + 1 \in Nat /\ s.cur <= i + 1
    BY <1>1
  <2>2. body.warns \in Seq(Warnable(s.cur))
    BY <1>3, <2>1, WarnableLater
  <2> QED BY <1>7, <2>2, WarnedPlaced
<1> HIDE DEF l
<1>9. TokenPlaced([mktok(l, "STR_LIT", s) EXCEPT !.value = body.codes])
  <2>1. body.codes \in Seq(Nat)
    BY <1>3, BytesAreNumbers, Zenon
  <2> QED BY <1>3, <1>8, <2>1, KindsIn, TokenFacts
<1>10. ReadPlaced(Read(l, [mktok(l, "STR_LIT", s) EXCEPT !.value = body.codes]))
  BY <1>8, <1>9, ReadGives
<1>11. ReadPlaced(errtok(l, s))
  BY <1>8, ErrorToken
<1>12. QED
  BY <1>4, <1>10, <1>11, Zenon

LEMMA CharPlaced ==
  ASSUME TextOK, NEW s, Placed(s), NEW i \in s.cur .. End, At(i) # NUL
  PROVE  ReadPlaced(scan_chr(s, i))
<1> DEFINE c == OneChar(i + 1)
           closed == At(c.to) = "'"
           stop == IF closed THEN c.to + 1 ELSE c.to
           l == Warned(AdvTo(s, stop), s, c.warns)
           empty == i + 1 > Len(text) \/ At(i + 1) = "'"
           value == <<c.code>>
<1>1. End \in Nat /\ End = Len(text) + 1 /\ s.cur \in 1 .. End
  BY EndFacts DEF Placed
<1>2. i + 1 \in 1 .. End /\ i + 1 \in s.cur .. End
  BY <1>1, CharInside
<1>3. scan_chr(s, i) = IF empty THEN errtok(AdvTo(s, i + 1), s)
                       ELSE IF closed THEN Read(l, [mktok(l, "CHAR_LIT", s) EXCEPT !.value = value])
                       ELSE errtok(l, s)
  BY Zenon DEF scan_chr
<1>4. ReadPlaced(errtok(AdvTo(s, i + 1), s))
  <2>1. Placed(AdvTo(s, i + 1))
    BY <1>2, AdvToPlaced
  <2>2. QED
    BY <2>1, ErrorToken
<1>5. ASSUME ~empty
      PROVE  Placed(l)
  <2>1. ~(i + 1 > Len(text))
    BY <1>5
  <2>2. i + 1 \in 1 .. Len(text)
    BY <1>1, <1>2, <2>1
  <2>3. c.to \in i + 1 .. End /\ c.warns \in Seq(Warnable(i + 1))
    BY <2>2, OneCharInside
  <2> HIDE DEF c
  <2>4. closed => c.to + 1 <= End
    <3>1. closed => At(c.to) # NUL
      BY NotNul
    <3>2. c.to \in Nat
      BY <1>2, <2>3
    <3>3. QED
      BY <3>1, <3>2, CharInside
  <2> HIDE DEF closed
  <2>5. stop \in s.cur .. End
    BY <1>1, <1>2, <2>3, <2>4
  <2> HIDE DEF stop
  <2>6. Placed(AdvTo(s, stop))
    BY <2>5, AdvToPlaced
  <2>7. s.cur \in Nat /\ i + 1 \in Nat /\ s.cur <= i + 1
    BY <1>1
  <2>8. c.warns \in Seq(Warnable(s.cur))
    BY <2>3, <2>7, WarnableLater
  <2>9. QED
    BY <2>6, <2>8, WarnedPlaced
<1>6. ASSUME ~empty
      PROVE  value \in Seq(Nat)
  <2>1. ~(i + 1 > Len(text))
    BY <1>6
  <2>2. i + 1 \in 1 .. Len(text)
    BY <1>1, <1>2, <2>1
  <2>3. c.code \in Nat
    BY <2>2, OneCharInside
  <2> HIDE DEF c
  <2> QED BY <2>3
<1> HIDE DEF l, empty, closed, value
<1>7. ASSUME ~empty
      PROVE  ReadPlaced(Read(l, [mktok(l, "CHAR_LIT", s) EXCEPT !.value = value]))
  <2>1. Placed(l) /\ value \in Seq(Nat)
    BY <1>5, <1>6, <1>7
  <2>2. "CHAR_LIT" \in Kinds /\ "CHAR_LIT" # "STR_LIT"
    BY KindsIn
  <2>3. TokenPlaced([mktok(l, "CHAR_LIT", s) EXCEPT !.value = value])
    BY <2>1, <2>2, TokenFacts
  <2> QED BY <2>1, <2>3, ReadGives
<1>8. ~empty => ReadPlaced(errtok(l, s))
  BY <1>5, ErrorToken
<1>9. QED
  BY <1>3, <1>4, <1>7, <1>8, Zenon

-----------------------------------------------------------------------------
(* Words and punctuators *)

LEMMA KeywordTable == Len(kw_table) \in Nat /\ DOMAIN kw_table = 1 .. Len(kw_table)
BY SMTT(30) DEF kw_table

\* The interval that is left of the table.
Searches == [lo : 0 .. Len(kw_table), hi : -1 .. Len(kw_table) - 1, kind : Kinds]

LEMMA LookupTurnIn ==
  ASSUME NEW word, NEW x \in Searches
  PROVE  LookupTurn(word, x) \in Searches
<1> DEFINE n == Len(kw_table)
           mid == (x.lo + x.hi) \div 2
           name == kw_table[mid + 1]
           p == IsPrefix(word, name) /\ Len(name) = Len(word)
           q == GoesBelow(word, name)
           a == [lo |-> mid + 1, hi |-> mid, kind |-> name]
           b == [x EXCEPT !.hi = mid - 1]
           c == [x EXCEPT !.lo = mid + 1]
<1>1. LookupTurn(word, x) = IF x.lo > x.hi THEN x ELSE IF p THEN a ELSE IF q THEN b ELSE c
  BY Zenon DEF LookupTurn
<1>2. n \in Nat /\ DOMAIN kw_table = 1 .. n
  BY KeywordTable
<1>3. x.lo \in 0 .. n /\ x.hi \in -1 .. n - 1 /\ x.kind \in Kinds
      /\ x = [lo |-> x.lo, hi |-> x.hi, kind |-> x.kind]
  BY DEF Searches
<1> HIDE DEF p, q, n
<1>4. ASSUME x.lo <= x.hi
      PROVE  mid \in 0 .. n - 1
  BY <1>2, <1>3, <1>4
<1>5. ASSUME mid \in 0 .. n - 1
      PROVE  a \in Searches /\ b \in Searches /\ c \in Searches
  <2> HIDE DEF mid
  <2>1. mid + 1 \in 1 .. n /\ mid + 1 \in 0 .. n /\ mid - 1 \in -1 .. n - 1 /\ mid \in -1 .. n - 1
    BY <1>2, <1>5
  <2>2. name \in Kinds
    BY <1>2, <2>1 DEF Kinds
  <2> HIDE DEF name
  <2>3. Searches = [lo : 0 .. n, hi : -1 .. n - 1, kind : Kinds]
    BY DEF Searches, n
  <2>4. a \in Searches
    BY <2>1, <2>2, <2>3
  <2>5. b = [lo |-> x.lo, hi |-> mid - 1, kind |-> x.kind]
    BY <1>3
  <2>6. c = [lo |-> mid + 1, hi |-> x.hi, kind |-> x.kind]
    BY <1>3
  <2> HIDE DEF a, b, c
  <2>7. b \in Searches
    BY <1>3, <2>1, <2>3, <2>5
  <2>8. c \in Searches
    BY <1>3, <2>1, <2>3, <2>6
  <2> QED BY <2>4, <2>7, <2>8
<1> HIDE DEF a, b, c, mid
<1>6. ~(x.lo > x.hi) => x.lo <= x.hi
  BY <1>2, <1>3
<1> QED BY <1>1, <1>4, <1>5, <1>6, Zenon

LEMMA KeywordIn == ASSUME NEW word PROVE lookup_keyword(word) \in Kinds
<1> DEFINE n == Len(kw_table)
           l == [lo |-> 0, hi |-> n - 1, kind |-> "IDENT"]
           w == CHOOSE s : s = [k \in 0 .. n |-> IF k = 0 THEN l ELSE LookupTurn(word, s[k - 1])]
           f == [x \in Searches |-> LookupTurn(word, x)]
           P == {k \in 0 .. n : w[k] \in Searches}
<1>1. lookup_keyword(word) = w[n].kind
  BY DEF lookup_keyword, Turns
<1>2. n \in Nat
  BY KeywordTable
<1>3. l \in Searches
  <2>1. "IDENT" \in Kinds
    BY DEF Kinds
  <2>2. 0 \in 0 .. n /\ n - 1 \in -1 .. n - 1
    BY <1>2
  <2> QED BY <2>1, <2>2 DEF Searches
<1>4. f \in [Searches -> Searches] /\ \A x \in Searches : f[x] = LookupTurn(word, x)
  BY LookupTurnIn
<1> HIDE DEF f, n, l, w
<1>5. PICK s \in [0 .. n -> Searches] : \A k \in 0 .. n : s[k] = IF k = 0 THEN l ELSE f[s[k - 1]]
  <2>1. f \in [Searches -> Searches]
    BY <1>4
  <2> HIDE DEF P
  <2>2. \E s : Loop(s, Searches, f, l, n)
    BY <1>2, <1>3, <2>1, LoopExists
  <2> QED BY <2>2, Zenon DEF Loop
<1>6. s = [k \in 0 .. n |-> IF k = 0 THEN l ELSE LookupTurn(word, s[k - 1])]
  <2>1. ASSUME NEW k \in 0 .. n PROVE s[k] = IF k = 0 THEN l ELSE LookupTurn(word, s[k - 1])
    <3>1. k # 0 => s[k - 1] \in Searches
      BY <1>2, <1>5
    <3> QED BY <1>4, <1>5, <3>1
  <2> QED BY <1>5, <2>1
<1>7. w = [k \in 0 .. n |-> IF k = 0 THEN l ELSE LookupTurn(word, w[k - 1])]
  BY <1>6, Zenon DEF w
<1>8. 0 \in P
  BY <1>2, <1>3, <1>7
<1>9. ASSUME NEW k \in 1 .. n, k - 1 \in P PROVE k \in P
  <2>1. w[k] = LookupTurn(word, w[k - 1])
    BY <1>2, <1>7
  <2> QED BY <1>2, <1>9, <2>1, LookupTurnIn
<1>10. n \in P
  <2> HIDE DEF P
  <2> QED BY <1>2, <1>8, <1>9, UpTo
<1> QED BY <1>1, <1>10 DEF Searches

LEMMA WordPlaced ==
  ASSUME TextOK, NEW s, Placed(s)
  PROVE  ReadPlaced(scan_word(s))
<1> DEFINE stop == Stop(s.cur, Letter \union Digit)
           l == AdvTo(s, stop)
           kind == lookup_keyword(Word(s.cur, l.cur))
<1>1. s.cur \in 1 .. End
  BY DEF Placed
<1>2. stop \in s.cur .. End
  BY <1>1, StopFacts
<1>3. scan_word(s) = Read(l, mktok(l, kind, s))
  BY Zenon DEF scan_word
<1> HIDE DEF stop
<1>4. Placed(l)
  BY <1>2, AdvToPlaced
<1> HIDE DEF l
<1>5. TokenPlaced(mktok(l, kind, s))
  <2>1. kind \in Kinds
    BY KeywordIn
  <2> HIDE DEF kind
  <2> QED BY <1>4, <2>1, TokenFacts
<1> HIDE DEF kind
<1>6. QED
  BY <1>3, <1>4, <1>5, ReadGives

LEMMA NotSecond ==
  /\ NUL \notin {"<", ">"} /\ NUL # "="
  /\ \A c : NUL \notin Second(c)
<1>1. NUL \notin {"<", ">", "=", "-", "+", "&", "|"}
  BY DEF NUL
<1>2. ASSUME NEW c
      PROVE  NUL \notin Second(c)
  <2>1. \/ c \in {"+", "&", "|", "<", ">"} /\ Second(c) = {c, "="}
        \/ Second(c) \in {{"-", "=", ">"}, {"="}, {}}
    BY DEF Second
  <2>2. QED
    BY <1>1, <2>1
<1>3. QED
  BY <1>1, <1>2

LEMMA PunctInside ==
  ASSUME TextOK, NEW i \in 1 .. Len(text)
  PROVE  PunctEnd(i) \in i .. End
<1>1. End \in Nat /\ i + 1 \in 1 .. End
  <2>1. End \in Nat /\ End = Len(text) + 1
    BY EndFacts
  <2>2. QED
    BY <2>1
<1>2. At(i + 1) # NUL => i + 2 <= End
  <2> SUFFICES ASSUME At(i + 1) # NUL PROVE i + 2 <= End
    OBVIOUS
  <2>1. i + 1 + 1 <= End
    BY <1>1, CharInside
  <2>2. QED
    BY <1>1, <2>1
<1>3. At(i + 1) # NUL /\ At(i + 2) # NUL => i + 3 <= End
  <2> SUFFICES ASSUME At(i + 1) # NUL, At(i + 2) # NUL PROVE i + 3 <= End
    OBVIOUS
  <2>1. i + 2 \in Nat
    BY <1>1
  <2>2. i + 2 + 1 <= End
    BY <2>1, CharInside
  <2>3. QED
    BY <1>1, <2>2
<1> DEFINE p == At(i) = "."
           q == At(i) \in {"<", ">"} /\ At(i + 1) = At(i) /\ At(i + 2) = "="
           a == At(i + 1) = "." /\ At(i + 2) = "."
           b == At(i + 1) \in Second(At(i))
<1>4. PunctEnd(i) = CASE p -> (IF a THEN i + 3 ELSE i + 1)
                      [] q -> i + 3
                      [] OTHER -> (IF b THEN i + 2 ELSE i + 1)
  BY Zenon DEF PunctEnd
<1>5. a \/ q => At(i + 1) # NUL /\ At(i + 2) # NUL
  BY NotNul, NotSecond, Zenon
<1>6. b => At(i + 1) # NUL
  BY NotSecond, Zenon
<1> HIDE DEF p, q, a, b
<1>7. \/ a /\ PunctEnd(i) = i + 3
      \/ q /\ PunctEnd(i) = i + 3
      \/ b /\ PunctEnd(i) = i + 2
      \/ PunctEnd(i) = i + 1
  BY <1>4
<1>8. QED
  BY <1>1, <1>2, <1>3, <1>5, <1>6, <1>7

LEMMA PunctPlaced ==
  ASSUME TextOK, NEW s, Placed(s), ~at_end(s)
  PROVE  ReadPlaced(scan_punct(s))
<1> DEFINE l == AdvTo(s, PunctEnd(s.cur))
<1>1. s.cur \in 1 .. Len(text)
  BY EndFacts DEF Placed, at_end
<1>2. Placed(l)
  BY <1>1, PunctInside, AdvToPlaced
<1>3. scan_punct(s) = Read(l, mktok(l, "PUNCT", s))
  BY Zenon DEF scan_punct
<1> HIDE DEF l
<1>4. TokenPlaced(mktok(l, "PUNCT", s))
  BY <1>2, KindsIn, TokenFacts
<1>5. QED
  BY <1>2, <1>3, <1>4, ReadGives

-----------------------------------------------------------------------------
(* The next token *)

LEMMA ScanPlaced ==
  ASSUME TextOK, NEW l0, Placed(l0)
  PROVE  ReadPlaced(scan_token(l0))
<1> DEFINE s == skip_ws(l0)
           c == peekc(s)
           x1 == scan_str(s, s.cur + 1)
           x2 == scan_chr(s, s.cur + 1)
           x3 == scan_word(s)
           x4 == scan_num(s)
           x5 == scan_str(s, s.cur)
           x6 == scan_chr(s, s.cur)
           x7 == scan_punct(s)
           x8 == errtok(AdvTo(s, s.cur + 1), s)
           p1 == c = "L" /\ peekc2(s) = Quote
           p2 == c = "L" /\ peekc2(s) = "'"
           p3 == c \in Letter /\ ~(c = "L" /\ peekc2(s) \in {Quote, "'"})
           p4 == c \in Digit \/ (c = "." /\ peekc2(s) \in Digit)
           p5 == c = Quote
           p6 == c = "'"
           p7 == c \in PunctStart /\ ~(c = "." /\ peekc2(s) \in Digit)
<1>1. scan_token(l0) =
        IF at_end(s) THEN Read(s, mktok(s, "EOF", s))
        ELSE CASE p1 -> x1 [] p2 -> x2 [] p3 -> x3 [] p4 -> x4 [] p5 -> x5 [] p6 -> x6
               [] p7 -> x7 [] OTHER -> x8
  BY Zenon DEF scan_token
<1>2. Placed(s) /\ s.cur \in 1 .. End /\ End \in Nat /\ End = Len(text) + 1
  BY SkipPlaced, EndFacts DEF Placed
<1> HIDE DEF s
<1>3. ReadPlaced(Read(s, mktok(s, "EOF", s)))
  BY <1>2, KindsIn, TokenFacts, ReadGives
<1>4. ReadPlaced(x3) /\ ReadPlaced(x4)
  BY <1>2, WordPlaced, NumberPlaced
<1>5. p1 => ReadPlaced(x1)
  <2> SUFFICES ASSUME p1 PROVE ReadPlaced(x1)
    OBVIOUS
  <2>1. At(s.cur) # NUL /\ At(s.cur + 1) # NUL
    BY NotNul, Zenon DEF peekc, peekc2
  <2> HIDE DEF p1
  <2>2. s.cur + 1 <= End
    BY <1>2, <2>1, CharInside
  <2>3. s.cur + 1 \in s.cur .. End
    BY <1>2, <2>2
  <2>4. QED
    BY <1>2, <2>1, <2>3, StringPlaced
<1>6. p2 => ReadPlaced(x2)
  <2> SUFFICES ASSUME p2 PROVE ReadPlaced(x2)
    OBVIOUS
  <2>1. At(s.cur) # NUL /\ At(s.cur + 1) # NUL
    BY NotNul, Zenon DEF peekc, peekc2
  <2> HIDE DEF p2
  <2>2. s.cur + 1 <= End
    BY <1>2, <2>1, CharInside
  <2>3. s.cur + 1 \in s.cur .. End
    BY <1>2, <2>2
  <2>4. QED
    BY <1>2, <2>1, <2>3, CharPlaced
<1>7. (p5 => ReadPlaced(x5)) /\ (p6 => ReadPlaced(x6))
  <2>1. p5 \/ p6 => At(s.cur) # NUL
    BY NotNul, Zenon DEF peekc
  <2>2. s.cur \in s.cur .. End
    BY <1>2
  <2> HIDE DEF p5, p6
  <2>3. p5 => ReadPlaced(x5)
    BY <1>2, <2>1, <2>2, StringPlaced
  <2>4. p6 => ReadPlaced(x6)
    BY <1>2, <2>1, <2>2, CharPlaced
  <2>5. QED
    BY <2>3, <2>4
<1>8. ~at_end(s) => ReadPlaced(x8)
  <2> SUFFICES ASSUME ~at_end(s) PROVE ReadPlaced(x8)
    OBVIOUS
  <2>1. s.cur + 1 \in s.cur .. End
    BY <1>2 DEF at_end
  <2>2. Placed(AdvTo(s, s.cur + 1))
    BY <1>2, <2>1, AdvToPlaced
  <2>3. QED
    BY <1>2, <2>2, ErrorToken
<1>9. ~at_end(s) => ReadPlaced(x7)
  BY <1>2, PunctPlaced
<1> HIDE DEF x1, x2, x3, x4, x5, x6, x7, x8, p1, p2, p3, p4, p5, p6, p7
<1>10. QED
  BY <1>1, <1>3, <1>4, <1>5, <1>6, <1>7, <1>8, <1>9

-----------------------------------------------------------------------------
(* Every diagnostic and every token knows its place *)

\* What the lexer has handed out, and what it keeps for the next call.
PlacesInv ==
  /\ TextOK
  /\ Placed(lex)
  /\ has_peek \in BOOLEAN /\ peeked \in TokenType
  /\ has_peek => TokenPlaced(peeked)
  /\ taken \in Seq(TokenType)
  /\ \A i \in DOMAIN taken : TokenPlaced(taken[i])

LEMMA PlacesInvLocated == PlacesInv => Located /\ lex.cur \in 1 .. Len(text) + 1
<1> SUFFICES ASSUME PlacesInv PROVE Located /\ lex.cur \in 1 .. Len(text) + 1
  OBVIOUS
<1>1. lex.errors \in Seq(Places) /\ lex.warnings \in Seq(WarnPlaces) /\ lex.cur \in 1 .. End
  BY DEF PlacesInv, Placed
<1>2. ASSUME NEW i \in DOMAIN lex.errors
      PROVE  /\ lex.errors[i].line = LineOf(lex.errors[i].at)
             /\ lex.errors[i].col = ColumnOf(lex.errors[i].at)
  <2>1. lex.errors[i] \in Places
    BY <1>1
  <2>2. PICK k \in 1 .. End : lex.errors[i] = PlaceOf(k)
    BY <2>1 DEF Places
  <2>3. PlaceOf(k).at = k /\ PlaceOf(k).line = LineOf(k) /\ PlaceOf(k).col = ColumnOf(k)
    BY DEF PlaceOf
  <2>4. QED
    BY <2>2, <2>3, Zenon
<1>3. \A i \in DOMAIN taken :
        taken[i].line = LineOf(taken[i].from) /\ taken[i].col = ColumnOf(taken[i].from)
  BY DEF PlacesInv, TokenPlaced
<1>4. ASSUME NEW i \in DOMAIN lex.warnings
      PROVE  LET w == lex.warnings[i]
             IN  BehindUnknownEscape(w.at) /\ w.line = LineOf(w.at) /\ w.col = ColumnOf(w.at)
  <2>1. lex.warnings[i] \in WarnPlaces
    BY <1>1
  <2>2. PICK k \in Warnable(1) : lex.warnings[i] = PlaceOf(k)
    BY <2>1 DEF WarnPlaces
  <2>3. PlaceOf(k).at = k /\ PlaceOf(k).line = LineOf(k) /\ PlaceOf(k).col = ColumnOf(k)
    BY DEF PlaceOf
  <2>4. BehindUnknownEscape(k)
    BY DEF Warnable
  <2>5. QED
    BY <2>2, <2>3, <2>4, Zenon
<1>5. QED
  BY <1>1, <1>2, <1>3, <1>4 DEF Located, End

LEMMA StartPlaced == TextOK => Placed(lexer_init)
<1> SUFFICES ASSUME TextOK PROVE Placed(lexer_init)
  OBVIOUS
<1> DEFINE before == {k \in 1 .. 1 - 1 : text[k] = Newline}
<1>1. before = {}
  OBVIOUS
<1>2. LineOf(1) = 1
  <2>1. LineOf(1) = 1 + Cardinality(before)
    BY DEF LineOf
  <2> HIDE DEF before
  <2>2. Cardinality(before) = 0
    BY <1>1, FS_EmptySet, Zenon
  <2>3. QED
    BY <2>1, <2>2
<1>3. ColumnOf(1) = 1
  <2>1. ColumnOf(1) = 1 - Max({0} \union before)
    BY DEF ColumnOf
  <2> HIDE DEF before
  <2>2. {0} \union before = {0}
    BY <1>1
  <2>3. Max({0}) \in {0}
    <3>1. {0} \in SUBSET (0 .. 0) /\ {0} # {} /\ 0 \in Nat
      OBVIOUS
    <3>2. QED
      BY <3>1, MaxFacts
  <2>4. QED
    BY <2>1, <2>2, <2>3
<1>4. << >> \in Seq(Places) /\ << >> \in Seq(WarnPlaces)
  OBVIOUS
<1>5. 1 \in 1 .. End
  BY EndFacts
<1>6. QED
  BY <1>2, <1>3, <1>4, <1>5 DEF Placed, lexer_init

LEMMA NoTokenTyped == NoToken \in TokenType
<1>1. << >> \in Seq(Nat) /\ << >> \in Seq(0 .. 255) /\ Len(<< >>) = 0
  BY EmptySeq
<1>2. {} \in SUBSET {"U", "L", "LL"} /\ 0 \in Nat
  OBVIOUS
<1>3. NoToken \in TokenRecord
  BY <1>1, <1>2 DEF NoToken, TokenRecord
<1>4. NoToken.kind # "STR_LIT"
  BY DEF NoToken
<1>5. QED
  BY <1>3, <1>4 DEF TokenType

LEMMA PlacesInit == Init => PlacesInv
<1> SUFFICES ASSUME Init PROVE PlacesInv
  OBVIOUS
<1>1. TextOK
  <2>1. text \in Seq(Character)
    BY DriverAssumption DEF Init
  <2>2. QED
    BY <2>1 DEF TextOK
<1>2. lex = lexer_init /\ has_peek = FALSE /\ peeked = NoToken /\ taken = << >>
  BY DEF Init
<1>3. Placed(lex)
  BY <1>1, <1>2, StartPlaced
<1>4. taken \in Seq(TokenType) /\ DOMAIN taken = {}
  BY <1>2, EmptySeq
<1>5. QED
  BY <1>1, <1>2, <1>3, <1>4, NoTokenTyped DEF PlacesInv

\* The definitions of places are about the text, which stays.
LEMMA SameText ==
  ASSUME text' = text
  PROVE  /\ TextOK' <=> TextOK
         /\ \A t : TokenPlaced(t)' <=> TokenPlaced(t)
         /\ Placed(lex)' <=> Placed(lex')
         /\ TokenPlaced(peeked)' <=> TokenPlaced(peeked')
BY DEF TextOK, TokenPlaced, Placed, Places, PlaceOf, WarnPlaces, Warnable, BehindUnknownEscape,
       After, At, LineOf, ColumnOf, End

LEMMA AnswerPlaced ==
  ASSUME PlacesInv
  PROVE  ReadPlaced(Answer)
<1>1. CASE has_peek
  <2>1. Placed(lex) /\ TokenPlaced(peeked)
    BY <1>1 DEF PlacesInv
  <2>2. Answer = Read(lex, peeked)
    BY <1>1 DEF Answer
  <2>3. QED
    BY <2>1, <2>2, ReadGives
<1>2. CASE ~has_peek
  <2>1. Answer = scan_token(lex)
    BY <1>2 DEF Answer
  <2>2. QED
    BY <2>1, ScanPlaced DEF PlacesInv
<1>3. QED
  BY <1>1, <1>2

LEMMA PlacesStep ==
  ASSUME PlacesInv, [Next]_vars
  PROVE  PlacesInv'
<1>1. text' = text
  BY DEF Next, ReadFails, ReadFile, DumpToken, Peek, Advance, ParseError, DumpAst, DumpIrParsed,
         CompileParsed, SemaAndIrgen, PrintIr, Codegen, CannotOpen, Return, lexer_next,
         lexer_peek, lexVars, vars
<1>2. Placed(Answer.l) /\ TokenPlaced(Answer.tok)
  BY AnswerPlaced DEF ReadPlaced
<1>3. CASE /\ lex' = Answer.l /\ has_peek' = FALSE /\ peeked' = peeked
              /\ taken' = Append(taken, Answer.tok)
  <2> DEFINE t == Answer.tok
  <2>1. taken \in Seq(TokenType) /\ peeked \in TokenType
    BY DEF PlacesInv
  <2>2. taken' \in Seq(TokenType) /\ peeked' \in TokenType
    <3>1. t \in TokenType
      BY <1>2 DEF TokenPlaced
    <3> HIDE DEF t
    <3>2. Append(taken, t) \in Seq(TokenType)
      BY <2>1, <3>1
    <3>3. QED
      BY <1>3, <2>1, <3>2 DEF t
  <2>3. \A i \in DOMAIN taken' : TokenPlaced(taken'[i])
    <3> HIDE DEF t
    <3>1. \A i \in DOMAIN Append(taken, t) : Append(taken, t)[i] = t \/ (i \in DOMAIN taken /\ Append(taken, t)[i] = taken[i])
      BY <2>1
    <3>2. \A i \in DOMAIN taken : TokenPlaced(taken[i])
      BY DEF PlacesInv
    <3>3. TokenPlaced(t)
      BY <1>2 DEF t
    <3>4. taken' = Append(taken, t)
      BY <1>3 DEF t
    <3>5. QED
      BY <3>1, <3>2, <3>3, <3>4, Zenon
  <2> HIDE DEF t
  <2>4. Placed(lex') /\ has_peek' = FALSE /\ TextOK
    BY <1>2, <1>3 DEF PlacesInv
  <2>5. \A i \in DOMAIN taken' : TokenPlaced(taken[i])'
    BY <1>1, <2>3 DEF TokenPlaced, LineOf, ColumnOf
  <2>6. QED
    BY <1>1, <2>2, <2>4, <2>5, SameText DEF PlacesInv
<1>4. CASE lex' = Answer.l /\ has_peek' = TRUE /\ peeked' = Answer.tok /\ taken' = taken
  <2>1. Placed(lex') /\ TokenPlaced(peeked') /\ TextOK
    BY <1>2, <1>4 DEF PlacesInv
  <2>2. \A i \in DOMAIN taken' : TokenPlaced(taken[i])'
    BY <1>1, <1>4 DEF PlacesInv, TokenPlaced, LineOf, ColumnOf
  <2>3. /\ taken' \in Seq(TokenType) /\ peeked' \in TokenType
        /\ has_peek' \in BOOLEAN
    BY <1>4, <2>1 DEF PlacesInv, TokenPlaced
  <2>4. QED
    BY <1>1, <2>1, <2>2, <2>3, SameText DEF PlacesInv
<1>5. CASE lex' = lex /\ has_peek' = has_peek /\ peeked' = peeked /\ taken' = taken
  BY <1>1, <1>5, SameText DEF PlacesInv, TokenPlaced, LineOf, ColumnOf
<1>6. QED
  BY <1>3, <1>4, <1>5
     DEF Next, ReadFails, ReadFile, DumpToken, Peek, Advance, ParseError, DumpAst, DumpIrParsed,
         CompileParsed, SemaAndIrgen, PrintIr, Codegen, CannotOpen, Return, lexer_next,
         lexer_peek, lexVars, vars

\* DiagnosticsLocated: for every text, every token that left the lexer and every
\* error it reported has the line and the column of the place it is about, every
\* warning of an unknown escape has those of the place directly behind one, and
\* the cursor never leaves the text.
THEOREM DiagnosticsLocated == Spec => [](Located /\ lex.cur \in 1 .. Len(text) + 1)
<1>1. PlacesInv /\ [Next]_vars => PlacesInv'
  BY PlacesStep
<1>2. QED
  BY <1>1, PlacesInit, PlacesInvLocated, PTL DEF Spec

-----------------------------------------------------------------------------
(* The exit status *)

\* What main has to know of the run so far when it decides on the status.
Tells ==
  /\ status = 0 <=> ~failed /\ diag_error_count = 0
  /\ written # "none" /\ job.mode # "tokens" => n_errors = 0 /\ ~failed
  /\ status = 0 => written # "none"

ControlInv ==
  /\ n_errors \in Nat /\ reported \in Nat /\ n_errors <= reported
  /\ phase \in {"start", "lex", "parse", "sema", "output", "return", "exited"}
  /\ phase \notin {"return", "exited"} => ~failed /\ rc = 0
  /\ phase \notin {"lex", "return", "exited"} => written = "none"
  /\ phase = "lex" => job.mode = "tokens"
  /\ phase \in {"sema", "output"} => n_errors = 0
  /\ phase = "return" =>
       /\ rc \in {0, 1} /\ (failed => rc = 1)
       /\ rc = 1 => failed \/ diag_error_count > 0
       /\ written # "none" /\ job.mode # "tokens" => n_errors = 0 /\ ~failed
       /\ ~failed /\ diag_error_count = 0 => written # "none"
  /\ phase = "exited" => Tells

LEMMA ErrorsCounted ==
  ASSUME PlacesInv, ControlInv
  PROVE  /\ Len(lex.errors) \in Nat /\ diag_error_count \in Nat
         /\ diag_error_count >= n_errors
<1>1. lex.errors \in Seq(Places)
  BY DEF PlacesInv, Placed
<1>2. Len(lex.errors) \in Nat
  BY <1>1
<1>3. QED
  BY <1>2 DEF ControlInv, diag_error_count

LEMMA ControlStep ==
  ASSUME PlacesInv, ControlInv, [Next]_vars
  PROVE  ControlInv'
<1>1. diag_error_count \in Nat /\ diag_error_count >= n_errors /\ Len(lex.errors) \in Nat
  BY ErrorsCounted
<1>2. n_errors \in Nat /\ reported \in Nat /\ n_errors <= reported
  BY DEF ControlInv
<1>3. ASSUME ReadFails PROVE ControlInv'
  BY <1>1, <1>3 DEF ReadFails, ControlInv, Tells, diag_error_count, lexVars
<1>4. ASSUME ReadFile PROVE ControlInv'
  BY <1>1, <1>4 DEF ReadFile, ControlInv, Tells, diag_error_count, lexVars, options
<1>5. ASSUME DumpToken PROVE ControlInv'
  <2>1. /\ phase = "lex" /\ written' = "whole" /\ phase' \in {"return", "lex"}
        /\ job' = job /\ n_errors' = n_errors /\ reported' = reported /\ failed' = failed /\ rc' = rc
    BY <1>5 DEF DumpToken, options
  <2>2. QED
    BY <1>1, <2>1 DEF ControlInv, Tells
<1>6. ASSUME Peek \/ Advance PROVE ControlInv'
  <2>1. /\ phase = "parse" /\ phase' = phase /\ written' = written
        /\ job' = job /\ n_errors' = n_errors /\ reported' = reported /\ failed' = failed /\ rc' = rc
    BY <1>6 DEF Peek, Advance, options
  <2>2. QED
    BY <1>1, <2>1 DEF ControlInv
<1>7. ASSUME ParseError PROVE ControlInv'
  BY <1>1, <1>7 DEF ParseError, ControlInv, Tells, lexVars, options
<1>8. ASSUME DumpAst PROVE ControlInv'
  BY <1>1, <1>8 DEF DumpAst, ParseEnds, ControlInv, Tells, diag_error_count, lexVars, options
<1>9. ASSUME DumpIrParsed PROVE ControlInv'
  BY <1>1, <1>9 DEF DumpIrParsed, ParseEnds, GivesUp, ControlInv, Tells, diag_error_count, lexVars, options
<1>10. ASSUME CompileParsed PROVE ControlInv'
  BY <1>1, <1>10 DEF CompileParsed, ParseEnds, GivesUp, ControlInv, Tells, diag_error_count, lexVars, options
<1>11. ASSUME SemaAndIrgen PROVE ControlInv'
  <2>1. PICK e \in 0 .. MaxErrors : reported' = reported + e
    BY <1>11 DEF SemaAndIrgen
  <2>2. reported' \in Nat /\ reported' >= reported
    BY <1>2, <2>1, DriverAssumption
  <2>3. /\ phase = "sema" /\ phase' = "output" /\ written' = written
        /\ job' = job /\ n_errors' = n_errors /\ failed' = failed /\ rc' = rc
    BY <1>11 DEF SemaAndIrgen, options
  <2>4. QED
    BY <1>2, <2>2, <2>3 DEF ControlInv
<1>12. ASSUME PrintIr \/ Codegen \/ CannotOpen PROVE ControlInv'
  BY <1>1, <1>12
     DEF PrintIr, Codegen, CannotOpen, Write, ControlInv, Tells, diag_error_count, lexVars, options
<1>13. ASSUME Return PROVE ControlInv'
  BY <1>1, <1>13 DEF Return, ExitStatus, ControlInv, Tells, diag_error_count, lexVars
<1>14. CASE UNCHANGED vars
  BY <1>14 DEF vars, ControlInv, Tells, diag_error_count, lexVars
<1>15. QED
  BY <1>3, <1>4, <1>5, <1>6, <1>7, <1>8, <1>9, <1>10, <1>11, <1>12, <1>13, <1>14 DEF Next

\* StatusTells: for every text, mode and output, whatever the parser and the
\* analysis report and wherever the driver stops, the exit status is 0 exactly
\* if nothing was reported, and then something was written; and nothing but a
\* list of tokens is written of a text the parser could not read.
THEOREM StatusTells == Spec => []ExitTells
<1>1. Init => ControlInv
  BY DEF Init, ControlInv
<1>2. PlacesInv /\ ControlInv /\ [Next]_vars => PlacesInv' /\ ControlInv'
  BY PlacesStep, ControlStep
<1>3. ControlInv => ExitTells
  BY DEF ControlInv, ExitTells, Tells
<1>4. QED
  BY <1>1, <1>2, <1>3, PlacesInit, PTL DEF Spec

-----------------------------------------------------------------------------
(* The types *)

LEMMA PlacesTyped ==
  ASSUME TextOK
  PROVE  Places \subseteq Shown /\ WarnPlaces \subseteq Shown
<1>1. ASSUME NEW i \in 1 .. End
      PROVE  PlaceOf(i) \in Shown
  <2>1. i \in Nat /\ LineOf(i) \in Nat /\ ColumnOf(i) \in Int
    BY EndFacts, PlaceNumbers
  <2>2. QED
    BY <2>1 DEF PlaceOf, Shown
<1>2. QED
  BY <1>1 DEF Places, WarnPlaces, Warnable

\* A lexer that knows where it is is in a state of its type.
LEMMA PlacedTyped ==
  ASSUME TextOK, NEW l, Placed(l)
  PROVE  l \in LexState
<1>1. /\ l = [cur |-> l.cur, line |-> LineOf(l.cur), col |-> ColumnOf(l.cur),
             errors |-> l.errors, warnings |-> l.warnings]
      /\ l.cur \in 1 .. End
      /\ l.errors \in Seq(Places) /\ l.warnings \in Seq(WarnPlaces)
  BY DEF Placed
<1>2. l.cur \in Nat \ {0} /\ LineOf(l.cur) \in Nat /\ ColumnOf(l.cur) \in Int
  BY <1>1, EndFacts, PlaceNumbers
<1>3. l.errors \in Seq(Shown) /\ l.warnings \in Seq(Shown)
  BY <1>1, PlacesTyped, SeqMonotonic, Zenon
<1>4. QED
  BY <1>1, <1>2, <1>3 DEF LexState

LEMMA LexerTyped ==
  ASSUME PlacesInv
  PROVE  /\ lex \in LexState /\ lex.cur <= Len(text) + 1
         /\ has_peek \in BOOLEAN /\ peeked \in TokenType /\ taken \in Seq(TokenType)
<1>1. TextOK /\ Placed(lex) /\ lex.cur \in 1 .. End /\ Len(text) \in Nat
  BY DEF PlacesInv, Placed, TextOK
<1>2. lex \in LexState
  BY <1>1, PlacedTyped
<1>3. lex.cur <= Len(text) + 1
  BY <1>1, EndFacts
<1>4. QED
  BY <1>2, <1>3 DEF PlacesInv

\* The rest of TypeOK, and why reported has its bound: up to the analysis, which
\* runs once, the parser's errors are all that was reported.
DriverTypes ==
  /\ job \in [mode : Modes, output : Outputs]
  /\ phase \in {"start", "lex", "parse", "sema", "output", "return", "exited"}
  /\ n_errors \in 0 .. MaxErrors /\ reported \in 0 .. 2 * MaxErrors
  /\ phase \in {"start", "parse", "sema"} => reported = n_errors
  /\ failed \in BOOLEAN /\ written \in {"none", "whole", "partial"}
  /\ rc \in {0, 1} /\ status \in {-1, 0, 1}

LEMMA DriverTypesInit == Init => DriverTypes
<1> SUFFICES ASSUME Init PROVE DriverTypes
  OBVIOUS
<1>1. PICK i \in Inputs : job = [mode |-> i.mode, output |-> i.output]
  BY DEF Init
<1>2. i \in [text : Seq(Character), mode : Modes, output : Outputs]
  BY DriverAssumption
<1>3. job \in [mode : Modes, output : Outputs]
  BY <1>1, <1>2
<1>4. /\ phase = "start" /\ n_errors = 0 /\ reported = 0
      /\ failed = FALSE /\ written = "none" /\ rc = 0 /\ status = -1
  BY DEF Init
<1>5. 0 \in 0 .. MaxErrors /\ 0 \in 0 .. 2 * MaxErrors
  <2>1. MaxErrors \in Nat
    BY DriverAssumption, Zenon
  <2>2. QED
    BY <2>1
<1>6. QED
  BY <1>3, <1>4, <1>5 DEF DriverTypes

LEMMA DriverTypesStep ==
  ASSUME DriverTypes, [Next]_vars
  PROVE  DriverTypes'
<1>1. MaxErrors \in Nat
  BY DriverAssumption
<1>2. ASSUME ReadFails PROVE DriverTypes'
  BY <1>1, <1>2 DEF ReadFails, DriverTypes
<1>3. ASSUME ReadFile PROVE DriverTypes'
  BY <1>1, <1>3 DEF ReadFile, options, DriverTypes
<1>4. ASSUME DumpToken PROVE DriverTypes'
  <2>1. /\ phase' \in {"return", "lex"} /\ written' = "whole"
        /\ UNCHANGED <<job, status, n_errors, reported, failed, rc>>
    BY <1>4 DEF DumpToken, options
  <2>2. QED
    BY <1>1, <2>1 DEF DriverTypes
<1>5. ASSUME Peek \/ Advance PROVE DriverTypes'
  <2>1. UNCHANGED <<job, status, phase, n_errors, reported, failed, written, rc>>
    BY <1>5 DEF Peek, Advance, options
  <2>2. QED
    BY <2>1 DEF DriverTypes
<1>6. ASSUME ParseError PROVE DriverTypes'
  BY <1>1, <1>6 DEF ParseError, options, DriverTypes
<1>7. ASSUME DumpAst PROVE DriverTypes'
  BY <1>1, <1>7 DEF DumpAst, ParseEnds, options, DriverTypes
<1>8. ASSUME DumpIrParsed PROVE DriverTypes'
  BY <1>1, <1>8 DEF DumpIrParsed, ParseEnds, options, DriverTypes
<1>9. ASSUME CompileParsed PROVE DriverTypes'
  BY <1>1, <1>9 DEF CompileParsed, ParseEnds, options, DriverTypes
<1>10. ASSUME SemaAndIrgen PROVE DriverTypes'
  <2>1. PICK e \in 0 .. MaxErrors : reported' = reported + e
    BY <1>10 DEF SemaAndIrgen
  <2>2. reported' \in 0 .. 2 * MaxErrors
    BY <1>1, <1>10, <2>1 DEF SemaAndIrgen, DriverTypes
  <2>3. QED
    BY <1>10, <2>2 DEF SemaAndIrgen, options, DriverTypes
<1>11. ASSUME PrintIr PROVE DriverTypes'
  BY <1>1, <1>11 DEF PrintIr, Write, options, DriverTypes
<1>12. ASSUME Codegen PROVE DriverTypes'
  BY <1>1, <1>12 DEF Codegen, Write, options, DriverTypes
<1>13. ASSUME CannotOpen PROVE DriverTypes'
  BY <1>1, <1>13 DEF CannotOpen, options, DriverTypes
<1>14. ASSUME Return PROVE DriverTypes'
  BY <1>1, <1>14 DEF Return, ExitStatus, DriverTypes
<1>15. CASE UNCHANGED vars
  BY <1>15 DEF vars, DriverTypes
<1>16. QED
  BY <1>2, <1>3, <1>4, <1>5, <1>6, <1>7, <1>8, <1>9, <1>10, <1>11, <1>12, <1>13, <1>14, <1>15
     DEF Next

\* DriverTyped: for every text and every buffer the state is well typed: in
\* particular the cursor stays in the text, no string is longer than the buffer
\* it is read into and each of its elements is a byte.
THEOREM DriverTyped == Spec => []TypeOK
<1>1. PlacesInv /\ DriverTypes => TypeOK
  BY LexerTyped DEF DriverTypes, TypeOK
<1>2. PlacesInv /\ DriverTypes /\ [Next]_vars => PlacesInv' /\ DriverTypes'
  BY PlacesStep, DriverTypesStep
<1>3. QED
  BY <1>1, <1>2, PlacesInit, DriverTypesInit, PTL DEF Spec
=============================================================================
