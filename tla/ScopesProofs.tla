----------------------------- MODULE ScopesProofs -----------------------------
(***************************************************************************)
(* For every program, however deep and however many names it declares: the  *)
(* IR generator, the analysis and the parser resolve a name to what C means *)
(* by it.  What is inductive is that they would still do so if any number   *)
(* of the innermost scopes were closed: closing one then shows nothing new, *)
(* and opening or declaring changes only what is seen from inside.          *)
(***************************************************************************)
EXTENDS Scopes, FiniteSetTheorems, SequenceTheorems, TLAPS

-----------------------------------------------------------------------------
(* Tables and chains *)

Tables(S) == UNION {[D -> S] : D \in SUBSET Names}

\* A function from some of the names is a scope's table.
LEMMA NewTable ==
  ASSUME NEW S, NEW D \in SUBSET Names, NEW t \in [D -> S]
  PROVE  t \in Tables(S)
<1>1. [D -> S] \in {[E -> S] : E \in SUBSET Names}
  OBVIOUS
<1>2. QED BY <1>1 DEF Tables

\* A table maps names, and defining another one in it (With) leaves a table.
LEMMA TableFacts ==
  ASSUME NEW S, NEW t \in Tables(S)
  PROVE  /\ DOMAIN t \subseteq Names
         /\ \A x \in DOMAIN t : t[x] \in S
         /\ \A x \in Names, v \in S : With(t, x, v) \in Tables(S)
<1>1. PICK D \in SUBSET Names : t \in [D -> S]
  BY DEF Tables
<1>2. ASSUME NEW x \in Names, NEW v \in S
      PROVE  With(t, x, v) \in Tables(S)
  <2>1. With(t, x, v) \in [D \union {x} -> S]
    BY <1>1 DEF With
  <2>2. D \union {x} \in SUBSET Names
    OBVIOUS
  <2>3. QED BY <2>1, <2>2, NewTable
<1>3. QED BY <1>1, <1>2

\* A scope that is pushed starts with a table.
LEMMA EmptyTable ==
  ASSUME NEW S
  PROVE  Empty \in Tables(S) /\ DOMAIN Empty = {}
<1>1. Empty \in [{} -> S]
  BY DEF Empty
<1>2. QED BY <1>1, NewTable DEF Empty

\* What Lookup finds in the outermost k scopes of a chain.
Seen(chain, k, x, absent) == Lookup(SubSeq(chain, 1, k), x, absent)

\* Every set of numbers has a smallest one.
LEMMA SmallestNumber ==
  ASSUME NEW T \in SUBSET Nat, T # {}
  PROVE  \E d \in T : \A y \in T : d <= y
<1> DEFINE R == OpToRel(<, Nat)
<1>1. IsWellFoundedOn(R, Nat)
  BY NatLessThanWellFounded
<1>2. \A a, b \in Nat : a < b => <<a, b>> \in R
  BY DEF OpToRel
<1> HIDE DEF R
<1>3. PICK d \in T : \A y \in T : ~ (<<y, d>> \in R)
  BY <1>1, WFMin, Zenon
<1>4. ASSUME NEW y \in T
      PROVE  d <= y
  <2>1. d \in Nat /\ y \in Nat
    OBVIOUS
  <2>2. ~ (y < d)
    BY <2>1, <1>2, <1>3, Zenon
  <2>3. QED BY <2>1, <2>2
<1>5. QED BY <1>4

\* Of a non-empty set of positions one is the last.
LEMMA LastPosition ==
  ASSUME NEW n \in Nat, NEW H \in SUBSET (1 .. n), H # {}
  PROVE  \E m \in H : \A j \in H : j <= m
<1> DEFINE T == {n - h : h \in H}
<1>1. \A h \in H : h \in Nat /\ h <= n /\ n - h \in Nat
  OBVIOUS
<1>2. T \in SUBSET Nat /\ T # {}
  BY <1>1
<1>3. PICK d \in T : \A y \in T : d <= y
  <2> HIDE DEF T
  <2>1. QED BY <1>2, SmallestNumber
<1>4. PICK m \in H : d = n - m
  OBVIOUS
<1>5. ASSUME NEW j \in H
      PROVE  j <= m
  <2>1. n - j \in T
    OBVIOUS
  <2>2. d <= n - j
    BY <2>1, <1>3
  <2>3. QED BY <2>2, <1>1, <1>4
<1>6. QED BY <1>5

\* Lookup goes outwards: the innermost scope that has the name decides.
LEMMA SeenFacts ==
  ASSUME NEW S, NEW chain \in Seq(S), NEW k \in 0 .. Len(chain), NEW x, NEW absent
  PROVE  /\ (\A j \in 1 .. k : x \notin DOMAIN chain[j]) => Seen(chain, k, x, absent) = absent
         /\ \A m \in 1 .. k :
              x \in DOMAIN chain[m] /\ (\A j \in m + 1 .. k : x \notin DOMAIN chain[j])
                => Seen(chain, k, x, absent) = chain[m][x]
         /\ \/ \A j \in 1 .. k : x \notin DOMAIN chain[j]
            \/ \E m \in 1 .. k : /\ x \in DOMAIN chain[m]
                                 /\ \A j \in m + 1 .. k : x \notin DOMAIN chain[j]
<1> DEFINE part == SubSeq(chain, 1, k)
           holders == {i \in 1 .. Len(part) : x \in DOMAIN part[i]}
           last == CHOOSE i \in holders : \A j \in holders : j <= i
<1>1. Len(part) = k /\ \A j \in 1 .. k : part[j] = chain[j]
  BY SubSeqProperties
<1>2. Seen(chain, k, x, absent) = IF holders = {} THEN absent ELSE part[last][x]
  BY DEF Seen, Lookup
<1> HIDE DEF part
<1>3. holders = {i \in 1 .. k : x \in DOMAIN chain[i]}
  BY <1>1
<1>4. holders # {} => last \in holders /\ \A j \in holders : j <= last
  <2>1. holders \in SUBSET (1 .. k)
    BY <1>3
  <2>2. holders # {} => \E i \in holders : \A j \in holders : j <= i
    <3> HIDE DEF holders
    <3>1. k \in Nat
      OBVIOUS
    <3>2. QED BY <2>1, <3>1, LastPosition
  <2>3. QED BY <2>2
<1> HIDE DEF last
<1>5. ASSUME NEW m \in 1 .. k, x \in DOMAIN chain[m],
             \A j \in m + 1 .. k : x \notin DOMAIN chain[j]
      PROVE  Seen(chain, k, x, absent) = chain[m][x]
  <2>1. m \in holders /\ \A j \in holders : j <= m
    BY <1>3, <1>5
  <2>2. last = m
    BY <2>1, <1>3, <1>4
  <2>3. QED BY <2>1, <2>2, <1>1, <1>2
<1>6. holders # {} => /\ last \in 1 .. k /\ x \in DOMAIN chain[last]
                      /\ \A j \in last + 1 .. k : x \notin DOMAIN chain[j]
  BY <1>3, <1>4
<1>7. QED BY <1>2, <1>3, <1>5, <1>6

\* One scope further in.
LEMMA SeenStep ==
  ASSUME NEW S, NEW chain \in Seq(S), NEW k \in 1 .. Len(chain), NEW x, NEW absent
  PROVE  Seen(chain, k, x, absent) =
           IF x \in DOMAIN chain[k] THEN chain[k][x] ELSE Seen(chain, k - 1, x, absent)
<1>1. CASE x \in DOMAIN chain[k]
  <2>1. \A j \in k + 1 .. k : x \notin DOMAIN chain[j]
    OBVIOUS
  <2>2. QED BY <1>1, <2>1, SeenFacts
<1>2. CASE x \notin DOMAIN chain[k] /\ \A j \in 1 .. k - 1 : x \notin DOMAIN chain[j]
  <2>1. \A j \in 1 .. k : x \notin DOMAIN chain[j]
    BY <1>2
  <2>2. k - 1 \in 0 .. Len(chain)
    OBVIOUS
  <2>3. QED BY <1>2, <2>1, <2>2, SeenFacts
<1>3. ASSUME x \notin DOMAIN chain[k], NEW m \in 1 .. k - 1, x \in DOMAIN chain[m],
             \A j \in m + 1 .. k - 1 : x \notin DOMAIN chain[j]
      PROVE  Seen(chain, k, x, absent) = Seen(chain, k - 1, x, absent)
  <2>1. \A j \in m + 1 .. k : x \notin DOMAIN chain[j]
    BY <1>3
  <2>2. k - 1 \in 0 .. Len(chain) /\ m \in 1 .. k
    OBVIOUS
  <2>3. Seen(chain, k, x, absent) = chain[m][x]
    BY <1>3, <2>1, <2>2, SeenFacts
  <2>4. Seen(chain, k - 1, x, absent) = chain[m][x]
    BY <1>3, <2>2, SeenFacts
  <2>5. QED BY <2>3, <2>4
<1>4. k - 1 \in 0 .. Len(chain)
  OBVIOUS
<1>5. QED BY <1>1, <1>2, <1>3, <1>4, SeenFacts

\* Only those scopes matter.
LEMMA SeenSame ==
  ASSUME NEW S, NEW T, NEW one \in Seq(S), NEW other \in Seq(T), NEW k \in Nat,
         k <= Len(one), k <= Len(other), \A j \in 1 .. k : one[j] = other[j],
         NEW x, NEW absent
  PROVE  Seen(one, k, x, absent) = Seen(other, k, x, absent)
<1>1. k \in 0 .. Len(one) /\ k \in 0 .. Len(other)
  OBVIOUS
<1>2. CASE \A j \in 1 .. k : x \notin DOMAIN one[j]
  BY <1>1, <1>2, SeenFacts
<1>3. ASSUME NEW m \in 1 .. k, x \in DOMAIN one[m],
             \A j \in m + 1 .. k : x \notin DOMAIN one[j]
      PROVE  Seen(one, k, x, absent) = Seen(other, k, x, absent)
  <2>1. Seen(one, k, x, absent) = one[m][x]
    BY <1>1, <1>3, SeenFacts
  <2>2. x \in DOMAIN other[m] /\ \A j \in m + 1 .. k : x \notin DOMAIN other[j]
    BY <1>3
  <2>3. Seen(other, k, x, absent) = other[m][x]
    BY <1>1, <2>2, SeenFacts
  <2>4. QED BY <2>1, <2>3
<1>4. QED BY <1>1, <1>2, <1>3, SeenFacts

-----------------------------------------------------------------------------
(* What the operations on a chain change of what is seen *)

\* Define changes what is seen of one name, from the innermost scope only
\* (scope_define, sdefine and vscope_define put a symbol into the current scope).
LEMMA DefineSeen ==
  ASSUME NEW S, NEW chain \in Seq(Tables(S)), Len(chain) > 0, NEW x \in Names, NEW v \in S
  PROVE  /\ Define(chain, x, v) \in Seq(Tables(S))
         /\ Len(Define(chain, x, v)) = Len(chain)
         /\ \A j \in 1 .. Len(chain) - 1 : Define(chain, x, v)[j] = chain[j]
         /\ Define(chain, x, v)[Len(chain)] = With(chain[Len(chain)], x, v)
         /\ \A k \in 0 .. Len(chain) : \A y, absent :
              Seen(Define(chain, x, v), k, y, absent) =
                IF k = Len(chain) /\ y = x THEN v ELSE Seen(chain, k, y, absent)
<1> DEFINE n == Len(chain)
           inner == chain[n]
           d == Define(chain, x, v)
<1>1. n \in 1 .. n /\ inner \in Tables(S)
  BY ElementOfSeq
<1>2. With(inner, x, v) \in Tables(S)
  <2> HIDE DEF inner
  <2>1. QED BY <1>1, TableFacts
<1>3. d = [chain EXCEPT ![n] = With(inner, x, v)]
  BY DEF Define
<1>4. /\ d \in Seq(Tables(S)) /\ Len(d) = n
      /\ \A j \in 1 .. n : d[j] = IF j = n THEN With(inner, x, v) ELSE chain[j]
  BY <1>1, <1>2, <1>3, ExceptSeq
<1> HIDE DEF d, inner
<1>5. ASSUME NEW k \in 0 .. n - 1, NEW y, NEW absent
      PROVE  Seen(d, k, y, absent) = Seen(chain, k, y, absent)
  <2>1. k \in Nat /\ k <= Len(d) /\ k <= Len(chain) /\ \A j \in 1 .. k : d[j] = chain[j]
    BY <1>1, <1>4
  <2>2. QED BY <2>1, <1>4, SeenSame
<1>6. ASSUME NEW y, NEW absent
      PROVE  Seen(d, n, y, absent) = IF y = x THEN v ELSE Seen(chain, n, y, absent)
  <2>1. Seen(d, n, y, absent) =
          IF y \in DOMAIN d[n] THEN d[n][y] ELSE Seen(d, n - 1, y, absent)
    BY <1>1, <1>4, SeenStep
  <2>2. Seen(chain, n, y, absent) =
          IF y \in DOMAIN inner THEN inner[y] ELSE Seen(chain, n - 1, y, absent)
    BY <1>1, SeenStep DEF inner
  <2>3. Seen(d, n - 1, y, absent) = Seen(chain, n - 1, y, absent)
    BY <1>1, <1>5
  <2>4. d[n] = With(inner, x, v)
    BY <1>1, <1>4
  <2>5. QED BY <2>1, <2>2, <2>3, <2>4 DEF With
<1>7. QED BY <1>1, <1>4, <1>5, <1>6 DEF d, inner

\* A pushed scope hides what its table has and nothing else.
LEMMA PushSeen ==
  ASSUME NEW S, NEW chain \in Seq(S), NEW t \in S
  PROVE  /\ Append(chain, t) \in Seq(S)
         /\ Len(Append(chain, t)) = Len(chain) + 1
         /\ \A j \in 1 .. Len(chain) : Append(chain, t)[j] = chain[j]
         /\ Append(chain, t)[Len(chain) + 1] = t
         /\ \A k \in 0 .. Len(chain) : \A y, absent :
              Seen(Append(chain, t), k, y, absent) = Seen(chain, k, y, absent)
         /\ \A y, absent :
              Seen(Append(chain, t), Len(chain) + 1, y, absent) =
                IF y \in DOMAIN t THEN t[y] ELSE Seen(chain, Len(chain), y, absent)
<1> DEFINE n == Len(chain)
           d == Append(chain, t)
<1>1. /\ d \in Seq(S) /\ Len(d) = n + 1 /\ n \in Nat
      /\ \A j \in 1 .. n : d[j] = chain[j]
      /\ d[n + 1] = t
  BY AppendProperties
<1> HIDE DEF d
<1>2. ASSUME NEW k \in 0 .. n, NEW y, NEW absent
      PROVE  Seen(d, k, y, absent) = Seen(chain, k, y, absent)
  <2>1. k \in Nat /\ k <= Len(d) /\ k <= Len(chain) /\ \A j \in 1 .. k : d[j] = chain[j]
    BY <1>1
  <2>2. QED BY <2>1, <1>1, SeenSame
<1>3. ASSUME NEW y, NEW absent
      PROVE  Seen(d, n + 1, y, absent) = IF y \in DOMAIN t THEN t[y] ELSE Seen(chain, n, y, absent)
  <2>1. n + 1 \in 1 .. Len(d) /\ (n + 1) - 1 = n
    BY <1>1
  <2>2. Seen(d, n + 1, y, absent) =
          IF y \in DOMAIN d[n + 1] THEN d[n + 1][y] ELSE Seen(d, n, y, absent)
    BY <2>1, <1>1, SeenStep
  <2>3. QED BY <2>2, <1>1, <1>2
<1>4. QED BY <1>1, <1>2, <1>3 DEF d

\* What is seen from the scopes that stay is what was seen from there before.
LEMMA PopSeen ==
  ASSUME NEW S, NEW chain \in Seq(S), NEW n \in 0 .. Len(chain)
  PROVE  /\ Popped(chain, n) \in Seq(S)
         /\ Len(Popped(chain, n)) = Len(chain) - n
         /\ \A j \in 1 .. Len(chain) - n : Popped(chain, n)[j] = chain[j]
         /\ \A k \in 0 .. Len(chain) - n : \A y, absent :
              Seen(Popped(chain, n), k, y, absent) = Seen(chain, k, y, absent)
<1> DEFINE m == Len(chain) - n
           d == Popped(chain, n)
<1>1. m \in Nat /\ m \in Int /\ 1 \in Int /\ \A j \in 1 .. m : chain[j] \in S
  BY ElementOfSeq
<1>2. /\ d \in Seq(S) /\ Len(d) = m
      /\ \A j \in 1 .. m : d[j] = chain[j]
  BY <1>1, SubSeqProperties DEF Popped
<1> HIDE DEF d
<1>3. ASSUME NEW k \in 0 .. m, NEW y, NEW absent
      PROVE  Seen(d, k, y, absent) = Seen(chain, k, y, absent)
  <2>1. k \in Nat /\ k <= Len(d) /\ k <= Len(chain) /\ \A j \in 1 .. k : d[j] = chain[j]
    BY <1>1, <1>2
  <2>2. QED BY <2>1, <1>2, SeenSame
<1>4. QED BY <1>2, <1>3 DEF d

\* A lookup sees the whole chain.
LEMMA LookupSeen ==
  ASSUME NEW S, NEW chain \in Seq(S), NEW x, NEW absent
  PROVE  Lookup(chain, x, absent) = Seen(chain, Len(chain), x, absent)
  BY SubSeqFull DEF Seen

-----------------------------------------------------------------------------
(* The scopes of C *)

Symbols == {"var", "func", "typedef", "enum"}
NameTables == {t \in Tables(Entities) : \A x \in DOMAIN t : t[x].name = x}
CScopes == [kind : {"file", "body", "block", "for"}, fn : Names \union {NoName},
            names : NameTables, unsure : SUBSET Names]

\* The file, then a function's body, then what is nested in it.
Nested(s) ==
  \A i \in 1 .. Len(s) : (s[i].kind = "file" <=> i = 1) /\ (s[i].kind = "body" <=> i = 2)

\* How deep the chains are inside the i-th scope.
LEMMA DepthFacts ==
  ASSUME NEW s \in Seq(CScopes), Nested(s), NEW i \in 1 .. Len(s), NEW forOpens \in BOOLEAN
  PROVE  /\ Depth(s, i, forOpens) \in Nat
         /\ i = 1 => Depth(s, i, forOpens) = 1
         /\ i = 2 => Depth(s, i, forOpens) = 3
         /\ i > 2 => Depth(s, i, forOpens) = Depth(s, i - 1, forOpens)
                       + IF forOpens \/ s[i].kind # "for" THEN 1 ELSE 0
         /\ \A k \in 1 .. i : Depth(s, k, forOpens) <= Depth(s, i, forOpens)
<1> DEFINE Opens(k) == {j \in 1 .. k : forOpens \/ s[j].kind # "for"}
           Bodies(k) == {j \in 1 .. k : s[j].kind = "body"}
<1>1. ASSUME NEW k \in 0 .. Len(s)
      PROVE  /\ IsFiniteSet(Opens(k)) /\ Cardinality(Opens(k)) \in Nat
             /\ Cardinality(Bodies(k)) = IF k >= 2 THEN 1 ELSE 0
  <2>1. IsFiniteSet(1 .. k)
    BY FS_Interval
  <2>2. Opens(k) \subseteq 1 .. k
    OBVIOUS
  <2>3. IsFiniteSet(Opens(k))
    <3> HIDE DEF Opens
    <3>1. QED BY <2>1, <2>2, FS_Subset
  <2>4. Bodies(k) = IF k >= 2 THEN {2} ELSE {}
    BY DEF Nested
  <2>5. Cardinality({}) = 0 /\ Cardinality({2}) = 1
    BY FS_EmptySet, FS_Singleton
  <2>6. QED BY <2>3, <2>4, <2>5, FS_CardinalityType
<1>2. ASSUME NEW k \in 1 .. Len(s)
      PROVE  Cardinality(Opens(k)) = Cardinality(Opens(k - 1))
               + IF forOpens \/ s[k].kind # "for" THEN 1 ELSE 0
  <2>1. CASE forOpens \/ s[k].kind # "for"
    <3>1. Opens(k) = Opens(k - 1) \union {k} /\ k \notin Opens(k - 1)
      BY <2>1
    <3>2. k - 1 \in 0 .. Len(s)
      OBVIOUS
    <3>3. IsFiniteSet(Opens(k - 1))
      BY <3>2, <1>1
    <3> HIDE DEF Opens
    <3>4. QED BY <2>1, <3>1, <3>3, FS_AddElement
  <2>2. CASE ~ (forOpens \/ s[k].kind # "for")
    <3>1. Opens(k) = Opens(k - 1)
      BY <2>2
    <3>2. k - 1 \in 0 .. Len(s)
      OBVIOUS
    <3>3. Cardinality(Opens(k - 1)) \in Nat
      BY <3>2, <1>1
    <3> HIDE DEF Opens
    <3>4. QED BY <2>2, <3>1, <3>3
  <2>3. QED BY <2>1, <2>2
<1>3. Cardinality(Opens(0)) = 0
  <2>1. Opens(0) = {}
    OBVIOUS
  <2>2. QED BY <2>1, FS_EmptySet
<1>4. \A k \in 1 .. Len(s) :
        Depth(s, k, forOpens) = Cardinality(Opens(k)) + Cardinality(Bodies(k))
  BY DEF Depth
<1>5. ASSUME NEW k \in 1 .. i
      PROVE  Cardinality(Opens(k)) <= Cardinality(Opens(i))
  <2>1. Opens(k) \subseteq Opens(i) /\ i \in 0 .. Len(s)
    OBVIOUS
  <2>2. IsFiniteSet(Opens(i))
    BY <2>1, <1>1
  <2> HIDE DEF Opens
  <2>3. QED BY <2>1, <2>2, FS_Subset
<1>6. \A k \in 1 .. i : k \in 0 .. Len(s) /\ k \in 1 .. Len(s)
  OBVIOUS
<1>7. s[1].kind # "for" /\ (i >= 2 => s[2].kind # "for")
  BY DEF Nested
<1> HIDE DEF Opens, Bodies
<1>8. \A k \in 1 .. i : Depth(s, k, forOpens) <= Depth(s, i, forOpens)
  BY <1>1, <1>4, <1>5, <1>6
<1>9. Depth(s, i, forOpens) \in Nat
  BY <1>1, <1>4, <1>6
<1>10. CASE i = 1
  BY <1>10, <1>1, <1>2, <1>3, <1>4, <1>7, <1>8, <1>9
<1>11. CASE i = 2
  <2>1. Cardinality(Opens(1)) = 1 /\ Cardinality(Opens(2)) = 2 /\ Cardinality(Bodies(2)) = 1
    BY <1>11, <1>1, <1>2, <1>3, <1>7
  <2>2. QED BY <2>1, <1>11, <1>4, <1>8, <1>9
<1>12. CASE i > 2
  <2>1. /\ Cardinality(Bodies(i)) = 1 /\ Cardinality(Bodies(i - 1)) = 1
        /\ Cardinality(Opens(i - 1)) \in Nat
    BY <1>12, <1>1
  <2>2. QED BY <2>1, <1>12, <1>2, <1>4, <1>8, <1>9
<1>13. QED BY <1>10, <1>11, <1>12

\* It depends on the kinds of these scopes only.
LEMMA DepthSame ==
  ASSUME NEW s, NEW t, NEW i \in Nat, \A j \in 1 .. i : s[j].kind = t[j].kind,
         NEW forOpens
  PROVE  Depth(s, i, forOpens) = Depth(t, i, forOpens)
<1>1. {j \in 1 .. i : forOpens \/ s[j].kind # "for"} = {j \in 1 .. i : forOpens \/ t[j].kind # "for"}
  OBVIOUS
<1>2. {j \in 1 .. i : s[j].kind = "body"} = {j \in 1 .. i : t[j].kind = "body"}
  OBVIOUS
<1>3. QED BY <1>1, <1>2 DEF Depth

\* A scope that is not a for statement's has tables of its own.
LEMMA OwnTables ==
  ASSUME NEW s \in Seq(CScopes), Nested(s), NEW j \in 1 .. Len(s),
         NEW i \in 1 .. j - 1, NEW forOpens \in BOOLEAN, forOpens \/ s[j].kind # "for"
  PROVE  Depth(s, i, forOpens) < Depth(s, j, forOpens)
<1>1. i \in 1 .. Len(s) /\ j - 1 \in 1 .. Len(s) /\ i \in 1 .. j - 1
  OBVIOUS
<1>2. Depth(s, i, forOpens) \in Nat /\ Depth(s, j - 1, forOpens) \in Nat
  BY <1>1, DepthFacts
<1>3. CASE j = 2
  BY <1>1, <1>3, DepthFacts
<1>4. CASE j > 2
  <2>1. Depth(s, j, forOpens) = Depth(s, j - 1, forOpens) + 1
    BY <1>4, DepthFacts
  <2>2. Depth(s, i, forOpens) <= Depth(s, j - 1, forOpens)
    BY <1>1, DepthFacts
  <2>3. QED BY <2>1, <2>2, <1>2
<1>5. QED BY <1>3, <1>4

\* The innermost scope shares its table with no scope inside another one.
LEMMA OwnNumber ==
  ASSUME NEW s \in Seq(CScopes), Nested(s), Len(s) > 0, s[Len(s)].kind # "for",
         NEW i \in 1 .. Len(s), NEW j \in i + 1 .. Len(s),
         Depth(s, j, FALSE) = Depth(s, i, FALSE)
  PROVE  j # Len(s)
<1> SUFFICES ASSUME j = Len(s) PROVE FALSE
  OBVIOUS
<1>1. j \in 1 .. Len(s) /\ i \in 1 .. j - 1 /\ (FALSE \/ s[j].kind # "for")
      /\ FALSE \in BOOLEAN
  OBVIOUS
<1> DEFINE a == Depth(s, i, FALSE)
           b == Depth(s, j, FALSE)
<1>2. a < b
  BY <1>1, OwnTables
<1>3. a \in Nat /\ b \in Nat
  BY <1>1, DepthFacts
<1>4. a = b
  OBVIOUS
<1> HIDE DEF a, b
<1>5. QED BY <1>2, <1>3, <1>4

CNames(s) == [i \in 1 .. Len(s) |-> s[i].names]

\* What x means inside the i-th scope.
CSeen(s, i, x) == Seen(CNames(s), i, x, Undeclared)

\* In the tables the i-th scope shares with for statements in it, x is theirs.
Overlaid(s, i, x) ==
  \E j \in i + 1 .. Len(s) :
    /\ Depth(s, j, FALSE) = Depth(s, i, FALSE)
    /\ x \in DOMAIN s[j].names \union s[j].unsure

\* Unsure, inside the i-th scope.
UnsureAt(s, i, x) ==
  \E j \in 1 .. i :
    x \in s[j].unsure /\ \A k \in j + 1 .. i : x \notin DOMAIN s[k].names

\* The tables of C's scopes, as a chain.
LEMMA NamesTyped ==
  ASSUME NEW s \in Seq(CScopes)
  PROVE  /\ CNames(s) \in Seq(NameTables) /\ Len(CNames(s)) = Len(s)
         /\ \A i \in 1 .. Len(s) : CNames(s)[i] = s[i].names
<1>1. \A i \in 1 .. Len(s) : s[i] \in CScopes
  BY ElementOfSeq
<1>2. \A i \in 1 .. Len(s) : s[i].names \in NameTables
  BY <1>1 DEF CScopes
<1>3. Len(s) \in Nat
  OBVIOUS
<1> HIDE DEF CScopes, NameTables
<1>4. QED BY <1>2, <1>3 DEF CNames

\* C 6.2.1p4: the name's entity in this scope, or what the scope around it sees.
LEMMA CSeenStep ==
  ASSUME NEW s \in Seq(CScopes), NEW i \in 1 .. Len(s), NEW x
  PROVE  CSeen(s, i, x) = IF x \in DOMAIN s[i].names THEN s[i].names[x] ELSE CSeen(s, i - 1, x)
<1>1. /\ CNames(s) \in Seq(NameTables) /\ Len(CNames(s)) = Len(s)
      /\ CNames(s)[i] = s[i].names
  BY NamesTyped
<1>2. QED BY <1>1, SeenStep DEF CSeen

\* Outside file scope nothing is declared.
LEMMA CSeenOutside ==
  ASSUME NEW s \in Seq(CScopes), NEW x
  PROVE  CSeen(s, 0, x) = Undeclared
<1>1. CNames(s) \in Seq(NameTables)
  BY NamesTyped
<1>2. 0 \in 0 .. Len(CNames(s)) /\ \A j \in 1 .. 0 : x \notin DOMAIN CNames(s)[j]
  BY <1>1
<1>3. QED BY <1>1, <1>2, SeenFacts DEF CSeen

\* What a name means where the text has got to is what the innermost scope sees.
LEMMA CLookupSeen ==
  ASSUME c \in Seq(CScopes), NEW x
  PROVE  CLookup(x) = CSeen(c, Len(c), x)
<1>1. CLookup(x) = Lookup(CNames(c), x, Undeclared)
  BY DEF CLookup, CNames
<1>2. QED BY <1>1, NamesTyped, LookupSeen DEF CSeen

\* A name is unsure where its innermost declaration, if any, has not put it right.
LEMMA UnsureStep ==
  ASSUME NEW s, NEW i \in Nat \ {0}, NEW x
  PROVE  UnsureAt(s, i, x) <=>
           x \in s[i].unsure \/ (x \notin DOMAIN s[i].names /\ UnsureAt(s, i - 1, x))
<1>1. ASSUME x \in s[i].unsure
      PROVE  UnsureAt(s, i, x)
  <2>1. i \in 1 .. i /\ \A k \in i + 1 .. i : x \notin DOMAIN s[k].names
    OBVIOUS
  <2>2. QED BY <1>1, <2>1 DEF UnsureAt
<1>2. ASSUME x \notin DOMAIN s[i].names, UnsureAt(s, i - 1, x)
      PROVE  UnsureAt(s, i, x)
  <2>1. PICK j \in 1 .. i - 1 :
          x \in s[j].unsure /\ \A k \in j + 1 .. i - 1 : x \notin DOMAIN s[k].names
    BY <1>2 DEF UnsureAt
  <2>2. j \in 1 .. i /\ \A k \in j + 1 .. i : x \notin DOMAIN s[k].names
    BY <1>2, <2>1
  <2>3. QED BY <2>1, <2>2 DEF UnsureAt
<1>3. ASSUME UnsureAt(s, i, x), x \notin s[i].unsure
      PROVE  x \notin DOMAIN s[i].names /\ UnsureAt(s, i - 1, x)
  <2>1. PICK j \in 1 .. i :
          x \in s[j].unsure /\ \A k \in j + 1 .. i : x \notin DOMAIN s[k].names
    BY <1>3 DEF UnsureAt
  <2>2. j \in 1 .. i - 1 /\ i \in j + 1 .. i
    BY <1>3, <2>1
  <2>3. QED BY <2>1, <2>2 DEF UnsureAt
<1>4. QED BY <1>1, <1>2, <1>3

\* What is meant inside a scope depends on it and on those around it.
LEMMA SameBelow ==
  ASSUME NEW s \in Seq(CScopes), NEW t \in Seq(CScopes), NEW i \in Nat,
         i <= Len(s), i <= Len(t), \A j \in 1 .. i : t[j] = s[j]
  PROVE  /\ \A b : Depth(t, i, b) = Depth(s, i, b)
         /\ \A x : CSeen(t, i, x) = CSeen(s, i, x)
         /\ \A x : UnsureAt(t, i, x) <=> UnsureAt(s, i, x)
<1>1. \A b : Depth(t, i, b) = Depth(s, i, b)
  BY DepthSame
<1>2. /\ CNames(s) \in Seq(NameTables) /\ Len(CNames(s)) = Len(s)
      /\ CNames(t) \in Seq(NameTables) /\ Len(CNames(t)) = Len(t)
      /\ \A j \in 1 .. i : CNames(t)[j] = CNames(s)[j]
  BY NamesTyped
<1>3. \A x : CSeen(t, i, x) = CSeen(s, i, x)
  BY <1>2, SeenSame DEF CSeen
<1>4. \A x : UnsureAt(t, i, x) <=> UnsureAt(s, i, x)
  BY DEF UnsureAt
<1>5. QED BY <1>1, <1>3, <1>4

-----------------------------------------------------------------------------
(* What a step changes of what C means *)

\* The innermost scope changes, but not its kind.
LEMMA InnerChanged ==
  ASSUME NEW s \in Seq(CScopes), NEW t \in Seq(CScopes), Nested(s), Len(s) > 0,
         Len(t) = Len(s), \A j \in 1 .. Len(s) - 1 : t[j] = s[j],
         t[Len(s)].kind = s[Len(s)].kind
  PROVE  /\ Nested(t)
         /\ \A i \in 1 .. Len(s), b \in BOOLEAN : Depth(t, i, b) = Depth(s, i, b)
         /\ \A i \in 0 .. Len(s) - 1 : \A x :
              /\ CSeen(t, i, x) = CSeen(s, i, x)
              /\ UnsureAt(t, i, x) <=> UnsureAt(s, i, x)
         /\ s[Len(s)].kind # "for" =>
              \A i \in 1 .. Len(s) : \A x : Overlaid(s, i, x) => Overlaid(t, i, x)
<1> DEFINE n == Len(s)
<1>1. \A j \in 1 .. n : t[j].kind = s[j].kind
  OBVIOUS
<1>2. Nested(t)
  BY <1>1 DEF Nested
<1>3. ASSUME NEW i \in 1 .. n, NEW b \in BOOLEAN
      PROVE  Depth(t, i, b) = Depth(s, i, b)
  <2>1. i \in Nat /\ \A j \in 1 .. i : t[j].kind = s[j].kind
    BY <1>1
  <2>2. QED BY <2>1, DepthSame
<1>4. ASSUME NEW i \in 0 .. n - 1, NEW x
      PROVE  /\ CSeen(t, i, x) = CSeen(s, i, x)
             /\ UnsureAt(t, i, x) <=> UnsureAt(s, i, x)
  <2>1. i \in Nat /\ i <= Len(s) /\ i <= Len(t) /\ \A j \in 1 .. i : t[j] = s[j]
    OBVIOUS
  <2>2. QED BY <2>1, SameBelow
<1>5. ASSUME s[n].kind # "for", NEW i \in 1 .. n, NEW x, Overlaid(s, i, x)
      PROVE  Overlaid(t, i, x)
  <2>1. PICK j \in i + 1 .. n : /\ Depth(s, j, FALSE) = Depth(s, i, FALSE)
                                /\ x \in DOMAIN s[j].names \union s[j].unsure
    BY <1>5 DEF Overlaid
  <2>2. Depth(t, j, FALSE) = Depth(t, i, FALSE)
    <3>1. j \in 1 .. n /\ FALSE \in BOOLEAN
      OBVIOUS
    <3>2. QED BY <3>1, <2>1, <1>3
  <2>3. j # n
    BY <2>1, <1>5, OwnNumber
  <2>4. t[j] = s[j]
    BY <2>3
  <2>5. QED BY <2>1, <2>2, <2>4 DEF Overlaid
<1>6. QED BY <1>2, <1>3, <1>4, <1>5

\* Nothing is declared further in than the innermost scope.
LEMMA InnerNotOverlaid ==
  ASSUME NEW s, Len(s) \in Nat, NEW x
  PROVE  ~ Overlaid(s, Len(s), x)
<1>1. Len(s) + 1 .. Len(s) = {}
  OBVIOUS
<1>2. QED BY <1>1 DEF Overlaid

\* A declaration of C.
LEMMA DeclaredFacts ==
  ASSUME NEW s \in Seq(CScopes), Nested(s), Len(s) > 0, NEW e \in Entities
  PROVE  /\ Declared(s, e) \in Seq(CScopes) /\ Len(Declared(s, e)) = Len(s)
         /\ \A j \in 1 .. Len(s) - 1 : Declared(s, e)[j] = s[j]
         /\ Declared(s, e)[Len(s)].kind = s[Len(s)].kind
         /\ Declared(s, e)[Len(s)].fn = s[Len(s)].fn
         /\ Declared(s, e)[Len(s)].names = With(s[Len(s)].names, e.name, e)
         /\ Declared(s, e)[Len(s)].unsure = s[Len(s)].unsure \ {e.name}
         /\ \A x : CSeen(Declared(s, e), Len(s), x) =
                     IF x = e.name THEN e ELSE CSeen(s, Len(s), x)
         /\ \A x : x # e.name =>
                     (UnsureAt(Declared(s, e), Len(s), x) <=> UnsureAt(s, Len(s), x))
<1> DEFINE n == Len(s)
           inner == s[n]
           new == [inner EXCEPT !.names = With(inner.names, e.name, e),
                                !.unsure = inner.unsure \ {e.name}]
           t == Declared(s, e)
<1>1. n \in 1 .. n /\ inner \in CScopes
  BY ElementOfSeq
<1>2. t = [s EXCEPT ![n] = new]
  BY <1>1 DEF Declared, CScopes
<1>3. With(inner.names, e.name, e) \in NameTables
  <2>1. inner.names \in Tables(Entities) /\ e.name \in Names
    BY <1>1 DEF CScopes, NameTables, Entities
  <2>2. With(inner.names, e.name, e) \in Tables(Entities)
    <3> HIDE DEF inner
    <3>1. QED BY <2>1, TableFacts
  <2>3. \A x \in DOMAIN inner.names : inner.names[x].name = x
    BY <1>1 DEF CScopes, NameTables
  <2>4. QED BY <2>2, <2>3 DEF NameTables, With
<1>4. /\ new \in CScopes /\ new.kind = inner.kind /\ new.fn = inner.fn
      /\ new.names = With(inner.names, e.name, e) /\ new.unsure = inner.unsure \ {e.name}
  <2> HIDE DEF inner
  <2>1. QED BY <1>1, <1>3 DEF CScopes
<1> HIDE DEF new, t
<1>5. /\ t \in Seq(CScopes) /\ Len(t) = n
      /\ \A j \in 1 .. n : t[j] = IF j = n THEN new ELSE s[j]
  BY <1>1, <1>2, <1>4, ExceptSeq
<1>6. t[n] = new /\ \A j \in 1 .. n - 1 : t[j] = s[j]
  BY <1>1, <1>5
<1>7. /\ \A x : CSeen(t, n - 1, x) = CSeen(s, n - 1, x)
      /\ \A x : UnsureAt(t, n - 1, x) <=> UnsureAt(s, n - 1, x)
  <2>1. n - 1 \in Nat /\ n - 1 <= Len(s) /\ n - 1 <= Len(t)
    BY <1>1, <1>5
  <2>2. QED BY <2>1, <1>5, <1>6, SameBelow
<1>8. ASSUME NEW x
      PROVE  /\ CSeen(t, n, x) = IF x = e.name THEN e ELSE CSeen(s, n, x)
             /\ x # e.name => (UnsureAt(t, n, x) <=> UnsureAt(s, n, x))
  <2>1. /\ CSeen(t, n, x) = IF x \in DOMAIN new.names THEN new.names[x] ELSE CSeen(t, n - 1, x)
        /\ CSeen(s, n, x) = IF x \in DOMAIN inner.names THEN inner.names[x] ELSE CSeen(s, n - 1, x)
    BY <1>1, <1>5, <1>6, CSeenStep
  <2>2. n \in Nat \ {0}
    BY <1>1
  <2>3. /\ UnsureAt(t, n, x) <=> x \in new.unsure \/ (x \notin DOMAIN new.names /\ UnsureAt(t, n - 1, x))
        /\ UnsureAt(s, n, x) <=> x \in inner.unsure \/ (x \notin DOMAIN inner.names /\ UnsureAt(s, n - 1, x))
    BY <1>6, <2>2, UnsureStep
  <2>4. /\ DOMAIN new.names = DOMAIN inner.names \union {e.name}
        /\ \A y \in DOMAIN new.names : new.names[y] = IF y = e.name THEN e ELSE inner.names[y]
    BY <1>4 DEF With
  <2>5. QED BY <2>1, <2>3, <2>4, <1>4, <1>7
<1>9. QED BY <1>4, <1>5, <1>6, <1>8 DEF t

\* A scope is opened.
LEMMA Opened ==
  ASSUME NEW s \in Seq(CScopes), Nested(s), Len(s) > 0, NEW d \in CScopes,
         d.kind # "file", d.kind = "body" <=> Len(s) = 1
  PROVE  /\ Append(s, d) \in Seq(CScopes) /\ Len(Append(s, d)) = Len(s) + 1
         /\ \A j \in 1 .. Len(s) : Append(s, d)[j] = s[j]
         /\ Append(s, d)[Len(s) + 1] = d
         /\ Nested(Append(s, d))
         /\ \A i \in 1 .. Len(s), b \in BOOLEAN : Depth(Append(s, d), i, b) = Depth(s, i, b)
         /\ \A b \in BOOLEAN : Depth(Append(s, d), Len(s) + 1, b) =
              IF Len(s) = 1 THEN 3
              ELSE Depth(s, Len(s), b) + IF b \/ d.kind # "for" THEN 1 ELSE 0
         /\ \A i \in 1 .. Len(s) : \A x :
              /\ CSeen(Append(s, d), i, x) = CSeen(s, i, x)
              /\ UnsureAt(Append(s, d), i, x) <=> UnsureAt(s, i, x)
              /\ Overlaid(s, i, x) => Overlaid(Append(s, d), i, x)
         /\ \A x : CSeen(Append(s, d), Len(s) + 1, x) =
                     IF x \in DOMAIN d.names THEN d.names[x] ELSE CSeen(s, Len(s), x)
         /\ \A x : UnsureAt(Append(s, d), Len(s) + 1, x) <=>
                     x \in d.unsure \/ (x \notin DOMAIN d.names /\ UnsureAt(s, Len(s), x))
<1> DEFINE n == Len(s)
           t == Append(s, d)
<1>1. /\ t \in Seq(CScopes) /\ Len(t) = n + 1 /\ n \in Nat \ {0}
      /\ \A j \in 1 .. n : t[j] = s[j]
      /\ t[n + 1] = d
  BY AppendProperties
<1> HIDE DEF t
<1>2. ASSUME NEW i \in 1 .. n + 1
      PROVE  (t[i].kind = "file" <=> i = 1) /\ (t[i].kind = "body" <=> i = 2)
  <2>1. CASE i \in 1 .. n
    BY <2>1, <1>1 DEF Nested
  <2>2. CASE i = n + 1
    <3>1. t[i] = d
      BY <2>2, <1>1
    <3>2. i # 1 /\ (i = 2 <=> n = 1)
      <4>1. n \in Nat \ {0}
        BY <1>1
      <4> HIDE DEF n
      <4>2. QED BY <4>1, <2>2
    <3>3. QED BY <3>1, <3>2
  <2>3. QED BY <2>1, <2>2, <1>1
<1>2a. Nested(t)
  BY <1>1, <1>2 DEF Nested
<1>3. \A i \in 1 .. n : /\ \A b : Depth(t, i, b) = Depth(s, i, b)
                        /\ \A x : CSeen(t, i, x) = CSeen(s, i, x)
                        /\ \A x : UnsureAt(t, i, x) <=> UnsureAt(s, i, x)
  <2>1. \A i \in 1 .. n : i \in Nat /\ i <= Len(s) /\ i <= Len(t) /\ \A j \in 1 .. i : t[j] = s[j]
    BY <1>1
  <2>2. QED BY <2>1, <1>1, SameBelow
<1>4. ASSUME NEW i \in 1 .. n, NEW x, Overlaid(s, i, x)
      PROVE  Overlaid(t, i, x)
  <2>1. PICK j \in i + 1 .. n : /\ Depth(s, j, FALSE) = Depth(s, i, FALSE)
                                /\ x \in DOMAIN s[j].names \union s[j].unsure
    BY <1>4 DEF Overlaid
  <2>2. j \in 1 .. n /\ j \in i + 1 .. Len(t)
    BY <1>1
  <2>3. Depth(t, j, FALSE) = Depth(t, i, FALSE) /\ t[j] = s[j]
    BY <2>1, <2>2, <1>1, <1>3
  <2>4. QED BY <2>1, <2>2, <2>3 DEF Overlaid
<1>5. ASSUME NEW b \in BOOLEAN
      PROVE  Depth(t, n + 1, b) = IF n = 1 THEN 3
                                  ELSE Depth(s, n, b) + IF b \/ d.kind # "for" THEN 1 ELSE 0
  <2>1. n + 1 \in 1 .. Len(t) /\ (n + 1) - 1 = n /\ n \in 1 .. n
    BY <1>1
  <2>2. Depth(t, n, b) = Depth(s, n, b)
    BY <2>1, <1>3
  <2>3. QED BY <2>1, <2>2, <1>1, <1>2a, DepthFacts
<1>6. ASSUME NEW x
      PROVE  /\ CSeen(t, n + 1, x) = IF x \in DOMAIN d.names THEN d.names[x] ELSE CSeen(s, n, x)
             /\ UnsureAt(t, n + 1, x) <=>
                  x \in d.unsure \/ (x \notin DOMAIN d.names /\ UnsureAt(s, n, x))
  <2>1. /\ n + 1 \in 1 .. Len(t) /\ n + 1 \in Nat \ {0} /\ (n + 1) - 1 = n /\ n \in 1 .. n
    BY <1>1
  <2>2. CSeen(t, n + 1, x) = IF x \in DOMAIN d.names THEN d.names[x] ELSE CSeen(t, n, x)
    BY <2>1, <1>1, CSeenStep
  <2>3. UnsureAt(t, n + 1, x) <=> x \in d.unsure \/ (x \notin DOMAIN d.names /\ UnsureAt(t, n, x))
    BY <2>1, <1>1, UnsureStep
  <2>4. QED BY <2>1, <2>2, <2>3, <1>3
<1>7. QED BY <1>1, <1>2a, <1>3, <1>4, <1>5, <1>6 DEF t

\* A scope is closed.
LEMMA Closed ==
  ASSUME NEW s \in Seq(CScopes), NEW t \in Seq(CScopes), Nested(s), Len(s) > 1,
         Len(t) = Len(s) - 1, \A j \in 1 .. Len(s) - 1 : t[j] = s[j]
  PROVE  /\ Nested(t)
         /\ \A i \in 1 .. Len(s) - 1, b \in BOOLEAN : Depth(t, i, b) = Depth(s, i, b)
         /\ \A i \in 1 .. Len(s) - 1 : \A x :
              /\ CSeen(t, i, x) = CSeen(s, i, x)
              /\ UnsureAt(t, i, x) <=> UnsureAt(s, i, x)
              /\ s[Len(s)].kind # "for" => (Overlaid(s, i, x) => Overlaid(t, i, x))
<1> DEFINE n == Len(s)
<1>1. Nested(t)
  BY DEF Nested
<1>2. \A i \in 1 .. n - 1 : /\ \A b : Depth(t, i, b) = Depth(s, i, b)
                            /\ \A x : CSeen(t, i, x) = CSeen(s, i, x)
                            /\ \A x : UnsureAt(t, i, x) <=> UnsureAt(s, i, x)
  <2>1. \A i \in 1 .. n - 1 : /\ i \in Nat /\ i <= Len(s) /\ i <= Len(t)
                              /\ \A j \in 1 .. i : t[j] = s[j]
    OBVIOUS
  <2>2. QED BY <2>1, SameBelow
<1>3. ASSUME s[n].kind # "for", NEW i \in 1 .. n - 1, NEW x, Overlaid(s, i, x)
      PROVE  Overlaid(t, i, x)
  <2>1. PICK j \in i + 1 .. n : /\ Depth(s, j, FALSE) = Depth(s, i, FALSE)
                                /\ x \in DOMAIN s[j].names \union s[j].unsure
    BY <1>3 DEF Overlaid
  <2>2. j # n
    <3>1. i \in 1 .. Len(s) /\ Len(s) > 0
      OBVIOUS
    <3>2. QED BY <3>1, <2>1, <1>3, OwnNumber
  <2>3. j \in 1 .. n - 1 /\ j \in i + 1 .. Len(t)
    BY <2>2
  <2>4. Depth(t, j, FALSE) = Depth(t, i, FALSE) /\ t[j] = s[j]
    BY <2>1, <2>3, <1>2
  <2>5. QED BY <2>1, <2>3, <2>4 DEF Overlaid
<1>4. QED BY <1>1, <1>2, <1>3

-----------------------------------------------------------------------------
(* One pass against C.  The pass holds values of V in its tables and takes    *)
(* absent[x] for a name it does not find; R says which value is right for     *)
(* which entity; opens, whether a for statement opens a scope in the pass.    *)

COK(s) == s \in Seq(CScopes) /\ Len(s) > 0 /\ Nested(s)

\* Where a pass without scopes for for statements may differ from C inside
\* the i-th scope, p being the variable that is read.
Excused(opens, s, p, i, x) ==
  ~ opens /\ (Overlaid(s, i, x) \/ UnsureAt(s, i, x) \/ (x = p /\ i = Len(s)))

Agrees(V, absent, R, opens, s, chain, p) ==
  /\ chain \in Seq(Tables(V))
  /\ Len(chain) = Depth(s, Len(s), opens)
  /\ \A i \in 1 .. Len(s), x \in Names :
       \/ Excused(opens, s, p, i, x)
       \/ <<Seen(chain, Depth(s, i, opens), x, absent[x]), CSeen(s, i, x)>> \in R

\* The levels of a pass.
LEMMA Levels ==
  ASSUME NEW s, COK(s), NEW opens \in BOOLEAN
  PROVE  /\ Len(s) \in Nat \ {0}
         /\ \A i \in 1 .. Len(s) :
              Depth(s, i, opens) \in 1 .. Depth(s, Len(s), opens)
<1>1. Len(s) \in Nat \ {0} /\ Nested(s) /\ s \in Seq(CScopes) /\ Len(s) \in 1 .. Len(s)
  BY DEF COK
<1>2. 1 \in 1 .. Len(s) /\ \A i \in 1 .. Len(s) : 1 \in 1 .. i /\ i \in 1 .. Len(s)
  BY <1>1
<1>3. Depth(s, 1, opens) = 1
  BY <1>1, <1>2, DepthFacts
<1>4. ASSUME NEW i \in 1 .. Len(s)
      PROVE  Depth(s, i, opens) \in 1 .. Depth(s, Len(s), opens)
  <2>1. Depth(s, i, opens) \in Nat /\ Depth(s, Len(s), opens) \in Nat
    BY <1>1, DepthFacts
  <2>2. Depth(s, 1, opens) <= Depth(s, i, opens)
    BY <1>1, <1>2, DepthFacts
  <2>3. Depth(s, i, opens) <= Depth(s, Len(s), opens)
    BY <1>1, DepthFacts
  <2>4. QED BY <2>1, <2>2, <2>3, <1>3
<1>5. QED BY <1>1, <1>4

\* A chain that agrees with C has the length its pass's pushes give it.
LEMMA ChainTyped ==
  ASSUME NEW s, COK(s), NEW V, NEW absent, NEW R, NEW opens \in BOOLEAN, NEW chain, NEW p,
         Agrees(V, absent, R, opens, s, chain, p)
  PROVE  /\ chain \in Seq(Tables(V)) /\ Len(chain) \in Nat \ {0} /\ Len(chain) > 0
         /\ Len(chain) = Depth(s, Len(s), opens)
<1>1. Len(s) \in 1 .. Len(s)
  BY DEF COK
<1>2. Depth(s, Len(s), opens) \in 1 .. Depth(s, Len(s), opens)
  BY <1>1, Levels
<1>3. QED BY <1>2 DEF Agrees

\* What is seen is in a table, or absent.
LEMMA SeenTyped ==
  ASSUME NEW V, NEW chain \in Seq(Tables(V)), NEW k \in 0 .. Len(chain), NEW x, NEW absent
  PROVE  Seen(chain, k, x, absent) \in V \union {absent}
<1>1. ASSUME NEW m \in 1 .. k, x \in DOMAIN chain[m]
      PROVE  chain[m][x] \in V
  <2>1. m \in 1 .. Len(chain)
    OBVIOUS
  <2>2. chain[m] \in Tables(V)
    BY <2>1, ElementOfSeq
  <2>3. QED BY <2>2, <1>1, TableFacts
<1>2. QED BY <1>1, SeenFacts

\* x is declared, or made unsure, in the innermost scope.
LEMMA AgreesInner ==
  ASSUME NEW V, NEW absent, NEW R, NEW opens \in BOOLEAN, NEW x \in Names,
         NEW s, COK(s), NEW p, p \notin Names \/ p = x,
         NEW t \in Seq(CScopes), NEW q,
         NEW chain, Agrees(V, absent, R, opens, s, chain, p),
         NEW new \in Seq(Tables(V)), Len(new) = Len(chain),
         Len(t) = Len(s), \A j \in 1 .. Len(s) - 1 : t[j] = s[j],
         t[Len(s)].kind = s[Len(s)].kind,
         s[Len(s)].kind # "for" \/ t = s,
         x \in DOMAIN t[Len(s)].names \union t[Len(s)].unsure,
         \A y \in Names : y # x =>
           /\ CSeen(t, Len(s), y) = CSeen(s, Len(s), y)
           /\ UnsureAt(s, Len(s), y) => UnsureAt(t, Len(s), y),
         \A k \in 0 .. Len(chain), y \in Names : k # Len(chain) \/ y # x =>
           Seen(new, k, y, absent[y]) = Seen(chain, k, y, absent[y]),
         \/ Excused(opens, t, q, Len(s), x)
         \/ <<Seen(new, Len(chain), x, absent[x]), CSeen(t, Len(s), x)>> \in R
  PROVE  COK(t) /\ Agrees(V, absent, R, opens, t, new, q)
<1> DEFINE n == Len(s)
<1>1. s \in Seq(CScopes) /\ Nested(s) /\ n \in 1 .. n /\ Len(s) > 0
  BY DEF COK
<1>2. /\ Nested(t)
      /\ \A i \in 1 .. n : Depth(t, i, opens) = Depth(s, i, opens)
      /\ \A i \in 0 .. n - 1 : \A y : /\ CSeen(t, i, y) = CSeen(s, i, y)
                                      /\ UnsureAt(t, i, y) <=> UnsureAt(s, i, y)
      /\ \A i \in 1 .. n : \A y : Overlaid(s, i, y) => Overlaid(t, i, y)
  BY <1>1, InnerChanged
<1>3. COK(t)
  BY <1>1, <1>2 DEF COK
<1>4. Len(chain) = Depth(s, n, opens) /\ \A i \in 1 .. n : Depth(s, i, opens) \in 1 .. Len(chain)
  BY Levels DEF Agrees
<1>5. \A i \in 1 .. n, y \in Names :
        \/ Excused(opens, s, p, i, y)
        \/ <<Seen(chain, Depth(s, i, opens), y, absent[y]), CSeen(s, i, y)>> \in R
  BY DEF Agrees
<1>6. ASSUME NEW i \in 1 .. n, NEW y \in Names, ~ Excused(opens, t, q, i, y)
      PROVE  <<Seen(new, Depth(t, i, opens), y, absent[y]), CSeen(t, i, y)>> \in R
  <2>1. CASE i = n /\ y = x
    <3>1. Depth(t, i, opens) = Len(chain)
      BY <2>1, <1>2, <1>4
    <3>2. QED BY <3>1, <2>1, <1>6
  <2>2. CASE i = n /\ y # x
    <3>1. ~ Excused(opens, s, p, i, y)
      BY <2>2, <1>2, <1>6 DEF Excused
    <3>2. Seen(new, Depth(t, i, opens), y, absent[y]) = Seen(chain, Depth(s, i, opens), y, absent[y])
      BY <2>2, <1>2, <1>4
    <3>3. CSeen(t, i, y) = CSeen(s, i, y)
      BY <2>2
    <3>4. QED BY <3>1, <3>2, <3>3, <1>5
  <2>3. CASE i # n
    <3>1. i \in 0 .. n - 1 /\ i \in 1 .. n - 1
      BY <2>3
    <3>2. ~ Excused(opens, s, p, i, y)
      BY <3>1, <2>3, <1>2, <1>6 DEF Excused
    <3>3. Depth(s, i, opens) # Len(chain) \/ y # x
      <4>1. SUFFICES ASSUME Depth(s, i, opens) = Len(chain), y = x PROVE FALSE
        OBVIOUS
      <4>2. CASE opens \/ s[n].kind # "for"
        <5>1. Depth(s, i, opens) < Depth(s, n, opens)
          BY <4>2, <3>1, <1>1, OwnTables
        <5>2. QED BY <5>1, <4>1, <1>4
      <4>3. CASE ~ opens /\ s[n].kind = "for"
        <5>1. n \in i + 1 .. Len(t) /\ opens = FALSE
          BY <4>3, <3>1, <1>1
        <5>2. Depth(t, n, opens) = Depth(t, i, opens)
          BY <4>1, <3>1, <1>1, <1>2, <1>4
        <5>3. Depth(t, n, FALSE) = Depth(t, i, FALSE)
          BY <5>1, <5>2
        <5>4. x \in DOMAIN t[n].names \union t[n].unsure
          OBVIOUS
        <5>5. Overlaid(t, i, x)
          BY <5>1, <5>3, <5>4 DEF Overlaid
        <5>6. QED BY <5>5, <4>1, <4>3, <1>6 DEF Excused
      <4>4. QED BY <4>2, <4>3
    <3>4. Seen(new, Depth(t, i, opens), y, absent[y]) = Seen(chain, Depth(s, i, opens), y, absent[y])
      BY <3>3, <1>2, <1>4
    <3>5. CSeen(t, i, y) = CSeen(s, i, y)
      BY <3>1, <1>2
    <3>6. QED BY <3>2, <3>4, <3>5, <1>5
  <2>4. QED BY <2>1, <2>2, <2>3
<1>7. Len(new) = Depth(t, Len(t), opens)
  BY <1>1, <1>2, <1>4
<1>8. QED BY <1>3, <1>6, <1>7 DEF Agrees

\* A scope is opened: d for C, what is new to the pass in its own chain.
LEMMA AgreesOpened ==
  ASSUME NEW V, NEW absent, NEW R, NEW opens \in BOOLEAN,
         NEW s, COK(s), NEW p, p \notin Names, NEW q,
         NEW d \in CScopes, d.kind # "file", d.kind = "body" <=> Len(s) = 1, d.unsure = {},
         NEW chain, Agrees(V, absent, R, opens, s, chain, p),
         NEW new \in Seq(Tables(V)),
         Len(new) = Depth(Append(s, d), Len(s) + 1, opens),
         \A k \in 0 .. Len(chain), y \in Names :
           k < Len(new) => Seen(new, k, y, absent[y]) = Seen(chain, k, y, absent[y]),
         \A y \in Names \ DOMAIN d.names :
           Seen(new, Len(new), y, absent[y]) = Seen(chain, Len(chain), y, absent[y]),
         \A y \in Names \cap DOMAIN d.names :
           \/ ~ opens /\ y = q
           \/ <<Seen(new, Len(new), y, absent[y]), d.names[y]>> \in R
  PROVE  COK(Append(s, d)) /\ Agrees(V, absent, R, opens, Append(s, d), new, q)
<1> DEFINE n == Len(s)
           t == Append(s, d)
<1>1. s \in Seq(CScopes) /\ Nested(s) /\ n \in Nat \ {0} /\ Len(s) > 0 /\ n \in 1 .. n
  BY DEF COK
<1>2. /\ t \in Seq(CScopes) /\ Len(t) = n + 1 /\ t[n + 1] = d /\ Nested(t)
      /\ \A i \in 1 .. n : Depth(t, i, opens) = Depth(s, i, opens)
      /\ Depth(t, n + 1, opens) =
           IF n = 1 THEN 3 ELSE Depth(s, n, opens) + IF opens \/ d.kind # "for" THEN 1 ELSE 0
      /\ \A i \in 1 .. n : \A y : /\ CSeen(t, i, y) = CSeen(s, i, y)
                                  /\ UnsureAt(t, i, y) <=> UnsureAt(s, i, y)
                                  /\ Overlaid(s, i, y) => Overlaid(t, i, y)
      /\ \A y : CSeen(t, n + 1, y) = IF y \in DOMAIN d.names THEN d.names[y] ELSE CSeen(s, n, y)
      /\ \A y : UnsureAt(t, n + 1, y) <=> y \notin DOMAIN d.names /\ UnsureAt(s, n, y)
  BY <1>1, Opened
<1> HIDE DEF t
<1>3. COK(t)
  BY <1>1, <1>2 DEF COK
<1>4. Len(chain) = Depth(s, n, opens) /\ \A i \in 1 .. n : Depth(s, i, opens) \in 1 .. Len(chain)
  BY Levels DEF Agrees
<1>5. \A i \in 1 .. n, y \in Names :
        \/ Excused(opens, s, p, i, y)
        \/ <<Seen(chain, Depth(s, i, opens), y, absent[y]), CSeen(s, i, y)>> \in R
  BY DEF Agrees
<1>6. Len(new) = Depth(t, n + 1, opens) /\ Len(new) >= Len(chain) /\ Len(chain) \in Nat
      /\ (opens => Len(new) > Len(chain))
  <2>1. Len(new) = Depth(t, n + 1, opens)
    BY DEF t
  <2>2. n = 1 => Len(chain) = 1
    BY <1>1, <1>4, DepthFacts
  <2>3. Len(chain) \in Nat
    BY DEF Agrees
  <2>4. QED BY <2>1, <2>2, <2>3, <1>2, <1>4
<1>7. ASSUME NEW i \in 1 .. n, NEW y \in Names, ~ Excused(opens, t, q, i, y)
      PROVE  <<Seen(new, Depth(t, i, opens), y, absent[y]), CSeen(t, i, y)>> \in R
  <2>1. ~ Excused(opens, s, p, i, y)
    BY <1>2, <1>7 DEF Excused
  <2>2. <<Seen(chain, Depth(s, i, opens), y, absent[y]), CSeen(t, i, y)>> \in R
    BY <2>1, <1>2, <1>5
  <2>3. CASE Depth(s, i, opens) < Len(new)
    <3>1. Seen(new, Depth(t, i, opens), y, absent[y]) = Seen(chain, Depth(s, i, opens), y, absent[y])
      BY <2>3, <1>2, <1>4
    <3>2. QED BY <3>1, <2>2
  <2>4. CASE ~ (Depth(s, i, opens) < Len(new))
    <3>1. Depth(s, i, opens) = Len(new) /\ Len(new) = Len(chain) /\ opens = FALSE
      BY <2>4, <1>4, <1>6
    <3>2. Depth(t, n + 1, opens) = Depth(t, i, opens) /\ n + 1 \in i + 1 .. Len(t)
      BY <3>1, <1>1, <1>2, <1>6
    <3>3. y \notin DOMAIN d.names
      <4>1. Depth(t, n + 1, FALSE) = Depth(t, i, FALSE)
        BY <3>1, <3>2
      <4>2. y \in DOMAIN d.names => Overlaid(t, i, y)
        BY <4>1, <3>2, <1>2 DEF Overlaid
      <4>3. QED BY <4>2, <3>1, <1>7 DEF Excused
    <3>4. Seen(new, Len(new), y, absent[y]) = Seen(chain, Len(chain), y, absent[y])
      BY <3>3
    <3>5. Depth(t, i, opens) = Len(new) /\ Depth(s, i, opens) = Len(chain)
      BY <3>1, <1>2
    <3>6. QED BY <3>4, <3>5, <2>2
  <2>5. QED BY <2>3, <2>4
<1>8. ASSUME NEW y \in Names, ~ Excused(opens, t, q, n + 1, y)
      PROVE  <<Seen(new, Depth(t, n + 1, opens), y, absent[y]), CSeen(t, n + 1, y)>> \in R
  <2>1. CASE y \in DOMAIN d.names
    <3>1. ~ (~ opens /\ y = q)
      BY <1>2, <1>8 DEF Excused
    <3>2. QED BY <3>1, <2>1, <1>2, <1>6
  <2>2. CASE y \notin DOMAIN d.names
    <3>1. ~ Overlaid(s, n, y)
      BY <1>1, InnerNotOverlaid
    <3>2. ~ Excused(opens, s, p, n, y)
      BY <3>1, <2>2, <1>2, <1>8 DEF Excused
    <3>3. <<Seen(chain, Len(chain), y, absent[y]), CSeen(s, n, y)>> \in R
      BY <3>2, <1>1, <1>4, <1>5
    <3>4. Seen(new, Len(new), y, absent[y]) = Seen(chain, Len(chain), y, absent[y])
      BY <2>2
    <3>5. CSeen(t, n + 1, y) = CSeen(s, n, y)
      BY <2>2, <1>2
    <3>6. QED BY <3>3, <3>4, <3>5, <1>6
  <2>3. QED BY <2>1, <2>2
<1>9. \A i \in 1 .. Len(t) : i \in 1 .. n \/ i = n + 1
  BY <1>1, <1>2
<1>10. Agrees(V, absent, R, opens, t, new, q)
  BY <1>2, <1>6, <1>7, <1>8, <1>9 DEF Agrees
<1>11. QED BY <1>3, <1>10 DEF t

\* The innermost scope is closed; t is s without it, but for what is unsure.
LEMMA AgreesClosed ==
  ASSUME NEW V, NEW absent, NEW R, NEW opens \in BOOLEAN,
         NEW s, COK(s), Len(s) > 1, NEW p, p \notin Names,
         NEW t, COK(t), Len(t) = Len(s) - 1,
         \A i \in 1 .. Len(t) :
           /\ Depth(t, i, opens) = Depth(s, i, opens)
           /\ \A y \in Names :
                /\ CSeen(t, i, y) = CSeen(s, i, y)
                /\ ~ opens /\ (Overlaid(s, i, y) \/ UnsureAt(s, i, y))
                     => Overlaid(t, i, y) \/ UnsureAt(t, i, y),
         NEW chain, Agrees(V, absent, R, opens, s, chain, p),
         NEW new \in Seq(Tables(V)), Len(new) = Depth(s, Len(t), opens),
         \A k \in 0 .. Len(new), y \in Names :
           Seen(new, k, y, absent[y]) = Seen(chain, k, y, absent[y])
  PROVE  Agrees(V, absent, R, opens, t, new, p)
<1>1. Len(t) \in 1 .. Len(t) /\ Len(t) \in 1 .. Len(s) /\ \A i \in 1 .. Len(t) : i \in 1 .. Len(s)
  BY DEF COK
<1>2. Len(new) = Depth(t, Len(t), opens)
  BY <1>1
<1>3. \A i \in 1 .. Len(t) : Depth(t, i, opens) \in 1 .. Len(new)
  BY <1>2, Levels
<1>4. ASSUME NEW i \in 1 .. Len(t), NEW y \in Names, ~ Excused(opens, t, p, i, y)
      PROVE  <<Seen(new, Depth(t, i, opens), y, absent[y]), CSeen(t, i, y)>> \in R
  <2>1. ~ Excused(opens, s, p, i, y)
    BY <1>4 DEF Excused
  <2>2. <<Seen(chain, Depth(s, i, opens), y, absent[y]), CSeen(s, i, y)>> \in R
    BY <2>1, <1>1 DEF Agrees
  <2>3. Seen(new, Depth(t, i, opens), y, absent[y]) = Seen(chain, Depth(s, i, opens), y, absent[y])
    BY <1>3
  <2>4. QED BY <2>2, <2>3
<1>5. QED BY <1>2, <1>4 DEF Agrees

-----------------------------------------------------------------------------
(* The inductive invariant *)

Meanings == Entities \union {Undeclared}
Addresses == [global : BOOLEAN, name : Names, id : Nat]

SemaAbsent == [x \in Names |-> Undeclared]
ParserAbsent == [x \in Names |-> "none"]
IrAbsent == [x \in Names |-> Address([name |-> x, id |-> 0])]

SemaRight == {r \in Meanings \X Meanings : r[1] = r[2]}
ParserRight ==
  {r \in (Symbols \union {"none"}) \X Meanings : r[1] = "typedef" <=> r[2].kind = "typedef"}
IrRight ==
  {r \in Addresses \X Meanings : r[2].kind \in {"var", "func"} => r[1] = Address(r[2])}

\* What the outermost scope and the open function's tell of each other.
FileScope(s) ==
  /\ \A x \in DOMAIN s[1].names :
       s[1].names[x].kind \in {"var", "func"} => s[1].names[x].id = 0
  /\ \A x \in s[1].unsure : x \in DOMAIN s[1].names /\ s[1].names[x].kind = "enum"
  /\ Len(s) > 1 =>
       s[2].fn \in DOMAIN s[1].names /\ s[1].names[s[2].fn].kind = "func"

\* The IR generator has globals there.
Globals(chain) == \A x \in DOMAIN chain[1] : chain[1][x] = Address([name |-> x, id |-> 0])

IInv ==
  /\ pending \in Names \union {NoName} /\ ids \in 0 .. MaxIds
  /\ pending # NoName => pending \in DOMAIN Inner.names /\ Inner.names[pending].kind = "var"
  /\ COK(c) /\ FileScope(c) /\ Globals(ir)
  /\ Agrees(Entities, SemaAbsent, SemaRight, FALSE, c, sema, pending)
  /\ Agrees(Symbols, ParserAbsent, ParserRight, FALSE, c, parser, pending)
  /\ Agrees(Addresses, IrAbsent, IrRight, TRUE, c, ir, pending)

\* The values a declaration puts into the tables are right.
LEMMA RightValues ==
  ASSUME NEW e \in Entities
  PROVE  /\ <<e, e>> \in SemaRight
         /\ e.kind # "typedef" => <<"var", e>> \in ParserRight
         /\ e.kind \in Symbols /\ <<e.kind, e>> \in ParserRight
         /\ Address(e) \in Addresses /\ <<Address(e), e>> \in IrRight
         /\ e.name \in Names
<1>1. e \in Meanings /\ e.kind \in Symbols /\ e.name \in Names /\ e.id \in Nat
  BY ScopesAssumption DEF Meanings, Entities, Symbols
<1>2. Address(e) \in Addresses
  BY <1>1 DEF Address, Addresses
<1>3. <<e, e>> \in SemaRight
  BY <1>1 DEF SemaRight
<1>4. <<e.kind, e>> \in ParserRight
  BY <1>1 DEF ParserRight
<1>5. e.kind # "typedef" => <<"var", e>> \in ParserRight
  BY <1>1 DEF ParserRight, Symbols
<1>6. <<Address(e), e>> \in IrRight
  BY <1>1, <1>2 DEF IrRight
<1>7. QED BY <1>1, <1>2, <1>3, <1>4, <1>5, <1>6

\* A declaration, with what a pass makes of it.
LEMMA AgreesDeclared ==
  ASSUME NEW V, NEW absent, NEW R, NEW opens \in BOOLEAN,
         NEW s, COK(s), s[Len(s)].kind # "for", NEW p, p \notin Names,
         NEW e \in Entities, NEW q,
         NEW chain, Agrees(V, absent, R, opens, s, chain, p),
         NEW new \in Seq(Tables(V)), Len(new) = Len(chain),
         \A k \in 0 .. Len(chain), y \in Names : k # Len(chain) \/ y # e.name =>
           Seen(new, k, y, absent[y]) = Seen(chain, k, y, absent[y]),
         \/ ~ opens /\ q = e.name
         \/ <<Seen(new, Len(chain), e.name, absent[e.name]), e>> \in R
  PROVE  COK(Declared(s, e)) /\ Agrees(V, absent, R, opens, Declared(s, e), new, q)
<1> DEFINE t == Declared(s, e)
<1>0. PICK x : x = e.name
  OBVIOUS
<1>1. s \in Seq(CScopes) /\ Len(s) > 0 /\ Nested(s) /\ x \in Names
  BY <1>0, RightValues DEF COK
<1>2. /\ t \in Seq(CScopes) /\ Len(t) = Len(s)
      /\ \A j \in 1 .. Len(s) - 1 : t[j] = s[j]
      /\ t[Len(s)].kind = s[Len(s)].kind
      /\ t[Len(s)].names = With(s[Len(s)].names, x, e)
      /\ \A y : CSeen(t, Len(s), y) = IF y = x THEN e ELSE CSeen(s, Len(s), y)
      /\ \A y : y # x => (UnsureAt(t, Len(s), y) <=> UnsureAt(s, Len(s), y))
  BY <1>0, <1>1, DeclaredFacts
<1> HIDE DEF t
<1>3. x \in DOMAIN t[Len(s)].names \union t[Len(s)].unsure
  BY <1>2 DEF With
<1>4. \/ Excused(opens, t, q, Len(s), x)
      \/ <<Seen(new, Len(chain), x, absent[x]), CSeen(t, Len(s), x)>> \in R
  BY <1>0, <1>2 DEF Excused
<1>5. /\ p \notin Names \/ p = x
      /\ s[Len(s)].kind # "for" \/ t = s
      /\ \A y \in Names : y # x =>
           /\ CSeen(t, Len(s), y) = CSeen(s, Len(s), y)
           /\ UnsureAt(s, Len(s), y) => UnsureAt(t, Len(s), y)
  BY <1>2
<1>5a. \A k \in 0 .. Len(chain), y \in Names : k # Len(chain) \/ y # x =>
         Seen(new, k, y, absent[y]) = Seen(chain, k, y, absent[y])
  BY <1>0
<1>6. COK(t) /\ Agrees(V, absent, R, opens, t, new, q)
  BY <1>1, <1>2, <1>3, <1>4, <1>5, <1>5a, AgreesInner
<1>7. QED BY <1>6 DEF t

\* A pass that defines the name.
LEMMA AgreesDefined ==
  ASSUME NEW V, NEW absent, NEW R, NEW opens \in BOOLEAN,
         NEW s, COK(s), s[Len(s)].kind # "for", NEW p, p \notin Names,
         NEW e \in Entities, NEW q,
         NEW chain, Agrees(V, absent, R, opens, s, chain, p),
         NEW v \in V, <<v, e>> \in R
  PROVE  /\ COK(Declared(s, e))
         /\ Agrees(V, absent, R, opens, Declared(s, e), Define(chain, e.name, v), q)
<1> DEFINE new == Define(chain, e.name, v)
<1>1. chain \in Seq(Tables(V)) /\ Len(chain) > 0 /\ e.name \in Names
  BY ChainTyped, RightValues
<1>2. /\ new \in Seq(Tables(V)) /\ Len(new) = Len(chain)
      /\ \A k \in 0 .. Len(chain) : \A y, a : Seen(new, k, y, a) =
           IF k = Len(chain) /\ y = e.name THEN v ELSE Seen(chain, k, y, a)
  BY <1>1, DefineSeen
<1> HIDE DEF new
<1>3. Len(chain) \in 0 .. Len(chain)
  BY <1>1
<1>4. <<Seen(new, Len(chain), e.name, absent[e.name]), e>> \in R
  BY <1>2, <1>3
<1>5. \A k \in 0 .. Len(chain), y \in Names : k # Len(chain) \/ y # e.name =>
           Seen(new, k, y, absent[y]) = Seen(chain, k, y, absent[y])
  BY <1>2
<1>6. QED BY <1>2, <1>4, <1>5, AgreesDeclared DEF new

\* A pass that does not.
LEMMA AgreesIgnored ==
  ASSUME NEW V, NEW absent, NEW R, NEW opens \in BOOLEAN,
         NEW s, COK(s), s[Len(s)].kind # "for", NEW p, p \notin Names,
         NEW e \in Entities, NEW q,
         NEW chain, Agrees(V, absent, R, opens, s, chain, p),
         \/ ~ opens /\ q = e.name
         \/ <<Seen(chain, Len(chain), e.name, absent[e.name]), e>> \in R
  PROVE  COK(Declared(s, e)) /\ Agrees(V, absent, R, opens, Declared(s, e), chain, q)
<1>1. chain \in Seq(Tables(V))
  BY DEF Agrees
<1>2. QED BY <1>1, AgreesDeclared

\* A declaration keeps the facts about functions and identities of file scope.
LEMMA FileScopeDeclared ==
  ASSUME NEW s, COK(s), FileScope(s), NEW e \in Entities,
         e.name \in DOMAIN s[Len(s)].names => Len(s) = 1 /\ s[1].names[e.name] = e,
         Len(s) = 1 /\ e.kind \in {"var", "func"} => e.id = 0
  PROVE  FileScope(Declared(s, e))
<1> DEFINE t == Declared(s, e)
<1>1. s \in Seq(CScopes) /\ Len(s) > 0 /\ Nested(s) /\ Len(s) \in Nat
  BY DEF COK
<1>2. /\ Len(t) = Len(s)
      /\ \A j \in 1 .. Len(s) - 1 : t[j] = s[j]
      /\ t[Len(s)].fn = s[Len(s)].fn
      /\ t[Len(s)].names = With(s[Len(s)].names, e.name, e)
      /\ t[Len(s)].unsure = s[Len(s)].unsure \ {e.name}
  BY <1>1, DeclaredFacts
<1> HIDE DEF t
<1>3. CASE Len(s) = 1
  <2>1. t[1].names = With(s[1].names, e.name, e) /\ t[1].unsure = s[1].unsure \ {e.name}
    BY <1>2, <1>3
  <2>2. FileScope(t)
    BY <2>1, <1>2, <1>3 DEF FileScope, With
  <2>3. QED BY <2>2 DEF t
<1>4. CASE Len(s) > 1
  <2>1. t[1] = s[1] /\ t[2].fn = s[2].fn
    BY <1>1, <1>2, <1>4
  <2>2. FileScope(t)
    BY <2>1, <1>2, <1>4 DEF FileScope
  <2>3. QED BY <2>2 DEF t
<1>5. Len(s) = 1 \/ Len(s) > 1
  <2> DEFINE n == Len(s)
  <2>1. n \in Nat /\ n > 0
    BY <1>1
  <2> HIDE DEF n
  <2>2. n = 1 \/ n > 1
    BY <2>1
  <2>3. QED BY <2>2 DEF n
<1>6. QED BY <1>3, <1>4, <1>5

-----------------------------------------------------------------------------
(* What every step starts from *)

\* A chain has one scope at file scope and at least three in a function: no
\* pass ever pops its global scope.
LEMMA AtDepth ==
  ASSUME NEW s, COK(s), NEW opens \in BOOLEAN
  PROVE  /\ Len(s) = 1 => Depth(s, Len(s), opens) = 1
         /\ Len(s) > 1 => Depth(s, Len(s), opens) \in Nat /\ Depth(s, Len(s), opens) >= 3
<1> DEFINE n == Len(s)
           a == Depth(s, n, opens)
<1>1. s \in Seq(CScopes) /\ Nested(s) /\ n \in Nat \ {0} /\ n \in 1 .. n
  BY DEF COK
<1>2. a \in Nat
  BY <1>1, DepthFacts
<1>3. n = 1 => a = 1
  BY <1>1, DepthFacts
<1>4. ASSUME n > 1
      PROVE  Depth(s, 2, opens) = 3 /\ Depth(s, 2, opens) <= a
  <2>1. 2 \in 1 .. Len(s) /\ 2 \in 1 .. n
    BY <1>1, <1>4
  <2>2. QED BY <1>1, <2>1, DepthFacts
<1> HIDE DEF n, a
<1>5. n > 1 => a >= 3
  BY <1>2, <1>4
<1>6. QED BY <1>2, <1>3, <1>5 DEF n, a

\* Where the program is, read off the number of C's open scopes.
LEMMA ScopeFacts ==
  ASSUME IInv
  PROVE  /\ COK(c) /\ c \in Seq(CScopes) /\ Nested(c)
         /\ Len(c) \in Nat \ {0} /\ Len(c) > 0 /\ Len(c) \in 1 .. Len(c)
         /\ Inner = c[Len(c)] /\ Inner \in CScopes
         /\ Inner.kind = "file" <=> AtFile
         /\ Inner.kind = "body" <=> Len(c) = 2
         /\ Inner.kind \in {"block", "for"} => Len(c) > 2
         /\ pending = NoName => pending \notin Names
<1>0. COK(c)
  BY DEF IInv
<1>1. /\ c \in Seq(CScopes) /\ Nested(c) /\ Len(c) \in Nat \ {0} /\ Len(c) > 0
      /\ Len(c) \in 1 .. Len(c)
  BY <1>0 DEF COK
<1>2. Inner = c[Len(c)] /\ Inner \in CScopes
  BY <1>1, ElementOfSeq DEF Inner
<1>3. (Inner.kind = "file" <=> Len(c) = 1) /\ (Inner.kind = "body" <=> Len(c) = 2)
  BY <1>1 DEF Nested, Inner
<1> DEFINE n == Len(c)
<1>4. n \in Nat \ {0}
  BY <1>1
<1> HIDE DEF n
<1>5. n # 1 /\ n # 2 => n > 2
  BY <1>4
<1>6. Inner.kind \in {"block", "for"} => n > 2
  BY <1>3, <1>5 DEF n
<1>7. QED BY <1>0, <1>1, <1>2, <1>3, <1>6, ScopesAssumption DEF n, AtFile

\* The three chains, their types and lengths.
LEMMA ChainFacts ==
  ASSUME IInv
  PROVE  /\ sema \in Seq(Tables(Entities)) /\ Len(sema) \in Nat \ {0}
         /\ Len(sema) = Depth(c, Len(c), FALSE)
         /\ parser \in Seq(Tables(Symbols)) /\ Len(parser) \in Nat \ {0}
         /\ Len(parser) = Depth(c, Len(c), FALSE)
         /\ ir \in Seq(Tables(Addresses)) /\ Len(ir) \in Nat \ {0}
         /\ Len(ir) = Depth(c, Len(c), TRUE)
<1>1. COK(c)
  BY DEF IInv
<1>2. sema \in Seq(Tables(Entities)) /\ Len(sema) \in Nat \ {0} /\ Len(sema) = Depth(c, Len(c), FALSE)
  BY <1>1, ChainTyped DEF IInv
<1>3. parser \in Seq(Tables(Symbols)) /\ Len(parser) \in Nat \ {0} /\ Len(parser) = Depth(c, Len(c), FALSE)
  BY <1>1, ChainTyped DEF IInv
<1>4. ir \in Seq(Tables(Addresses)) /\ Len(ir) \in Nat \ {0} /\ Len(ir) = Depth(c, Len(c), TRUE)
  BY <1>1, ChainTyped DEF IInv
<1>5. QED BY <1>2, <1>3, <1>4

\* The entity a declaration makes.
LEMMA EntityFacts ==
  ASSUME IInv, NEW kind \in Symbols, NEW x \in Names,
         ids + 1 <= MaxIds \/ (AtFile /\ kind \in {"var", "func"})
  PROVE  /\ Entity(kind, x) \in Entities
         /\ Entity(kind, x).name = x /\ Entity(kind, x).kind = kind
         /\ AtFile /\ kind \in {"var", "func"} => Entity(kind, x).id = 0
<1>1. ids \in 0 .. MaxIds /\ MaxIds \in Nat
  BY ScopesAssumption DEF IInv
<1>2. QED BY <1>1 DEF Entity, Entities, Symbols

\* A new identity is within the bound.
LEMMA NumberedFacts ==
  ASSUME IInv, NEW kind \in Symbols, NEW x \in Names, Numbered(Entity(kind, x))
  PROVE  /\ ids' \in 0 .. MaxIds
         /\ ids + 1 <= MaxIds \/ (AtFile /\ kind \in {"var", "func"})
<1>1. ids \in 0 .. MaxIds /\ MaxIds \in Nat
  BY ScopesAssumption DEF IInv
<1>2. QED BY <1>1 DEF Entity, Numbered

\* C after a declaration.
LEMMA DeclareC ==
  ASSUME IInv, NEW e \in Entities, CanDeclare(e),
         AtFile /\ e.kind \in {"var", "func"} => e.id = 0
  PROVE  /\ pending \notin Names /\ COK(c) /\ c[Len(c)].kind # "for"
         /\ FileScope(Declared(c, e)) /\ Len(Declared(c, e)) = Len(c)
         /\ Declared(c, e)[Len(c)].names = With(Inner.names, e.name, e)
<1>1. pending \notin Names /\ c[Len(c)].kind # "for"
  BY ScopesAssumption DEF CanDeclare, Inner
<1>2. COK(c) /\ FileScope(c) /\ c \in Seq(CScopes) /\ Nested(c) /\ Len(c) > 0
  BY DEF IInv, COK
<1>3. FileScope(Declared(c, e))
  <2>1. /\ e.name \in DOMAIN c[Len(c)].names => Len(c) = 1 /\ c[1].names[e.name] = e
        /\ Len(c) = 1 /\ e.kind \in {"var", "func"} => e.id = 0
    BY DEF CanDeclare, Inner, AtFile
  <2>2. QED BY <2>1, <1>2, FileScopeDeclared
<1>4. QED BY <1>1, <1>2, <1>3, DeclaredFacts DEF Inner

\* The IR generator's globals after a definition.
LEMMA GlobalsDefined ==
  ASSUME IInv, NEW x \in Names, NEW v \in Addresses, NEW chain, chain = ir,
         AtFile => v = Address([name |-> x, id |-> 0])
  PROVE  Globals(Define(chain, x, v))
<1> DEFINE new == Define(chain, x, v)
           n == Len(chain)
<1>1. chain \in Seq(Tables(Addresses)) /\ n \in Nat \ {0}
  BY ChainFacts
<1>2. COK(c) /\ Globals(chain) /\ Len(c) \in Nat \ {0}
  BY ScopeFacts DEF IInv
<1>4. /\ \A j \in 1 .. n - 1 : new[j] = chain[j]
      /\ new[n] = With(chain[n], x, v)
  <2>1. Len(chain) > 0
    BY <1>1
  <2>2. QED BY <1>1, <2>1, DefineSeen
<1>5. n = 1 => AtFile
  <2> DEFINE m == Len(c)
  <2> DEFINE a == Depth(c, m, TRUE)
  <2>1. m > 1 => a >= 3
    BY <1>2, AtDepth
  <2>2. m \in Nat \ {0}
    BY <1>2
  <2>3. n = a
    BY ChainFacts
  <2> HIDE DEF a, m, n
  <2>4. n = 1 => m = 1
    BY <2>1, <2>2, <2>3
  <2>5. QED BY <2>4 DEF m, AtFile
<1> HIDE DEF new, n
<1>6. CASE n = 1
  <2>1. v = Address([name |-> x, id |-> 0])
    BY <1>5, <1>6
  <2>2. new[1] = With(chain[1], x, v)
    BY <1>4, <1>6
  <2>3. Globals(new)
    BY <2>1, <2>2, <1>2 DEF Globals, With
  <2>4. QED BY <2>3 DEF new
<1>7. CASE n > 1
  <2>1. 1 \in 1 .. n - 1
    BY <1>1, <1>7
  <2>2. new[1] = chain[1]
    BY <2>1, <1>4
  <2>3. Globals(new)
    BY <2>2, <1>2 DEF Globals
  <2>4. QED BY <2>3 DEF new
<1>8. n = 1 \/ n > 1
  BY <1>1
<1>9. QED BY <1>6, <1>7, <1>8

\* A pass whose for statements are scopes has no excuses.
LEMMA AgreesAlways ==
  ASSUME NEW V, NEW absent, NEW R, NEW s, NEW chain, NEW p, NEW q,
         Agrees(V, absent, R, TRUE, s, chain, p)
  PROVE  Agrees(V, absent, R, TRUE, s, chain, q)
  BY DEF Agrees, Excused

\* Every chain starts as file scope with nothing in it.
LEMMA InitInv == Init => IInv
<1> SUFFICES ASSUME Init PROVE IInv
  OBVIOUS
<1> DEFINE d == CScope("file", NoName, Empty)
<1>1. d \in CScopes
  <2>1. Empty \in NameTables
    BY EmptyTable DEF NameTables
  <2>2. QED BY <2>1 DEF CScope, CScopes
<1>2. d.kind = "file" /\ d.names = Empty /\ d.unsure = {}
  BY DEF CScope
<1> HIDE DEF d
<1>3. c = <<d>> /\ Len(c) = 1 /\ c[1] = d
  BY DEF Init, d
<1>4. COK(c)
  BY <1>1, <1>2, <1>3 DEF COK, Nested
<1>5. FileScope(c)
  BY <1>2, <1>3, EmptyTable DEF FileScope
<1>6. Globals(ir)
  BY EmptyTable DEF Globals, Init
<1>7. \A x : CSeen(c, 1, x) = Undeclared
  <2>1. ASSUME NEW x
        PROVE  CSeen(c, 1, x) = Undeclared
    <3>1. c \in Seq(CScopes) /\ 1 \in 1 .. Len(c) /\ x \notin DOMAIN c[1].names /\ 1 - 1 = 0
      BY <1>2, <1>3, <1>4, EmptyTable DEF COK
    <3>2. QED BY <3>1, CSeenStep, CSeenOutside
  <2>2. QED BY <2>1
<1>8. ASSUME NEW V, NEW absent, NEW R, NEW opens \in BOOLEAN,
             \A x \in Names : <<absent[x], Undeclared>> \in R
      PROVE  Agrees(V, absent, R, opens, c, <<Empty>>, pending)
  <2> DEFINE chain == <<Empty>>
  <2>1. /\ chain \in Seq(Tables(V)) /\ Len(chain) = 1 /\ chain[1] = Empty
        /\ 1 \in 0 .. Len(chain)
    BY EmptyTable
  <2> HIDE DEF chain
  <2>2. Depth(c, 1, opens) = 1
    BY <1>3, <1>4, AtDepth
  <2>3. ASSUME NEW x, NEW a
        PROVE  Seen(chain, 1, x, a) = a
    <3>1. \A j \in 1 .. 1 : x \notin DOMAIN chain[j]
      BY <2>1, EmptyTable
    <3>2. QED BY <3>1, <2>1, SeenFacts
  <2>4. \A i \in 1 .. Len(c) : i = 1
    BY <1>3
  <2>5. Agrees(V, absent, R, opens, c, chain, pending)
    BY <1>3, <1>7, <1>8, <2>1, <2>2, <2>3, <2>4 DEF Agrees
  <2>6. QED BY <2>5 DEF chain
<1>9. Undeclared \in Meanings /\ Undeclared.kind = "undeclared"
  BY DEF Undeclared, Meanings
<1>10. Agrees(Entities, SemaAbsent, SemaRight, FALSE, c, sema, pending)
  <2>1. \A x \in Names : <<SemaAbsent[x], Undeclared>> \in SemaRight
    BY <1>9 DEF SemaAbsent, SemaRight
  <2>2. QED BY <2>1, <1>8 DEF Init
<1>11. Agrees(Symbols, ParserAbsent, ParserRight, FALSE, c, parser, pending)
  <2>1. \A x \in Names : <<ParserAbsent[x], Undeclared>> \in ParserRight
    BY <1>9 DEF ParserAbsent, ParserRight
  <2>2. QED BY <2>1, <1>8 DEF Init
<1>12. Agrees(Addresses, IrAbsent, IrRight, TRUE, c, ir, pending)
  <2>1. \A x \in Names : <<IrAbsent[x], Undeclared>> \in IrRight
    BY <1>9 DEF IrAbsent, IrRight, Address, Addresses
  <2>2. QED BY <2>1, <1>8 DEF Init
<1>13. pending = NoName /\ ids \in 0 .. MaxIds
  BY ScopesAssumption DEF Init
<1>14. QED BY <1>4, <1>5, <1>6, <1>10, <1>11, <1>12, <1>13 DEF IInv

-----------------------------------------------------------------------------
(* Declarations *)

\* One declaration, as each pass may follow it: the pass defines the name, or
\* has not reached it yet (it is pending), or does not keep names of its kind.
LEMMA Declares ==
  ASSUME IInv, NEW e \in Entities, CanDeclare(e),
         AtFile /\ e.kind \in {"var", "func"} => e.id = 0, NEW q
  PROVE  /\ COK(Declared(c, e)) /\ FileScope(Declared(c, e))
         /\ Declared(c, e)[Len(Declared(c, e))].names = With(Inner.names, e.name, e)
         /\ Agrees(Entities, SemaAbsent, SemaRight, FALSE, Declared(c, e),
                   Define(sema, e.name, e), q)
         /\ \A kind \in Symbols : <<kind, e>> \in ParserRight =>
              Agrees(Symbols, ParserAbsent, ParserRight, FALSE, Declared(c, e),
                     Define(parser, e.name, kind), q)
         /\ Agrees(Addresses, IrAbsent, IrRight, TRUE, Declared(c, e),
                   Define(ir, e.name, Address(e)), q)
         /\ e.name = q =>
              /\ Agrees(Entities, SemaAbsent, SemaRight, FALSE, Declared(c, e), sema, q)
              /\ Agrees(Symbols, ParserAbsent, ParserRight, FALSE, Declared(c, e), parser, q)
         /\ e.kind \notin {"var", "func"} =>
              Agrees(Addresses, IrAbsent, IrRight, TRUE, Declared(c, e), ir, q)
<1>1. /\ pending \notin Names /\ COK(c) /\ c[Len(c)].kind # "for"
      /\ FileScope(Declared(c, e)) /\ Len(Declared(c, e)) = Len(c)
      /\ Declared(c, e)[Len(c)].names = With(Inner.names, e.name, e)
  BY DeclareC
<1>2. /\ <<e, e>> \in SemaRight
      /\ Address(e) \in Addresses /\ <<Address(e), e>> \in IrRight
      /\ e.name \in Names
  BY RightValues
<1>3. TRUE \in BOOLEAN /\ FALSE \in BOOLEAN
  OBVIOUS
<1>4. /\ Agrees(Entities, SemaAbsent, SemaRight, FALSE, c, sema, pending)
      /\ Agrees(Symbols, ParserAbsent, ParserRight, FALSE, c, parser, pending)
      /\ Agrees(Addresses, IrAbsent, IrRight, TRUE, c, ir, pending)
  BY DEF IInv
<1>5. /\ COK(Declared(c, e))
      /\ Agrees(Entities, SemaAbsent, SemaRight, FALSE, Declared(c, e),
                Define(sema, e.name, e), q)
  BY <1>1, <1>2, <1>3, <1>4, AgreesDefined
<1>6. ASSUME NEW kind \in Symbols, <<kind, e>> \in ParserRight
      PROVE  Agrees(Symbols, ParserAbsent, ParserRight, FALSE, Declared(c, e),
                    Define(parser, e.name, kind), q)
  BY <1>1, <1>3, <1>4, <1>6, AgreesDefined
<1>7. Agrees(Addresses, IrAbsent, IrRight, TRUE, Declared(c, e),
             Define(ir, e.name, Address(e)), q)
  <2>1. PICK v \in Addresses : v = Address(e)
    BY <1>2
  <2>2. <<v, e>> \in IrRight
    BY <2>1, <1>2
  <2>3. Agrees(Addresses, IrAbsent, IrRight, TRUE, Declared(c, e), Define(ir, e.name, v), q)
    BY <2>2, <1>1, <1>3, <1>4, AgreesDefined
  <2>4. QED BY <2>1, <2>3
<1>8. ASSUME e.name = q
      PROVE  /\ Agrees(Entities, SemaAbsent, SemaRight, FALSE, Declared(c, e), sema, q)
             /\ Agrees(Symbols, ParserAbsent, ParserRight, FALSE, Declared(c, e), parser, q)
  <2>1. ~ FALSE /\ q = e.name
    BY <1>8
  <2>2. Agrees(Entities, SemaAbsent, SemaRight, FALSE, Declared(c, e), sema, q)
    BY <2>1, <1>1, <1>3, <1>4, AgreesIgnored
  <2>3. Agrees(Symbols, ParserAbsent, ParserRight, FALSE, Declared(c, e), parser, q)
    BY <2>1, <1>1, <1>3, <1>4, AgreesIgnored
  <2>4. QED BY <2>2, <2>3
<1>9. ASSUME e.kind \notin {"var", "func"}
      PROVE  Agrees(Addresses, IrAbsent, IrRight, TRUE, Declared(c, e), ir, q)
  <2>1. PICK a : a = Seen(ir, Len(ir), e.name, IrAbsent[e.name])
    OBVIOUS
  <2>2. a \in Addresses
    <3>1. IrAbsent[e.name] \in Addresses
      BY <1>2 DEF IrAbsent, Address, Addresses
    <3>2. ir \in Seq(Tables(Addresses)) /\ Len(ir) \in 0 .. Len(ir)
      BY ChainFacts
    <3>3. a \in Addresses \union {IrAbsent[e.name]}
      BY <2>1, <3>2, SeenTyped
    <3>4. QED BY <3>1, <3>3
  <2>3. <<a, e>> \in IrRight
    BY <2>2, <1>9 DEF IrRight, Meanings
  <2>4. <<Seen(ir, Len(ir), e.name, IrAbsent[e.name]), e>> \in IrRight
    BY <2>1, <2>3
  <2>5. QED BY <2>4, <1>1, <1>3, <1>4, AgreesIgnored
<1>10. QED BY <1>1, <1>5, <1>6, <1>7, <1>8, <1>9

\* A variable up to its initializer: only the IR generator knows it (irgen.c:1117).
LEMMA BeginVarStep ==
  ASSUME IInv, NEW x \in Names, BeginVar(x)
  PROVE  IInv'
<1> DEFINE e == Entity("var", x)
<1>1. /\ CanDeclare(e) /\ Numbered(e) /\ c' = Declared(c, e)
      /\ ir' = Define(ir, x, Address(e)) /\ pending' = x /\ parser' = parser /\ sema' = sema
  BY DEF BeginVar
<1>2. "var" \in Symbols
  BY DEF Symbols
<1>3. ids' \in 0 .. MaxIds /\ (ids + 1 <= MaxIds \/ (AtFile /\ "var" \in {"var", "func"}))
  BY <1>1, <1>2, NumberedFacts
<1>4. e \in Entities /\ e.name = x /\ e.kind = "var" /\ (AtFile => e.id = 0)
  BY <1>2, <1>3, EntityFacts
<1> HIDE DEF e
<1>5. /\ COK(Declared(c, e)) /\ FileScope(Declared(c, e))
      /\ Declared(c, e)[Len(Declared(c, e))].names = With(Inner.names, e.name, e)
      /\ Agrees(Addresses, IrAbsent, IrRight, TRUE, Declared(c, e),
                Define(ir, e.name, Address(e)), x)
      /\ Agrees(Entities, SemaAbsent, SemaRight, FALSE, Declared(c, e), sema, x)
      /\ Agrees(Symbols, ParserAbsent, ParserRight, FALSE, Declared(c, e), parser, x)
  BY <1>1, <1>4, Declares
<1>6. Globals(Define(ir, x, Address(e)))
  <2>1. Address(e) \in Addresses
    BY <1>4, RightValues
  <2>2. AtFile => Address(e) = Address([name |-> x, id |-> 0])
    BY <1>4 DEF Address
  <2>3. QED BY <2>1, <2>2, GlobalsDefined
<1>7. pending' \in DOMAIN Inner'.names /\ Inner'.names[pending'].kind = "var"
  BY <1>1, <1>4, <1>5 DEF Inner, With
<1>8. QED BY <1>1, <1>3, <1>4, <1>5, <1>6, <1>7 DEF IInv

\* A prototype at file scope: a variable of function type to all three passes.
LEMMA PrototypeStep ==
  ASSUME IInv, NEW f \in Names, Prototype(f)
  PROVE  IInv'
<1> DEFINE e == Entity("func", f)
<1>1. /\ AtFile /\ CanDeclare(e) /\ c' = Declared(c, e) /\ parser' = Define(parser, f, "var")
      /\ sema' = Define(sema, f, e) /\ ir' = Define(ir, f, Address(e))
      /\ pending' = pending /\ pending = NoName /\ ids' = ids
  BY DEF Prototype, CanDeclare
<1>2. "func" \in Symbols /\ "var" \in Symbols
  BY DEF Symbols
<1>3. e \in Entities /\ e.name = f /\ e.kind = "func" /\ e.id = 0
  BY <1>1, <1>2, EntityFacts
<1> HIDE DEF e
<1>4. <<"var", e>> \in ParserRight
  BY <1>3, RightValues
<1>5. /\ COK(Declared(c, e)) /\ FileScope(Declared(c, e))
      /\ Agrees(Entities, SemaAbsent, SemaRight, FALSE, Declared(c, e),
                Define(sema, e.name, e), pending)
      /\ Agrees(Symbols, ParserAbsent, ParserRight, FALSE, Declared(c, e),
                Define(parser, e.name, "var"), pending)
      /\ Agrees(Addresses, IrAbsent, IrRight, TRUE, Declared(c, e),
                Define(ir, e.name, Address(e)), pending)
  BY <1>1, <1>2, <1>3, <1>4, Declares
<1>6. Globals(Define(ir, f, Address(e)))
  <2>1. Address(e) \in Addresses
    BY <1>3, RightValues
  <2>2. AtFile => Address(e) = Address([name |-> f, id |-> 0])
    BY <1>3 DEF Address
  <2>3. QED BY <2>1, <2>2, GlobalsDefined
<1>7. pending' \in Names \union {NoName} /\ pending' = NoName /\ ids' \in 0 .. MaxIds
  BY <1>1 DEF IInv
<1>8. QED BY <1>1, <1>3, <1>5, <1>6, <1>7 DEF IInv

\* A typedef: nothing for the IR generator.
LEMMA TypedefStep ==
  ASSUME IInv, NEW x \in Names, Typedef(x)
  PROVE  IInv'
<1> DEFINE e == Entity("typedef", x)
<1>1. /\ CanDeclare(e) /\ Numbered(e) /\ c' = Declared(c, e)
      /\ parser' = Define(parser, x, "typedef") /\ sema' = Define(sema, x, e)
      /\ ir' = ir /\ pending' = pending /\ pending = NoName
  BY DEF Typedef, CanDeclare
<1>2. "typedef" \in Symbols
  BY DEF Symbols
<1>3. ids' \in 0 .. MaxIds /\ (ids + 1 <= MaxIds \/ (AtFile /\ "typedef" \in {"var", "func"}))
  BY <1>1, <1>2, NumberedFacts
<1>4. e \in Entities /\ e.name = x /\ e.kind = "typedef"
  BY <1>2, <1>3, EntityFacts
<1> HIDE DEF e
<1>5. <<"typedef", e>> \in ParserRight
  BY <1>4, RightValues
<1>6. /\ COK(Declared(c, e)) /\ FileScope(Declared(c, e))
      /\ Agrees(Entities, SemaAbsent, SemaRight, FALSE, Declared(c, e),
                Define(sema, e.name, e), pending)
      /\ Agrees(Symbols, ParserAbsent, ParserRight, FALSE, Declared(c, e),
                Define(parser, e.name, "typedef"), pending)
      /\ Agrees(Addresses, IrAbsent, IrRight, TRUE, Declared(c, e), ir, pending)
  BY <1>1, <1>2, <1>4, <1>5, Declares
<1>7. pending' \in Names \union {NoName} /\ pending' = NoName /\ Globals(ir')
  BY <1>1 DEF IInv
<1>8. QED BY <1>1, <1>3, <1>4, <1>6, <1>7 DEF IInv

\* An enumeration constant: the analysis turned its uses into literals.
LEMMA EnumConstStep ==
  ASSUME IInv, NEW x \in Names, EnumConst(x)
  PROVE  IInv'
<1> DEFINE e == Entity("enum", x)
<1>1. /\ CanDeclare(e) /\ Numbered(e) /\ c' = Declared(c, e)
      /\ parser' = Define(parser, x, "enum") /\ sema' = Define(sema, x, e)
      /\ ir' = ir /\ pending' = pending /\ pending = NoName
  BY DEF EnumConst, CanDeclare
<1>2. "enum" \in Symbols
  BY DEF Symbols
<1>3. ids' \in 0 .. MaxIds /\ (ids + 1 <= MaxIds \/ (AtFile /\ "enum" \in {"var", "func"}))
  BY <1>1, <1>2, NumberedFacts
<1>4. e \in Entities /\ e.name = x /\ e.kind = "enum"
  BY <1>2, <1>3, EntityFacts
<1> HIDE DEF e
<1>5. <<"enum", e>> \in ParserRight
  BY <1>4, RightValues
<1>6. /\ COK(Declared(c, e)) /\ FileScope(Declared(c, e))
      /\ Agrees(Entities, SemaAbsent, SemaRight, FALSE, Declared(c, e),
                Define(sema, e.name, e), pending)
      /\ Agrees(Symbols, ParserAbsent, ParserRight, FALSE, Declared(c, e),
                Define(parser, e.name, "enum"), pending)
      /\ Agrees(Addresses, IrAbsent, IrRight, TRUE, Declared(c, e), ir, pending)
  BY <1>1, <1>2, <1>4, <1>5, Declares
<1>7. pending' \in Names \union {NoName} /\ pending' = NoName /\ Globals(ir')
  BY <1>1 DEF IInv
<1>8. QED BY <1>1, <1>3, <1>4, <1>6, <1>7 DEF IInv

\* An initializer ends: what the IR generator knows already becomes known.
LEMMA EndVarStep ==
  ASSUME IInv, EndVar
  PROVE  IInv'
<1> DEFINE n == Len(c)
<1>0. PICK x, e : x = pending /\ e = CLookup(pending)
  OBVIOUS
<1>1. /\ x # NoName /\ parser' = Define(parser, x, "var") /\ sema' = Define(sema, x, e)
      /\ pending' = NoName /\ c' = c /\ ir' = ir /\ ids' = ids
  BY <1>0 DEF EndVar
<1>2. /\ c \in Seq(CScopes) /\ Nested(c) /\ n \in Nat \ {0} /\ Inner \in CScopes /\ COK(c)
      /\ n \in 1 .. n /\ Inner = c[n]
  BY ScopeFacts
<1>3. x \in Names /\ x \in DOMAIN Inner.names /\ Inner.names[x].kind = "var"
  BY <1>0, <1>1 DEF IInv
<1>4. e = Inner.names[x] /\ CSeen(c, n, x) = e
  <2>1. e = CSeen(c, n, x)
    BY <1>0, <1>2, CLookupSeen
  <2>2. QED BY <2>1, <1>2, <1>3, CSeenStep
<1>5. e \in Entities /\ e.kind = "var"
  <2>1. Inner.names \in Tables(Entities)
    BY <1>2 DEF CScopes, NameTables
  <2>2. PICK tab : tab = Inner.names
    OBVIOUS
  <2>3. tab[x] \in Entities
    BY <2>1, <2>2, <1>3, TableFacts
  <2>4. QED BY <2>2, <2>3, <1>3, <1>4
<1>6. <<e, e>> \in SemaRight /\ <<"var", e>> \in ParserRight /\ "var" \in Symbols
  BY <1>5, RightValues DEF Symbols
<1>7. /\ Agrees(Entities, SemaAbsent, SemaRight, FALSE, c, sema, pending)
      /\ Agrees(Symbols, ParserAbsent, ParserRight, FALSE, c, parser, pending)
      /\ Agrees(Addresses, IrAbsent, IrRight, TRUE, c, ir, pending)
  BY DEF IInv
<1>8. ASSUME NEW V, NEW absent, NEW R, NEW chain, NEW v \in V, <<v, e>> \in R,
             Agrees(V, absent, R, FALSE, c, chain, pending)
      PROVE  Agrees(V, absent, R, FALSE, c, Define(chain, x, v), NoName)
  <2>1. chain \in Seq(Tables(V)) /\ Len(chain) > 0 /\ Len(chain) \in 0 .. Len(chain)
        /\ FALSE \in BOOLEAN
    <3>1. chain \in Seq(Tables(V)) /\ Len(chain) > 0 /\ FALSE \in BOOLEAN
      BY <1>2, <1>8, ChainTyped
    <3>2. QED BY <3>1
  <2> DEFINE new == Define(chain, x, v)
  <2>2. /\ new \in Seq(Tables(V)) /\ Len(new) = Len(chain)
        /\ \A k \in 0 .. Len(chain) : \A y, a : Seen(new, k, y, a) =
             IF k = Len(chain) /\ y = x THEN v ELSE Seen(chain, k, y, a)
    BY <2>1, <1>3, DefineSeen
  <2> HIDE DEF new
  <2>3. <<Seen(new, Len(chain), x, absent[x]), CSeen(c, Len(c), x)>> \in R
    BY <2>1, <2>2, <1>4, <1>8
  <2>4. x \in DOMAIN c[Len(c)].names \union c[Len(c)].unsure
    BY <1>2, <1>3
  <2>5. /\ pending \notin Names \/ pending = x
        /\ \A k \in 0 .. Len(chain), y \in Names : k # Len(chain) \/ y # x =>
             Seen(new, k, y, absent[y]) = Seen(chain, k, y, absent[y])
    BY <2>2, <1>0
  <2>6. Agrees(V, absent, R, FALSE, c, new, NoName)
    BY <2>1, <2>2, <2>3, <2>4, <2>5, <1>2, <1>3, <1>8, AgreesInner
  <2>7. QED BY <2>6 DEF new
<1>9. Agrees(Entities, SemaAbsent, SemaRight, FALSE, c, Define(sema, x, e), NoName)
  BY <1>5, <1>6, <1>7, <1>8
<1>10. Agrees(Symbols, ParserAbsent, ParserRight, FALSE, c, Define(parser, x, "var"), NoName)
  BY <1>6, <1>7, <1>8
<1>11. Agrees(Addresses, IrAbsent, IrRight, TRUE, c, ir, NoName)
  BY <1>7, AgreesAlways
<1>12. COK(c') /\ FileScope(c') /\ Globals(ir') /\ ids' \in 0 .. MaxIds
  BY <1>1 DEF IInv
<1>13. QED BY <1>1, <1>9, <1>10, <1>11, <1>12 DEF IInv

\* More names of the innermost scope become unsure.
MoreUnsure(s, X) == [s EXCEPT ![Len(s)].unsure = @ \union X]

\* Marking names unsure changes neither scopes nor what C means by a name.
LEMMA MoreUnsureFacts ==
  ASSUME NEW s \in Seq(CScopes), Nested(s), Len(s) > 0, NEW X \in SUBSET Names
  PROVE  /\ MoreUnsure(s, X) \in Seq(CScopes) /\ Len(MoreUnsure(s, X)) = Len(s)
         /\ \A j \in 1 .. Len(s) - 1 : MoreUnsure(s, X)[j] = s[j]
         /\ MoreUnsure(s, X)[Len(s)].kind = s[Len(s)].kind
         /\ MoreUnsure(s, X)[Len(s)].fn = s[Len(s)].fn
         /\ MoreUnsure(s, X)[Len(s)].names = s[Len(s)].names
         /\ MoreUnsure(s, X)[Len(s)].unsure = s[Len(s)].unsure \union X
         /\ \A x : CSeen(MoreUnsure(s, X), Len(s), x) = CSeen(s, Len(s), x)
         /\ \A x : UnsureAt(MoreUnsure(s, X), Len(s), x) <=> x \in X \/ UnsureAt(s, Len(s), x)
<1> DEFINE n == Len(s)
           inner == s[n]
           new == [inner EXCEPT !.unsure = inner.unsure \union X]
           t == MoreUnsure(s, X)
<1>1. n \in 1 .. n /\ inner \in CScopes
  BY ElementOfSeq
<1>2. t = [s EXCEPT ![n] = new]
  BY <1>1 DEF MoreUnsure, CScopes
<1>3. /\ new \in CScopes /\ new.kind = inner.kind /\ new.fn = inner.fn
      /\ new.names = inner.names /\ new.unsure = inner.unsure \union X
  <2> HIDE DEF inner
  <2>1. QED BY <1>1 DEF CScopes
<1> HIDE DEF new, t
<1>4. /\ t \in Seq(CScopes) /\ Len(t) = n
      /\ \A j \in 1 .. n : t[j] = IF j = n THEN new ELSE s[j]
  BY <1>1, <1>2, <1>3, ExceptSeq
<1>5. t[n] = new /\ \A j \in 1 .. n - 1 : t[j] = s[j]
  BY <1>1, <1>4
<1>6. /\ \A x : CSeen(t, n - 1, x) = CSeen(s, n - 1, x)
      /\ \A x : UnsureAt(t, n - 1, x) <=> UnsureAt(s, n - 1, x)
  <2>1. n - 1 \in Nat /\ n - 1 <= Len(s) /\ n - 1 <= Len(t)
    BY <1>1, <1>4
  <2>2. QED BY <2>1, <1>4, <1>5, SameBelow
<1>7. ASSUME NEW x
      PROVE  /\ CSeen(t, n, x) = CSeen(s, n, x)
             /\ UnsureAt(t, n, x) <=> x \in X \/ UnsureAt(s, n, x)
  <2>1. /\ CSeen(t, n, x) = IF x \in DOMAIN new.names THEN new.names[x] ELSE CSeen(t, n - 1, x)
        /\ CSeen(s, n, x) = IF x \in DOMAIN inner.names THEN inner.names[x] ELSE CSeen(s, n - 1, x)
    BY <1>1, <1>4, <1>5, CSeenStep
  <2>2. n \in Nat \ {0}
    BY <1>1
  <2>3. /\ UnsureAt(t, n, x) <=> x \in new.unsure \/ (x \notin DOMAIN new.names /\ UnsureAt(t, n - 1, x))
        /\ UnsureAt(s, n, x) <=> x \in inner.unsure \/ (x \notin DOMAIN inner.names /\ UnsureAt(s, n - 1, x))
    BY <1>5, <2>2, UnsureStep
  <2>4. QED BY <2>1, <2>3, <1>3, <1>6
<1>8. QED BY <1>3, <1>4, <1>5, <1>7 DEF t

\* An enumerator C remembers is an entity of an open scope.
LEMMA EnumsFacts ==
  ASSUME IInv, NEW e \in EnumsDeclared
  PROVE  /\ e \in Entities /\ e.kind = "enum"
         /\ Len(c) = 1 => e.name \in DOMAIN c[1].names /\ c[1].names[e.name].kind = "enum"
<1>1. PICK i \in 1 .. Len(c) :
        e \in {c[i].names[x] : x \in {y \in DOMAIN c[i].names : c[i].names[y].kind = "enum"}}
  BY DEF EnumsDeclared
<1>2. PICK x \in DOMAIN c[i].names : e = c[i].names[x] /\ c[i].names[x].kind = "enum"
  BY <1>1
<1>3. c[i] \in CScopes
  BY ElementOfSeq DEF IInv, COK
<1>4. PICK t : t = c[i].names
  OBVIOUS
<1>5. t \in Tables(Entities) /\ \A y \in DOMAIN t : t[y].name = y
  BY <1>3, <1>4 DEF CScopes, NameTables
<1>6. t[x] \in Entities /\ t[x].name = x
  BY <1>2, <1>4, <1>5, TableFacts
<1>7. Len(c) = 1 => i = 1
  OBVIOUS
<1>8. QED BY <1>2, <1>4, <1>6, <1>7

\* Naming an enum type again: the analysis defines its constants once more, in
\* the scope the text is in (parser.c:1669, sema.c:635).
LEMMA EnumRefStep ==
  ASSUME IInv, NEW e \in EnumsDeclared, EnumRef(e)
  PROVE  IInv'
<1> DEFINE n == Len(c)
<1>0. PICK x, t : x = e.name /\ t = MoreUnsure(c, {x})
  OBVIOUS
<1>1. /\ pending = NoName /\ Inner.kind # "for"
      /\ sema' = Define(sema, x, e) /\ c' = t
      /\ parser' = parser /\ ir' = ir /\ pending' = pending /\ ids' = ids
  BY <1>0 DEF EnumRef, MoreUnsure
<1>2. /\ c \in Seq(CScopes) /\ Nested(c) /\ n \in Nat \ {0} /\ COK(c) /\ Len(c) > 0
      /\ n \in 1 .. n /\ Inner = c[n] /\ (pending = NoName => pending \notin Names)
  BY ScopeFacts
<1>3. /\ e \in Entities /\ x \in Names
      /\ Len(c) = 1 => x \in DOMAIN c[1].names /\ c[1].names[x].kind = "enum"
  BY <1>0, EnumsFacts, RightValues
<1>4. /\ t \in Seq(CScopes) /\ Len(t) = Len(c)
      /\ \A j \in 1 .. Len(c) - 1 : t[j] = c[j]
      /\ t[Len(c)].kind = c[Len(c)].kind /\ t[Len(c)].fn = c[Len(c)].fn
      /\ t[Len(c)].names = c[Len(c)].names
      /\ t[Len(c)].unsure = c[Len(c)].unsure \union {x}
      /\ \A y : CSeen(t, Len(c), y) = CSeen(c, Len(c), y)
      /\ \A y : UnsureAt(t, Len(c), y) <=> y \in {x} \/ UnsureAt(c, Len(c), y)
  BY <1>0, <1>2, <1>3, MoreUnsureFacts
<1>5. /\ Agrees(Entities, SemaAbsent, SemaRight, FALSE, c, sema, pending)
      /\ Agrees(Symbols, ParserAbsent, ParserRight, FALSE, c, parser, pending)
      /\ Agrees(Addresses, IrAbsent, IrRight, TRUE, c, ir, pending)
  BY DEF IInv
<1>6. ASSUME NEW V, NEW absent, NEW R, NEW opens \in BOOLEAN, NEW chain,
             Agrees(V, absent, R, opens, c, chain, pending),
             NEW new \in Seq(Tables(V)), Len(new) = Len(chain),
             \A k \in 0 .. Len(chain), y \in Names : k # Len(chain) \/ y # x =>
               Seen(new, k, y, absent[y]) = Seen(chain, k, y, absent[y]),
             opens => new = chain
      PROVE  COK(t) /\ Agrees(V, absent, R, opens, t, new, pending)
  <2>1. \/ Excused(opens, t, pending, Len(c), x)
        \/ <<Seen(new, Len(chain), x, absent[x]), CSeen(t, Len(c), x)>> \in R
    <3>1. CASE ~ opens
      BY <3>1, <1>4 DEF Excused
    <3>2. CASE opens
      <4>1. Len(chain) = Depth(c, n, opens)
        BY <1>2, <1>6 DEF Agrees
      <4>2. <<Seen(chain, Depth(c, n, opens), x, absent[x]), CSeen(c, n, x)>> \in R
        BY <3>2, <1>2, <1>3, <1>6 DEF Agrees, Excused
      <4>3. QED BY <4>1, <4>2, <3>2, <1>4, <1>6
    <3>3. QED BY <3>1, <3>2
  <2>2. x \in DOMAIN t[Len(c)].names \union t[Len(c)].unsure
    BY <1>4
  <2>3. /\ pending \notin Names \/ pending = x
        /\ c[Len(c)].kind # "for" \/ t = c
        /\ \A y \in Names : y # x =>
             /\ CSeen(t, Len(c), y) = CSeen(c, Len(c), y)
             /\ UnsureAt(c, Len(c), y) => UnsureAt(t, Len(c), y)
    BY <1>1, <1>2, <1>4
  <2>4. /\ Agrees(V, absent, R, opens, c, chain, pending) /\ Len(new) = Len(chain)
        /\ \A k \in 0 .. Len(chain), y \in Names : k # Len(chain) \/ y # x =>
             Seen(new, k, y, absent[y]) = Seen(chain, k, y, absent[y])
    BY <1>6
  <2>5. /\ t \in Seq(CScopes) /\ Len(t) = Len(c)
        /\ \A j \in 1 .. Len(c) - 1 : t[j] = c[j]
        /\ t[Len(c)].kind = c[Len(c)].kind
    BY <1>4
  <2>6. COK(c) /\ x \in Names
    BY <1>2, <1>3
  <2> HIDE DEF n
  <2>7. QED BY <2>1, <2>2, <2>3, <2>4, <2>5, <2>6, AgreesInner
<1>7. /\ sema \in Seq(Tables(Entities)) /\ Len(sema) > 0
      /\ parser \in Seq(Tables(Symbols)) /\ ir \in Seq(Tables(Addresses))
      /\ TRUE \in BOOLEAN /\ FALSE \in BOOLEAN
  BY <1>2, <1>5, ChainTyped
<1>8. COK(t) /\ Agrees(Entities, SemaAbsent, SemaRight, FALSE, t, Define(sema, x, e), pending)
  <2> DEFINE new == Define(sema, x, e)
  <2>1. /\ new \in Seq(Tables(Entities)) /\ Len(new) = Len(sema)
        /\ \A k \in 0 .. Len(sema) : \A y, a : Seen(new, k, y, a) =
             IF k = Len(sema) /\ y = x THEN e ELSE Seen(sema, k, y, a)
    BY <1>3, <1>7, DefineSeen
  <2> HIDE DEF new
  <2>2. \A k \in 0 .. Len(sema), y \in Names : k # Len(sema) \/ y # x =>
          Seen(new, k, y, SemaAbsent[y]) = Seen(sema, k, y, SemaAbsent[y])
    BY <2>1
  <2>3. COK(t) /\ Agrees(Entities, SemaAbsent, SemaRight, FALSE, t, new, pending)
    BY <2>1, <2>2, <1>5, <1>6, <1>7
  <2>4. QED BY <2>3 DEF new
<1>9. Agrees(Symbols, ParserAbsent, ParserRight, FALSE, t, parser, pending)
  BY <1>5, <1>6, <1>7
<1>10. Agrees(Addresses, IrAbsent, IrRight, TRUE, t, ir, pending)
  BY <1>5, <1>6, <1>7
<1>11. FileScope(t)
  <2>1. FileScope(c)
    BY DEF IInv
  <2>2. CASE n = 1
    BY <2>1, <2>2, <1>3, <1>4 DEF FileScope
  <2>3. CASE n > 1
    <3>1. t[1] = c[1]
      BY <2>3, <1>2, <1>4
    <3>2. t[2].fn = c[2].fn
      <4>1. CASE n = 2
        BY <4>1, <1>4
      <4>2. CASE n > 2
        BY <4>2, <1>2, <1>4
      <4>3. n = 2 \/ n > 2
        <5>1. n \in Nat
          BY <1>2
        <5> HIDE DEF n
        <5>2. QED BY <5>1, <2>3
      <4>4. QED BY <4>1, <4>2, <4>3
    <3>3. QED BY <3>1, <3>2, <2>1, <2>3, <1>4 DEF FileScope
  <2>4. n = 1 \/ n > 1
    <3>1. n \in Nat \ {0}
      BY <1>2
    <3> HIDE DEF n
    <3>2. QED BY <3>1
  <2>5. QED BY <2>2, <2>3, <2>4
<1>12. pending' \in Names \union {NoName} /\ pending' = NoName /\ ids' \in 0 .. MaxIds
       /\ Globals(ir')
  BY <1>1 DEF IInv
<1>13. QED BY <1>1, <1>8, <1>9, <1>10, <1>11, <1>12 DEF IInv

-----------------------------------------------------------------------------
(* Scopes opened *)

\* Opening a scope leaves the names of file scope alone.
LEMMA GlobalsPushed ==
  ASSUME NEW chain, NEW S, chain \in Seq(S), Len(chain) \in Nat \ {0}, Globals(chain),
         NEW d \in S
  PROVE  Globals(Append(chain, d))
<1>1. 1 \in 1 .. Len(chain)
  OBVIOUS
<1>2. Append(chain, d)[1] = chain[1]
  BY <1>1, AppendProperties
<1>3. QED BY <1>2 DEF Globals

\* The first scope opened at file scope belongs to a function declared there.
LEMMA FileScopePushed ==
  ASSUME NEW s \in Seq(CScopes), Nested(s), Len(s) > 0, FileScope(s), NEW d \in CScopes,
         Len(s) = 1 => d.fn \in DOMAIN s[1].names /\ s[1].names[d.fn].kind = "func"
  PROVE  FileScope(Append(s, d))
<1> DEFINE t == Append(s, d)
           n == Len(s)
<1>1. n \in Nat \ {0} /\ \A j \in 1 .. n : t[j] = s[j]
  BY AppendProperties
<1>2. t[n + 1] = d
  BY AppendProperties
<1> HIDE DEF t
<1>3. CASE n = 1
  <2>1. t[1] = s[1] /\ t[2] = d
    BY <1>1, <1>2, <1>3
  <2>2. FileScope(t)
    BY <2>1, <1>3 DEF FileScope
  <2>3. QED BY <2>2 DEF t
<1>4. CASE n > 1
  <2>1. t[1] = s[1] /\ t[2] = s[2]
    BY <1>1, <1>4
  <2>2. FileScope(t)
    BY <2>1, <1>4 DEF FileScope
  <2>3. QED BY <2>2 DEF t
<1>5. n = 1 \/ n > 1
  <2> HIDE DEF n
  <2>1. QED BY <1>1
<1>6. QED BY <1>3, <1>4, <1>5

\* Every pass opens a scope for the block.
LEMMA EnterBlockStep ==
  ASSUME IInv, EnterBlock
  PROVE  IInv'
<1> DEFINE d == CScope("block", NoName, Empty)
<1>1. /\ pending = NoName /\ ~ AtFile /\ c' = Append(c, d)
      /\ parser' = Append(parser, Empty) /\ sema' = Append(sema, Empty) /\ ir' = Append(ir, Empty)
      /\ pending' = pending /\ ids' = ids
  BY DEF EnterBlock
<1>2. d \in CScopes /\ d.kind = "block" /\ d.unsure = {} /\ DOMAIN d.names = {}
  <2>1. Empty \in NameTables /\ DOMAIN Empty = {}
    BY EmptyTable DEF NameTables
  <2>2. QED BY <2>1 DEF CScope, CScopes
<1> HIDE DEF d
<1>3. /\ COK(c) /\ c \in Seq(CScopes) /\ Nested(c) /\ Len(c) > 0 /\ Len(c) # 1
      /\ pending \notin Names /\ Len(c) \in 1 .. Len(c)
  BY <1>1, ScopeFacts DEF AtFile
<1>4. ASSUME NEW V, NEW absent, NEW R, NEW opens \in BOOLEAN, NEW chain,
             Agrees(V, absent, R, opens, c, chain, pending)
      PROVE  COK(Append(c, d)) /\ Agrees(V, absent, R, opens, Append(c, d), Append(chain, Empty), pending)
  <2> DEFINE new == Append(chain, Empty)
             a == Depth(Append(c, d), Len(c) + 1, opens)
             b == Depth(c, Len(c), opens)
             m == Len(chain)
  <2>1. chain \in Seq(Tables(V)) /\ m \in Nat \ {0} /\ m = b
    BY <1>3, <1>4, ChainTyped
  <2>2. Empty \in Tables(V) /\ DOMAIN Empty = {}
    BY EmptyTable
  <2>3. /\ new \in Seq(Tables(V)) /\ Len(new) = m + 1
        /\ \A k \in 0 .. m : \A y, z : Seen(new, k, y, z) = Seen(chain, k, y, z)
        /\ \A y, z : Seen(new, m + 1, y, z) = Seen(chain, m, y, z)
    BY <2>1, <2>2, PushSeen
  <2>4. a = b + IF opens \/ d.kind # "for" THEN 1 ELSE 0
    BY <1>2, <1>3, Opened
  <2>5. a = b + 1
    BY <2>4, <1>2
  <2> HIDE DEF new, b, m
  <2>6. Len(new) = a
    BY <2>1, <2>3, <2>5
  <2> HIDE DEF a
  <2>7. \A k \in 0 .. Len(chain), y \in Names :
           k < Len(new) => Seen(new, k, y, absent[y]) = Seen(chain, k, y, absent[y])
    BY <2>3 DEF m
  <2>8. \A y \in Names \ DOMAIN d.names :
           Seen(new, Len(new), y, absent[y]) = Seen(chain, Len(chain), y, absent[y])
    BY <2>3 DEF m
  <2>9. \A y \in Names \cap DOMAIN d.names :
           \/ ~ opens /\ y = pending
           \/ <<Seen(new, Len(new), y, absent[y]), d.names[y]>> \in R
    BY <1>2
  <2>10. /\ Len(new) = Depth(Append(c, d), Len(c) + 1, opens)
         /\ new \in Seq(Tables(V))
         /\ d.kind # "file" /\ (d.kind = "body" <=> Len(c) = 1)
    BY <2>3, <2>6, <1>2, <1>3 DEF a
  <2>11. COK(Append(c, d)) /\ Agrees(V, absent, R, opens, Append(c, d), new, pending)
    BY <2>7, <2>8, <2>9, <2>10, <1>2, <1>3, <1>4, AgreesOpened
  <2>12. QED BY <2>11 DEF new
<1>5. /\ Agrees(Entities, SemaAbsent, SemaRight, FALSE, c, sema, pending)
      /\ Agrees(Symbols, ParserAbsent, ParserRight, FALSE, c, parser, pending)
      /\ Agrees(Addresses, IrAbsent, IrRight, TRUE, c, ir, pending)
      /\ TRUE \in BOOLEAN /\ FALSE \in BOOLEAN
  BY DEF IInv
<1>6. /\ COK(Append(c, d))
      /\ Agrees(Entities, SemaAbsent, SemaRight, FALSE, Append(c, d), Append(sema, Empty), pending)
      /\ Agrees(Symbols, ParserAbsent, ParserRight, FALSE, Append(c, d), Append(parser, Empty), pending)
      /\ Agrees(Addresses, IrAbsent, IrRight, TRUE, Append(c, d), Append(ir, Empty), pending)
  BY <1>4, <1>5
<1>7. FileScope(Append(c, d))
  <2>1. FileScope(c)
    BY DEF IInv
  <2>2. QED BY <2>1, <1>2, <1>3, FileScopePushed
<1>8. Globals(Append(ir, Empty))
  <2>1. Globals(ir)
    BY DEF IInv
  <2>2. QED BY <2>1, ChainFacts, EmptyTable, GlobalsPushed
<1>9. pending' \in Names \union {NoName} /\ pending' = NoName /\ ids' \in 0 .. MaxIds
  BY <1>1 DEF IInv
<1>10. QED BY <1>1, <1>6, <1>7, <1>8, <1>9 DEF IInv

\* Only the IR generator opens one for a for statement: the others have its
\* variable, when it is read, in the scope around.
LEMMA EnterForStep ==
  ASSUME IInv, NEW x \in Names, EnterFor(x)
  PROVE  IInv'
<1>0. PICK e, d : e = Entity("var", x) /\ d = CScope("for", NoName, With(Empty, x, e))
  OBVIOUS
<1>1. /\ pending = NoName /\ ~ AtFile /\ Numbered(e) /\ c' = Append(c, d)
      /\ ir' = Define(Append(ir, Empty), x, Address(e))
      /\ parser' = parser /\ sema' = sema /\ pending' = x
  BY <1>0 DEF EnterFor
<1>2. "var" \in Symbols
  BY DEF Symbols
<1>3. ids' \in 0 .. MaxIds /\ (ids + 1 <= MaxIds \/ (AtFile /\ "var" \in {"var", "func"}))
  BY <1>0, <1>1, <1>2, NumberedFacts
<1>4. e \in Entities /\ e.name = x /\ e.kind = "var"
  BY <1>0, <1>2, <1>3, EntityFacts
<1>5. /\ d \in CScopes /\ d.kind = "for" /\ d.unsure = {} /\ DOMAIN d.names = {x}
      /\ d.names[x] = e
  <2>1. Empty \in Tables(Entities) /\ DOMAIN Empty = {}
    BY EmptyTable
  <2>2. With(Empty, x, e) \in Tables(Entities)
    BY <2>1, <1>4, TableFacts
  <2>3. DOMAIN With(Empty, x, e) = {x} /\ With(Empty, x, e)[x] = e
    BY <2>1 DEF With
  <2> HIDE DEF With
  <2>4. With(Empty, x, e) \in NameTables
    BY <2>2, <2>3, <1>4 DEF NameTables
  <2>5. QED BY <2>3, <2>4, <1>0 DEF CScope, CScopes
<1>6. /\ COK(c) /\ c \in Seq(CScopes) /\ Nested(c) /\ Len(c) > 0 /\ Len(c) # 1
      /\ pending \notin Names /\ Len(c) \in 1 .. Len(c)
  BY <1>1, ScopeFacts DEF AtFile
<1>7. /\ Agrees(Entities, SemaAbsent, SemaRight, FALSE, c, sema, pending)
      /\ Agrees(Symbols, ParserAbsent, ParserRight, FALSE, c, parser, pending)
      /\ Agrees(Addresses, IrAbsent, IrRight, TRUE, c, ir, pending)
      /\ TRUE \in BOOLEAN /\ FALSE \in BOOLEAN
  BY DEF IInv
<1>8. /\ Append(c, d) \in Seq(CScopes) /\ Append(c, d)[Len(c) + 1] = d
      /\ Len(Append(c, d)) = Len(c) + 1
      /\ \A b \in BOOLEAN : Depth(Append(c, d), Len(c) + 1, b)
                              = Depth(c, Len(c), b) + IF b \/ d.kind # "for" THEN 1 ELSE 0
  BY <1>5, <1>6, Opened
<1>9. ASSUME NEW V, NEW absent, NEW R, NEW chain,
             Agrees(V, absent, R, FALSE, c, chain, pending)
      PROVE  COK(Append(c, d)) /\ Agrees(V, absent, R, FALSE, Append(c, d), chain, x)
  <2> DEFINE a == Depth(Append(c, d), Len(c) + 1, FALSE)
             b == Depth(c, Len(c), FALSE)
             m == Len(chain)
  <2>1. chain \in Seq(Tables(V)) /\ m \in Nat \ {0} /\ m = b
    BY <1>6, <1>7, <1>9, ChainTyped
  <2>2. a = b + IF FALSE \/ d.kind # "for" THEN 1 ELSE 0
    BY <1>7, <1>8
  <2> HIDE DEF a, b
  <2>3. m = a
    BY <2>1, <2>2, <1>5
  <2>4. Len(chain) = Depth(Append(c, d), Len(c) + 1, FALSE)
    BY <2>3 DEF a
  <2>5. \A y \in Names \cap DOMAIN d.names :
           \/ ~ FALSE /\ y = x
           \/ <<Seen(chain, Len(chain), y, absent[y]), d.names[y]>> \in R
    BY <1>5
  <2>6. d.kind # "file" /\ (d.kind = "body" <=> Len(c) = 1)
    BY <1>5, <1>6
  <2>7. QED BY <2>1, <2>4, <2>5, <2>6, <1>5, <1>6, <1>7, <1>9, AgreesOpened
<1>10. /\ COK(Append(c, d))
       /\ Agrees(Entities, SemaAbsent, SemaRight, FALSE, Append(c, d), sema, x)
       /\ Agrees(Symbols, ParserAbsent, ParserRight, FALSE, Append(c, d), parser, x)
  BY <1>7, <1>9
<1>11. PICK v \in Addresses : v = Address(e) /\ <<v, e>> \in IrRight
  BY <1>4, RightValues
<1>12. ir \in Seq(Tables(Addresses)) /\ Len(ir) \in Nat \ {0} /\ Empty \in Tables(Addresses)
       /\ DOMAIN Empty = {}
  BY ChainFacts, EmptyTable
<1>13. PICK mid : mid = Append(ir, Empty)
  OBVIOUS
<1>14. PICK new : new = Define(mid, x, v)
  OBVIOUS
<1>15. /\ mid \in Seq(Tables(Addresses)) /\ Len(mid) = Len(ir) + 1
       /\ mid[1] = ir[1]
       /\ \A k \in 0 .. Len(ir) : \A y, z : Seen(mid, k, y, z) = Seen(ir, k, y, z)
       /\ \A y, z : Seen(mid, Len(ir) + 1, y, z) = Seen(ir, Len(ir), y, z)
  <2>1. 1 \in 1 .. Len(ir)
    BY <1>12
  <2>2. QED BY <2>1, <1>12, <1>13, PushSeen
<1>16. /\ new \in Seq(Tables(Addresses)) /\ Len(new) = Len(ir) + 1
       /\ new[1] = ir[1]
       /\ \A k \in 0 .. Len(ir) : \A y, z : Seen(new, k, y, z) = Seen(ir, k, y, z)
       /\ \A y, z : Seen(new, Len(ir) + 1, y, z) =
                      IF y = x THEN v ELSE Seen(ir, Len(ir), y, z)
  <2> DEFINE m == Len(mid)
             l == Len(ir)
  <2>1. Len(mid) > 0 /\ mid \in Seq(Tables(Addresses))
    BY <1>12, <1>15
  <2>1a. /\ Define(mid, x, v) \in Seq(Tables(Addresses)) /\ Len(Define(mid, x, v)) = m
         /\ \A j \in 1 .. m - 1 : Define(mid, x, v)[j] = mid[j]
         /\ \A k \in 0 .. m : \A y, z : Seen(Define(mid, x, v), k, y, z) =
              IF k = m /\ y = x THEN v ELSE Seen(mid, k, y, z)
    BY <2>1, DefineSeen
  <2>2. /\ new \in Seq(Tables(Addresses)) /\ Len(new) = m
        /\ \A j \in 1 .. m - 1 : new[j] = mid[j]
        /\ \A k \in 0 .. m : \A y, z : Seen(new, k, y, z) =
             IF k = m /\ y = x THEN v ELSE Seen(mid, k, y, z)
    BY <2>1a, <1>14
  <2>3. m = l + 1 /\ l \in Nat \ {0}
    BY <1>12, <1>15
  <2> HIDE DEF m, l
  <2>4. 1 \in 1 .. m - 1 /\ m \in 0 .. m /\ \A k \in 0 .. l : k # m /\ k \in 0 .. m
    BY <2>3
  <2>5. \A k \in 0 .. l : \A y, z : Seen(mid, k, y, z) = Seen(ir, k, y, z)
    BY <1>15 DEF l
  <2>6. \A y, z : Seen(mid, m, y, z) = Seen(ir, l, y, z)
    BY <1>15, <2>3 DEF l
  <2>7. \A k \in 0 .. l : \A y, z : Seen(new, k, y, z) = Seen(ir, k, y, z)
    BY <2>2, <2>4, <2>5
  <2>8. \A y, z : Seen(new, l + 1, y, z) = IF y = x THEN v ELSE Seen(ir, l, y, z)
    BY <2>2, <2>3, <2>4, <2>6
  <2>9. new[1] = ir[1]
    BY <2>2, <2>4, <1>15
  <2>10. Len(new) = l + 1
    BY <2>2, <2>3
  <2>11. QED BY <2>2, <2>7, <2>8, <2>9, <2>10 DEF l
<1>17. Agrees(Addresses, IrAbsent, IrRight, TRUE, Append(c, d), new, x)
  <2> DEFINE a == Depth(Append(c, d), Len(c) + 1, TRUE)
             b == Depth(c, Len(c), TRUE)
             m == Len(ir)
  <2>1. a = b + IF TRUE \/ d.kind # "for" THEN 1 ELSE 0
    BY <1>7, <1>8
  <2>2. m = b
    BY ChainFacts
  <2> HIDE DEF a, b, m
  <2>3. Len(new) = a
    BY <2>1, <2>2, <1>16 DEF m
  <2>4. Len(new) = Depth(Append(c, d), Len(c) + 1, TRUE)
    BY <2>3 DEF a
  <2>5. \A y \in Names \cap DOMAIN d.names :
           \/ ~ TRUE /\ y = x
           \/ <<Seen(new, Len(new), y, IrAbsent[y]), d.names[y]>> \in IrRight
    BY <1>5, <1>11, <1>16
  <2>6. d.kind # "file" /\ (d.kind = "body" <=> Len(c) = 1)
    BY <1>5, <1>6
  <2>7. /\ \A k \in 0 .. Len(ir), y \in Names :
             k < Len(new) => Seen(new, k, y, IrAbsent[y]) = Seen(ir, k, y, IrAbsent[y])
        /\ \A y \in Names \ DOMAIN d.names :
             Seen(new, Len(new), y, IrAbsent[y]) = Seen(ir, Len(ir), y, IrAbsent[y])
        /\ new \in Seq(Tables(Addresses))
    BY <1>5, <1>16
  <2>8. QED BY <2>4, <2>5, <2>6, <2>7, <1>5, <1>6, <1>7, AgreesOpened
<1>18. FileScope(Append(c, d))
  <2>1. FileScope(c)
    BY DEF IInv
  <2>2. QED BY <2>1, <1>5, <1>6, FileScopePushed
<1>19. ir' = new /\ Globals(ir')
  <2>1. Globals(ir)
    BY DEF IInv
  <2>2. ir' = new
    BY <1>1, <1>11, <1>13, <1>14
  <2>3. QED BY <2>1, <2>2, <1>16 DEF Globals
<1>20. Inner' = d
  <2>1. Inner' = Append(c, d)[Len(Append(c, d))]
    BY <1>1 DEF Inner
  <2>2. QED BY <2>1, <1>8
<1>21. pending' \in DOMAIN Inner'.names /\ Inner'.names[pending'].kind = "var"
  BY <1>1, <1>4, <1>5, <1>20
<1>22. QED BY <1>1, <1>3, <1>10, <1>17, <1>18, <1>19, <1>21 DEF IInv

OneScope(s) == Len(s) = 1

\* A function's body: one scope for C, for a pass one with the parameters
\* and one without them.
LEMMA TwoPushed ==
  ASSUME NEW S, NEW chain \in Seq(S), NEW tab \in S, Empty \in S, OneScope(chain)
  PROVE  /\ Append(Append(chain, tab), Empty) \in Seq(S)
         /\ Len(Append(Append(chain, tab), Empty)) = 3
         /\ Append(Append(chain, tab), Empty)[1] = chain[1]
         /\ \A k \in 0 .. 1 : \A y, z :
              Seen(Append(Append(chain, tab), Empty), k, y, z) = Seen(chain, k, y, z)
         /\ \A y, z : Seen(Append(Append(chain, tab), Empty), 3, y, z) =
                        IF y \in DOMAIN tab THEN tab[y] ELSE Seen(chain, 1, y, z)
<1>0. PICK new : new = Append(Append(chain, tab), Empty)
  OBVIOUS
<1>1. PICK mid : mid = Append(chain, tab)
  OBVIOUS
<1>2. PICK n, m : n = Len(chain) /\ m = Len(mid)
  OBVIOUS
<1>3. /\ mid \in Seq(S) /\ m = n + 1
      /\ \A j \in 1 .. n : mid[j] = chain[j]
      /\ \A k \in 0 .. n : \A y, z : Seen(mid, k, y, z) = Seen(chain, k, y, z)
      /\ \A y, z : Seen(mid, n + 1, y, z) = IF y \in DOMAIN tab THEN tab[y] ELSE Seen(chain, n, y, z)
  <2>1. Append(chain, tab) \in Seq(S) /\ Len(Append(chain, tab)) = Len(chain) + 1
    BY PushSeen
  <2>2. \A j \in 1 .. Len(chain) : Append(chain, tab)[j] = chain[j]
    BY PushSeen
  <2>3. \A k \in 0 .. Len(chain) : \A y, z :
          Seen(Append(chain, tab), k, y, z) = Seen(chain, k, y, z)
    BY PushSeen
  <2>4. \A y, z : Seen(Append(chain, tab), Len(chain) + 1, y, z) =
                    IF y \in DOMAIN tab THEN tab[y] ELSE Seen(chain, Len(chain), y, z)
    BY PushSeen
  <2>5. QED BY <2>1, <2>2, <2>3, <2>4, <1>1, <1>2
<1>4. DOMAIN Empty = {}
  BY EmptyTable
<1>5. /\ new \in Seq(S) /\ Len(new) = m + 1
      /\ \A j \in 1 .. m : new[j] = mid[j]
      /\ \A k \in 0 .. m : \A y, z : Seen(new, k, y, z) = Seen(mid, k, y, z)
      /\ \A y, z : Seen(new, m + 1, y, z) = Seen(mid, m, y, z)
  <2>1. mid \in Seq(S) /\ new = Append(mid, Empty)
    BY <1>0, <1>1, <1>3
  <2>2. QED BY <2>1, <1>2, <1>4, PushSeen
<1>6. n = 1 /\ m = 2
  BY <1>2, <1>3 DEF OneScope
<1>7. QED BY <1>0, <1>3, <1>5, <1>6

\* A table that is right about the names C has in a scope.
RightTable(tab, names, R) ==
  DOMAIN tab = DOMAIN names /\ \A y \in DOMAIN tab : <<tab[y], names[y]>> \in R

\* The parameters' and the body's scope, two of a pass and one of C.
LEMMA AgreesBody ==
  ASSUME NEW V, NEW absent, NEW R, NEW opens \in BOOLEAN,
         NEW s, COK(s), OneScope(s), NEW p, p \notin Names,
         NEW d \in CScopes, d.kind = "body", d.unsure = {},
         NEW chain, Agrees(V, absent, R, opens, s, chain, p),
         NEW tab \in Tables(V), RightTable(tab, d.names, R)
  PROVE  /\ COK(Append(s, d))
         /\ Agrees(V, absent, R, opens, Append(s, d), Append(Append(chain, tab), Empty), p)
<1>1. PICK new : new = Append(Append(chain, tab), Empty)
  OBVIOUS
<1>3. s \in Seq(CScopes) /\ Nested(s) /\ Len(s) > 0
  BY DEF COK
<1>4. chain \in Seq(Tables(V)) /\ OneScope(chain)
  <2>1. chain \in Seq(Tables(V)) /\ Len(chain) = Depth(s, Len(s), opens)
    BY ChainTyped
  <2>2. QED BY <2>1, AtDepth DEF OneScope
<1>5. new \in Seq(Tables(V)) /\ Len(new) = 3
  BY <1>1, <1>4, EmptyTable, TwoPushed
<1>6. \A k \in 0 .. 1 : \A y, z : Seen(new, k, y, z) = Seen(chain, k, y, z)
  BY <1>1, <1>4, EmptyTable, TwoPushed
<1>7. \A y, z : Seen(new, 3, y, z) = IF y \in DOMAIN tab THEN tab[y] ELSE Seen(chain, 1, y, z)
  BY <1>1, <1>4, EmptyTable, TwoPushed
<1>8. Depth(Append(s, d), Len(s) + 1, opens) = 3
  <2>1. d.kind # "file" /\ (d.kind = "body" <=> Len(s) = 1)
    BY DEF OneScope
  <2>2. Depth(Append(s, d), Len(s) + 1, opens) =
          IF Len(s) = 1 THEN 3
          ELSE Depth(s, Len(s), opens) + IF opens \/ d.kind # "for" THEN 1 ELSE 0
    BY <2>1, <1>3, Opened
  <2>3. QED BY <2>2 DEF OneScope
<1>9. Len(new) = Depth(Append(s, d), Len(s) + 1, opens) /\ d.kind # "file"
      /\ (d.kind = "body" <=> Len(s) = 1)
  BY <1>5, <1>8 DEF OneScope
<1>10. \A k \in 0 .. Len(chain), y \in Names :
           k < Len(new) => Seen(new, k, y, absent[y]) = Seen(chain, k, y, absent[y])
  BY <1>4, <1>5, <1>6, <1>7 DEF OneScope, RightTable
<1>11. \A y \in Names \ DOMAIN d.names :
           Seen(new, Len(new), y, absent[y]) = Seen(chain, Len(chain), y, absent[y])
  BY <1>4, <1>5, <1>6, <1>7 DEF OneScope, RightTable
<1>12. \A y \in Names \cap DOMAIN d.names :
           \/ ~ opens /\ y = p
           \/ <<Seen(new, Len(new), y, absent[y]), d.names[y]>> \in R
  BY <1>5, <1>7 DEF RightTable
<1>13. new \in Seq(Tables(V))
  BY <1>5
<1>14. COK(Append(s, d)) /\ Agrees(V, absent, R, opens, Append(s, d), new, p)
  BY <1>9, <1>10, <1>11, <1>12, <1>13, AgreesOpened
<1>15. QED BY <1>1, <1>14

\* The parser and the IR generator may leave the definition of a function of
\* file scope out: it has no typedef's name, and is global to the other.
LEMMA FunctionIgnored ==
  ASSUME IInv, NEW e \in Entities, e.kind = "func", e.id = 0, AtFile, CanDeclare(e)
  PROVE  /\ Agrees(Symbols, ParserAbsent, ParserRight, FALSE, Declared(c, e), parser, pending)
         /\ Agrees(Addresses, IrAbsent, IrRight, TRUE, Declared(c, e), ir, pending)
<1>1. PICK f : f = e.name
  OBVIOUS
<1>2. /\ f \in Names /\ pending \notin Names /\ Inner.kind # "for"
      /\ f \in DOMAIN Inner.names => Inner.names[f] = e
  BY <1>1, RightValues, ScopesAssumption DEF CanDeclare
<1>3. /\ COK(c) /\ c \in Seq(CScopes) /\ Len(c) = 1 /\ 1 \in 1 .. Len(c) /\ Inner = c[1]
  BY ScopeFacts DEF AtFile
<1>4. CSeen(c, 1, f) = IF f \in DOMAIN c[1].names THEN e ELSE Undeclared
  <2>1. CSeen(c, 1, f) = IF f \in DOMAIN c[1].names THEN c[1].names[f] ELSE CSeen(c, 1 - 1, f)
    BY <1>3, CSeenStep
  <2>2. 1 - 1 = 0
    OBVIOUS
  <2>3. QED BY <2>1, <2>2, <1>2, <1>3, CSeenOutside
<1>5. /\ Agrees(Symbols, ParserAbsent, ParserRight, FALSE, c, parser, pending)
      /\ Agrees(Addresses, IrAbsent, IrRight, TRUE, c, ir, pending)
      /\ TRUE \in BOOLEAN /\ FALSE \in BOOLEAN
  BY DEF IInv
<1>6. /\ parser \in Seq(Tables(Symbols)) /\ Len(parser) = 1
      /\ ir \in Seq(Tables(Addresses)) /\ Len(ir) = 1
  <2>1. Depth(c, Len(c), TRUE) = 1 /\ Depth(c, Len(c), FALSE) = 1
    BY <1>3, <1>5, AtDepth
  <2>2. QED BY <2>1, ChainFacts
<1>7. Agrees(Symbols, ParserAbsent, ParserRight, FALSE, Declared(c, e), parser, pending)
  <2>1. ~ Excused(FALSE, c, pending, 1, f)
    <3>1. ~ Overlaid(c, 1, f)
      <4>1. Len(c) \in Nat
        BY <1>3
      <4>2. ~ Overlaid(c, Len(c), f)
        BY <4>1, InnerNotOverlaid
      <4>3. QED BY <4>2, <1>3
    <3>2. f \notin c[1].unsure
      <4>1. FileScope(c)
        BY DEF IInv
      <4>2. QED BY <4>1, <1>2, <1>3 DEF FileScope
    <3>3. ~ UnsureAt(c, 1, f)
      BY <3>2 DEF UnsureAt
    <3>4. QED BY <3>1, <3>3, <1>2 DEF Excused
  <2>2. Depth(c, 1, FALSE) = 1
    BY <1>3, <1>5, AtDepth
  <2>3. <<Seen(parser, 1, f, ParserAbsent[f]), CSeen(c, 1, f)>> \in ParserRight
    BY <2>1, <2>2, <1>2, <1>3, <1>5 DEF Agrees
  <2>4. PICK v : v = Seen(parser, 1, f, ParserAbsent[f])
    OBVIOUS
  <2>5. v \in Symbols \union {"none"} /\ v # "typedef"
    BY <2>3, <2>4, <1>4 DEF ParserRight, Undeclared
  <2>6. <<v, e>> \in ParserRight
    BY <2>5 DEF ParserRight, Meanings
  <2>7. <<Seen(parser, Len(parser), e.name, ParserAbsent[e.name]), e>> \in ParserRight
    BY <2>4, <2>6, <1>1, <1>6
  <2>8. QED BY <2>7, <1>2, <1>3, <1>5, AgreesIgnored
<1>8. Agrees(Addresses, IrAbsent, IrRight, TRUE, Declared(c, e), ir, pending)
  <2>1. IrAbsent[f] = Address(e)
    BY <1>1, <1>2 DEF IrAbsent, Address
  <2>2. Seen(ir, 1, f, IrAbsent[f]) = Address(e)
    <3>1. Globals(ir)
      BY DEF IInv
    <3>2. f \in DOMAIN ir[1] => ir[1][f] = Address(e)
      BY <3>1, <1>1 DEF Globals, Address
    <3>3. PICK chain, a : chain = ir /\ a = IrAbsent[f]
      OBVIOUS
    <3>4. chain \in Seq(Tables(Addresses)) /\ 0 \in 0 .. Len(chain) /\ 1 \in 1 .. Len(chain)
      BY <3>3, <1>6
    <3>5. \A j \in 1 .. 0 : f \notin DOMAIN chain[j]
      OBVIOUS
    <3>6. Seen(chain, 0, f, a) = a
      BY <3>4, <3>5, SeenFacts
    <3>7. Seen(chain, 1, f, a) =
            IF f \in DOMAIN chain[1] THEN chain[1][f] ELSE Seen(chain, 1 - 1, f, a)
      BY <3>4, SeenStep
    <3>8. 1 - 1 = 0
      OBVIOUS
    <3>9. QED BY <3>2, <3>3, <3>6, <3>7, <3>8, <2>1
  <2>3. <<Seen(ir, Len(ir), e.name, IrAbsent[e.name]), e>> \in IrRight
    BY <2>2, <1>1, <1>6, RightValues
  <2>4. QED BY <2>3, <1>2, <1>3, <1>5, AgreesIgnored
<1>9. QED BY <1>7, <1>8

\* A function definition: the analysis defines its name before the body, the
\* parser after it, the IR generator never (sema.c:607, parser.c:1732).
LEMMA EnterFuncStep ==
  ASSUME IInv, NEW f \in Names, NEW params \in {{}} \union {{p} : p \in Names},
         EnterFunc(f, params)
  PROVE  IInv'
<1> DEFINE Param(p) == [kind |-> "var", name |-> p, id |-> ids + 1]
<1>0. PICK e, tab, d, s : /\ e = Entity("func", f)
                          /\ tab = [p \in params |-> Param(p)]
                          /\ d = CScope("body", f, tab)
                          /\ s = Declared(c, e)
  OBVIOUS
<1>1. PICK kinds, addresses : /\ kinds = [p \in params |-> "var"]
                              /\ addresses = [p \in params |-> Address(Param(p))]
  OBVIOUS
<1>2. /\ AtFile /\ CanDeclare(e)
      /\ params = {} \/ ids < MaxIds
      /\ ids' = IF params = {} THEN ids ELSE ids + 1
      /\ c' = Append(s, d)
      /\ parser' = Append(Append(parser, kinds), Empty)
      /\ sema' = Append(Append(Define(sema, f, e), tab), Empty)
      /\ ir' = Append(Append(ir, addresses), Empty)
      /\ pending' = pending
  BY <1>0, <1>1 DEF EnterFunc
<1>2a. pending = NoName /\ pending \notin Names
  BY <1>2, ScopesAssumption DEF CanDeclare
<1>3. "func" \in Symbols /\ "var" \in Symbols
  BY DEF Symbols
<1>4. e \in Entities /\ e.name = f /\ e.kind = "func" /\ e.id = 0
  BY <1>0, <1>2, <1>3, EntityFacts
<1>5. ids' \in 0 .. MaxIds
  <2>1. ids \in 0 .. MaxIds /\ MaxIds \in Nat
    BY ScopesAssumption DEF IInv
  <2>2. QED BY <2>1, <1>2
<1>6. \A p \in params : Param(p) \in Entities /\ Param(p).name = p /\ Param(p).kind = "var"
  <2>1. ids \in 0 .. MaxIds /\ MaxIds \in Nat
    BY ScopesAssumption DEF IInv
  <2>2. \A p \in params : p \in Names /\ ids + 1 \in 0 .. MaxIds
    BY <2>1, <1>2
  <2>3. QED BY <2>2 DEF Entities
<1> HIDE DEF Param
<1>7. params \in SUBSET Names
  OBVIOUS
<1>8. /\ tab \in Tables(Entities) /\ DOMAIN tab = params
      /\ \A p \in params : tab[p] = Param(p)
  <2>1. tab \in [params -> Entities]
    BY <1>0, <1>6
  <2>2. tab \in Tables(Entities)
    BY <2>1, <1>7, NewTable
  <2>3. QED BY <2>2, <1>0
<1>9. d \in CScopes /\ d.kind = "body" /\ d.fn = f /\ d.unsure = {} /\ d.names = tab
  <2>1. tab \in NameTables
    BY <1>6, <1>8 DEF NameTables
  <2>2. QED BY <2>1, <1>0 DEF CScope, CScopes
<1>10. /\ kinds \in Tables(Symbols) /\ DOMAIN kinds = params
       /\ \A p \in params : kinds[p] = "var"
  <2>1. kinds \in [params -> Symbols]
    BY <1>1, <1>3
  <2>2. kinds \in Tables(Symbols)
    BY <2>1, <1>7, NewTable
  <2>3. QED BY <2>2, <1>1
<1>11. /\ addresses \in Tables(Addresses) /\ DOMAIN addresses = params
       /\ \A p \in params : addresses[p] = Address(Param(p))
  <2>1. addresses \in [params -> Addresses]
    BY <1>1, <1>6, RightValues
  <2>2. addresses \in Tables(Addresses)
    BY <2>1, <1>7, NewTable
  <2>3. QED BY <2>2, <1>1
<1>12. /\ COK(s) /\ FileScope(s) /\ s[Len(s)].names = With(Inner.names, f, e)
       /\ Agrees(Entities, SemaAbsent, SemaRight, FALSE, s, Define(sema, f, e), pending)
  BY <1>0, <1>2, <1>4, Declares
<1>13. OneScope(s)
  <2>1. c \in Seq(CScopes) /\ Nested(c) /\ Len(c) > 0 /\ Len(c) = 1
    BY <1>2, ScopeFacts DEF AtFile
  <2>2. QED BY <2>1, <1>0, <1>4, DeclaredFacts DEF OneScope
<1>14. /\ Agrees(Symbols, ParserAbsent, ParserRight, FALSE, s, parser, pending)
       /\ Agrees(Addresses, IrAbsent, IrRight, TRUE, s, ir, pending)
  BY <1>0, <1>2, <1>4, FunctionIgnored
<1>15. TRUE \in BOOLEAN /\ FALSE \in BOOLEAN
  OBVIOUS
<1>16. \A y \in params : /\ <<tab[y], d.names[y]>> \in SemaRight
                         /\ <<kinds[y], d.names[y]>> \in ParserRight
                         /\ <<addresses[y], d.names[y]>> \in IrRight
  BY <1>6, <1>8, <1>9, <1>10, <1>11, RightValues
<1>17. /\ COK(Append(s, d))
       /\ Agrees(Entities, SemaAbsent, SemaRight, FALSE, Append(s, d), sema', pending)
  <2>1. PICK chain : chain = Define(sema, f, e)
    OBVIOUS
  <2>2. Agrees(Entities, SemaAbsent, SemaRight, FALSE, s, chain, pending)
    BY <2>1, <1>12
  <2>3. RightTable(tab, d.names, SemaRight)
    BY <1>8, <1>9, <1>16 DEF RightTable
  <2>4. /\ COK(Append(s, d))
        /\ Agrees(Entities, SemaAbsent, SemaRight, FALSE, Append(s, d),
                  Append(Append(chain, tab), Empty), pending)
    BY <2>2, <2>3, <1>2a, <1>8, <1>9, <1>12, <1>13, <1>15, AgreesBody
  <2>5. QED BY <2>1, <2>4, <1>2
<1>18. Agrees(Symbols, ParserAbsent, ParserRight, FALSE, Append(s, d), parser', pending)
  <2>1. RightTable(kinds, d.names, ParserRight)
    BY <1>8, <1>9, <1>10, <1>16 DEF RightTable
  <2>2. Agrees(Symbols, ParserAbsent, ParserRight, FALSE, Append(s, d),
               Append(Append(parser, kinds), Empty), pending)
    BY <2>1, <1>2a, <1>9, <1>10, <1>12, <1>13, <1>14, <1>15, AgreesBody
  <2>3. QED BY <2>2, <1>2
<1>19. Agrees(Addresses, IrAbsent, IrRight, TRUE, Append(s, d), ir', pending) /\ Globals(ir')
  <2>1. RightTable(addresses, d.names, IrRight)
    BY <1>8, <1>9, <1>11, <1>16 DEF RightTable
  <2>2. /\ Agrees(Addresses, IrAbsent, IrRight, TRUE, Append(s, d),
                  Append(Append(ir, addresses), Empty), pending)
        /\ Append(Append(ir, addresses), Empty)[1] = ir[1]
    <3>1. PICK opens \in BOOLEAN : opens = TRUE
      OBVIOUS
    <3>2. Agrees(Addresses, IrAbsent, IrRight, opens, s, ir, pending)
      BY <3>1, <1>14
    <3>3. /\ d \in CScopes /\ d.kind = "body" /\ d.unsure = {}
          /\ addresses \in Tables(Addresses) /\ pending \notin Names /\ COK(s) /\ OneScope(s)
      BY <1>2a, <1>9, <1>11, <1>12, <1>13
    <3>4. Agrees(Addresses, IrAbsent, IrRight, opens, Append(s, d),
                  Append(Append(ir, addresses), Empty), pending)
      BY <3>2, <3>3, <2>1, AgreesBody
    <3>5. ir \in Seq(Tables(Addresses)) /\ OneScope(ir)
      <4>1. Len(s) = 1
        BY <1>13 DEF OneScope
      <4>2. Len(ir) = Depth(s, Len(s), TRUE)
        BY <1>14 DEF Agrees
      <4>3. QED BY <4>1, <4>2, <1>12, <1>15, AtDepth, ChainFacts DEF OneScope
    <3>6. Append(Append(ir, addresses), Empty)[1] = ir[1]
      <4>1. addresses \in Tables(Addresses)
        BY <3>3
      <4>2. QED BY <4>1, <3>5, EmptyTable, TwoPushed
    <3>7. QED BY <3>1, <3>4, <3>6
  <2>3. Globals(ir)
    BY DEF IInv
  <2>4. QED BY <2>2, <2>3, <1>2 DEF Globals
<1>20. FileScope(Append(s, d))
  <2>1. f \in DOMAIN s[1].names /\ s[1].names[f].kind = "func"
    BY <1>4, <1>12, <1>13 DEF With, OneScope
  <2>2. s \in Seq(CScopes) /\ Nested(s) /\ Len(s) > 0
    BY <1>12 DEF COK
  <2>3. QED BY <2>1, <2>2, <1>9, <1>12, FileScopePushed
<1>21. pending' \in Names \union {NoName} /\ pending' = NoName
  BY <1>2, <1>2a
<1>22. QED BY <1>2, <1>5, <1>17, <1>18, <1>19, <1>20, <1>21 DEF IInv

-----------------------------------------------------------------------------
(* Scopes closed *)

\* FileScope looks at the two outermost scopes only.
LEMMA FileScopeSame ==
  ASSUME NEW s, NEW t, FileScope(s), t[1] = s[1],
         Len(t) > 1 => Len(s) > 1 /\ t[2].fn = s[2].fn
  PROVE  FileScope(t)
  BY DEF FileScope

\* Closing scopes leaves the names of file scope alone.
LEMMA GlobalsPopped ==
  ASSUME NEW S, NEW chain \in Seq(S), Globals(chain), NEW n \in Nat, n < Len(chain)
  PROVE  Globals(Popped(chain, n))
<1>1. n \in 0 .. Len(chain) /\ 1 \in 1 .. Len(chain) - n
  <2>1. PICK m \in Nat : m = Len(chain)
    OBVIOUS
  <2>2. QED BY <2>1
<1>2. Popped(chain, n)[1] = chain[1]
  BY <1>1, PopSeen
<1>3. QED BY <1>2 DEF Globals

\* C leaves a scope that is not a for statement's.
LEMMA CClosed ==
  ASSUME IInv, Len(c) > 1, Inner.kind # "for"
  PROVE  /\ COK(Popped(c, 1)) /\ Len(Popped(c, 1)) = Len(c) - 1
         /\ \A j \in 1 .. Len(c) - 1 : Popped(c, 1)[j] = c[j]
         /\ \A i \in 1 .. Len(c) - 1, opens \in BOOLEAN : Depth(Popped(c, 1), i, opens) = Depth(c, i, opens)
         /\ \A i \in 1 .. Len(c) - 1 : \A y :
              /\ CSeen(Popped(c, 1), i, y) = CSeen(c, i, y)
              /\ UnsureAt(c, i, y) => UnsureAt(Popped(c, 1), i, y)
              /\ Overlaid(c, i, y) => Overlaid(Popped(c, 1), i, y)
         /\ FileScope(Popped(c, 1))
<1>1. c \in Seq(CScopes) /\ Nested(c) /\ Len(c) \in Nat \ {0} /\ Inner = c[Len(c)] /\ COK(c)
  BY ScopeFacts
<1>2. 1 \in 0 .. Len(c)
  BY <1>1
<1>3. PICK t : t = Popped(c, 1)
  OBVIOUS
<1>4. t \in Seq(CScopes) /\ Len(t) = Len(c) - 1 /\ \A j \in 1 .. Len(c) - 1 : t[j] = c[j]
  BY <1>1, <1>2, <1>3, PopSeen
<1>5. /\ Nested(t)
      /\ \A i \in 1 .. Len(c) - 1, b \in BOOLEAN : Depth(t, i, b) = Depth(c, i, b)
      /\ \A i \in 1 .. Len(c) - 1 : \A x :
           /\ CSeen(t, i, x) = CSeen(c, i, x)
           /\ UnsureAt(t, i, x) <=> UnsureAt(c, i, x)
           /\ c[Len(c)].kind # "for" => (Overlaid(c, i, x) => Overlaid(t, i, x))
  BY <1>1, <1>4, Closed
<1>6. COK(t)
  BY <1>1, <1>4, <1>5 DEF COK
<1>7. FileScope(t)
  <2> DEFINE n == Len(c)
  <2>1. t[1] = c[1] /\ (Len(t) > 1 => Len(c) > 1 /\ t[2].fn = c[2].fn)
    <3>1. n \in Nat /\ n > 1 /\ Len(t) = n - 1 /\ \A j \in 1 .. n - 1 : t[j] = c[j]
      BY <1>1, <1>4
    <3> HIDE DEF n
    <3>2. 1 \in 1 .. n - 1 /\ (n - 1 > 1 => n > 1 /\ 2 \in 1 .. n - 1)
      BY <3>1
    <3>3. t[1] = c[1] /\ (Len(t) > 1 => n > 1 /\ t[2].fn = c[2].fn)
      BY <3>1, <3>2
    <3>4. QED BY <3>3 DEF n
  <2>2. FileScope(c)
    BY DEF IInv
  <2>3. QED BY <2>1, <2>2, FileScopeSame
<1>8. QED BY <1>1, <1>3, <1>4, <1>5, <1>6, <1>7

\* A pass leaves with it as many scopes as it had opened.
LEMMA AgreesPopped ==
  ASSUME IInv, Len(c) > 1, Inner.kind # "for", pending \notin Names,
         NEW V, NEW absent, NEW R, NEW opens \in BOOLEAN, NEW chain,
         Agrees(V, absent, R, opens, c, chain, pending),
         NEW n \in 1 .. 2, Depth(c, Len(c), opens) = Depth(c, Len(c) - 1, opens) + n
  PROVE  Agrees(V, absent, R, opens, Popped(c, 1), Popped(chain, n), pending)
<1>1. /\ COK(c) /\ c \in Seq(CScopes) /\ Nested(c) /\ Len(c) \in Nat \ {0}
      /\ Len(c) - 1 \in 1 .. Len(c)
  BY ScopeFacts
<1>2. PICK t : t = Popped(c, 1)
  OBVIOUS
<1>3. /\ COK(t) /\ Len(t) = Len(c) - 1
      /\ \A i \in 1 .. Len(c) - 1 : Depth(t, i, opens) = Depth(c, i, opens)
      /\ \A i \in 1 .. Len(c) - 1 : \A y :
           /\ CSeen(t, i, y) = CSeen(c, i, y)
           /\ UnsureAt(c, i, y) => UnsureAt(t, i, y)
           /\ Overlaid(c, i, y) => Overlaid(t, i, y)
  BY <1>2, CClosed
<1>4. \A i \in 1 .. Len(t) :
           /\ Depth(t, i, opens) = Depth(c, i, opens)
           /\ \A y \in Names :
                /\ CSeen(t, i, y) = CSeen(c, i, y)
                /\ ~ opens /\ (Overlaid(c, i, y) \/ UnsureAt(c, i, y))
                     => Overlaid(t, i, y) \/ UnsureAt(t, i, y)
  BY <1>3
<1>5. PICK new : new = Popped(chain, n)
  OBVIOUS
<1>6. chain \in Seq(Tables(V)) /\ Len(chain) = Depth(c, Len(c), opens) /\ Len(chain) \in Nat
  BY <1>1, ChainTyped
<1>7. Depth(c, Len(c) - 1, opens) \in Nat
  BY <1>1, DepthFacts
<1>8. n \in 0 .. Len(chain) /\ Len(chain) - n = Depth(c, Len(c) - 1, opens)
  <2> DEFINE a == Depth(c, Len(c) - 1, opens)
             b == Depth(c, Len(c), opens)
             m == Len(chain)
  <2>1. a \in Nat /\ m = b /\ b = a + n
    BY <1>6, <1>7
  <2> HIDE DEF a, b, m
  <2>2. n \in 0 .. m /\ m - n = a
    BY <2>1
  <2>3. QED BY <2>2 DEF a, m
<1>9. /\ new \in Seq(Tables(V)) /\ Len(new) = Len(chain) - n
      /\ \A k \in 0 .. Len(chain) - n : \A y, a : Seen(new, k, y, a) = Seen(chain, k, y, a)
  <2>1. chain \in Seq(Tables(V)) /\ n \in 0 .. Len(chain)
    BY <1>6, <1>8
  <2>2. new \in Seq(Tables(V)) /\ Len(new) = Len(chain) - n
    BY <2>1, <1>5, PopSeen
  <2>3. \A k \in 0 .. Len(chain) - n : \A y, a :
          Seen(Popped(chain, n), k, y, a) = Seen(chain, k, y, a)
    BY <2>1, PopSeen
  <2>4. QED BY <2>2, <2>3, <1>5
<1>10. /\ new \in Seq(Tables(V)) /\ Len(new) = Depth(c, Len(t), opens)
       /\ \A k \in 0 .. Len(new), y \in Names :
            Seen(new, k, y, absent[y]) = Seen(chain, k, y, absent[y])
  BY <1>3, <1>8, <1>9
<1>11. Agrees(V, absent, R, opens, t, new, pending)
  BY <1>1, <1>3, <1>4, <1>10, AgreesClosed
<1>12. QED BY <1>2, <1>5, <1>11

\* The end of a block: every pass pops one scope.
LEMMA LeaveBlockStep ==
  ASSUME IInv, LeaveBlock
  PROVE  IInv'
<1>1. /\ pending = NoName /\ Inner.kind = "block" /\ c' = Popped(c, 1)
      /\ parser' = Popped(parser, 1) /\ sema' = Popped(sema, 1) /\ ir' = Popped(ir, 1)
      /\ pending' = pending /\ ids' = ids
  BY DEF LeaveBlock
<1>2. /\ c \in Seq(CScopes) /\ Nested(c) /\ Len(c) > 2 /\ Len(c) > 1 /\ pending \notin Names
      /\ Len(c) \in 1 .. Len(c) /\ c[Len(c)].kind = "block" /\ COK(c)
  <2> DEFINE n == Len(c)
  <2>1. n \in Nat /\ n > 2
    BY <1>1, ScopeFacts
  <2> HIDE DEF n
  <2>2. n > 1
    BY <2>1
  <2>3. Len(c) > 2 /\ Len(c) > 1
    BY <2>1, <2>2 DEF n
  <2>4. QED BY <2>3, <1>1, ScopeFacts
<1>3. ASSUME NEW opens \in BOOLEAN
      PROVE  Depth(c, Len(c), opens) = Depth(c, Len(c) - 1, opens) + 1
  <2>1. Depth(c, Len(c), opens) = Depth(c, Len(c) - 1, opens)
          + IF opens \/ c[Len(c)].kind # "for" THEN 1 ELSE 0
    BY <1>2, DepthFacts
  <2>2. QED BY <2>1, <1>2
<1>4. /\ Agrees(Entities, SemaAbsent, SemaRight, FALSE, c, sema, pending)
      /\ Agrees(Symbols, ParserAbsent, ParserRight, FALSE, c, parser, pending)
      /\ Agrees(Addresses, IrAbsent, IrRight, TRUE, c, ir, pending)
      /\ TRUE \in BOOLEAN /\ FALSE \in BOOLEAN /\ Globals(ir)
  BY DEF IInv
<1>5. Inner.kind # "for" /\ 1 \in 1 .. 2
  BY <1>1
<1>6. Agrees(Entities, SemaAbsent, SemaRight, FALSE, Popped(c, 1), Popped(sema, 1), pending)
  BY <1>2, <1>3, <1>4, <1>5, AgreesPopped
<1>7. Agrees(Symbols, ParserAbsent, ParserRight, FALSE, Popped(c, 1), Popped(parser, 1), pending)
  BY <1>2, <1>3, <1>4, <1>5, AgreesPopped
<1>8. Agrees(Addresses, IrAbsent, IrRight, TRUE, Popped(c, 1), Popped(ir, 1), pending)
  BY <1>2, <1>3, <1>4, <1>5, AgreesPopped
<1>9. COK(Popped(c, 1)) /\ FileScope(Popped(c, 1))
  BY <1>2, <1>5, CClosed
<1>10. Globals(Popped(ir, 1))
  <2>1. PICK b : b = Depth(c, Len(c), TRUE)
    OBVIOUS
  <2>2. b >= 3 /\ b \in Nat
    BY <2>1, <1>2, <1>4, AtDepth
  <2>3. 1 < b
    BY <2>2
  <2>4. ir \in Seq(Tables(Addresses)) /\ Len(ir) = b
    BY <2>1, ChainFacts
  <2>5. 1 < Len(ir) /\ 1 \in Nat
    BY <2>3, <2>4
  <2>6. QED BY <2>4, <2>5, <1>4, GlobalsPopped
<1>11. pending' \in Names \union {NoName} /\ pending' = NoName /\ ids' \in 0 .. MaxIds
  BY <1>1 DEF IInv
<1>12. QED BY <1>1, <1>6, <1>7, <1>8, <1>9, <1>10, <1>11 DEF IInv

\* The end of a function's body; the parser defines the function now.
LEMMA LeaveFuncStep ==
  ASSUME IInv, LeaveFunc
  PROVE  IInv'
<1>0. PICK f, t : f = Inner.fn /\ t = Popped(c, 1)
  OBVIOUS
<1>1. /\ pending = NoName /\ Inner.kind = "body" /\ c' = t
      /\ parser' = Define(Popped(parser, 2), f, "func")
      /\ sema' = Popped(sema, 2) /\ ir' = Popped(ir, 2)
      /\ pending' = pending /\ ids' = ids
  BY <1>0 DEF LeaveFunc
<1>2. /\ c \in Seq(CScopes) /\ Nested(c) /\ Len(c) = 2 /\ pending \notin Names
      /\ Len(c) \in 1 .. Len(c) /\ Inner = c[Len(c)] /\ COK(c)
  BY <1>1, ScopeFacts
<1>2a. Len(c) > 1 /\ Inner.kind # "for" /\ 2 \in 1 .. 2
  BY <1>1, <1>2
<1>3. ASSUME NEW opens \in BOOLEAN
      PROVE  Depth(c, Len(c), opens) = Depth(c, Len(c) - 1, opens) + 2
  <2>1. 1 \in 1 .. Len(c) /\ 2 \in 1 .. Len(c) /\ Len(c) - 1 = 1
    BY <1>2
  <2>2. Depth(c, 1, opens) = 1 /\ Depth(c, 2, opens) = 3
    BY <2>1, <1>2, DepthFacts
  <2>3. QED BY <2>1, <2>2, <1>2
<1>4. /\ Agrees(Entities, SemaAbsent, SemaRight, FALSE, c, sema, pending)
      /\ Agrees(Symbols, ParserAbsent, ParserRight, FALSE, c, parser, pending)
      /\ Agrees(Addresses, IrAbsent, IrRight, TRUE, c, ir, pending)
      /\ TRUE \in BOOLEAN /\ FALSE \in BOOLEAN /\ Globals(ir)
  BY DEF IInv
<1>5. Agrees(Entities, SemaAbsent, SemaRight, FALSE, t, Popped(sema, 2), pending)
  BY <1>0, <1>2, <1>2a, <1>3, <1>4, AgreesPopped
<1>6. Agrees(Symbols, ParserAbsent, ParserRight, FALSE, t, Popped(parser, 2), pending)
  BY <1>0, <1>2, <1>2a, <1>3, <1>4, AgreesPopped
<1>7. Agrees(Addresses, IrAbsent, IrRight, TRUE, t, Popped(ir, 2), pending)
  BY <1>0, <1>2, <1>2a, <1>3, <1>4, AgreesPopped
<1>8. /\ COK(t) /\ FileScope(t) /\ Len(t) = 1 /\ t[1] = c[1]
  <2>1. COK(t) /\ FileScope(t) /\ Len(t) = Len(c) - 1 /\ \A j \in 1 .. Len(c) - 1 : t[j] = c[j]
    BY <1>0, <1>2a, CClosed
  <2>2. 1 \in 1 .. Len(c) - 1 /\ Len(c) - 1 = 1
    BY <1>2
  <2>3. QED BY <2>1, <2>2
<1>9. f \in DOMAIN t[1].names /\ t[1].names[f].kind = "func"
  <2>1. FileScope(c)
    BY DEF IInv
  <2>2. QED BY <2>1, <1>0, <1>2, <1>2a, <1>8 DEF FileScope
<1>10. t \in Seq(CScopes) /\ 1 \in 1 .. Len(t) /\ t[1].kind = "file"
  BY <1>8 DEF COK, Nested
<1>11. PICK e : e = t[1].names[f]
  OBVIOUS
<1>12. f \in Names /\ e \in Entities /\ e.kind = "func" /\ <<"func", e>> \in ParserRight
       /\ "func" \in Symbols
  <2>1. PICK tab : tab = t[1].names
    OBVIOUS
  <2>2. t[1] \in CScopes
    BY <1>10, ElementOfSeq
  <2>3. tab \in Tables(Entities)
    BY <2>1, <2>2 DEF CScopes, NameTables
  <2>4. f \in Names /\ tab[f] \in Entities
    BY <2>1, <2>3, <1>9, TableFacts
  <2>5. e \in Entities /\ e.kind = "func"
    BY <2>1, <2>4, <1>9, <1>11
  <2>6. QED BY <2>4, <2>5, RightValues
<1>13. CSeen(t, 1, f) = e
  BY <1>9, <1>10, <1>11, CSeenStep
<1>14. Agrees(Symbols, ParserAbsent, ParserRight, FALSE, t, Define(Popped(parser, 2), f, "func"), pending)
  <2>1. PICK chain : chain = Popped(parser, 2)
    OBVIOUS
  <2>2. PICK new : new = Define(chain, f, "func")
    OBVIOUS
  <2>3. Agrees(Symbols, ParserAbsent, ParserRight, FALSE, t, chain, pending)
    BY <2>1, <1>6
  <2>4. chain \in Seq(Tables(Symbols)) /\ Len(chain) > 0 /\ Len(chain) \in 0 .. Len(chain)
    <3>1. chain \in Seq(Tables(Symbols)) /\ Len(chain) > 0
      BY <2>3, <1>4, <1>8, ChainTyped
    <3>2. QED BY <3>1
  <2>5. /\ new \in Seq(Tables(Symbols)) /\ Len(new) = Len(chain)
        /\ \A k \in 0 .. Len(chain) : \A y, a : Seen(new, k, y, a) =
             IF k = Len(chain) /\ y = f THEN "func" ELSE Seen(chain, k, y, a)
    BY <2>2, <2>4, <1>12, DefineSeen
  <2>6. <<Seen(new, Len(chain), f, ParserAbsent[f]), CSeen(t, Len(t), f)>> \in ParserRight
    BY <2>4, <2>5, <1>8, <1>12, <1>13
  <2>7. f \in DOMAIN t[Len(t)].names \union t[Len(t)].unsure
    BY <1>8, <1>9
  <2>8. /\ pending \notin Names \/ pending = f
        /\ t[Len(t)].kind # "for" \/ t = t
        /\ \A k \in 0 .. Len(chain), y \in Names : k # Len(chain) \/ y # f =>
             Seen(new, k, y, ParserAbsent[y]) = Seen(chain, k, y, ParserAbsent[y])
    BY <2>5, <1>2
  <2>9. Agrees(Symbols, ParserAbsent, ParserRight, FALSE, t, new, pending)
    BY <2>3, <2>5, <2>6, <2>7, <2>8, <1>4, <1>8, <1>10, <1>12, AgreesInner
  <2>10. QED BY <2>1, <2>2, <2>9
<1>15. Globals(Popped(ir, 2))
  <2>1. PICK b : b = Depth(c, Len(c), TRUE)
    OBVIOUS
  <2>2. b >= 3 /\ b \in Nat
    BY <2>1, <1>2, <1>2a, <1>4, AtDepth
  <2>3. 2 < b
    BY <2>2
  <2>4. ir \in Seq(Tables(Addresses)) /\ Len(ir) = b
    BY <2>1, ChainFacts
  <2>5. 2 < Len(ir) /\ 2 \in Nat
    BY <2>3, <2>4
  <2>6. QED BY <2>4, <2>5, <1>4, GlobalsPopped
<1>16. pending' \in Names \union {NoName} /\ pending' = NoName /\ ids' \in 0 .. MaxIds
  BY <1>1 DEF IInv
<1>17. QED BY <1>1, <1>5, <1>7, <1>8, <1>14, <1>15, <1>16 DEF IInv

\* After a for statement only C and the IR generator leave a scope: what was
\* declared in it stays in the tables of the others, and becomes unsure.
LEMMA LeaveForStep ==
  ASSUME IInv, LeaveFor
  PROVE  IInv'
<1>0. PICK X, s, t : /\ X = Inner.unsure \union DOMAIN Inner.names
                     /\ s = Popped(c, 1) /\ t = MoreUnsure(s, X)
  OBVIOUS
<1>1. /\ pending = NoName /\ Inner.kind = "for"
      /\ c' = [s EXCEPT ![Len(c) - 1].unsure = @ \union Inner.unsure \union DOMAIN Inner.names]
      /\ ir' = Popped(ir, 1)
      /\ parser' = parser /\ sema' = sema /\ pending' = pending /\ ids' = ids
  BY <1>0 DEF LeaveFor
<1>2. /\ c \in Seq(CScopes) /\ Nested(c) /\ Len(c) > 2 /\ Len(c) > 1 /\ pending \notin Names
      /\ Len(c) \in 1 .. Len(c) /\ Inner = c[Len(c)] /\ Inner \in CScopes /\ COK(c)
      /\ Len(c) - 1 \in 1 .. Len(c) /\ 1 \in 0 .. Len(c) /\ Len(c) \in Nat
  <2> DEFINE n == Len(c)
  <2>1. n \in Nat /\ n > 2
    BY <1>1, ScopeFacts
  <2> HIDE DEF n
  <2>2. n > 1 /\ n - 1 \in 1 .. n /\ 1 \in 0 .. n
    BY <2>1
  <2>3. Len(c) > 2 /\ Len(c) > 1 /\ Len(c) - 1 \in 1 .. Len(c) /\ 1 \in 0 .. Len(c)
    BY <2>1, <2>2 DEF n
  <2>4. QED BY <2>3, <1>1, ScopeFacts
<1>3. X \in SUBSET Names
  <2>1. PICK tab : tab = Inner.names
    OBVIOUS
  <2>2. tab \in Tables(Entities)
    BY <2>1, <1>2 DEF CScopes, NameTables
  <2>3. Inner.unsure \subseteq Names
    BY <1>2 DEF CScopes
  <2>4. QED BY <2>1, <2>2, <2>3, <1>0, TableFacts
<1>4. s \in Seq(CScopes) /\ Len(s) = Len(c) - 1 /\ \A j \in 1 .. Len(c) - 1 : s[j] = c[j]
  BY <1>0, <1>2, PopSeen
<1>5. /\ Nested(s) /\ Len(s) > 0
      /\ \A i \in 1 .. Len(c) - 1, b \in BOOLEAN : Depth(s, i, b) = Depth(c, i, b)
      /\ \A i \in 1 .. Len(c) - 1 : \A x :
           /\ CSeen(s, i, x) = CSeen(c, i, x)
           /\ UnsureAt(s, i, x) <=> UnsureAt(c, i, x)
  <2>1. Len(s) > 0
    BY <1>2, <1>4
  <2>2. QED BY <2>1, <1>2, <1>4, Closed
<1>6. c' = t
  <2>1. s[Len(s)].unsure \union Inner.unsure \union DOMAIN Inner.names
          = s[Len(s)].unsure \union X
    BY <1>0
  <2>2. QED BY <2>1, <1>0, <1>1, <1>4 DEF MoreUnsure
<1>7. /\ t \in Seq(CScopes) /\ Len(t) = Len(s)
      /\ \A j \in 1 .. Len(s) - 1 : t[j] = s[j]
      /\ t[Len(s)].kind = s[Len(s)].kind /\ t[Len(s)].fn = s[Len(s)].fn
      /\ t[Len(s)].names = s[Len(s)].names
      /\ t[Len(s)].unsure = s[Len(s)].unsure \union X
      /\ \A x : CSeen(t, Len(s), x) = CSeen(s, Len(s), x)
      /\ \A x : UnsureAt(t, Len(s), x) <=> x \in X \/ UnsureAt(s, Len(s), x)
  BY <1>0, <1>3, <1>4, <1>5, MoreUnsureFacts
<1>8. /\ Nested(t)
      /\ \A i \in 1 .. Len(s), b \in BOOLEAN : Depth(t, i, b) = Depth(s, i, b)
      /\ \A i \in 0 .. Len(s) - 1 : \A x :
           /\ CSeen(t, i, x) = CSeen(s, i, x)
           /\ UnsureAt(t, i, x) <=> UnsureAt(s, i, x)
  BY <1>4, <1>5, <1>7, InnerChanged
<1>9. COK(t)
  BY <1>5, <1>7, <1>8 DEF COK
<1>10. PICK n \in Nat : n = Len(c) /\ n > 2
  BY <1>2
<1>11. Len(s) = n - 1 /\ Len(t) = n - 1
  BY <1>4, <1>7, <1>10
<1>12. ASSUME NEW i \in 1 .. n - 1, NEW b \in BOOLEAN
       PROVE  Depth(t, i, b) = Depth(c, i, b)
  BY <1>5, <1>8, <1>10, <1>11
<1>13. ASSUME NEW i \in 1 .. n - 1, NEW y
       PROVE  /\ CSeen(t, i, y) = CSeen(c, i, y)
              /\ UnsureAt(c, i, y) => UnsureAt(t, i, y)
  <2>1. CASE i = n - 1
    BY <2>1, <1>5, <1>7, <1>10, <1>11
  <2>2. CASE i # n - 1
    <3>1. i \in 0 .. (n - 1) - 1
      BY <2>2, <1>10
    <3>2. QED BY <3>1, <1>5, <1>8, <1>10, <1>11
  <2>3. QED BY <2>1, <2>2
<1>14. ASSUME NEW i \in 1 .. n - 1, NEW y \in Names, Overlaid(c, i, y)
       PROVE  Overlaid(t, i, y) \/ UnsureAt(t, i, y)
  <2>0. FALSE \in BOOLEAN
    OBVIOUS
  <2>1. PICK j \in i + 1 .. n : /\ Depth(c, j, FALSE) = Depth(c, i, FALSE)
                                /\ y \in DOMAIN c[j].names \union c[j].unsure
    BY <1>10, <1>14 DEF Overlaid
  <2>2. CASE j # n
    <3>1. j \in 1 .. n - 1 /\ j \in i + 1 .. Len(t)
      BY <2>2, <1>10, <1>11
    <3>2. Depth(t, j, FALSE) = Depth(t, i, FALSE)
      BY <3>1, <2>0, <2>1, <1>12
    <3>3. y \in DOMAIN t[j].names \union t[j].unsure
      <4>1. CASE j = n - 1
        <5>1. t[j].names = c[j].names /\ c[j].unsure \subseteq t[j].unsure
          <6>1. j \in 1 .. Len(c) - 1 /\ j = Len(s)
            BY <3>1, <4>1, <1>10, <1>11
          <6>2. s[j] = c[j]
            BY <6>1, <1>4
          <6>3. QED BY <6>1, <6>2, <1>7
        <5>2. QED BY <5>1, <2>1
      <4>2. CASE j # n - 1
        <5>1. j \in 1 .. Len(s) - 1 /\ j \in 1 .. Len(c) - 1
          BY <3>1, <4>2, <1>10, <1>11
        <5>2. t[j] = c[j]
          BY <5>1, <1>4, <1>7
        <5>3. QED BY <5>2, <2>1
      <4>3. QED BY <4>1, <4>2
    <3>4. QED BY <3>1, <3>2, <3>3 DEF Overlaid
  <2>3. CASE j = n
    <3>1. y \in X
      BY <2>1, <2>3, <1>0, <1>2, <1>10
    <3>2. CASE i = n - 1
      BY <3>1, <3>2, <1>7, <1>11
    <3>3. CASE i # n - 1
      <4>1. n - 1 \in i + 1 .. Len(t) /\ n - 1 \in 1 .. n - 1
        BY <3>3, <1>10, <1>11
      <4>2. Depth(c, n - 1, FALSE) = Depth(c, i, FALSE)
        <5> DEFINE p == Depth(c, i, FALSE)
                   q == Depth(c, n - 1, FALSE)
                   r == Depth(c, n, FALSE)
        <5>1. n \in 1 .. Len(c) /\ n - 1 \in 1 .. Len(c) /\ i \in 1 .. Len(c)
              /\ i \in 1 .. n - 1 /\ n - 1 \in 1 .. n
          BY <1>10
        <5>2. p \in Nat /\ q \in Nat /\ r \in Nat
          BY <5>1, <2>0, <1>2, DepthFacts
        <5>3. p <= q /\ q <= r
          BY <5>1, <2>0, <1>2, DepthFacts
        <5>4. r = p
          BY <2>1, <2>3
        <5> HIDE DEF p, q, r
        <5>5. q = p
          BY <5>2, <5>3, <5>4
        <5>6. QED BY <5>5 DEF p, q
      <4>3. Depth(t, n - 1, FALSE) = Depth(t, i, FALSE)
        BY <4>1, <4>2, <2>0, <1>12
      <4>4. y \in t[n - 1].unsure
        BY <3>1, <1>7, <1>11
      <4>5. QED BY <4>1, <4>3, <4>4 DEF Overlaid
    <3>4. QED BY <3>2, <3>3
  <2>4. QED BY <2>2, <2>3
<1>15. ASSUME NEW V, NEW absent, NEW R, NEW opens \in BOOLEAN, NEW chain,
              Agrees(V, absent, R, opens, c, chain, pending),
              NEW new \in Seq(Tables(V)), Len(new) = Depth(c, Len(c) - 1, opens),
              \A k \in 0 .. Len(new), y \in Names :
                Seen(new, k, y, absent[y]) = Seen(chain, k, y, absent[y])
       PROVE  Agrees(V, absent, R, opens, t, new, pending)
  <2>1. Len(t) = Len(c) - 1 /\ Len(new) = Depth(c, Len(t), opens)
    BY <1>4, <1>7, <1>15
  <2>2. \A i \in 1 .. Len(t) :
          /\ Depth(t, i, opens) = Depth(c, i, opens)
          /\ \A y \in Names :
               /\ CSeen(t, i, y) = CSeen(c, i, y)
               /\ ~ opens /\ (Overlaid(c, i, y) \/ UnsureAt(c, i, y))
                    => Overlaid(t, i, y) \/ UnsureAt(t, i, y)
    BY <1>11, <1>12, <1>13, <1>14
  <2>3. /\ Agrees(V, absent, R, opens, c, chain, pending)
        /\ \A k \in 0 .. Len(new), y \in Names :
             Seen(new, k, y, absent[y]) = Seen(chain, k, y, absent[y])
    BY <1>15
  <2>4. COK(c) /\ Len(c) > 1 /\ pending \notin Names
    BY <1>2
  <2>5. QED BY <2>1, <2>2, <2>3, <2>4, <1>9, AgreesClosed
<1>16. /\ Agrees(Entities, SemaAbsent, SemaRight, FALSE, c, sema, pending)
       /\ Agrees(Symbols, ParserAbsent, ParserRight, FALSE, c, parser, pending)
       /\ Agrees(Addresses, IrAbsent, IrRight, TRUE, c, ir, pending)
       /\ TRUE \in BOOLEAN /\ FALSE \in BOOLEAN /\ Globals(ir) /\ FileScope(c)
  BY DEF IInv
<1>17. ASSUME NEW opens \in BOOLEAN
       PROVE  /\ Depth(c, Len(c) - 1, opens) \in Nat
              /\ Depth(c, Len(c), opens) = Depth(c, Len(c) - 1, opens) + IF opens THEN 1 ELSE 0
  <2>1. Depth(c, Len(c) - 1, opens) \in Nat
    BY <1>2, DepthFacts
  <2>2. Depth(c, Len(c), opens) = Depth(c, Len(c) - 1, opens)
          + IF opens \/ c[Len(c)].kind # "for" THEN 1 ELSE 0
    BY <1>2, DepthFacts
  <2>3. opens \/ c[Len(c)].kind # "for" <=> opens
    BY <1>1, <1>2
  <2>4. QED BY <2>1, <2>2, <2>3
<1>18. PICK lower, upper : /\ lower = Depth(c, Len(c) - 1, FALSE)
                           /\ upper = Depth(c, Len(c) - 1, TRUE)
  OBVIOUS
<1>19. /\ sema \in Seq(Tables(Entities)) /\ Len(sema) = lower
       /\ parser \in Seq(Tables(Symbols)) /\ Len(parser) = lower
       /\ ir \in Seq(Tables(Addresses)) /\ Len(ir) = upper + 1 /\ upper \in Nat
  <2>1. PICK b : b = Depth(c, Len(c), FALSE)
    OBVIOUS
  <2>2. b = lower + 0 /\ lower \in Nat
    BY <2>1, <1>16, <1>17, <1>18
  <2>3. b = lower
    BY <2>2
  <2>4. Depth(c, Len(c), TRUE) = upper + 1 /\ upper \in Nat
    BY <1>16, <1>17, <1>18
  <2>5. QED BY <2>1, <2>3, <2>4, ChainFacts
<1>20. Agrees(Entities, SemaAbsent, SemaRight, FALSE, t, sema, pending)
  BY <1>15, <1>16, <1>18, <1>19
<1>21. Agrees(Symbols, ParserAbsent, ParserRight, FALSE, t, parser, pending)
  BY <1>15, <1>16, <1>18, <1>19
<1>22. Agrees(Addresses, IrAbsent, IrRight, TRUE, t, Popped(ir, 1), pending)
  <2>1. PICK new : new = Popped(ir, 1)
    OBVIOUS
  <2>2. 1 \in 0 .. Len(ir) /\ Len(ir) - 1 = upper
    BY <1>19
  <2>3. /\ new \in Seq(Tables(Addresses)) /\ Len(new) = Len(ir) - 1
    BY <2>1, <2>2, <1>19, PopSeen
  <2>4. \A k \in 0 .. Len(ir) - 1 : \A y, a : Seen(Popped(ir, 1), k, y, a) = Seen(ir, k, y, a)
    BY <2>2, <1>19, PopSeen
  <2>5. \A k \in 0 .. Len(new), y \in Names :
          Seen(new, k, y, IrAbsent[y]) = Seen(ir, k, y, IrAbsent[y])
    BY <2>1, <2>3, <2>4
  <2>6. Len(new) = Depth(c, Len(c) - 1, TRUE)
    BY <2>2, <2>3, <1>18
  <2>7. Agrees(Addresses, IrAbsent, IrRight, TRUE, t, new, pending)
    BY <2>3, <2>5, <2>6, <1>15, <1>16
  <2>8. QED BY <2>1, <2>7
<1>23. FileScope(t)
  <2>1. 1 \in 1 .. Len(s) - 1 /\ 1 \in 1 .. Len(c) - 1 /\ 2 \in 1 .. Len(c) - 1
        /\ Len(c) > 1 /\ (2 \in 1 .. Len(s) - 1 \/ 2 = Len(s))
    BY <1>10, <1>11
  <2>2. t[1] = c[1]
    BY <2>1, <1>4, <1>7
  <2>3. s[2] = c[2]
    BY <2>1, <1>4
  <2>4. t[2].fn = c[2].fn
    <3>1. CASE 2 \in 1 .. Len(s) - 1
      BY <3>1, <2>3, <1>7
    <3>2. CASE 2 = Len(s)
      BY <3>2, <2>3, <1>7
    <3>3. QED BY <3>1, <3>2, <2>1
  <2>5. QED BY <2>1, <2>2, <2>4, <1>16, FileScopeSame
<1>24. Globals(Popped(ir, 1))
  <2>1. 1 \in 1 .. Len(c) - 1 /\ 1 \in 1 .. Len(c)
    BY <1>10
  <2>2. upper >= 1
    <3>1. Depth(c, 1, TRUE) = 1
      BY <2>1, <1>2, <1>16, DepthFacts
    <3>2. Depth(c, 1, TRUE) <= upper
      BY <2>1, <1>2, <1>16, <1>18, DepthFacts
    <3>3. 1 <= upper
      BY <3>1, <3>2
    <3>4. QED BY <3>3, <1>19
  <2>3. 1 < Len(ir) /\ 1 \in Nat
    BY <2>2, <1>19
  <2>4. QED BY <2>3, <1>16, <1>19, GlobalsPopped
<1>25. pending' \in Names \union {NoName} /\ pending' = NoName /\ ids' \in 0 .. MaxIds
  BY <1>1 DEF IInv
<1>26. QED BY <1>1, <1>6, <1>9, <1>20, <1>21, <1>22, <1>23, <1>24, <1>25 DEF IInv

-----------------------------------------------------------------------------
(* What holds of every program *)

\* No construct of a program makes a pass disagree with C.
LEMMA StepInv == IInv /\ [Next]_vars => IInv'
<1> SUFFICES ASSUME IInv, [Next]_vars PROVE IInv'
  OBVIOUS
<1>1. CASE \E x \in Names : BeginVar(x) \/ Prototype(x) \/ Typedef(x) \/ EnumConst(x) \/ EnterFor(x)
  BY <1>1, BeginVarStep, PrototypeStep, TypedefStep, EnumConstStep, EnterForStep
<1>2. CASE EndVar
  BY <1>2, EndVarStep
<1>3. CASE \E e \in EnumsDeclared : EnumRef(e)
  BY <1>3, EnumRefStep
<1>4. CASE \E f \in Names, params \in {{}} \union {{p} : p \in Names} : EnterFunc(f, params)
  BY <1>4, EnterFuncStep
<1>5. CASE LeaveFunc
  BY <1>5, LeaveFuncStep
<1>6. CASE EnterBlock
  BY <1>6, EnterBlockStep
<1>7. CASE LeaveBlock
  BY <1>7, LeaveBlockStep
<1>8. CASE LeaveFor
  BY <1>8, LeaveForStep
<1>9. CASE UNCHANGED vars
  BY <1>9 DEF vars, IInv, Inner
<1>10. QED BY <1>1, <1>2, <1>3, <1>4, <1>5, <1>6, <1>7, <1>8, <1>9 DEF Next

\* After every construct of every program, each pass sees of a name what C
\* does, from inside every open scope.
THEOREM ScopesInv == Spec => []IInv
  BY InitInv, StepInv, PTL DEF Spec

\* The tables of the three passes hold symbols only, and each chain is as
\* deep as the open constructs say, whatever the nesting.
THEOREM ScopesTyped == Spec => []TypeOK
<1>1. IInv => TypeOK
  <2> SUFFICES ASSUME IInv PROVE TypeOK
    OBVIOUS
  <2>1. pending \in Names \union {NoName} /\ ids \in 0 .. MaxIds
    BY DEF IInv
  <2>2. ASSUME NEW i \in 1 .. Len(c), NEW x \in DOMAIN c[i].names
        PROVE  c[i].names[x] \in Entities /\ c[i].names[x].name = x
    <3>1. c[i] \in CScopes
      BY ScopeFacts, ElementOfSeq
    <3>2. PICK tab : tab = c[i].names
      OBVIOUS
    <3>3. tab \in Tables(Entities) /\ tab[x].name = x
      BY <3>1, <3>2 DEF CScopes, NameTables
    <3>4. QED BY <3>2, <3>3, TableFacts
  <2>3. ASSUME NEW i \in 1 .. Len(sema), NEW x \in DOMAIN sema[i]
        PROVE  sema[i][x] \in Entities
    <3>1. sema[i] \in Tables(Entities)
      BY ChainFacts, ElementOfSeq
    <3>2. QED BY <3>1, TableFacts
  <2>4. QED BY <2>1, <2>2, <2>3, ChainFacts DEF TypeOK
<1>2. QED BY <1>1, ScopesInv, PTL

\* What a pass finds by a lookup.
LEMMA InvLookup ==
  ASSUME IInv, NEW V, NEW absent, NEW R, NEW opens \in BOOLEAN, NEW chain,
         Agrees(V, absent, R, opens, c, chain, pending),
         NEW x \in Names, opens \/ (x # pending /\ ~ Unsure(x))
  PROVE  <<Lookup(chain, x, absent[x]), CLookup(x)>> \in R
<1>1. COK(c) /\ c \in Seq(CScopes) /\ Len(c) \in 1 .. Len(c) /\ Len(c) \in Nat
  BY ScopeFacts
<1>2. chain \in Seq(Tables(V)) /\ Len(chain) = Depth(c, Len(c), opens)
  BY <1>1, ChainTyped
<1>3. ~ Excused(opens, c, pending, Len(c), x)
  <2>1. ~ Overlaid(c, Len(c), x)
    BY <1>1, InnerNotOverlaid
  <2>2. Unsure(x) <=> UnsureAt(c, Len(c), x)
    BY DEF Unsure, UnsureAt
  <2>3. QED BY <2>1, <2>2 DEF Excused
<1>4. <<Seen(chain, Depth(c, Len(c), opens), x, absent[x]), CSeen(c, Len(c), x)>> \in R
  BY <1>1, <1>3 DEF Agrees
<1>5. Lookup(chain, x, absent[x]) = Seen(chain, Len(chain), x, absent[x])
  BY <1>2, LookupSeen
<1>6. CLookup(x) = CSeen(c, Len(c), x)
  BY <1>1, CLookupSeen
<1>7. QED BY <1>2, <1>4, <1>5, <1>6

\* The address the IR generator takes by a name is that of the object or the
\* function C means by it, in initializers and around for statements too.
THEOREM ScopesSameObject == Spec => []SameObject
<1>1. IInv => SameObject
  <2> SUFFICES ASSUME IInv, NEW x \in Names, CLookup(x).kind \in {"var", "func"}
               PROVE  Lookup(ir, x, Address([name |-> x, id |-> 0])) = Address(CLookup(x))
    BY DEF SameObject
  <2>1. Agrees(Addresses, IrAbsent, IrRight, TRUE, c, ir, pending) /\ TRUE \in BOOLEAN
    BY DEF IInv
  <2>2. <<Lookup(ir, x, IrAbsent[x]), CLookup(x)>> \in IrRight
    BY <2>1, InvLookup
  <2>3. IrAbsent[x] = Address([name |-> x, id |-> 0])
    BY DEF IrAbsent
  <2>4. QED BY <2>2, <2>3 DEF IrRight
<1>2. QED BY <1>1, ScopesInv, PTL

\* The symbol the analysis finds is that of the entity C means, where the
\* passes have to agree.
THEOREM ScopesSameSymbol == Spec => []SameSymbol
<1>1. IInv => SameSymbol
  <2> SUFFICES ASSUME IInv, NEW x \in Names \ {pending}, ~ Unsure(x)
               PROVE  Lookup(sema, x, Undeclared) = CLookup(x)
    BY DEF SameSymbol
  <2>1. Agrees(Entities, SemaAbsent, SemaRight, FALSE, c, sema, pending) /\ FALSE \in BOOLEAN
    BY DEF IInv
  <2>2. <<Lookup(sema, x, SemaAbsent[x]), CLookup(x)>> \in SemaRight
    BY <2>1, InvLookup
  <2>3. SemaAbsent[x] = Undeclared
    BY DEF SemaAbsent
  <2>4. QED BY <2>2, <2>3 DEF SemaRight
<1>2. QED BY <1>1, ScopesInv, PTL

\* The parser takes a name for a type exactly if C does, where the passes
\* have to agree.
THEOREM ScopesTypedefNames == Spec => []TypedefNames
<1>1. IInv => TypedefNames
  <2> SUFFICES ASSUME IInv, NEW x \in Names \ {pending}, ~ Unsure(x)
               PROVE  (Lookup(parser, x, "none") = "typedef") = (CLookup(x).kind = "typedef")
    BY DEF TypedefNames
  <2>1. Agrees(Symbols, ParserAbsent, ParserRight, FALSE, c, parser, pending) /\ FALSE \in BOOLEAN
    BY DEF IInv
  <2>2. <<Lookup(parser, x, ParserAbsent[x]), CLookup(x)>> \in ParserRight
    BY <2>1, InvLookup
  <2>3. ParserAbsent[x] = "none"
    BY DEF ParserAbsent
  <2>4. QED BY <2>2, <2>3 DEF ParserRight
<1>2. QED BY <1>1, ScopesInv, PTL
=============================================================================
