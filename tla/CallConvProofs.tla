---------------------------- MODULE CallConvProofs ----------------------------
(***************************************************************************)
(* For any number of registers, any argument list and any frame: rsp is      *)
(* aligned at the call and back after it; the caller's three passes and the   *)
(* callee's walk give every argument the same place, so it arrives; and the   *)
(* result comes back.  Each of the last two has a condition on the types      *)
(* (Passable, Returnable), which names the departures the README lists.       *)
(***************************************************************************)
EXTENDS CallConv, SharedFacts, FiniteSetTheorems, SequenceTheorems, TLAPS

-----------------------------------------------------------------------------
(* Recursion over the argument list *)

\* The recursion of Walk defines a function.
LEMMA WalkExists ==
  ASSUME NEW types, NEW start, NEW n \in Nat
  PROVE  \E s : s = [k \in 0 .. n |-> IF k = 0 THEN start ELSE After(s[k - 1], types[k])]
<1> DEFINE P == {m \in 0 .. n : \E s : s = [k \in 0 .. m |-> IF k = 0 THEN start
                                                          ELSE After(s[k - 1], types[k])]}
<1>1. 0 \in P
  <2> DEFINE s == [k \in 0 .. 0 |-> start]
  <2>1. s = [k \in 0 .. 0 |-> IF k = 0 THEN start ELSE After(s[k - 1], types[k])]
    OBVIOUS
  <2> HIDE DEF s
  <2>2. 0 \in 0 .. n
    OBVIOUS
  <2>3. QED BY <2>1, <2>2
<1>2. ASSUME NEW d \in 1 .. n, d - 1 \in P
      PROVE  d \in P
  <2>1. PICK s : s = [k \in 0 .. d - 1 |-> IF k = 0 THEN start ELSE After(s[k - 1], types[k])]
    BY <1>2
  <2> DEFINE t == [k \in 0 .. d |-> IF k = d THEN After(s[d - 1], types[d]) ELSE s[k]]
  <2>2. ASSUME NEW k \in 0 .. d
        PROVE  t[k] = IF k = 0 THEN start ELSE After(t[k - 1], types[k])
    <3>1. CASE k = 0
      BY <2>1, <3>1
    <3>2. CASE k # 0 /\ k = d
      <4>1. t[k - 1] = s[d - 1]
        BY <3>2
      <4>2. QED BY <3>2, <4>1
    <3>3. CASE k # 0 /\ k # d
      <4>1. k \in 0 .. d - 1 /\ k - 1 \in 0 .. d - 1 /\ k - 1 # d
        BY <3>3
      <4>2. t[k] = s[k] /\ t[k - 1] = s[k - 1]
        BY <3>3, <4>1
      <4>3. s[k] = After(s[k - 1], types[k])
        BY <2>1, <3>3, <4>1
      <4>4. QED BY <3>3, <4>2, <4>3
    <3>4. QED BY <3>1, <3>2, <3>3
  <2>3. t = [k \in 0 .. d |-> IF k = 0 THEN start ELSE After(t[k - 1], types[k])]
    BY <2>2
  <2> HIDE DEF t
  <2>4. d \in 0 .. n
    OBVIOUS
  <2>5. QED BY <2>3, <2>4
<1>3. \A k \in 0 .. n : k \in P
  <2> HIDE DEF P
  <2>1. QED BY <1>1, <1>2, UpTo
<1>4. QED BY <1>3

\* The walk starts at start and takes one step for each argument.
LEMMA WalkFacts ==
  ASSUME NEW types, NEW start, Len(types) \in Nat
  PROVE  /\ DOMAIN Walk(types, start) = 0 .. Len(types)
         /\ Walk(types, start)[0] = start
         /\ \A k \in 1 .. Len(types) :
              Walk(types, start)[k] = After(Walk(types, start)[k - 1], types[k])
<1> DEFINE w == Walk(types, start)
           n == Len(types)
<1>1. w = CHOOSE s : s = [k \in 0 .. n |-> IF k = 0 THEN start ELSE After(s[k - 1], types[k])]
  BY DEF Walk
<1>2. w = [k \in 0 .. n |-> IF k = 0 THEN start ELSE After(w[k - 1], types[k])]
  BY <1>1, WalkExists
<1> HIDE DEF w
<1>3. QED BY <1>2 DEF w

-----------------------------------------------------------------------------
(* The classes of a type *)

\* A type that does not travel in memory has a class for each eightbyte, and at
\* most two.
LEMMA ClassifyFacts ==
  ASSUME NEW ty, ty.size \in Int, Len(ty.leaves) \in Nat
  PROVE  /\ DOMAIN abi_classify(ty) \in {{}, {0}, {0, 1}}
         /\ ~abi_in_memory(abi_classify(ty)) => DOMAIN abi_classify(ty) = Words(ty)
<1> DEFINE n == Eightbytes(ty.size)
           classes == ClassesAfter(ty.leaves, n)[Len(ty.leaves)]
<1>1. DOMAIN classes = 0 .. n - 1
  BY ClassesDomain
<1>2. DOMAIN PostMerger(classes) = DOMAIN classes
  BY DEF PostMerger
<1>3. abi_classify(ty) = IF ty.size <= 0 THEN [e \in {} |-> "NONE"]
                         ELSE IF n > 2 THEN [e \in {0} |-> "MEMORY"]
                         ELSE IF ty.agg THEN PostMerger(classes)
                         ELSE classes
  BY DEF abi_classify, MAX_EIGHTBYTES
<1> HIDE DEF classes
<1>4. CASE ty.size <= 0
  <2>1. Words(ty) = {}
    BY <1>4 DEF Words, Bytes, Eightbytes
  <2>2. QED BY <1>3, <1>4, <2>1
<1>5. CASE ~(ty.size <= 0) /\ n > 2
  <2>1. DOMAIN abi_classify(ty) = {0} /\ abi_classify(ty)[0] = "MEMORY"
    BY <1>3, <1>5
  <2>2. QED BY <2>1 DEF abi_in_memory
<1>6. CASE ~(ty.size <= 0) /\ ~(n > 2)
  <2>1. n \in {1, 2} /\ Words(ty) = 0 .. n - 1
    BY <1>6 DEF Words, Bytes, Eightbytes
  <2>2. 0 .. n - 1 \in {{0}, {0, 1}}
    BY <2>1
  <2> HIDE DEF n
  <2>3. DOMAIN abi_classify(ty) = 0 .. n - 1
    BY <1>1, <1>2, <1>3, <1>6
  <2>4. QED BY <2>1, <2>2, <2>3
<1>7. QED BY <1>4, <1>5, <1>6

-----------------------------------------------------------------------------
(* Eightbytes and registers *)

Small(c) == DOMAIN c \in {{}, {0}, {0, 1}}

\* The registers of one class a list of eightbytes needs.
Needs(c, cls) == Cardinality({e \in DOMAIN c : c[e] = cls})

\* The n-th eightbyte of a class has number n, and no two have the same.
LEMMA RankFacts ==
  ASSUME NEW c, Small(c)
  PROVE  /\ \A cls : Needs(c, cls) \in Nat
         /\ \A e \in DOMAIN c : Rank(c, e) \in Nat /\ Rank(c, e) < Needs(c, c[e])
         /\ \A d, e \in DOMAIN c : c[d] = c[e] /\ Rank(c, d) = Rank(c, e) => d = e
<1>1. IsFiniteSet(DOMAIN c) /\ DOMAIN c \subseteq Nat
  <2>1. IsFiniteSet({}) /\ IsFiniteSet({0}) /\ IsFiniteSet({0, 1})
    BY FS_EmptySet, FS_AddElement, FS_Singleton
  <2>2. QED BY <2>1 DEF Small
<1> DEFINE Of(cls) == {e \in DOMAIN c : c[e] = cls}
           Below(e) == {d \in DOMAIN c : d < e /\ c[d] = c[e]}
<1>2. \A cls : IsFiniteSet(Of(cls)) /\ Cardinality(Of(cls)) \in Nat
  BY <1>1, FS_Subset, FS_CardinalityType
<1>3. \A e : IsFiniteSet(Below(e)) /\ Cardinality(Below(e)) \in Nat
  BY <1>1, FS_Subset, FS_CardinalityType
<1>4. ASSUME NEW e \in DOMAIN c
      PROVE  Cardinality(Below(e)) < Cardinality(Of(c[e]))
  <2>1. Below(e) \subseteq Of(c[e]) /\ e \in Of(c[e]) /\ e \notin Below(e)
    BY <1>1
  <2> HIDE DEF Of, Below
  <2>2. /\ Cardinality(Below(e)) <= Cardinality(Of(c[e]))
        /\ Cardinality(Below(e)) # Cardinality(Of(c[e]))
    BY <2>1, <1>2, FS_Subset
  <2>3. QED BY <2>2, <1>2, <1>3
<1>5. ASSUME NEW d \in DOMAIN c, NEW e \in DOMAIN c, c[d] = c[e], d < e
      PROVE  Cardinality(Below(d)) # Cardinality(Below(e))
  <2>1. Below(d) \subseteq Below(e) /\ d \in Below(e) /\ d \notin Below(d)
    BY <1>1, <1>5
  <2> HIDE DEF Below
  <2>2. QED BY <2>1, <1>3, FS_Subset
<1>6. \A e : Rank(c, e) = Cardinality(Below(e))
  BY DEF Rank
<1>7. \A cls : Needs(c, cls) = Cardinality(Of(cls))
  BY DEF Needs
<1> HIDE DEF Of, Below
<1>8. ASSUME NEW d \in DOMAIN c, NEW e \in DOMAIN c, c[d] = c[e], Rank(c, d) = Rank(c, e)
      PROVE  d = e
  <2>1. d \in Nat /\ e \in Nat
    BY <1>1
  <2>2. ~ (d < e)
    BY <1>5, <1>6, <1>8
  <2>3. ~ (e < d)
    BY <1>5, <1>6, <1>8
  <2>4. QED BY <2>1, <2>2, <2>3
<1>9. QED BY <1>2, <1>3, <1>4, <1>6, <1>7, <1>8

\* Of n registers those from number `from' on hold the words of one class; the
\* registers before them are as they were.
Loads(new, regs, n, from, c, cls, words) ==
  /\ \A r \in 0 .. n - 1 : r < from => new[r] = regs[r]
  /\ from + Needs(c, cls) <= n =>
       \A e \in DOMAIN c : c[e] = cls =>
         /\ from + Rank(c, e) \in 0 .. n - 1
         /\ new[from + Rank(c, e)] = words[e]

\* Loading changes the registers it says, which get the words it is given; the
\* registers before them keep theirs.
LEMMA LoadFacts ==
  ASSUME NEW W, NEW n \in Nat, NEW regs \in [0 .. n - 1 -> W], NEW from \in Nat,
         NEW c, Small(c), NEW cls, NEW words \in [DOMAIN c -> W]
  PROVE  /\ Load(regs, from, c, cls, words) \in [0 .. n - 1 -> W]
         /\ Loads(Load(regs, from, c, cls, words), regs, n, from, c, cls, words)
<1> DEFINE hits(r) == {e \in DOMAIN c : c[e] = cls /\ r = from + Rank(c, e)}
<1>1. Load(regs, from, c, cls, words) =
        [r \in 0 .. n - 1 |-> IF hits(r) = {} THEN regs[r] ELSE words[CHOOSE e \in hits(r) : TRUE]]
  BY DEF Load
<1>2. \A r : hits(r) # {} => (CHOOSE e \in hits(r) : TRUE) \in hits(r)
  OBVIOUS
<1>3. \A r : hits(r) \subseteq DOMAIN c
  OBVIOUS
<1>4. \A r \in 0 .. n - 1 : r < from => hits(r) = {}
  BY RankFacts
<1>5. ASSUME NEW e \in DOMAIN c, c[e] = cls
      PROVE  hits(from + Rank(c, e)) = {e}
  <2>1. \A d \in DOMAIN c : Rank(c, d) \in Nat
    BY RankFacts
  <2>2. \A d \in DOMAIN c : c[d] = cls /\ from + Rank(c, e) = from + Rank(c, d) => d = e
    BY <1>5, <2>1, RankFacts
  <2>3. QED BY <1>5, <2>2
<1>6. ASSUME from + Needs(c, cls) <= n, NEW e \in DOMAIN c, c[e] = cls
      PROVE  from + Rank(c, e) \in 0 .. n - 1
  <2>1. Rank(c, e) \in Nat /\ Needs(c, cls) \in Nat /\ Rank(c, e) < Needs(c, cls)
    BY <1>6, RankFacts
  <2>2. QED BY <1>6, <2>1
<1> HIDE DEF hits
<1>7. Load(regs, from, c, cls, words) \in [0 .. n - 1 -> W]
  <2>1. \A r \in 0 .. n - 1 :
          (IF hits(r) = {} THEN regs[r] ELSE words[CHOOSE e \in hits(r) : TRUE]) \in W
    BY <1>2, <1>3
  <2>2. QED BY <1>1, <2>1
<1>8. \A r \in 0 .. n - 1 : r < from => Load(regs, from, c, cls, words)[r] = regs[r]
  BY <1>1, <1>4
<1>9. ASSUME from + Needs(c, cls) <= n, NEW e \in DOMAIN c, c[e] = cls
      PROVE  Load(regs, from, c, cls, words)[from + Rank(c, e)] = words[e]
  <2>1. hits(from + Rank(c, e)) = {e}
    BY <1>5, <1>9
  <2>2. (CHOOSE x \in {e} : TRUE) = e
    OBVIOUS
  <2>3. from + Rank(c, e) \in 0 .. n - 1
    BY <1>6, <1>9
  <2>4. QED BY <1>1, <2>1, <2>2, <2>3
<1>10. QED BY <1>6, <1>7, <1>8, <1>9 DEF Loads

-----------------------------------------------------------------------------
(* The places of the arguments *)

Pos == [int : Nat, sse : Nat, stack : Nat]
NWords(ty) == Eightbytes(Bytes(ty.size))

\* A type of some size takes that many bytes, rounded up to whole words, on the
\* stack, and there is something in each of its words.
LEMMA WordsFacts ==
  ASSUME NEW ty \in AbiTypes
  PROVE  /\ NWords(ty) \in Nat /\ Words(ty) = 0 .. NWords(ty) - 1
         /\ Cardinality(Words(ty)) = NWords(ty)
         /\ AlignUp(Bytes(ty.size), 8) = 8 * NWords(ty)
         /\ \A e \in Words(ty) : e \in Nat /\ Remaining(ty, e) \in Nat \ {0}
<1>1. ty.size \in Int
  BY DEF AbiTypes
<1> DEFINE b == Bytes(ty.size)
           n == NWords(ty)
<1>2. b \in Nat /\ n = (b + 7) \div 8 /\ n \in Nat
  BY <1>1 DEF Bytes, NWords, Eightbytes
<1>3. AlignUp(b, 8) = 8 * n
  <2> HIDE DEF b, n
  <2>1. b + 7 = 8 * ((b + 7) \div 8) + ((b + 7) % 8)
    BY <1>2
  <2>2. AlignUp(b, 8) = (b + 7) - ((b + 7) % 8)
    BY <1>2 DEF AlignUp
  <2>3. (b + 7) \div 8 \in Nat /\ (b + 7) % 8 \in Nat
    BY <1>2
  <2>4. QED BY <2>1, <2>2, <2>3, <1>2
<1>4. Words(ty) = 0 .. n - 1
  BY DEF Words, NWords
<1>5. Cardinality(0 .. n - 1) = n
  <2> HIDE DEF n
  <2>1. 0 \in Int /\ n - 1 \in Int
    BY <1>2
  <2>2. Cardinality(0 .. n - 1) = IF 0 > n - 1 THEN 0 ELSE (n - 1) - 0 + 1
    BY <2>1, FS_Interval
  <2>3. QED BY <2>2, <1>2
<1>6. ASSUME NEW e \in Words(ty)
      PROVE  e \in Nat /\ Remaining(ty, e) \in Nat \ {0}
  <2>1. e \in Nat /\ e <= n - 1
    BY <1>2, <1>4
  <2>2. b = ty.size
    <3>1. n # 0
      BY <2>1, <1>2
    <3>2. b # 0
      BY <3>1, <1>2
    <3>3. QED BY <3>2 DEF Bytes
  <2>3. Remaining(ty, e) = b - 8 * e
    BY <2>2 DEF Remaining
  <2> HIDE DEF b
  <2>4. n * 8 <= b + 7
    BY <1>2
  <2> HIDE DEF n
  <2>5. QED BY <2>1, <2>3, <2>4, <1>2
<1>7. QED BY <1>2, <1>3, <1>4, <1>5, <1>6

\* After an argument the counts are still numbers; it takes the registers of its
\* classes or its words on the stack, never both.
LEMMA AfterFacts ==
  ASSUME NEW s \in Pos, NEW ty \in AbiTypes
  PROVE  /\ After(s, ty) \in Pos
         /\ Count(ty, "INTEGER") \in Nat /\ Count(ty, "SSE") \in Nat
         /\ InRegisters(s, ty) => /\ After(s, ty).int = s.int + Count(ty, "INTEGER")
                                  /\ After(s, ty).sse = s.sse + Count(ty, "SSE")
                                  /\ After(s, ty).stack = s.stack
         /\ ~InRegisters(s, ty) => /\ After(s, ty).int = s.int
                                   /\ After(s, ty).sse = s.sse
                                   /\ After(s, ty).stack = s.stack + 8 * NWords(ty)
<1>1. ty.size \in Int /\ Len(ty.leaves) \in Nat
  BY DEF AbiTypes
<1>2. Small(abi_classify(ty))
  BY <1>1, ClassifyFacts DEF Small
<1>3. \A cls : Count(ty, cls) = Needs(abi_classify(ty), cls)
  BY DEF Count, Needs
<1>4. Count(ty, "INTEGER") \in Nat /\ Count(ty, "SSE") \in Nat
  BY <1>2, <1>3, RankFacts
<1>5. NWords(ty) \in Nat /\ AlignUp(Bytes(ty.size), 8) = 8 * NWords(ty)
  BY WordsFacts
<1> DEFINE w == 8 * NWords(ty)
<1>6. w \in Nat
  BY <1>5
<1> HIDE DEF w
<1>7. CASE InRegisters(s, ty)
  <2>1. After(s, ty) = [s EXCEPT !.int = @ + Count(ty, "INTEGER"), !.sse = @ + Count(ty, "SSE")]
    BY <1>7 DEF After
  <2>2. After(s, ty) = [int |-> s.int + Count(ty, "INTEGER"),
                        sse |-> s.sse + Count(ty, "SSE"), stack |-> s.stack]
    BY <2>1 DEF Pos
  <2>3. QED BY <2>2, <1>4, <1>7 DEF Pos
<1>8. CASE ~InRegisters(s, ty)
  <2>1. After(s, ty) = [s EXCEPT !.stack = @ + w]
    BY <1>5, <1>8 DEF After, w
  <2>2. QED BY <2>1, <1>4, <1>6, <1>8 DEF Pos, w
<1>9. QED BY <1>7, <1>8

\* Along the list every count is a number and none goes down; stack arguments
\* take whole words.
LEMMA WalkGrows ==
  ASSUME NEW types \in Seq(AbiTypes), NEW start \in Pos
  PROVE  /\ \A k \in 0 .. Len(types) : Walk(types, start)[k] \in Pos
         /\ \A j, k \in 0 .. Len(types) : j <= k =>
              /\ Walk(types, start)[j].int <= Walk(types, start)[k].int
              /\ Walk(types, start)[j].sse <= Walk(types, start)[k].sse
              /\ Walk(types, start)[j].stack <= Walk(types, start)[k].stack
<1> DEFINE n == Len(types)
           w == Walk(types, start)
<1>1. /\ n \in Nat /\ w[0] = start
      /\ \A k \in 1 .. n : w[k] = After(w[k - 1], types[k]) /\ types[k] \in AbiTypes
  BY WalkFacts
<1> HIDE DEF w, n
<1>2. \A k \in 0 .. n : w[k] \in Pos
  <2> DEFINE P == {k \in 0 .. n : w[k] \in Pos}
  <2>1. 0 \in P
    BY <1>1
  <2>2. \A k \in 1 .. n : k - 1 \in P => k \in P
    BY <1>1, AfterFacts
  <2>3. \A k \in 0 .. n : k \in P
    <3> HIDE DEF P
    <3>1. QED BY <1>1, <2>1, <2>2, UpTo
  <2>4. QED BY <2>3
<1>3. ASSUME NEW j \in 0 .. n, NEW k \in 0 .. n, j <= k
      PROVE  w[j].int <= w[k].int /\ w[j].sse <= w[k].sse /\ w[j].stack <= w[k].stack
  <2> DEFINE Le(a, b) == a.int <= b.int /\ a.sse <= b.sse /\ a.stack <= b.stack
             P == {l \in 0 .. n : j <= l => Le(w[j], w[l])}
  <2>1. \A a \in Pos : Le(a, a)
    BY DEF Pos
  <2>2. \A a, b, d \in Pos : Le(a, b) /\ Le(b, d) => Le(a, d)
    BY DEF Pos
  <2>3. \A a \in Pos, ty \in AbiTypes : Le(a, After(a, ty))
    <3> TAKE a \in Pos, ty \in AbiTypes
    <3>1. NWords(ty) \in Nat
      BY WordsFacts
    <3>2. a.int \in Nat /\ a.sse \in Nat /\ a.stack \in Nat
      BY DEF Pos
    <3>3. QED BY <3>1, <3>2, AfterFacts
  <2> HIDE DEF Le
  <2>4. 0 \in P
    BY <1>1, <1>2, <2>1
  <2>5. ASSUME NEW l \in 1 .. n, l - 1 \in P
        PROVE  l \in P
    <3>1. w[l] \in Pos /\ l - 1 \in 0 .. n /\ w[l - 1] \in Pos /\ w[j] \in Pos
      BY <1>1, <1>2
    <3>2. Le(w[l - 1], w[l])
      BY <3>1, <1>1, <2>3
    <3>3. j <= l - 1 => Le(w[j], w[l])
      BY <3>1, <3>2, <2>2, <2>5
    <3>4. j = l => Le(w[j], w[l])
      BY <3>1, <2>1
    <3>5. j <= l => j <= l - 1 \/ j = l
      OBVIOUS
    <3>6. QED BY <3>3, <3>4, <3>5
  <2>6. k \in P
    <3> HIDE DEF P
    <3>1. QED BY <1>1, <2>4, <2>5, UpTo
  <2>7. QED BY <2>6, <1>3 DEF Le
<1>4. QED BY <1>2, <1>3 DEF w, n

\* The first argument on the stack begins at a word, so each one does.
LEMMA WalkWhole ==
  ASSUME NEW types \in Seq(AbiTypes), NEW start \in Pos, start.stack % 8 = 0
  PROVE  \A k \in 0 .. Len(types) : Walk(types, start)[k].stack % 8 = 0
<1> DEFINE n == Len(types)
           w == Walk(types, start)
           P == {k \in 0 .. n : w[k].stack % 8 = 0}
<1>1. /\ n \in Nat /\ w[0] = start
      /\ \A k \in 1 .. n : w[k] = After(w[k - 1], types[k]) /\ types[k] \in AbiTypes
      /\ \A k \in 0 .. n : w[k] \in Pos
  BY WalkFacts, WalkGrows
<1> HIDE DEF w, n
<1>2. 0 \in P
  BY <1>1
<1>3. ASSUME NEW k \in 1 .. n, k - 1 \in P
      PROVE  k \in P
  <2>1. w[k - 1] \in Pos /\ w[k - 1].stack % 8 = 0 /\ types[k] \in AbiTypes
    BY <1>1, <1>3
  <2>2. w[k].stack = w[k - 1].stack \/ w[k].stack = w[k - 1].stack + 8 * NWords(types[k])
    <3>1. w[k] = After(w[k - 1], types[k])
      BY <1>1
    <3>2. \/ After(w[k - 1], types[k]).stack = w[k - 1].stack
          \/ After(w[k - 1], types[k]).stack = w[k - 1].stack + 8 * NWords(types[k])
      BY <2>1, AfterFacts
    <3>3. QED BY <3>1, <3>2
  <2>3. w[k - 1].stack \in Nat /\ NWords(types[k]) \in Nat
    BY <2>1, WordsFacts DEF Pos
  <2>4. QED BY <2>1, <2>2, <2>3
<1>4. \A k \in 0 .. n : k \in P
  <2> HIDE DEF P
  <2>1. QED BY <1>1, <1>2, <1>3, UpTo
<1>5. QED BY <1>4 DEF w, n

\* Registers do not depend on where the stack arguments begin, which only moves
\* all of them: the callee counts from 16, the caller from 0.
LEMMA WalkShifts ==
  ASSUME NEW types \in Seq(AbiTypes), NEW a \in Pos, NEW b \in Pos,
         a.int = b.int, a.sse = b.sse, NEW d \in Nat, b.stack = a.stack + d
  PROVE  \A k \in 0 .. Len(types) :
           /\ Walk(types, b)[k].int = Walk(types, a)[k].int
           /\ Walk(types, b)[k].sse = Walk(types, a)[k].sse
           /\ Walk(types, b)[k].stack = Walk(types, a)[k].stack + d
<1> DEFINE n == Len(types)
           v == Walk(types, a)
           w == Walk(types, b)
           Shifted(s, t) == s.int = t.int /\ s.sse = t.sse /\ t.stack = s.stack + d
           P == {k \in 0 .. n : Shifted(v[k], w[k])}
<1>1. /\ n \in Nat /\ v[0] = a /\ w[0] = b
      /\ \A k \in 1 .. n : /\ v[k] = After(v[k - 1], types[k])
                           /\ w[k] = After(w[k - 1], types[k])
                           /\ types[k] \in AbiTypes
      /\ \A k \in 0 .. n : v[k] \in Pos /\ w[k] \in Pos
  BY WalkFacts, WalkGrows
<1> HIDE DEF v, w, n
<1>2. 0 \in P
  BY <1>1
<1>3. \A s, t \in Pos, ty \in AbiTypes : Shifted(s, t) => Shifted(After(s, ty), After(t, ty))
  <2> SUFFICES ASSUME NEW s \in Pos, NEW t \in Pos, NEW ty \in AbiTypes, Shifted(s, t)
               PROVE  Shifted(After(s, ty), After(t, ty))
    OBVIOUS
  <2>1. InRegisters(s, ty) <=> InRegisters(t, ty)
    BY DEF InRegisters, Fits
  <2> DEFINE m == 8 * NWords(ty)
  <2>2. m \in Nat /\ s.stack \in Nat
    BY WordsFacts DEF Pos
  <2>3. CASE InRegisters(s, ty)
    BY <2>1, <2>3, AfterFacts
  <2>4. CASE ~InRegisters(s, ty)
    <3>1. /\ After(s, ty).int = s.int /\ After(s, ty).sse = s.sse
          /\ After(s, ty).stack = s.stack + m
      BY <2>4, AfterFacts
    <3>2. /\ After(t, ty).int = t.int /\ After(t, ty).sse = t.sse
          /\ After(t, ty).stack = t.stack + m
      BY <2>1, <2>4, AfterFacts
    <3> HIDE DEF m
    <3>3. QED BY <3>1, <3>2, <2>2
  <2>5. QED BY <2>3, <2>4
<1>4. ASSUME NEW k \in 1 .. n, k - 1 \in P
      PROVE  k \in P
  <2>1. k - 1 \in 0 .. n /\ k \in 0 .. n
    BY <1>1
  <2>2. Shifted(v[k - 1], w[k - 1])
    BY <1>4
  <2> HIDE DEF Shifted
  <2>3. QED BY <2>1, <2>2, <1>1, <1>3
<1>5. \A k \in 0 .. n : k \in P
  <2> HIDE DEF P
  <2>1. QED BY <1>1, <1>2, <1>4, UpTo
<1>6. QED BY <1>5 DEF v, w, n

\* What comes later in the list does not matter.
LEMMA WalkExtends ==
  ASSUME NEW types \in Seq(AbiTypes), NEW ty \in AbiTypes, NEW start \in Pos
  PROVE  /\ \A k \in 0 .. Len(types) : Walk(Append(types, ty), start)[k] = Walk(types, start)[k]
         /\ Walk(Append(types, ty), start)[Len(types) + 1]
              = After(Walk(types, start)[Len(types)], ty)
<1> DEFINE n == Len(types)
           more == Append(types, ty)
           v == Walk(types, start)
           w == Walk(more, start)
           P == {k \in 0 .. n : w[k] = v[k]}
<1>1. /\ more \in Seq(AbiTypes) /\ n \in Nat /\ Len(more) = n + 1
      /\ \A k \in 1 .. n : more[k] = types[k]
      /\ more[n + 1] = ty
  OBVIOUS
<1> HIDE DEF more
<1>2. /\ v[0] = start /\ w[0] = start
      /\ \A k \in 1 .. n : v[k] = After(v[k - 1], types[k])
      /\ \A k \in 1 .. n + 1 : w[k] = After(w[k - 1], more[k])
  BY <1>1, WalkFacts
<1> HIDE DEF v, w, n
<1>3. 0 \in P
  BY <1>1, <1>2
<1>4. ASSUME NEW k \in 1 .. n, k - 1 \in P
      PROVE  k \in P
  <2>1. k \in 1 .. n + 1
    BY <1>1
  <2>2. w[k] = After(w[k - 1], types[k])
    BY <2>1, <1>1, <1>2
  <2>3. QED BY <2>2, <1>2, <1>4
<1>5. \A k \in 0 .. n : k \in P
  <2> HIDE DEF P
  <2>1. QED BY <1>1, <1>3, <1>4, UpTo
<1>6. w[n + 1] = After(v[n], ty)
  <2>1. n + 1 \in 1 .. n + 1 /\ (n + 1) - 1 = n /\ n \in 0 .. n
    BY <1>1
  <2>2. w[n + 1] = After(w[n], ty)
    BY <2>1, <1>1, <1>2
  <2>3. w[n] = v[n]
    BY <2>1, <1>5
  <2>4. QED BY <2>2, <2>3
<1>7. QED BY <1>5, <1>6 DEF v, w, n, more

-----------------------------------------------------------------------------
(* The stack of the call *)

Start == [int |-> IntAtStart, sse |-> 0, stack |-> 0]

\* The state after k arguments, as every pass of the caller should see it.
At(k) == Walk(ArgTypes, Start)[k]
Total == At(Len(args)).stack

\* What depth and popped are, and why: bytes for the arguments pushed so far.
Balance ==
  /\ Len(args) <= MaxArgs
  /\ pc = "count" => st = At(Len(args)) /\ i = 0 /\ depth = 0 /\ stack = << >>
  /\ pc # "count" => st.stack = Total /\ popped = Total + AlignPad
  /\ pc = "push" => i \in 0 .. Len(args) /\ depth = AlignPad + (Total - At(i).stack)
  /\ pc \in {"load", "callee"} => i \in 1 .. Len(args) + 1
  /\ pc \in {"load", "callee", "return", "result"} => depth = popped
  /\ pc = "done" => depth = 0

BInv == TypeOK /\ Balance

\* The walk over the arguments of the call: its start, its step and its growth.
LEMMA ArgsFacts ==
  ASSUME args \in Seq(Operands), ret \in RetTypes
  PROVE  /\ Len(args) \in Nat /\ \A k \in 1 .. Len(args) : args[k].type \in AbiTypes
         /\ ArgTypes \in Seq(AbiTypes) /\ Len(ArgTypes) = Len(args)
         /\ Start \in Pos /\ Start.stack = 0
         /\ At(0) = Start
         /\ \A k \in 1 .. Len(args) : At(k) = After(At(k - 1), args[k].type)
         /\ \A k \in 0 .. Len(args) : At(k) \in Pos /\ At(k).stack % 8 = 0
         /\ \A j, k \in 0 .. Len(args) : j <= k => /\ At(j).int <= At(k).int
                                                   /\ At(j).sse <= At(k).sse
                                                   /\ At(j).stack <= At(k).stack
<1>1. \A op \in Operands : op.type \in AbiTypes
  BY CallConstants
<1>2. Len(args) \in Nat /\ \A k \in 1 .. Len(args) : args[k].type \in AbiTypes
  BY <1>1
<1>3. /\ ArgTypes \in Seq(AbiTypes) /\ Len(ArgTypes) = Len(args)
      /\ \A k \in 1 .. Len(args) : ArgTypes[k] = args[k].type
  <2>1. ArgTypes = [k \in 1 .. Len(args) |-> args[k].type]
    BY DEF ArgTypes
  <2>2. QED BY <1>2, <2>1
<1>4. Start \in Pos /\ Start.stack = 0
  <2>1. IntAtStart \in Nat
    BY DEF IntAtStart
  <2>2. QED BY <2>1 DEF Start, Pos
<1>5. /\ At(0) = Start
      /\ \A k \in 1 .. Len(args) : At(k) = After(At(k - 1), args[k].type)
  <2>1. /\ Walk(ArgTypes, Start)[0] = Start
        /\ \A k \in 1 .. Len(ArgTypes) :
             Walk(ArgTypes, Start)[k] = After(Walk(ArgTypes, Start)[k - 1], ArgTypes[k])
    BY <1>2, <1>3, WalkFacts
  <2>2. QED BY <2>1, <1>3 DEF At
<1>6. \A k \in 0 .. Len(args) : At(k) \in Pos
  BY <1>3, <1>4, WalkGrows DEF At
<1>7. \A k \in 0 .. Len(args) : At(k).stack % 8 = 0
  <2>1. Start.stack % 8 = 0
    BY <1>4
  <2>2. QED BY <2>1, <1>3, <1>4, WalkWhole DEF At
<1>8. \A j, k \in 0 .. Len(args) : j <= k => /\ At(j).int <= At(k).int
                                             /\ At(j).sse <= At(k).sse
                                             /\ At(j).stack <= At(k).stack
  BY <1>3, <1>4, WalkGrows DEF At
<1>9. QED BY <1>2, <1>3, <1>4, <1>5, <1>6, <1>7, <1>8

\* The places depend on the arguments and the result type alone.
LEMMA SamePlaces ==
  ASSUME UNCHANGED <<args, ret>>
  PROVE  (\A k : At(k)' = At(k)) /\ Total' = Total
BY DEF At, Total, ArgTypes, Start, IntAtStart, call_sret

\* A register move is of 1 to 8 bytes.
LEMMA WidthFacts ==
  ASSUME NEW n \in Int
  PROVE  IntWidth(n) \in 1 .. 8 /\ SseWidth(n) \in 1 .. 8
<1>1. IntWidth(n) \in 1 .. 8
  <2>1. CASE n >= 8
    BY <2>1 DEF IntWidth
  <2>2. CASE n \in 4 .. 7
    BY <2>2 DEF IntWidth
  <2>3. CASE n \in 2 .. 3
    BY <2>3 DEF IntWidth
  <2>4. CASE n <= 1
    BY <2>4 DEF IntWidth
  <2>5. QED BY <2>1, <2>2, <2>3, <2>4
<1>2. SseWidth(n) \in 1 .. 8
  BY DEF SseWidth
<1>3. QED BY <1>1, <1>2

\* A word of an argument is a word.
LEMMA WordTyped ==
  ASSUME NEW a \in -2 .. MaxArgs, NEW e \in Nat, NEW n \in 0 .. 8
  PROVE  Word(a, e, n) \in WordType
BY DEF Word, WordType

\* So are what a register holds before the call, and the hidden pointer.
LEMMA JunkTyped == Junk \in WordType /\ Sret \in WordType
<1>1. -1 \in -2 .. MaxArgs /\ -2 \in -2 .. MaxArgs /\ 0 \in Nat /\ 0 \in 0 .. 8 /\ 8 \in 0 .. 8
  BY CallConstants
<1>2. QED BY <1>1, WordTyped DEF Junk, Sret

\* A pushed argument takes its words.
LEMMA PushedTyped ==
  ASSUME TypeOK, Len(args) <= MaxArgs, NEW k \in 1 .. Len(args)
  PROVE  /\ PushedWords(k) \in Seq(WordType)
         /\ Len(PushedWords(k)) = NWords(args[k].type)
<1> DEFINE ty == args[k].type
           n == NWords(ty)
<1>1. ty \in AbiTypes /\ Len(args) \in Nat
  BY ArgsFacts DEF TypeOK
<1>2. k \in -2 .. MaxArgs
  BY <1>1, CallConstants
<1>3. n \in Nat /\ Cardinality(Words(ty)) = n /\ Words(ty) = 0 .. n - 1
  BY <1>1, WordsFacts
<1>4. ASSUME NEW w \in 1 .. n
      PROVE  PushedWords(k)[w] \in WordType
  <2>1. w - 1 \in Nat /\ Remaining(ty, w - 1) \in Nat
    <3>1. w - 1 \in Words(ty)
      BY <1>3
    <3>2. QED BY <3>1, <1>1, WordsFacts
  <2>2. Held(ty, w - 1) \in 0 .. 8
    BY <2>1 DEF Held
  <2>3. Word(k, w - 1, Held(ty, w - 1)) \in WordType
    BY <1>2, <2>1, <2>2, WordTyped
  <2>4. Word(k, 0, 8) \in WordType
    <3>1. 0 \in Nat /\ 8 \in 0 .. 8
      OBVIOUS
    <3>2. QED BY <3>1, <1>2, WordTyped
  <2>5. PushedWords(k)[w] = IF ty.agg THEN Word(k, w - 1, Held(ty, w - 1))
                            ELSE IF w = 1 /\ ~args[k].fconst THEN Word(k, 0, 8)
                            ELSE Junk
    BY <1>3 DEF PushedWords
  <2>6. QED BY <2>3, <2>4, <2>5, JunkTyped
<1>5. PushedWords(k) = [w \in 1 .. n |-> PushedWords(k)[w]]
  BY <1>3 DEF PushedWords
<1> HIDE DEF n
<1>6. QED BY <1>3, <1>4, <1>5 DEF n

\* Before the first argument nothing is on the stack.
LEMMA InitBalance == Init => BInv
<1> SUFFICES ASSUME Init PROVE BInv
  OBVIOUS
<1>1. args = << >> /\ ret \in RetTypes /\ st = Start
  BY DEF Init, Start
<1>2. At(0) = Start /\ Start \in Pos
  BY <1>1, ArgsFacts
<1>3. TypeOK
  <2>1. ireg \in [0 .. NInt - 1 -> WordType] /\ xreg \in [0 .. NSse - 1 -> WordType]
    BY JunkTyped DEF Init
  <2>2. i \in 0 .. MaxArgs + 1
    BY CallConstants DEF Init
  <2>3. QED BY <1>1, <1>2, <2>1, <2>2 DEF Init, TypeOK, Pos
<1>4. Balance
  BY <1>1, <1>2, CallConstants DEF Init, Balance
<1>5. QED BY <1>3, <1>4 DEF BInv

\* An argument is classified: the walk goes one further.
LEMMA ClassifyBalance ==
  ASSUME BInv, NEW op \in Operands, Classify(op)
  PROVE  BInv'
<1>1. /\ TypeOK /\ Balance /\ pc = "count" /\ args' = Append(args, op)
      /\ Len(args) < MaxArgs /\ st' = After(st, op.type) /\ st = At(Len(args))
      /\ args \in Seq(Operands) /\ ret \in RetTypes /\ ret' = ret
  BY DEF BInv, Classify, Balance, TypeOK
<1>2. args' \in Seq(Operands) /\ Len(args') = Len(args) + 1 /\ Len(args) \in Nat
  BY <1>1
<1>3. op.type \in AbiTypes /\ Len(args') <= MaxArgs
  BY <1>1, <1>2, CallConstants
<1>4. At(Len(args))' = After(At(Len(args)), op.type)
  <2>1. ArgTypes \in Seq(AbiTypes) /\ Len(ArgTypes) = Len(args) /\ Start \in Pos
    BY <1>1, ArgsFacts
  <2>2. ArgTypes' = Append(ArgTypes, op.type)
    <3>1. ArgTypes = [k \in 1 .. Len(args) |-> args[k].type]
      BY <1>1 DEF ArgTypes
    <3>2. ArgTypes' = [k \in 1 .. Len(args) + 1 |-> args'[k].type]
      BY <1>2 DEF ArgTypes
    <3>3. \A k \in 1 .. Len(args) + 1 :
            args'[k] = IF k = Len(args) + 1 THEN op ELSE args[k]
      BY <1>1
    <3>4. Append(ArgTypes, op.type) =
            [k \in 1 .. Len(args) + 1 |-> IF k = Len(args) + 1 THEN op.type ELSE args[k].type]
      BY <2>1, <3>1, <1>3
    <3>5. QED BY <3>2, <3>3, <3>4
  <2>3. Start' = Start
    BY <1>1 DEF Start, IntAtStart, call_sret
  <2>4. Walk(Append(ArgTypes, op.type), Start)[Len(args) + 1]
          = After(Walk(ArgTypes, Start)[Len(args)], op.type)
    BY <2>1, <1>3, WalkExtends
  <2>5. QED BY <2>2, <2>3, <2>4, <1>2 DEF At
<1>5. At(Len(args)) \in Pos
  BY <1>1, <1>2, ArgsFacts
<1>6. st' \in Pos
  BY <1>1, <1>3, <1>5, AfterFacts
<1>7. TypeOK'
  BY <1>1, <1>2, <1>6 DEF TypeOK, Classify, Pos
<1>8. Balance'
  BY <1>1, <1>2, <1>3, <1>4 DEF Balance, Classify
<1>9. QED BY <1>7, <1>8 DEF BInv

\* What the other actions leave alone, and what they know.
LEMMA PassFacts ==
  ASSUME BInv
  PROVE  /\ TypeOK /\ Balance /\ args \in Seq(Operands) /\ ret \in RetTypes
         /\ Len(args) \in Nat /\ MaxArgs \in Nat /\ Len(args) <= MaxArgs
         /\ st \in Pos /\ AlignPad \in 0 .. 15 /\ Total \in Nat
         /\ i \in Nat /\ i <= MaxArgs + 1
         /\ At(Len(args)) \in Pos /\ At(0) \in Pos /\ At(0).stack = 0
<1>1. /\ TypeOK /\ Balance /\ args \in Seq(Operands) /\ ret \in RetTypes
      /\ Len(args) \in Nat /\ MaxArgs \in Nat /\ Len(args) <= MaxArgs
      /\ st \in Pos /\ i \in 0 .. MaxArgs + 1
  BY CallConstants DEF BInv, TypeOK, Balance, Pos
<1>2. /\ At(Len(args)) \in Pos /\ At(0) \in Pos /\ At(0).stack = 0
  BY <1>1, ArgsFacts
<1>3. Total \in Nat
  BY <1>2 DEF Total, Pos
<1>4. AlignPad \in 0 .. 15
  <2>1. st.stack \in Nat /\ FrameSize \in Nat
    BY <1>1, CallConstants DEF Pos
  <2>2. (FrameSize + st.stack) % 16 \in 0 .. 15
    BY <2>1
  <2>3. QED BY <2>2 DEF AlignPad
<1>5. QED BY <1>1, <1>2, <1>3, <1>4

\* The padding is chosen for what the first pass counted.
LEMMA EndClassifyBalance ==
  ASSUME BInv, EndClassify
  PROVE  BInv'
<1>1. /\ TypeOK /\ Len(args) \in Nat /\ MaxArgs \in Nat /\ Len(args) <= MaxArgs
      /\ st = At(Len(args)) /\ st \in Pos /\ AlignPad \in 0 .. 15
  BY PassFacts DEF Balance, EndClassify
<1>2. /\ args' = args /\ ret' = ret /\ st' = st /\ AlignPad' = AlignPad /\ pc' = "push"
      /\ i' = Len(args) /\ popped' = st.stack + AlignPad /\ depth' = AlignPad
  BY DEF EndClassify, AlignPad
<1>3. (\A k : At(k)' = At(k)) /\ Total' = Total
  BY <1>2, SamePlaces
<1>4. st.stack = Total /\ st.stack \in Nat
  BY <1>1 DEF Total, Pos
<1> DEFINE pad == AlignPad
<1>5. TypeOK'
  <2>1. popped' \in Nat /\ depth' \in Nat /\ i' \in 0 .. MaxArgs + 1
    BY <1>1, <1>2, <1>4
  <2>2. QED BY <1>1, <1>2, <2>1 DEF TypeOK, EndClassify
<1>6. Balance'
  <2>1. popped' = Total' + AlignPad' /\ st'.stack = Total'
    BY <1>1, <1>2, <1>3, <1>4
  <2>2. depth' = AlignPad' + (Total - At(Len(args)).stack) /\ i' \in 0 .. Len(args')
    <3>1. Total - At(Len(args)).stack = 0
      BY <1>4 DEF Total
    <3>2. QED BY <1>1, <1>2, <3>1
  <2>3. QED BY <1>1, <1>2, <1>3, <2>1, <2>2 DEF Balance
<1>7. QED BY <1>5, <1>6 DEF BInv

\* One argument pushed, or left for the registers: depth follows the walk.
LEMMA PushArgBalance ==
  ASSUME BInv, PushArg
  PROVE  BInv'
<1> DEFINE ty == args[i].type
           here == At(i)
           before == At(i - 1)
           pad == AlignPad
           total == Total
<1>1. /\ TypeOK /\ Balance /\ args \in Seq(Operands) /\ ret \in RetTypes
      /\ Len(args) \in Nat /\ MaxArgs \in Nat /\ Len(args) <= MaxArgs
      /\ pad \in Nat /\ total \in Nat
  BY PassFacts
<1>2. /\ pc = "push" /\ i \in 0 .. Len(args) /\ i > 0 /\ depth = pad + (total - here.stack)
      /\ st.stack = total /\ popped = total + pad
  BY <1>1 DEF PushArg, Balance
<1>3. /\ args' = args /\ ret' = ret /\ st' = st /\ pc' = pc /\ popped' = popped
      /\ i' = i - 1 /\ AlignPad' = pad
  BY DEF PushArg, AlignPad
<1>4. (\A k : At(k)' = At(k)) /\ Total' = total
  BY <1>3, SamePlaces
<1>5. /\ i \in 1 .. Len(args) /\ ty \in AbiTypes
      /\ here \in Pos /\ before \in Pos /\ here = After(before, ty)
      /\ here.stack <= total /\ before.stack <= here.stack
  <2>1. i \in 1 .. Len(args) /\ i - 1 \in 0 .. Len(args) /\ Len(args) \in 0 .. Len(args)
        /\ i - 1 <= i /\ i <= Len(args) /\ i \in 0 .. Len(args)
    BY <1>1, <1>2
  <2>2. ty \in AbiTypes /\ here = After(before, ty) /\ here \in Pos /\ before \in Pos
    BY <2>1, <1>1, ArgsFacts
  <2>3. here.stack <= total /\ before.stack <= here.stack
    BY <2>1, <1>1, ArgsFacts DEF Total
  <2>4. QED BY <2>1, <2>2, <2>3
<1>6. Simulated(i) = before
  BY DEF Simulated, Before, At, Start
<1>7. depth' = pad + (total - before.stack) /\ stack' \in Seq(WordType)
  <2>1. NWords(ty) \in Nat /\ AlignUp(Bytes(ty.size), 8) = 8 * NWords(ty)
    BY <1>5, WordsFacts
  <2>2. /\ here.stack \in Nat /\ before.stack \in Nat
    BY <1>5 DEF Pos
  <2> HIDE DEF here, before, pad, total
  <2>3. CASE InRegisters(before, ty)
    <3>1. stack' = stack /\ depth' = depth
      BY <2>3, <1>6 DEF PushArg
    <3>2. here.stack = before.stack
      BY <2>3, <1>5, AfterFacts
    <3>3. QED BY <3>1, <3>2, <1>1, <1>2 DEF TypeOK
  <2>4. CASE ~InRegisters(before, ty)
    <3>1. stack' = PushedWords(i) \o stack /\ depth' = depth + AlignUp(Bytes(ty.size), 8)
      BY <2>4, <1>6 DEF PushArg, PushOn
    <3>2. here.stack = before.stack + 8 * NWords(ty)
      BY <2>4, <1>5, AfterFacts
    <3>3. PushedWords(i) \in Seq(WordType) /\ stack \in Seq(WordType)
      BY <1>1, <1>5, PushedTyped DEF TypeOK
    <3>4. stack' \in Seq(WordType)
      BY <3>1, <3>3
    <3> DEFINE m == 8 * NWords(ty)
    <3>5. m \in Nat /\ depth' = depth + m /\ here.stack = before.stack + m
      BY <3>1, <3>2, <2>1
    <3> DEFINE h == here.stack
               b == before.stack
    <3>6. /\ h \in Nat /\ b \in Nat /\ h = b + m /\ depth = pad + (total - h)
          /\ pad \in Nat /\ total \in Nat
      BY <3>5, <2>2, <1>1, <1>2
    <3> HIDE DEF m, h, b
    <3>7. depth' = pad + (total - b)
      BY <3>5, <3>6
    <3>8. QED BY <3>4, <3>7 DEF b
  <2>5. QED BY <2>3, <2>4
<1>8. before.stack \in Nat /\ before.stack <= total
  <2>1. here.stack \in Nat /\ before.stack \in Nat
    BY <1>5 DEF Pos
  <2> HIDE DEF here, before, total
  <2>2. QED BY <2>1, <1>1, <1>5
<1> HIDE DEF pad, total
<1>9. TypeOK'
  <2>1. depth' \in Nat
    <3> HIDE DEF before
    <3>1. QED BY <1>1, <1>7, <1>8
  <2>2. i' \in 0 .. MaxArgs + 1
    BY <1>1, <1>3, <1>5
  <2>3. QED BY <1>1, <1>3, <1>7, <2>1, <2>2 DEF TypeOK, PushArg
<1>10. Balance'
  <2>1. At(i)' = before /\ i' \in 0 .. Len(args)
    <3>1. At(i)' = Walk(ArgTypes, Start)'[i']
      BY DEF At
    <3>2. \A k : At(k)' = Walk(ArgTypes, Start)'[k]
      BY DEF At
    <3>3. At(i)' = At(i - 1)
      BY <3>1, <3>2, <1>3, <1>4
    <3>4. QED BY <3>3, <1>1, <1>3, <1>5
  <2> HIDE DEF before
  <2>2. QED BY <2>1, <1>1, <1>2, <1>3, <1>4, <1>7 DEF Balance
<1>11. QED BY <1>9, <1>10 DEF BInv

\* A step that moves no argument on or off the stack.
LEMMA OtherBalance ==
  ASSUME BInv, UNCHANGED <<args, ret, popped, depth, stack>>, pc' # "count", pc # "count",
         st'.stack = st.stack, st' \in Pos,
         pc' \in {"load", "callee"} => i' \in 1 .. Len(args) + 1,
         pc' \in {"return", "result"} => i' = i,
         pc' \in {"load", "callee", "return", "result"},
         depth = popped,
         ireg' \in [0 .. NInt - 1 -> WordType], xreg' \in [0 .. NSse - 1 -> WordType]
  PROVE  BInv'
<1>1. /\ TypeOK /\ Balance /\ Len(args) \in Nat /\ MaxArgs \in Nat /\ Len(args) <= MaxArgs
      /\ i \in Nat /\ i <= MaxArgs + 1
  BY PassFacts
<1>2. Total' = Total /\ AlignPad' = AlignPad
  BY SamePlaces DEF AlignPad
<1>3. i' \in 0 .. MaxArgs + 1
  BY <1>1
<1>4. TypeOK'
  BY <1>1, <1>3 DEF TypeOK, Pos
<1>5. Balance'
  BY <1>1, <1>2 DEF Balance
<1>6. QED BY <1>4, <1>5 DEF BInv

\* After the last push all that was counted is on the stack.
LEMMA EndPushBalance ==
  ASSUME BInv, EndPush
  PROVE  BInv'
<1>1. /\ TypeOK /\ Balance /\ Len(args) \in Nat /\ st \in Pos
      /\ At(0) \in Pos /\ At(0).stack = 0 /\ Total \in Nat /\ AlignPad \in 0 .. 15
  BY PassFacts
<1>2. st' \in Pos /\ st'.stack = st.stack
  <2>1. IntAtStart \in Nat
    BY DEF IntAtStart
  <2>2. QED BY <1>1, <2>1 DEF EndPush, Pos
<1>3. depth = popped
  <2>1. depth = AlignPad + (Total - At(0).stack) /\ popped = Total + AlignPad
    BY <1>1 DEF EndPush, Balance
  <2>2. QED BY <2>1, <1>1
<1>4. QED BY <1>1, <1>2, <1>3, OtherBalance DEF EndPush, TypeOK

\* The third pass loads registers and counts them.
LEMMA LoadingBalance ==
  ASSUME BInv, SkipArg \/ LoadAggregate \/ LoadSse \/ LoadInt
  PROVE  BInv'
<1> DEFINE ty == args[i].type
           c == abi_classify(ty)
<1>1. /\ TypeOK /\ Balance /\ args \in Seq(Operands) /\ ret \in RetTypes
      /\ Len(args) \in Nat /\ MaxArgs \in Nat /\ Len(args) <= MaxArgs /\ st \in Pos
  BY PassFacts
<1>2. /\ pc = "load" /\ pc' = pc /\ i <= Len(args) /\ i' = i + 1
      /\ UNCHANGED <<args, ret, popped, depth, stack>>
  BY DEF SkipArg, LoadAggregate, LoadSse, LoadInt
<1>3. i \in 1 .. Len(args) /\ depth = popped /\ i \in -2 .. MaxArgs
  BY <1>1, <1>2 DEF Balance
<1>4. ty \in AbiTypes /\ ty.size \in Int /\ Len(ty.leaves) \in Nat
  BY <1>1, <1>3, ArgsFacts DEF AbiTypes
<1>5. Small(c) /\ \A e \in DOMAIN c : e \in Nat
  BY <1>4, ClassifyFacts DEF Small
<1>6. Count(ty, "INTEGER") \in Nat /\ Count(ty, "SSE") \in Nat
  BY <1>1, <1>4, AfterFacts
<1>7. ireg \in [0 .. NInt - 1 -> WordType] /\ xreg \in [0 .. NSse - 1 -> WordType]
      /\ NInt \in Nat /\ NSse \in Nat
  BY <1>1, CallConstants DEF TypeOK
<1>8. /\ \A e \in Nat : /\ Word(i, e, IntWidth(Remaining(ty, e))) \in WordType
                        /\ Word(i, e, SseWidth(Remaining(ty, e))) \in WordType
      /\ Word(i, 0, SseWidth(ty.size)) \in WordType /\ Word(i, 0, 8) \in WordType
  <2>1. ASSUME NEW e \in Nat, NEW n \in Int
        PROVE  Word(i, e, IntWidth(n)) \in WordType /\ Word(i, e, SseWidth(n)) \in WordType
    <3>1. IntWidth(n) \in 0 .. 8 /\ SseWidth(n) \in 0 .. 8
      BY WidthFacts
    <3>2. QED BY <3>1, <1>3, WordTyped
  <2>2. \A e \in Nat : Remaining(ty, e) \in Int
    BY <1>4 DEF Remaining
  <2>3. Word(i, 0, 8) \in WordType
    <3>1. 0 \in Nat /\ 8 \in 0 .. 8
      OBVIOUS
    <3>2. QED BY <3>1, <1>3, WordTyped
  <2>4. QED BY <2>1, <2>2, <2>3, <1>4
<1> DEFINE Good == /\ st' \in Pos /\ st'.stack = st.stack
                   /\ ireg' \in [0 .. NInt - 1 -> WordType]
                   /\ xreg' \in [0 .. NSse - 1 -> WordType]
<1>9. ASSUME SkipArg PROVE Good
  BY <1>1, <1>7, <1>9 DEF SkipArg
<1>10. ASSUME LoadAggregate PROVE Good
  <2> DEFINE iwords == [e \in DOMAIN c |-> Word(i, e, IntWidth(Remaining(ty, e)))]
             xwords == [e \in DOMAIN c |-> Word(i, e, SseWidth(Remaining(ty, e)))]
  <2>1. /\ ireg' = Load(ireg, st.int, c, "INTEGER", iwords)
        /\ xreg' = Load(xreg, st.sse, c, "SSE", xwords)
        /\ st' = [st EXCEPT !.int = @ + Count(ty, "INTEGER"), !.sse = @ + Count(ty, "SSE")]
    BY <1>10 DEF LoadAggregate
  <2>2. iwords \in [DOMAIN c -> WordType] /\ xwords \in [DOMAIN c -> WordType]
    BY <1>5, <1>8
  <2>3. st.int \in Nat /\ st.sse \in Nat
    BY <1>1 DEF Pos
  <2> HIDE DEF iwords, xwords, c, ty
  <2>4. Load(ireg, st.int, c, "INTEGER", iwords) \in [0 .. NInt - 1 -> WordType]
    BY <2>2, <2>3, <1>5, <1>7, LoadFacts
  <2>5. Load(xreg, st.sse, c, "SSE", xwords) \in [0 .. NSse - 1 -> WordType]
    BY <2>2, <2>3, <1>5, <1>7, LoadFacts
  <2>6. st' \in Pos /\ st'.stack = st.stack
    <3> DEFINE a == Count(ty, "INTEGER")
               b == Count(ty, "SSE")
    <3>1. a \in Nat /\ b \in Nat /\ st' = [st EXCEPT !.int = @ + a, !.sse = @ + b] /\ st \in Pos
      BY <2>1, <1>1, <1>6
    <3> HIDE DEF a, b
    <3>2. st' = [int |-> st.int + a, sse |-> st.sse + b, stack |-> st.stack]
      BY <3>1 DEF Pos
    <3>3. QED BY <3>1, <3>2 DEF Pos
  <2>7. QED BY <2>1, <2>4, <2>5, <2>6
<1>11. ASSUME LoadSse PROVE Good
  <2>1. /\ xreg' = [xreg EXCEPT ![st.sse] = Word(i, 0, SseWidth(ty.size))] /\ ireg' = ireg
        /\ st' = [st EXCEPT !.sse = @ + 1]
    BY <1>11 DEF LoadSse
  <2>2. st' \in Pos /\ st'.stack = st.stack
    <3>1. st \in Pos /\ st' = [st EXCEPT !.sse = @ + 1]
      BY <2>1, <1>1
    <3>2. QED BY <3>1 DEF Pos
  <2> HIDE DEF ty
  <2>3. QED BY <2>1, <2>2, <1>7, <1>8
<1>12. ASSUME LoadInt PROVE Good
  <2>1. /\ ireg' = IF st.int < NInt THEN [ireg EXCEPT ![st.int] = Word(i, 0, 8)] ELSE ireg
        /\ xreg' = xreg /\ st' = [st EXCEPT !.int = @ + 1]
    BY <1>12 DEF LoadInt
  <2>2. st' \in Pos /\ st'.stack = st.stack
    BY <2>1, <1>1 DEF Pos
  <2> HIDE DEF ty
  <2>3. QED BY <2>1, <2>2, <1>7, <1>8
<1>13. Good
  <2> HIDE DEF Good
  <2>1. QED BY <1>9, <1>10, <1>11, <1>12
<1>14. i' \in 1 .. Len(args) + 1
  BY <1>1, <1>2, <1>3
<1>15. QED BY <1>2, <1>3, <1>13, <1>14, OtherBalance

\* The call, the callee and its return leave the caller's stack alone.
LEMMA CalleeBalance ==
  ASSUME BInv, Call \/ CaptureParam \/ UnnamedParam \/ Body \/ IrRet
  PROVE  BInv'
<1>1. /\ TypeOK /\ Balance /\ Len(args) \in Nat /\ st \in Pos
      /\ ireg \in [0 .. NInt - 1 -> WordType] /\ xreg \in [0 .. NSse - 1 -> WordType]
  BY PassFacts DEF TypeOK
<1>2. /\ pc \in {"load", "callee", "return"} /\ UNCHANGED <<args, ret, st, popped, depth, stack>>
      /\ xreg' = xreg
  BY DEF Call, CaptureParam, UnnamedParam, Body, IrRet
<1>3. depth = popped
  BY <1>1, <1>2 DEF Balance
<1>4. CASE Call
  <2>1. ireg' \in [0 .. NInt - 1 -> WordType]
    BY <1>1, <1>4, JunkTyped DEF Call
  <2>2. QED BY <1>1, <1>2, <1>3, <1>4, <2>1, OtherBalance DEF Call
<1>5. CASE CaptureParam \/ UnnamedParam
  <2>1. /\ pc = "callee" /\ pc' = "callee" /\ i <= Len(args) /\ i' = i + 1 /\ ireg' = ireg
    BY <1>5 DEF CaptureParam, UnnamedParam
  <2>2. i \in 1 .. Len(args) + 1
    BY <2>1, <1>1 DEF Balance
  <2>3. i' \in 1 .. Len(args) + 1
    BY <2>1, <2>2, <1>1
  <2>4. QED BY <1>1, <1>2, <1>3, <2>1, <2>3, OtherBalance
<1>6. CASE Body
  BY <1>1, <1>2, <1>3, <1>6, OtherBalance DEF Body
<1>7. CASE IrRet
  BY <1>1, <1>2, <1>3, <1>7, OtherBalance DEF IrRet
<1>8. QED BY <1>4, <1>5, <1>6, <1>7

\* What is popped is what was pushed and padded.
LEMMA TakeResultBalance ==
  ASSUME BInv, TakeResult
  PROVE  BInv'
<1>1. /\ TypeOK /\ Balance /\ args' = args /\ ret' = ret /\ st' = st /\ popped' = popped
      /\ pc = "result" /\ pc' = "done" /\ depth' = depth - popped
  BY DEF BInv, TakeResult
<1>2. depth' = 0
  BY <1>1 DEF Balance, TypeOK
<1>3. Total' = Total /\ AlignPad' = AlignPad
  BY <1>1, SamePlaces DEF AlignPad
<1>4. TypeOK'
  BY <1>1, <1>2 DEF TypeOK, TakeResult
<1>5. Balance'
  BY <1>1, <1>2, <1>3 DEF Balance
<1>6. QED BY <1>4, <1>5 DEF BInv

\* Balance is inductive.
LEMMA NextBalance == BInv /\ [Next]_vars => BInv'
<1> SUFFICES ASSUME BInv, [Next]_vars PROVE BInv'
  OBVIOUS
<1>1. CASE UNCHANGED vars
  <2>1. /\ UNCHANGED <<args, ret, pc, i, st, popped, depth, ireg, xreg, stack>>
    BY <1>1 DEF vars
  <2>2. (\A k : At(k)' = At(k)) /\ Total' = Total /\ AlignPad' = AlignPad
    BY <2>1, SamePlaces DEF AlignPad
  <2>3. TypeOK'
    BY <2>1 DEF BInv, TypeOK
  <2>4. At(Len(args))' = At(Len(args)) /\ At(i)' = At(i)
    BY <2>1 DEF At, ArgTypes, Start, IntAtStart, call_sret
  <2>5. Balance'
    BY <2>1, <2>2, <2>4 DEF BInv, Balance
  <2>6. QED BY <2>3, <2>5 DEF BInv
<1>2. ASSUME NEW op \in Operands, Classify(op)
      PROVE  BInv'
  BY <1>2, ClassifyBalance
<1>3. QED
  BY <1>1, <1>2, EndClassifyBalance, PushArgBalance, EndPushBalance, LoadingBalance,
     CalleeBalance, TakeResultBalance DEF Next

\* IR_CALL pads the stack for what its first pass counted and pushes in a later
\* one: rsp is a multiple of 16 at every call and comes back to where it was, for
\* every argument list (codegen.c:732-737, 739-790, 844-846).
THEOREM CallBalanced == Spec => []StackBalanced
<1>1. BInv => StackBalanced
  <2> SUFFICES ASSUME BInv PROVE StackBalanced
    OBVIOUS
  <2>1. CASE pc = "callee"
    <3>1. /\ depth = Total + AlignPad /\ st.stack = Total /\ Total \in Nat
          /\ FrameSize \in Nat
      BY <2>1, PassFacts, CallConstants DEF Balance
    <3> DEFINE t == Total
    <3>2. AlignPad = IF (FrameSize + t) % 16 # 0 THEN 16 - ((FrameSize + t) % 16) ELSE 0
      BY <3>1 DEF AlignPad
    <3> HIDE DEF t
    <3>3. (FrameSize + (t + AlignPad)) % 16 = 0
      BY <3>1, <3>2 DEF t
    <3>4. QED BY <2>1, <3>1, <3>3 DEF StackBalanced, t
  <2>2. CASE pc # "callee"
    BY <2>2 DEF BInv, Balance, StackBalanced
  <2>3. QED BY <2>1, <2>2
<1>2. QED BY <1>1, InitBalance, NextBalance, PTL DEF Spec

\* Counters of bytes and registers never go below zero, and no word has more
\* than 8 bytes, in all passes of a call.
THEOREM CallTyped == Spec => []TypeOK
<1>1. BInv => TypeOK
  BY DEF BInv
<1>2. QED BY <1>1, InitBalance, NextBalance, PTL DEF Spec

-----------------------------------------------------------------------------
(* The arguments *)

\* One move takes all there is of an eightbyte.
Suffices(ty, c, e) ==
  \/ c[e] = "INTEGER" /\ Held(ty, e) <= IntWidth(Remaining(ty, e))
  \/ c[e] = "SSE" /\ Held(ty, e) <= SseWidth(Remaining(ty, e))

Carried(ty) ==
  /\ ~ty.agg => ty.size \in 1 .. 8
  /\ ~abi_in_memory(abi_classify(ty)) =>
       \A e \in DOMAIN abi_classify(ty) : Suffices(ty, abi_classify(ty), e)

\* Arguments of the parameters' types, none of them a long double, a constant
\* that is not loaded, or a struct with an eightbyte of 3, 5, 6 or 7 bytes in an
\* integer register (README, "Departures").
Passable ==
  \A op \in Operands : op.param = op.type /\ ~op.fconst /\ Carried(op.type)

Type(k) == args[k].type
Class(k) == abi_classify(Type(k))
ByRegister(k) == InRegisters(At(k - 1), Type(k))

\* A word of eightbyte e of argument k, with all its bytes.
Holds(w, k, e) == w.arg = k /\ w.eb = e /\ w.bytes >= Held(Type(k), e)

\* Argument k is in the registers the walk gives it.
Loaded(k) ==
  ByRegister(k) =>
    \A e \in DOMAIN Class(k) :
      /\ Class(k)[e] = "INTEGER" => Holds(ireg[At(k - 1).int + Rank(Class(k), e)], k, e)
      /\ Class(k)[e] = "SSE" => Holds(xreg[At(k - 1).sse + Rank(Class(k), e)], k, e)

\* Stack arguments before argument k + 1, in words.
Slot(k) == At(k).stack \div 8

\* The arguments after the n-th have been pushed and each is where the walk from
\* the first would have it.
Pushed(n) ==
  /\ Len(stack) = Slot(Len(args)) - Slot(n)
  /\ \A k \in n + 1 .. Len(args) : ~ByRegister(k) =>
       \A e \in Words(Type(k)) : Holds(stack[Slot(k - 1) - Slot(n) + e + 1], k, e)

\* An argument on the stack takes its words behind those of the arguments before
\* it; one in registers takes none.
LEMMA SlotFacts ==
  ASSUME args \in Seq(Operands), ret \in RetTypes
  PROVE  /\ Slot(0) = 0
         /\ \A k \in 0 .. Len(args) : Slot(k) \in Nat /\ At(k).stack = 8 * Slot(k)
         /\ \A j, k \in 0 .. Len(args) : j <= k => Slot(j) <= Slot(k)
         /\ \A k \in 1 .. Len(args) :
              /\ ByRegister(k) => Slot(k) = Slot(k - 1)
              /\ ~ByRegister(k) => Slot(k) = Slot(k - 1) + NWords(Type(k))
<1>1. \A k \in 0 .. Len(args) : Slot(k) \in Nat /\ At(k).stack = 8 * Slot(k)
  <2> TAKE k \in 0 .. Len(args)
  <2>1. At(k).stack \in Nat /\ At(k).stack % 8 = 0
    BY ArgsFacts DEF Pos
  <2> DEFINE s == At(k).stack
  <2>2. Slot(k) = s \div 8 /\ s \in Nat /\ s % 8 = 0
    BY <2>1 DEF Slot
  <2> HIDE DEF s
  <2>3. s \div 8 \in Nat /\ s = 8 * (s \div 8)
    BY <2>2
  <2>4. QED BY <2>2, <2>3 DEF s
<1>2. Slot(0) = 0
  <2>1. At(0).stack = 0
    BY ArgsFacts
  <2>2. QED BY <2>1 DEF Slot
<1>3. ASSUME NEW j \in 0 .. Len(args), NEW k \in 0 .. Len(args), j <= k
      PROVE  Slot(j) <= Slot(k)
  <2>1. At(j).stack <= At(k).stack
    BY <1>3, ArgsFacts
  <2>2. 8 * Slot(j) <= 8 * Slot(k) /\ Slot(j) \in Nat /\ Slot(k) \in Nat
    BY <2>1, <1>1
  <2>3. QED BY <2>2
<1>4. ASSUME NEW k \in 1 .. Len(args)
      PROVE  /\ ByRegister(k) => Slot(k) = Slot(k - 1)
             /\ ~ByRegister(k) => Slot(k) = Slot(k - 1) + NWords(Type(k))
  <2>1. /\ k - 1 \in 0 .. Len(args) /\ k \in 0 .. Len(args)
        /\ Type(k) \in AbiTypes /\ At(k - 1) \in Pos /\ At(k) = After(At(k - 1), Type(k))
    <3>1. Len(args) \in Nat
      BY ArgsFacts
    <3>2. k - 1 \in 0 .. Len(args) /\ k \in 0 .. Len(args)
      BY <3>1
    <3>3. QED BY <3>2, ArgsFacts DEF Type
  <2>2. /\ Slot(k) \in Nat /\ Slot(k - 1) \in Nat /\ At(k).stack = 8 * Slot(k)
        /\ At(k - 1).stack = 8 * Slot(k - 1)
    BY <2>1, <1>1
  <2> DEFINE a == Slot(k - 1)
             b == Slot(k)
             n == NWords(Type(k))
  <2>3. a \in Nat /\ b \in Nat /\ n \in Nat
    BY <2>1, <2>2, WordsFacts
  <2>4. ByRegister(k) => 8 * b = 8 * a
    BY <2>1, <2>2, AfterFacts DEF ByRegister
  <2>5. ~ByRegister(k) => 8 * b = 8 * a + 8 * n
    BY <2>1, <2>2, AfterFacts DEF ByRegister
  <2> HIDE DEF a, b, n
  <2>6. (8 * b = 8 * a => b = a) /\ (8 * b = 8 * a + 8 * n => b = a + n)
    BY <2>3
  <2>7. QED BY <2>4, <2>5, <2>6 DEF a, b, n
<1>5. QED BY <1>1, <1>2, <1>3, <1>4

\* The registers of an argument are argument registers, past the hidden pointer
\* and before those of the next argument.
LEMMA PlaceFacts ==
  ASSUME args \in Seq(Operands), ret \in RetTypes, NEW k \in 1 .. Len(args),
         ByRegister(k), NEW e \in DOMAIN Class(k)
  PROVE  /\ Class(k)[e] = "INTEGER" =>
              /\ At(k - 1).int + Rank(Class(k), e) \in 0 .. NInt - 1
              /\ IntAtStart <= At(k - 1).int + Rank(Class(k), e)
              /\ At(k - 1).int + Rank(Class(k), e) < At(k).int
         /\ Class(k)[e] = "SSE" =>
              /\ At(k - 1).sse + Rank(Class(k), e) \in 0 .. NSse - 1
              /\ At(k - 1).sse + Rank(Class(k), e) < At(k).sse
<1>1. /\ k - 1 \in 0 .. Len(args) /\ k \in 0 .. Len(args) /\ 0 \in 0 .. Len(args) /\ 0 <= k - 1
      /\ Type(k) \in AbiTypes /\ At(k - 1) \in Pos /\ At(k) = After(At(k - 1), Type(k))
  <2>1. Len(args) \in Nat
    BY ArgsFacts
  <2>2. k - 1 \in 0 .. Len(args) /\ k \in 0 .. Len(args) /\ 0 \in 0 .. Len(args) /\ 0 <= k - 1
    BY <2>1
  <2>3. QED BY <2>2, ArgsFacts DEF Type
<1>2. IntAtStart <= At(k - 1).int /\ IntAtStart \in Nat
  <2>1. At(0).int <= At(k - 1).int /\ At(0) = Start
    BY <1>1, ArgsFacts
  <2>2. Start.int = IntAtStart
    BY DEF Start
  <2>3. QED BY <2>1, <2>2 DEF IntAtStart
<1>3. Small(Class(k))
  <2>1. Type(k).size \in Int /\ Len(Type(k).leaves) \in Nat
    BY <1>1 DEF AbiTypes
  <2>2. QED BY <2>1, ClassifyFacts DEF Class, Small
<1>4. /\ Count(Type(k), "INTEGER") = Needs(Class(k), "INTEGER")
      /\ Count(Type(k), "SSE") = Needs(Class(k), "SSE")
  BY DEF Count, Needs, Class
<1>5. /\ At(k - 1).int + Needs(Class(k), "INTEGER") <= NInt
      /\ At(k - 1).sse + Needs(Class(k), "SSE") <= NSse
  BY <1>4 DEF ByRegister, InRegisters, Fits
<1>6. /\ At(k).int = At(k - 1).int + Needs(Class(k), "INTEGER")
      /\ At(k).sse = At(k - 1).sse + Needs(Class(k), "SSE")
  BY <1>1, <1>4, AfterFacts DEF ByRegister
<1>7. Rank(Class(k), e) \in Nat /\ Rank(Class(k), e) < Needs(Class(k), Class(k)[e])
  BY <1>3, RankFacts
<1>8. At(k - 1).int \in Nat /\ At(k - 1).sse \in Nat /\ NInt \in Nat /\ NSse \in Nat
  BY <1>1, CallConstants DEF Pos
<1>9. /\ Needs(Class(k), "INTEGER") \in Nat /\ Needs(Class(k), "SSE") \in Nat
  BY <1>3, RankFacts
<1> DEFINE r == Rank(Class(k), e)
           a == At(k - 1).int
           b == At(k - 1).sse
           m == Needs(Class(k), "INTEGER")
           n == Needs(Class(k), "SSE")
<1>10. /\ r \in Nat /\ a \in Nat /\ b \in Nat /\ m \in Nat /\ n \in Nat
       /\ a + m <= NInt /\ b + n <= NSse /\ At(k).int = a + m /\ At(k).sse = b + n
       /\ IntAtStart <= a
  BY <1>2, <1>5, <1>6, <1>7, <1>8, <1>9
<1>11. (Class(k)[e] = "INTEGER" => r < m) /\ (Class(k)[e] = "SSE" => r < n)
  BY <1>7
<1> HIDE DEF r, a, b, m, n
<1>12. (r < m => a + r \in 0 .. NInt - 1 /\ IntAtStart <= a + r /\ a + r < a + m)
       /\ (r < n => b + r \in 0 .. NSse - 1 /\ b + r < b + n)
  BY <1>2, <1>8, <1>10
<1>13. QED BY <1>10, <1>11, <1>12 DEF r, a, b

\* A narrower move of a word keeps whose it is.
LEMMA ClipFacts ==
  ASSUME NEW w \in WordType, NEW n \in Nat
  PROVE  /\ Clip(w, n).arg = w.arg /\ Clip(w, n).eb = w.eb
         /\ \A h \in Nat : h <= n /\ h <= w.bytes => h <= Clip(w, n).bytes
BY DEF Clip, WordType

\* An eightbyte holds at most 8 bytes, and at most what remains.
LEMMA HeldFacts ==
  ASSUME NEW ty \in AbiTypes, NEW e \in Words(ty)
  PROVE  /\ Held(ty, e) \in Nat /\ Held(ty, e) <= Remaining(ty, e) /\ Held(ty, e) <= 8
         /\ Remaining(ty, e) \in Nat
<1>1. Remaining(ty, e) \in Nat
  BY WordsFacts
<1>2. QED BY <1>1 DEF Held

\* The callee's walk starts at the first stack argument's offset from rbp.
LEMMA CalleeWalk ==
  ASSUME args \in Seq(Operands), ret \in RetTypes, Passable, NEW k \in 1 .. Len(args)
  PROVE  /\ args[k].param = Type(k)
         /\ compute_arg_state(k).int = At(k - 1).int
         /\ compute_arg_state(k).sse = At(k - 1).sse
         /\ (compute_arg_state(k).stack - 16) \div 8 = Slot(k - 1)
         /\ InRegisters(compute_arg_state(k), Type(k)) <=> ByRegister(k)
<1> DEFINE base == [int |-> IntAtStart, sse |-> 0, stack |-> 16]
<1>1. ParamTypes = ArgTypes
  <2>1. \A j \in DOMAIN args : args[j].param = args[j].type
    BY DEF Passable
  <2>2. QED BY <2>1 DEF ParamTypes, ArgTypes
<1>2. ArgTypes \in Seq(AbiTypes) /\ Len(ArgTypes) = Len(args) /\ Start \in Pos /\ Len(args) \in Nat
  BY ArgsFacts
<1>3. base \in Pos /\ Start.int = base.int /\ Start.sse = base.sse /\ base.stack = Start.stack + 16
  BY DEF Start, Pos, IntAtStart
<1>4. k - 1 \in 0 .. Len(ArgTypes) /\ 16 \in Nat /\ k - 1 \in 0 .. Len(args)
  BY <1>2
<1>5. compute_arg_state(k) = Walk(ArgTypes, base)[k - 1]
  BY <1>1 DEF compute_arg_state, Before
<1> HIDE DEF base
<1>6. /\ compute_arg_state(k).int = At(k - 1).int
      /\ compute_arg_state(k).sse = At(k - 1).sse
      /\ compute_arg_state(k).stack = At(k - 1).stack + 16
  BY <1>2, <1>3, <1>4, <1>5, WalkShifts DEF At
<1>7. At(k - 1) \in Pos
  BY <1>4, ArgsFacts
<1>8. (compute_arg_state(k).stack - 16) \div 8 = Slot(k - 1)
  <2>1. compute_arg_state(k).stack - 16 = At(k - 1).stack
    BY <1>6, <1>7 DEF Pos
  <2>2. QED BY <2>1 DEF Slot
<1>9. args[k].param = Type(k)
  BY DEF Passable, Type
<1>10. InRegisters(compute_arg_state(k), Type(k)) <=> ByRegister(k)
  BY <1>6 DEF ByRegister, InRegisters, Fits
<1>11. QED BY <1>6, <1>8, <1>9, <1>10

\* What the callee captures of a parameter is its argument.
LEMMA CaptureFacts ==
  ASSUME TypeOK, Passable, Pushed(0), NEW k \in 1 .. Len(args), Loaded(k),
         NEW e \in Words(Type(k))
  PROVE  Holds(Captured(k)[e], k, e)
<1>1. /\ args \in Seq(Operands) /\ ret \in RetTypes /\ Type(k) \in AbiTypes
      /\ Len(args) \in Nat /\ args[k] \in Operands
      /\ ireg \in [0 .. NInt - 1 -> WordType] /\ xreg \in [0 .. NSse - 1 -> WordType]
      /\ stack \in Seq(WordType)
  BY ArgsFacts DEF TypeOK, Type
<1>2. /\ args[k].param = Type(k)
      /\ compute_arg_state(k).int = At(k - 1).int
      /\ compute_arg_state(k).sse = At(k - 1).sse
      /\ (compute_arg_state(k).stack - 16) \div 8 = Slot(k - 1)
      /\ InRegisters(compute_arg_state(k), Type(k)) <=> ByRegister(k)
  BY <1>1, CalleeWalk
<1>3. /\ Held(Type(k), e) \in Nat /\ Held(Type(k), e) <= Remaining(Type(k), e)
      /\ Remaining(Type(k), e) \in Nat
  BY <1>1, HeldFacts
<1>4. Remaining(Type(k), e) \in Int
  BY <1>3
<1>5. CASE ByRegister(k)
  <2>1. Captured(k) = FromRegisters(k)
    BY <1>2, <1>5 DEF Captured
  <2>2. ~abi_in_memory(Class(k))
    BY <1>5 DEF ByRegister, InRegisters, Class
  <2>3. e \in DOMAIN Class(k)
    <3>1. Type(k).size \in Int /\ Len(Type(k).leaves) \in Nat
      BY <1>1 DEF AbiTypes
    <3>2. QED BY <3>1, <2>2, ClassifyFacts DEF Class
  <2>4. Suffices(Type(k), Class(k), e)
    <3>1. Carried(Type(k))
      BY <1>1 DEF Passable, Type
    <3>2. QED BY <3>1, <2>2, <2>3 DEF Carried, Class
  <2> DEFINE r == At(k - 1).int + Rank(Class(k), e)
             x == At(k - 1).sse + Rank(Class(k), e)
             n == IntWidth(Remaining(Type(k), e))
             m == SseWidth(Remaining(Type(k), e))
  <2>5. FromRegisters(k)[e] =
          IF Class(k)[e] = "INTEGER" THEN Clip(ReadReg(ireg, r), n)
          ELSE IF Class(k)[e] = "SSE" THEN Clip(ReadReg(xreg, x), m)
          ELSE Junk
    BY <1>2, <2>3 DEF FromRegisters, Class
  <2>6. n \in Nat /\ m \in Nat
    BY <1>4, WidthFacts
  <2>7. CASE Class(k)[e] = "INTEGER"
    <3>1. r \in 0 .. NInt - 1
      BY <1>1, <1>5, <2>3, <2>7, PlaceFacts
    <3>2. Holds(ireg[r], k, e)
      BY <1>5, <2>3, <2>7 DEF Loaded
    <3>3. Held(Type(k), e) <= n
      BY <2>4, <2>7 DEF Suffices
    <3> HIDE DEF r, n, m
    <3>4. ReadReg(ireg, r) = ireg[r] /\ ireg[r] \in WordType
      BY <3>1, <1>1 DEF ReadReg
    <3>5. Captured(k)[e] = Clip(ireg[r], n)
      BY <2>1, <2>5, <2>7, <3>4
    <3>6. Held(Type(k), e) <= ireg[r].bytes /\ ireg[r].bytes \in Nat
      BY <3>2, <3>4, <1>3 DEF Holds, WordType
    <3>7. /\ Clip(ireg[r], n).arg = ireg[r].arg /\ Clip(ireg[r], n).eb = ireg[r].eb
          /\ Held(Type(k), e) <= Clip(ireg[r], n).bytes
      BY <3>3, <3>4, <3>6, <1>3, <2>6, ClipFacts
    <3>8. QED BY <3>2, <3>5, <3>7 DEF Holds
  <2>8. CASE Class(k)[e] # "INTEGER"
    <3>1. Class(k)[e] = "SSE" /\ Held(Type(k), e) <= m
      BY <2>4, <2>8 DEF Suffices
    <3>2. x \in 0 .. NSse - 1
      BY <1>1, <1>5, <2>3, <3>1, PlaceFacts
    <3>3. Holds(xreg[x], k, e)
      BY <1>5, <2>3, <3>1 DEF Loaded
    <3> HIDE DEF x, n, m
    <3>4. ReadReg(xreg, x) = xreg[x] /\ xreg[x] \in WordType
      BY <3>2, <1>1 DEF ReadReg
    <3>5. Captured(k)[e] = Clip(xreg[x], m)
      BY <2>1, <2>5, <2>8, <3>1, <3>4
    <3>6. Held(Type(k), e) <= xreg[x].bytes /\ xreg[x].bytes \in Nat
      BY <3>3, <3>4, <1>3 DEF Holds, WordType
    <3>7. /\ Clip(xreg[x], m).arg = xreg[x].arg /\ Clip(xreg[x], m).eb = xreg[x].eb
          /\ Held(Type(k), e) <= Clip(xreg[x], m).bytes
      BY <3>1, <3>4, <3>6, <1>3, <2>6, ClipFacts
    <3>8. QED BY <3>3, <3>5, <3>7 DEF Holds
  <2>9. QED BY <2>7, <2>8
<1>6. CASE ~ByRegister(k)
  <2> DEFINE p == Slot(k - 1) + e + 1
             n == Remaining(Type(k), e)
  <2>1. p \in DOMAIN stack /\ Slot(k - 1) - Slot(0) + e + 1 = p
    <3>1. /\ Slot(0) = 0 /\ Slot(k - 1) \in Nat /\ Slot(Len(args)) \in Nat
          /\ Slot(k) <= Slot(Len(args)) /\ Slot(k) = Slot(k - 1) + NWords(Type(k))
      <4>1. /\ k - 1 \in 0 .. Len(args) /\ k \in 0 .. Len(args) /\ k <= Len(args)
            /\ Len(args) \in 0 .. Len(args)
        BY <1>1
      <4>2. QED BY <4>1, <1>1, <1>6, SlotFacts
    <3>2. e \in Nat /\ e <= NWords(Type(k)) - 1 /\ NWords(Type(k)) \in Nat
      BY <1>1, WordsFacts
    <3>3. Len(stack) = Slot(Len(args)) - Slot(0)
      BY DEF Pushed
    <3> DEFINE a == Slot(k - 1)
               b == NWords(Type(k))
               l == Slot(Len(args))
    <3>4. a \in Nat /\ b \in Nat /\ l \in Nat /\ a + b <= l /\ e \in Nat /\ e <= b - 1
          /\ Len(stack) = l - 0 /\ Slot(0) = 0
      BY <3>1, <3>2, <3>3
    <3> HIDE DEF a, b, l
    <3>5. a + e + 1 \in 1 .. l /\ a - 0 + e + 1 = a + e + 1
      BY <3>4
    <3>6. QED BY <3>4, <3>5, <1>1 DEF a
  <2>2. Captured(k)[e] = Clip(stack[p], n)
    <3>1. Captured(k) = FromStack(k)
      BY <1>2, <1>6 DEF Captured
    <3>2. FromStack(k)[e] = IF p \in DOMAIN stack THEN Clip(stack[p], n) ELSE Junk
      BY <1>2 DEF FromStack
    <3>3. QED BY <3>1, <3>2, <2>1
  <2>3. Holds(stack[p], k, e)
    <3>1. k \in 0 + 1 .. Len(args)
      BY <1>1
    <3>2. Holds(stack[Slot(k - 1) - Slot(0) + e + 1], k, e)
      BY <3>1, <1>6 DEF Pushed
    <3>3. QED BY <3>2, <2>1
  <2> HIDE DEF p, n
  <2>4. stack[p] \in WordType
    BY <2>1, <1>1
  <2>5. stack[p].bytes \in Nat /\ Held(Type(k), e) <= stack[p].bytes
    BY <2>3, <2>4, <1>3 DEF Holds, WordType
  <2>6. n \in Nat /\ Held(Type(k), e) <= n
    BY <1>3 DEF n
  <2>7. /\ Clip(stack[p], n).arg = stack[p].arg /\ Clip(stack[p], n).eb = stack[p].eb
        /\ Held(Type(k), e) <= Clip(stack[p], n).bytes
    BY <2>4, <2>5, <2>6, <1>3, ClipFacts
  <2>8. QED BY <2>2, <2>3, <2>7 DEF Holds
<1>7. QED BY <1>5, <1>6

\* How far the arguments have come.
Arrival ==
  /\ pc = "push" => Pushed(i)
  /\ pc \in {"load", "callee"} => Pushed(0)
  /\ pc = "load" => /\ st.int = At(i - 1).int /\ st.sse = At(i - 1).sse
                    /\ \A k \in 1 .. i - 1 : Loaded(k)
  /\ pc = "callee" => /\ \A k \in 1 .. Len(args) : Loaded(k)
                      /\ params = [k \in 1 .. i - 1 |-> params[k]]
  /\ pc \in {"count", "push", "load"} => params = << >>
  /\ ArgumentsArrive

AInv == BInv /\ Arrival

\* The notions of a place, a class and a word of an argument stay the same while
\* the arguments do.
LEMMA SameArguments ==
  ASSUME UNCHANGED <<args, ret>>
  PROVE  /\ \A k : At(k)' = At(k) /\ Slot(k)' = Slot(k) /\ Type(k)' = Type(k)
         /\ \A k : Class(k)' = Class(k) /\ (ByRegister(k)' <=> ByRegister(k))
         /\ \A w, k, e : Holds(w, k, e)' <=> Holds(w, k, e)
<1>1. \A k : At(k)' = At(k)
  BY SamePlaces
<1>2. \A k : Slot(k)' = Slot(k) /\ Type(k)' = Type(k)
  BY <1>1 DEF Slot, Type
<1>3. \A k : Class(k)' = Class(k) /\ (ByRegister(k)' <=> ByRegister(k))
  BY <1>1, <1>2 DEF Class, ByRegister
<1>4. \A w, k, e : Holds(w, k, e)' <=> Holds(w, k, e)
  BY <1>2 DEF Holds
<1>5. QED BY <1>1, <1>2, <1>3, <1>4

\* Pushed and Loaded after a step, in the places of before.
LEMMA PushedNext ==
  ASSUME UNCHANGED <<args, ret>>, NEW n
  PROVE  Pushed(n)' <=>
           /\ Len(stack') = Slot(Len(args)) - Slot(n)
           /\ \A k \in n + 1 .. Len(args) : ~ByRegister(k) =>
                \A e \in Words(Type(k)) : Holds(stack'[Slot(k - 1) - Slot(n) + e + 1], k, e)
<1>1. /\ \A k : Slot(k)' = Slot(k) /\ Type(k)' = Type(k)
      /\ \A k : ByRegister(k)' <=> ByRegister(k)
      /\ \A w, k, e : Holds(w, k, e)' <=> Holds(w, k, e)
  BY SameArguments
<1>2. Slot(Len(args))' = Slot(Len(args))
  BY DEF Slot, At, ArgTypes, Start, IntAtStart, call_sret
<1>3. \A k, e : Holds(stack[Slot(k - 1) - Slot(n) + e + 1], k, e)'
                  <=> Holds(stack'[Slot(k - 1) - Slot(n) + e + 1], k, e)
  BY <1>1 DEF Holds
<1>4. \A k : Words(Type(k))' = Words(Type(k))
  BY <1>1
<1>5. QED BY <1>1, <1>2, <1>3, <1>4 DEF Pushed

\* The same for the registers.
LEMMA LoadedNext ==
  ASSUME UNCHANGED <<args, ret>>, NEW k
  PROVE  Loaded(k)' <=>
           (ByRegister(k) =>
              \A e \in DOMAIN Class(k) :
                /\ Class(k)[e] = "INTEGER" =>
                     Holds(ireg'[At(k - 1).int + Rank(Class(k), e)], k, e)
                /\ Class(k)[e] = "SSE" =>
                     Holds(xreg'[At(k - 1).sse + Rank(Class(k), e)], k, e))
<1>1. /\ At(k - 1)' = At(k - 1) /\ Class(k)' = Class(k) /\ (ByRegister(k)' <=> ByRegister(k))
      /\ Type(k)' = Type(k)
  BY SameArguments
<1>2. \A e : /\ Holds(ireg[At(k - 1).int + Rank(Class(k), e)], k, e)'
                  <=> Holds(ireg'[At(k - 1).int + Rank(Class(k), e)], k, e)
             /\ Holds(xreg[At(k - 1).sse + Rank(Class(k), e)], k, e)'
                  <=> Holds(xreg'[At(k - 1).sse + Rank(Class(k), e)], k, e)
  BY <1>1 DEF Holds
<1>3. QED BY <1>1, <1>2 DEF Loaded

\* Registers that do not change keep an argument.
LEMMA LoadedSame ==
  ASSUME UNCHANGED <<args, ret>>, args \in Seq(Operands), ret \in RetTypes,
         NEW k \in 1 .. Len(args), Loaded(k),
         \A r \in 0 .. NInt - 1 : IntAtStart <= r /\ r < At(k).int => ireg'[r] = ireg[r],
         \A r \in 0 .. NSse - 1 : r < At(k).sse => xreg'[r] = xreg[r]
  PROVE  Loaded(k)'
<1>1. SUFFICES ASSUME ByRegister(k), NEW e \in DOMAIN Class(k)
      PROVE  /\ Class(k)[e] = "INTEGER" =>
                  Holds(ireg'[At(k - 1).int + Rank(Class(k), e)], k, e)
             /\ Class(k)[e] = "SSE" =>
                  Holds(xreg'[At(k - 1).sse + Rank(Class(k), e)], k, e)
  BY LoadedNext
<1>2. CASE Class(k)[e] = "INTEGER"
  <2>1. ireg'[At(k - 1).int + Rank(Class(k), e)] = ireg[At(k - 1).int + Rank(Class(k), e)]
    BY <1>1, <1>2, PlaceFacts
  <2>2. QED BY <1>1, <1>2, <2>1 DEF Loaded
<1>3. CASE Class(k)[e] = "SSE"
  <2>1. xreg'[At(k - 1).sse + Rank(Class(k), e)] = xreg[At(k - 1).sse + Rank(Class(k), e)]
    BY <1>1, <1>3, PlaceFacts
  <2>2. QED BY <1>1, <1>3, <2>1 DEF Loaded
<1>4. QED BY <1>2, <1>3

\* Words put in front of others.
LEMMA InFront ==
  ASSUME NEW S, NEW p \in Seq(S), NEW q \in Seq(S), NEW s, s = p \o q, NEW n, Len(p) = n
  PROVE  /\ Len(s) = n + Len(q)
         /\ \A j \in 1 .. n : s[j] = p[j]
         /\ \A j \in 1 .. Len(q) : s[n + j] = q[j]
<1>1. Len(s) = n + Len(q) /\ n \in Nat /\ Len(q) \in Nat
      /\ \A j \in 1 .. n + Len(q) : s[j] = IF j <= n THEN p[j] ELSE q[j - n]
  <2>1. /\ Len(p \o q) = Len(p) + Len(q)
        /\ \A j \in 1 .. Len(p) + Len(q) :
             (p \o q)[j] = IF j <= Len(p) THEN p[j] ELSE q[j - Len(p)]
    BY ConcatProperties, Zenon
  <2>2. Len(p) = n /\ s = p \o q
    OBVIOUS
  <2>3. Len(s) = n + Len(q) /\ \A j \in 1 .. n + Len(q) : s[j] = IF j <= n THEN p[j] ELSE q[j - n]
    BY <2>1, <2>2, Zenon
  <2>4. Len(p) \in Nat /\ Len(q) \in Nat
    OBVIOUS
  <2>5. QED BY <2>2, <2>3, <2>4, Zenon
<1>2. ASSUME NEW j \in 1 .. Len(q)
      PROVE  s[n + j] = q[j]
  <2>1. n + j \in 1 .. n + Len(q) /\ ~(n + j <= n) /\ (n + j) - n = j
    BY <1>1
  <2>2. QED BY <2>1, <1>1
<1>3. ASSUME NEW j \in 1 .. n
      PROVE  s[j] = p[j]
  <2>1. j \in 1 .. n + Len(q) /\ j <= n
    BY <1>1
  <2>2. QED BY <2>1, <1>1
<1>4. QED BY <1>1, <1>2, <1>3

\* Pushing an argument in front of those behind it.
LEMMA PushArgArrives ==
  ASSUME AInv, Passable, PushArg
  PROVE  Arrival'
<1> DEFINE ty == Type(i)
           n == NWords(ty)
<1>1. /\ TypeOK /\ Balance /\ args \in Seq(Operands) /\ ret \in RetTypes /\ Len(args) \in Nat
      /\ Pushed(i) /\ pc = "push" /\ i \in 1 .. Len(args) /\ i' = i - 1 /\ pc' = "push"
      /\ UNCHANGED <<args, ret, params>> /\ params = << >> /\ stack \in Seq(WordType)
      /\ Len(args) <= MaxArgs /\ i - 1 \in Nat
  <2>1. BInv /\ Arrival
    BY DEF AInv
  <2>2. /\ TypeOK /\ Balance /\ args \in Seq(Operands) /\ ret \in RetTypes /\ Len(args) \in Nat
        /\ i \in Nat /\ Len(args) <= MaxArgs
    BY <2>1, PassFacts
  <2>3. pc = "push" /\ i > 0 /\ i' = i - 1 /\ pc' = "push" /\ UNCHANGED <<args, ret, params>>
    BY DEF PushArg
  <2>4. i \in 0 .. Len(args)
    BY <2>2, <2>3 DEF Balance
  <2>5. Pushed(i) /\ params = << >> /\ stack \in Seq(WordType)
    BY <2>1, <2>2, <2>3 DEF Arrival, TypeOK
  <2>6. QED BY <2>2, <2>3, <2>4, <2>5
<1>2. /\ Slot(i) \in Nat /\ Slot(i - 1) \in Nat /\ Slot(Len(args)) \in Nat
      /\ Slot(i) <= Slot(Len(args))
      /\ ByRegister(i) => Slot(i) = Slot(i - 1)
      /\ ~ByRegister(i) => Slot(i) = Slot(i - 1) + n
      /\ ty \in AbiTypes /\ n \in Nat
  <2>1. i - 1 \in 0 .. Len(args) /\ i \in 0 .. Len(args) /\ Len(args) \in 0 .. Len(args)
        /\ i <= Len(args)
    BY <1>1
  <2>2. ty \in AbiTypes
    BY <1>1, ArgsFacts DEF Type
  <2>3. n \in Nat
    BY <2>2, WordsFacts
  <2>4. QED BY <2>1, <2>2, <2>3, <1>1, SlotFacts
<1>3. InRegisters(Simulated(i), args[i].type) <=> ByRegister(i)
  BY DEF Simulated, Before, At, Start, ByRegister, Type
<1>4. \A k \in i + 1 .. Len(args) : ~ByRegister(k) =>
        \A e \in Words(Type(k)) :
          /\ Holds(stack[Slot(k - 1) - Slot(i) + e + 1], k, e)
          /\ e \in Nat /\ Slot(k - 1) \in Nat
          /\ Slot(k - 1) - Slot(i) + e + 1 \in 1 .. Len(stack)
  <2> SUFFICES ASSUME NEW k \in i + 1 .. Len(args), ~ByRegister(k), NEW e \in Words(Type(k))
               PROVE  /\ Holds(stack[Slot(k - 1) - Slot(i) + e + 1], k, e)
                      /\ e \in Nat /\ Slot(k - 1) \in Nat
                      /\ Slot(k - 1) - Slot(i) + e + 1 \in 1 .. Len(stack)
    OBVIOUS
  <2>1. Holds(stack[Slot(k - 1) - Slot(i) + e + 1], k, e)
        /\ Len(stack) = Slot(Len(args)) - Slot(i)
    BY <1>1 DEF Pushed
  <2>2. /\ k \in 1 .. Len(args) /\ k - 1 \in 0 .. Len(args) /\ k \in 0 .. Len(args)
        /\ i \in 0 .. Len(args) /\ i <= k - 1 /\ k <= Len(args) /\ Len(args) \in 0 .. Len(args)
    BY <1>1
  <2>3. /\ Slot(i) <= Slot(k - 1) /\ Slot(k) <= Slot(Len(args)) /\ Slot(k - 1) \in Nat
        /\ Slot(k) = Slot(k - 1) + NWords(Type(k))
    BY <1>1, <2>2, SlotFacts
  <2>4. Type(k) \in AbiTypes
    BY <1>1, <2>2, ArgsFacts DEF Type
  <2>5. e \in Nat /\ NWords(Type(k)) \in Nat /\ e <= NWords(Type(k)) - 1
    BY <2>4, WordsFacts
  <2> DEFINE a == Slot(k - 1)
             b == Slot(i)
             l == Slot(Len(args))
             m == NWords(Type(k))
  <2>6. /\ a \in Nat /\ b \in Nat /\ l \in Nat /\ m \in Nat /\ b <= a /\ a + m <= l
        /\ e \in Nat /\ e <= m - 1 /\ Len(stack) = l - b
    BY <1>2, <2>1, <2>3, <2>5
  <2> HIDE DEF a, b, l, m
  <2>7. a - b + e + 1 \in 1 .. l - b
    BY <2>6
  <2>8. QED BY <2>1, <2>5, <2>6, <2>7 DEF a, b
<1>5. Pushed(i)' <=>
        /\ Len(stack') = Slot(Len(args)) - Slot(i - 1)
        /\ \A k \in i .. Len(args) : ~ByRegister(k) =>
             \A e \in Words(Type(k)) : Holds(stack'[Slot(k - 1) - Slot(i - 1) + e + 1], k, e)
  <2>1. PICK m : m = i - 1
    OBVIOUS
  <2>2. Pushed(i)' <=> Pushed(m)'
    BY <1>1, <2>1 DEF Pushed, Slot, At
  <2>3. Pushed(m)' <=>
          /\ Len(stack') = Slot(Len(args)) - Slot(m)
          /\ \A k \in m + 1 .. Len(args) : ~ByRegister(k) =>
               \A e \in Words(Type(k)) : Holds(stack'[Slot(k - 1) - Slot(m) + e + 1], k, e)
    BY <1>1, PushedNext
  <2>4. m + 1 = i
    BY <1>1, <2>1
  <2>5. QED BY <2>1, <2>2, <2>3, <2>4
<1>6. CASE ByRegister(i)
  <2>1. stack' = stack
    BY <1>3, <1>6 DEF PushArg
  <2>2. Len(stack') = Slot(Len(args)) - Slot(i - 1)
    BY <1>1, <1>2, <1>6, <2>1 DEF Pushed
  <2>3. ASSUME NEW k \in i .. Len(args), ~ByRegister(k), NEW e \in Words(Type(k))
        PROVE  Holds(stack'[Slot(k - 1) - Slot(i - 1) + e + 1], k, e)
    <3>1. k \in i + 1 .. Len(args)
      BY <1>1, <1>6, <2>3
    <3>2. QED BY <3>1, <2>1, <2>3, <1>2, <1>4, <1>6
  <2>4. Pushed(i)'
    BY <1>5, <2>2, <2>3
  <2>5. QED BY <2>4, <1>1 DEF Arrival, ArgumentsArrive
<1>7. CASE ~ByRegister(i)
  <2>1. stack' = PushedWords(i) \o stack
    BY <1>3, <1>7 DEF PushArg, PushOn
  <2>2. PushedWords(i) \in Seq(WordType) /\ Len(PushedWords(i)) = n
    BY <1>1, PushedTyped DEF Type
  <2>3. /\ Len(stack') = n + Len(stack)
        /\ \A j \in 1 .. n : stack'[j] = PushedWords(i)[j]
        /\ \A j \in 1 .. Len(stack) : stack'[n + j] = stack[j]
    <3> DEFINE p == PushedWords(i)
               s == p \o stack
    <3>1. p \in Seq(WordType) /\ stack \in Seq(WordType) /\ Len(p) = n
      BY <1>1, <2>2
    <3> HIDE DEF p, n
    <3>2. /\ Len(s) = n + Len(stack)
          /\ \A j \in 1 .. n : s[j] = p[j]
          /\ \A j \in 1 .. Len(stack) : s[n + j] = stack[j]
      BY <3>1, InFront
    <3>3. stack' = s
      BY <2>1 DEF p
    <3> HIDE DEF s
    <3>4. QED BY <3>2, <3>3 DEF p
  <2>4. Len(stack') = Slot(Len(args)) - Slot(i - 1)
    <3>1. Len(stack) = Slot(Len(args)) - Slot(i)
      BY <1>1 DEF Pushed
    <3>2. QED BY <3>1, <2>3, <1>2, <1>7
  <2>5. ASSUME NEW k \in i .. Len(args), ~ByRegister(k), NEW e \in Words(Type(k))
        PROVE  Holds(stack'[Slot(k - 1) - Slot(i - 1) + e + 1], k, e)
    <3>1. CASE k = i
      <4>1. e \in Nat /\ e + 1 \in 1 .. n /\ Slot(k - 1) - Slot(i - 1) + e + 1 = e + 1
        <5>1. e \in Words(ty) /\ Words(ty) = 0 .. n - 1
          BY <3>1, <2>5, <1>2, WordsFacts
        <5>2. Slot(k - 1) = Slot(i - 1) /\ Slot(i - 1) \in Nat
          BY <3>1, <1>2
        <5> HIDE DEF n, ty
        <5>3. QED BY <5>1, <5>2, <1>2
      <4>2. stack'[e + 1] = PushedWords(i)[e + 1]
        BY <4>1, <2>3
      <4>3. Cardinality(Words(ty)) = n
        BY <1>2, WordsFacts
      <4>4. PushedWords(i)[e + 1] = IF ty.agg THEN Word(i, e + 1 - 1, Held(ty, e + 1 - 1))
                                    ELSE IF e + 1 = 1 /\ ~args[i].fconst THEN Word(i, 0, 8)
                                    ELSE Junk
        BY <4>1, <4>3 DEF PushedWords, Type
      <4>5. args[i] \in Operands
        BY <1>1
      <4>6. Held(ty, e) \in Nat /\ Held(ty, e) <= 8
        BY <3>1, <2>5, <1>2, HeldFacts
      <4>7. CASE ty.agg
        <5>1. PushedWords(i)[e + 1] = Word(i, e, Held(ty, e))
          BY <4>1, <4>4, <4>7
        <5>2. QED BY <5>1, <4>1, <4>2, <4>6, <3>1 DEF Holds, Word
      <4>8. CASE ~ty.agg
        <5>1. ty.size \in 1 .. 8 /\ ~args[i].fconst
          BY <4>5, <4>8 DEF Passable, Carried, Type
        <5>2. n = 1
          BY <5>1 DEF NWords, Bytes, Eightbytes
        <5>3. e = 0
          BY <5>2, <4>1
        <5>4. PushedWords(i)[e + 1] = Word(i, 0, 8)
          BY <4>4, <4>8, <5>1, <5>3
        <5>5. QED BY <5>3, <5>4, <4>1, <4>2, <4>6, <3>1 DEF Holds, Word
      <4>9. QED BY <4>7, <4>8
    <3>2. CASE k # i
      <4>1. k \in i + 1 .. Len(args)
        BY <3>2, <1>1
      <4> DEFINE a == Slot(k - 1)
                 b == Slot(i)
                 d == Slot(i - 1)
      <4>2. /\ Holds(stack[a - b + e + 1], k, e) /\ e \in Nat /\ a \in Nat
            /\ a - b + e + 1 \in 1 .. Len(stack)
        BY <4>1, <2>5, <1>4
      <4>3. b = d + n /\ b \in Nat /\ d \in Nat /\ n \in Nat
        BY <1>2, <1>7
      <4>4. stack'[n + (a - b + e + 1)] = stack[a - b + e + 1]
        BY <4>2, <2>3
      <4> HIDE DEF a, b, d, n
      <4>5. n + (a - b + e + 1) = a - d + e + 1
        BY <4>2, <4>3
      <4>6. QED BY <4>2, <4>4, <4>5 DEF a, d
    <3>3. QED BY <3>1, <3>2
  <2>6. Pushed(i)'
    BY <1>5, <2>4, <2>5
  <2>7. QED BY <2>6, <1>1 DEF Arrival, ArgumentsArrive
<1>8. QED BY <1>6, <1>7

\* A step that changes no argument and captures nothing.
LEMMA StillArrives ==
  ASSUME ArgumentsArrive, UNCHANGED <<args, params>>
  PROVE  ArgumentsArrive'
BY DEF ArgumentsArrive

\* Merging the leaves gives a function of the eightbytes.
LEMMA ClassesFunction ==
  ASSUME NEW leaves, NEW n, Len(leaves) \in Nat
  PROVE  LET c == ClassesAfter(leaves, n)[Len(leaves)] IN c = [e \in DOMAIN c |-> c[e]]
<1> DEFINE w == ClassesAfter(leaves, n)
           l == Len(leaves)
           start == [e \in 0 .. n - 1 |-> "NONE"]
           IsFunction(f) == f = [e \in DOMAIN f |-> f[e]]
<1>1. w[0] = start /\ \A k \in 1 .. l : w[k] = classify_range(w[k - 1], leaves[k])
  BY ClassesSteps
<1>2. IsFunction(start)
  OBVIOUS
<1>3. ASSUME NEW c, NEW leaf, IsFunction(c)
      PROVE  IsFunction(classify_range(c, leaf))
  <2>1. IsFunction(PostMerger(c)) /\ IsFunction(Share(c, leaf.off \div 8, leaf.cls))
    <3>1. IsFunction([e \in DOMAIN c |-> "MEMORY"])
      OBVIOUS
    <3>2. IsFunction(PostMerger(c))
      <4> HIDE DEF IsFunction
      <4>1. QED BY <1>3, <3>1 DEF PostMerger
    <3>3. QED BY <3>2 DEF Share
  <2> HIDE DEF IsFunction
  <2>2. QED BY <1>3, <2>1 DEF classify_range
<1>4. l \in Nat
  OBVIOUS
<1> HIDE DEF start, w, l, IsFunction
<1> DEFINE P == {k \in 0 .. l : IsFunction(w[k])}
<1>5. 0 \in P
  BY <1>1, <1>2, <1>4
<1>6. ASSUME NEW k \in 1 .. l, k - 1 \in P
      PROVE  k \in P
  BY <1>1, <1>3, <1>6
<1>7. \A k \in 0 .. l : k \in P
  <2> HIDE DEF P
  <2>1. QED BY <1>4, <1>5, <1>6, UpTo
<1>8. IsFunction(w[l])
  BY <1>4, <1>7
<1>9. QED BY <1>8 DEF IsFunction, w, l

\* Classes are a function of the eightbytes.
LEMMA ClassifyFunction ==
  ASSUME NEW ty, Len(ty.leaves) \in Nat
  PROVE  abi_classify(ty) = [e \in DOMAIN abi_classify(ty) |-> abi_classify(ty)[e]]
<1> DEFINE n == Eightbytes(ty.size)
           c == ClassesAfter(ty.leaves, n)[Len(ty.leaves)]
           IsFunction(f) == f = [e \in DOMAIN f |-> f[e]]
<1>1. IsFunction(c)
  BY ClassesFunction
<1>2. \A d : IsFunction(d) => IsFunction(PostMerger(d))
  BY DEF PostMerger
<1>3. IsFunction([e \in {} |-> "NONE"]) /\ IsFunction([e \in {0} |-> "MEMORY"])
  OBVIOUS
<1>4. abi_classify(ty) = IF ty.size <= 0 THEN [e \in {} |-> "NONE"]
                         ELSE IF n > MAX_EIGHTBYTES THEN [e \in {0} |-> "MEMORY"]
                         ELSE IF ty.agg THEN PostMerger(c)
                         ELSE c
  BY DEF abi_classify
<1> HIDE DEF c, IsFunction
<1>5. IsFunction(abi_classify(ty))
  BY <1>1, <1>2, <1>3, <1>4
<1>6. QED BY <1>5 DEF IsFunction

\* A class of a single eightbyte takes one register of that class.
LEMMA OneRegister ==
  ASSUME NEW c, DOMAIN c = {0}, NEW cls, c[0] = cls
  PROVE  /\ Rank(c, 0) = 0
         /\ Needs(c, cls) = 1
         /\ \A other : other # cls => Needs(c, other) = 0
<1>1. {d \in DOMAIN c : d < 0 /\ c[d] = c[0]} = {}
  OBVIOUS
<1>2. {e \in DOMAIN c : c[e] = cls} = {0}
  OBVIOUS
<1>3. \A other : other # cls => {e \in DOMAIN c : c[e] = other} = {}
  OBVIOUS
<1>4. Cardinality({}) = 0 /\ Cardinality({0}) = 1
  BY FS_EmptySet, FS_Singleton
<1>5. QED BY <1>1, <1>2, <1>3, <1>4 DEF Rank, Needs

\* Counting arguments changes none of it.
LEMMA ClassifyArrives ==
  ASSUME AInv, NEW op \in Operands, Classify(op)
  PROVE  Arrival'
<1>1. pc' = "count" /\ params' = << >>
  BY DEF AInv, Arrival, Classify
<1>2. ArgumentsArrive'
  BY <1>1 DEF ArgumentsArrive
<1>3. QED BY <1>1, <1>2 DEF Arrival

\* Nothing is pushed yet.
LEMMA EndClassifyArrives ==
  ASSUME AInv, EndClassify
  PROVE  Arrival'
<1>1. /\ args \in Seq(Operands) /\ ret \in RetTypes /\ Len(args) \in Nat /\ stack = << >>
      /\ params = << >>
  BY PassFacts DEF AInv, Arrival, Balance, EndClassify
<1>2. /\ pc' = "push" /\ i' = Len(args) /\ UNCHANGED <<args, ret, stack, params>>
  BY DEF EndClassify
<1>3. PICK m : m = Len(args)
  OBVIOUS
<1>4. Pushed(m)'
  <2>1. Slot(m) \in Nat
    BY <1>1, <1>3, SlotFacts
  <2>2. Len(stack') = Slot(Len(args)) - Slot(m)
    BY <1>1, <1>2, <1>3, <2>1
  <2>3. m + 1 .. Len(args) = {}
    BY <1>1, <1>3
  <2>4. QED BY <1>2, <2>2, <2>3, PushedNext
<1>5. Pushed(i)'
  BY <1>2, <1>3, <1>4 DEF Pushed, Slot, At
<1>6. ArgumentsArrive'
  BY <1>1, <1>2 DEF ArgumentsArrive
<1>7. QED BY <1>1, <1>2, <1>5, <1>6 DEF Arrival

\* What is pushed stays where it is.
LEMMA PushedSame ==
  ASSUME UNCHANGED <<args, ret, stack>>, NEW n, Pushed(n)
  PROVE  Pushed(n)'
BY PushedNext DEF Pushed

\* All arguments are pushed; none is loaded yet.
LEMMA EndPushArrives ==
  ASSUME AInv, EndPush
  PROVE  Arrival'
<1>1. /\ args \in Seq(Operands) /\ ret \in RetTypes /\ Len(args) \in Nat /\ Pushed(i)
      /\ i = 0 /\ params = << >> /\ st \in Pos
  BY PassFacts DEF AInv, Arrival, EndPush
<1>2. /\ pc' = "load" /\ i' = 1 /\ UNCHANGED <<args, ret, stack, params>>
      /\ st' = [st EXCEPT !.int = IntAtStart, !.sse = 0]
  BY DEF EndPush
<1>3. Pushed(0)'
  BY <1>1, <1>2, PushedSame
<1>4. st'.int = At(0).int /\ st'.sse = At(0).sse
  <2>1. At(0) = Start
    BY <1>1, ArgsFacts
  <2>2. QED BY <2>1, <1>1, <1>2 DEF Start, Pos
<1>5. At(i - 1)' = At(0)
  <2>1. \A k : At(k)' = At(k)
    BY <1>2, SamePlaces
  <2>2. At(i - 1)' = Walk(ArgTypes, Start)'[i' - 1] /\ At(0)' = Walk(ArgTypes, Start)'[0]
    BY DEF At
  <2>3. QED BY <2>1, <2>2, <1>2
<1>6. ArgumentsArrive'
  BY <1>1, <1>2 DEF ArgumentsArrive
<1>7. 1 .. i' - 1 = {}
  BY <1>2
<1>8. QED BY <1>1, <1>2, <1>3, <1>4, <1>5, <1>6, <1>7 DEF Arrival

\* The third pass at an argument: its place, and what the pass knows.
LEMMA LoadPassFacts ==
  ASSUME AInv, pc = "load", i <= Len(args)
  PROVE  /\ args \in Seq(Operands) /\ ret \in RetTypes /\ Len(args) \in Nat
         /\ i \in 1 .. Len(args) /\ st \in Pos /\ args[i] \in Operands
         /\ st.int = At(i - 1).int /\ st.sse = At(i - 1).sse
         /\ At(i - 1) \in Pos /\ At(i) \in Pos /\ Type(i) \in AbiTypes
         /\ InRegisters(st, Type(i)) <=> ByRegister(i)
         /\ ByRegister(i) => /\ At(i).int = st.int + Needs(Class(i), "INTEGER")
                             /\ At(i).sse = st.sse + Needs(Class(i), "SSE")
                             /\ At(i).int <= NInt /\ At(i).sse <= NSse
         /\ ~ByRegister(i) => At(i).int = st.int /\ At(i).sse = st.sse
         /\ Small(Class(i)) /\ Class(i) = [e \in DOMAIN Class(i) |-> Class(i)[e]]
         /\ ~abi_in_memory(Class(i)) => DOMAIN Class(i) = Words(Type(i))
         /\ ireg \in [0 .. NInt - 1 -> WordType] /\ xreg \in [0 .. NSse - 1 -> WordType]
         /\ NInt \in Nat /\ NSse \in Nat
<1>1. /\ args \in Seq(Operands) /\ ret \in RetTypes /\ Len(args) \in Nat
      /\ i \in 1 .. Len(args) + 1 /\ st \in Pos
      /\ st.int = At(i - 1).int /\ st.sse = At(i - 1).sse
      /\ ireg \in [0 .. NInt - 1 -> WordType] /\ xreg \in [0 .. NSse - 1 -> WordType]
  BY PassFacts DEF AInv, Arrival, Balance, TypeOK
<1>2. i \in 1 .. Len(args) /\ i - 1 \in 0 .. Len(args) /\ i \in 0 .. Len(args)
  BY <1>1
<1>3. /\ At(i - 1) \in Pos /\ At(i) \in Pos /\ Type(i) \in AbiTypes
      /\ At(i) = After(At(i - 1), Type(i))
  BY <1>1, <1>2, ArgsFacts DEF Type
<1>4. InRegisters(st, Type(i)) <=> ByRegister(i)
  BY <1>1 DEF ByRegister, InRegisters, Fits
<1>5. /\ Count(Type(i), "INTEGER") = Needs(Class(i), "INTEGER")
      /\ Count(Type(i), "SSE") = Needs(Class(i), "SSE")
  BY DEF Count, Needs, Class
<1>6. ByRegister(i) => /\ At(i).int = st.int + Needs(Class(i), "INTEGER")
                       /\ At(i).sse = st.sse + Needs(Class(i), "SSE")
                       /\ At(i).int <= NInt /\ At(i).sse <= NSse
  BY <1>1, <1>3, <1>5, AfterFacts DEF ByRegister, InRegisters, Fits
<1>7. ~ByRegister(i) => At(i).int = st.int /\ At(i).sse = st.sse
  BY <1>1, <1>3, AfterFacts DEF ByRegister
<1>8. Type(i).size \in Int /\ Len(Type(i).leaves) \in Nat
  BY <1>3 DEF AbiTypes
<1>9. Small(Class(i)) /\ (~abi_in_memory(Class(i)) => DOMAIN Class(i) = Words(Type(i)))
  BY <1>8, ClassifyFacts DEF Class, Small
<1>10. Class(i) = [e \in DOMAIN Class(i) |-> Class(i)[e]]
  BY <1>8, ClassifyFunction DEF Class
<1>11. QED BY <1>1, <1>2, <1>3, <1>4, <1>6, <1>7, <1>9, <1>10, CallConstants

\* The third pass takes one argument: those before it stay, it is loaded, and
\* the pass counts the registers the walk counts.
LEMMA LoadStep ==
  ASSUME AInv, pc = "load", i <= Len(args), pc' = "load", i' = i + 1,
         UNCHANGED <<args, ret, stack, params>>,
         st'.int = At(i).int, st'.sse = At(i).sse,
         \A r \in 0 .. NInt - 1 : r < At(i - 1).int => ireg'[r] = ireg[r],
         \A r \in 0 .. NSse - 1 : r < At(i - 1).sse => xreg'[r] = xreg[r],
         ByRegister(i) =>
           \A e \in DOMAIN Class(i) :
             /\ Class(i)[e] = "INTEGER" =>
                  Holds(ireg'[At(i - 1).int + Rank(Class(i), e)], i, e)
             /\ Class(i)[e] = "SSE" =>
                  Holds(xreg'[At(i - 1).sse + Rank(Class(i), e)], i, e)
  PROVE  Arrival'
<1>1. /\ args \in Seq(Operands) /\ ret \in RetTypes /\ Len(args) \in Nat
      /\ i \in 1 .. Len(args) /\ At(i - 1) \in Pos
  BY LoadPassFacts
<1>2. Pushed(0) /\ params = << >> /\ \A k \in 1 .. i - 1 : Loaded(k)
  BY DEF AInv, Arrival
<1>3. Pushed(0)'
  BY <1>2, PushedSame
<1>4. PICK m : m = i
  OBVIOUS
<1>5. At(i - 1)' = At(m)
  <2>1. \A k : At(k)' = At(k)
    BY SamePlaces
  <2>2. At(i - 1)' = Walk(ArgTypes, Start)'[i' - 1] /\ At(m)' = Walk(ArgTypes, Start)'[m]
    BY DEF At
  <2>3. i' - 1 = m
    BY <1>1, <1>4
  <2>4. QED BY <2>1, <2>2, <2>3
<1>6. ASSUME NEW k \in 1 .. m
      PROVE  Loaded(k)'
  <2>1. CASE k = m
    BY <1>4, <2>1, LoadedNext
  <2>2. CASE k # m
    <3>1. k \in 1 .. Len(args) /\ k \in 1 .. i - 1
      BY <1>1, <1>4, <2>2
    <3>2. k \in 0 .. Len(args) /\ i - 1 \in 0 .. Len(args) /\ k <= i - 1
      BY <1>1, <3>1
    <3>3. At(k).int <= At(i - 1).int /\ At(k).sse <= At(i - 1).sse /\ At(k) \in Pos
      BY <1>1, <3>2, ArgsFacts
    <3>4. Loaded(k)
      BY <1>2, <3>1
    <3> DEFINE a == At(k).int
               b == At(i - 1).int
               c == At(k).sse
               d == At(i - 1).sse
    <3>5. a \in Nat /\ b \in Nat /\ c \in Nat /\ d \in Nat /\ a <= b /\ c <= d
      BY <3>3, <1>1 DEF Pos
    <3>6. /\ \A r \in 0 .. NInt - 1 : r < b => ireg'[r] = ireg[r]
          /\ \A r \in 0 .. NSse - 1 : r < d => xreg'[r] = xreg[r]
      OBVIOUS
    <3> HIDE DEF a, b, c, d
    <3>7. /\ \A r \in 0 .. NInt - 1 : r < a => ireg'[r] = ireg[r]
          /\ \A r \in 0 .. NSse - 1 : r < c => xreg'[r] = xreg[r]
      BY <3>5, <3>6, CallConstants
    <3>8. QED BY <1>1, <3>1, <3>4, <3>7, LoadedSame DEF a, c
  <2>3. QED BY <2>1, <2>2
<1>7. \A k \in 1 .. i' - 1 : Loaded(k)'
  <2>1. i' - 1 = m
    BY <1>1, <1>4
  <2>2. QED BY <2>1, <1>6
<1>8. ArgumentsArrive'
  BY <1>2 DEF ArgumentsArrive
<1>9. QED BY <1>2, <1>3, <1>4, <1>5, <1>7, <1>8 DEF Arrival

\* An argument on the stack takes no register.
LEMMA SkipArgArrives ==
  ASSUME AInv, SkipArg
  PROVE  Arrival'
<1>1. /\ pc = "load" /\ i <= Len(args) /\ pc' = "load" /\ i' = i + 1 /\ ~InRegisters(st, Type(i))
      /\ UNCHANGED <<args, ret, stack, params, st, ireg, xreg>>
  BY DEF SkipArg, Type
<1>2. ~ByRegister(i) /\ At(i).int = st.int /\ At(i).sse = st.sse
  BY <1>1, LoadPassFacts
<1>3. QED BY <1>1, <1>2, LoadStep

\* Each eightbyte of a struct gets the register of its class the walk gives it.
LEMMA LoadAggregateArrives ==
  ASSUME AInv, Passable, LoadAggregate
  PROVE  Arrival'
<1> DEFINE ty == Type(i)
           c == Class(i)
           iwords == [e \in DOMAIN c |-> Word(i, e, IntWidth(Remaining(ty, e)))]
           xwords == [e \in DOMAIN c |-> Word(i, e, SseWidth(Remaining(ty, e)))]
<1>1. /\ pc = "load" /\ i <= Len(args) /\ pc' = "load" /\ i' = i + 1 /\ InRegisters(st, ty)
      /\ UNCHANGED <<args, ret, stack, params>>
      /\ ireg' = Load(ireg, st.int, c, "INTEGER", iwords)
      /\ xreg' = Load(xreg, st.sse, c, "SSE", xwords)
      /\ st' = [st EXCEPT !.int = @ + Count(ty, "INTEGER"), !.sse = @ + Count(ty, "SSE")]
  BY DEF LoadAggregate, Type, Class
<1>2. /\ args \in Seq(Operands) /\ i \in 1 .. Len(args) /\ st \in Pos /\ args[i] \in Operands
      /\ st.int = At(i - 1).int /\ st.sse = At(i - 1).sse /\ ty \in AbiTypes
      /\ ByRegister(i) /\ Small(c)
      /\ At(i).int = st.int + Needs(c, "INTEGER") /\ At(i).sse = st.sse + Needs(c, "SSE")
      /\ At(i).int <= NInt /\ At(i).sse <= NSse
      /\ ireg \in [0 .. NInt - 1 -> WordType] /\ xreg \in [0 .. NSse - 1 -> WordType]
      /\ NInt \in Nat /\ NSse \in Nat
  BY <1>1, LoadPassFacts
<1>3. /\ Count(ty, "INTEGER") = Needs(c, "INTEGER") /\ Count(ty, "SSE") = Needs(c, "SSE")
      /\ ~abi_in_memory(c) /\ Carried(ty)
  BY <1>2 DEF Count, Needs, Class, ByRegister, InRegisters, Passable, Type
<1>4. \A e \in DOMAIN c : Suffices(ty, c, e)
  BY <1>3 DEF Carried, Class
<1>5. st'.int = At(i).int /\ st'.sse = At(i).sse
  BY <1>1, <1>2, <1>3 DEF Pos
<1>6. \A e \in DOMAIN c : /\ c[e] = "INTEGER" => Holds(iwords[e], i, e)
                          /\ c[e] = "SSE" => Holds(xwords[e], i, e)
  <2> TAKE e \in DOMAIN c
  <2>1. e \in Words(ty)
    <3>1. DOMAIN c = Words(ty)
      BY <1>1, <1>3, LoadPassFacts
    <3>2. QED BY <3>1
  <2>2. Held(ty, e) \in Nat /\ Remaining(ty, e) \in Int
    BY <1>2, <2>1, HeldFacts
  <2>3. IntWidth(Remaining(ty, e)) \in Nat /\ SseWidth(Remaining(ty, e)) \in Nat
    BY <2>2, WidthFacts
  <2>4. /\ c[e] = "INTEGER" => Held(ty, e) <= IntWidth(Remaining(ty, e))
        /\ c[e] = "SSE" => Held(ty, e) <= SseWidth(Remaining(ty, e))
    BY <1>4 DEF Suffices
  <2>5. iwords[e] = Word(i, e, IntWidth(Remaining(ty, e)))
        /\ xwords[e] = Word(i, e, SseWidth(Remaining(ty, e)))
    OBVIOUS
  <2> HIDE DEF c, iwords, xwords
  <2>6. QED BY <2>2, <2>3, <2>4, <2>5 DEF Holds, Word
<1>7. /\ iwords \in [DOMAIN c -> {iwords[e] : e \in DOMAIN c} \cup WordType]
      /\ xwords \in [DOMAIN c -> {xwords[e] : e \in DOMAIN c} \cup WordType]
  OBVIOUS
<1>8. st.int \in Nat /\ st.sse \in Nat
  BY <1>2 DEF Pos
<1> HIDE DEF iwords, xwords, c, ty
<1>9. /\ \A r \in 0 .. NInt - 1 : r < st.int => ireg'[r] = ireg[r]
      /\ \A e \in DOMAIN c : c[e] = "INTEGER" => ireg'[st.int + Rank(c, e)] = iwords[e]
  <2> DEFINE W == {iwords[e] : e \in DOMAIN c} \cup WordType
  <2>1. ireg \in [0 .. NInt - 1 -> W]
    BY <1>2
  <2>2. iwords \in [DOMAIN c -> W]
    BY <1>7
  <2>3. st.int + Needs(c, "INTEGER") <= NInt /\ NInt \in Nat /\ st.int \in Nat /\ Small(c)
    BY <1>2, <1>8
  <2> HIDE DEF W
  <2>4. Loads(Load(ireg, st.int, c, "INTEGER", iwords),
              ireg, NInt, st.int, c, "INTEGER", iwords)
    BY <2>1, <2>2, <2>3, LoadFacts
  <2>5. Loads(ireg', ireg, NInt, st.int, c, "INTEGER", iwords)
    BY <1>1, <2>4
  <2>6. QED BY <2>3, <2>5 DEF Loads
<1>10. /\ \A r \in 0 .. NSse - 1 : r < st.sse => xreg'[r] = xreg[r]
       /\ \A e \in DOMAIN c : c[e] = "SSE" => xreg'[st.sse + Rank(c, e)] = xwords[e]
  <2> DEFINE W == {xwords[e] : e \in DOMAIN c} \cup WordType
  <2>1. xreg \in [0 .. NSse - 1 -> W]
    BY <1>2
  <2>2. xwords \in [DOMAIN c -> W]
    BY <1>7
  <2>3. st.sse + Needs(c, "SSE") <= NSse /\ NSse \in Nat /\ st.sse \in Nat /\ Small(c)
    BY <1>2, <1>8
  <2> HIDE DEF W
  <2>4. Loads(Load(xreg, st.sse, c, "SSE", xwords),
              xreg, NSse, st.sse, c, "SSE", xwords)
    BY <2>1, <2>2, <2>3, LoadFacts
  <2>5. Loads(xreg', xreg, NSse, st.sse, c, "SSE", xwords)
    BY <1>1, <2>4
  <2>6. QED BY <2>3, <2>5 DEF Loads
<1>11. \A e \in DOMAIN c :
         /\ c[e] = "INTEGER" => Holds(ireg'[At(i - 1).int + Rank(c, e)], i, e)
         /\ c[e] = "SSE" => Holds(xreg'[At(i - 1).sse + Rank(c, e)], i, e)
  BY <1>2, <1>6, <1>9, <1>10
<1>12. QED BY <1>1, <1>2, <1>5, <1>9, <1>10, <1>11, LoadStep DEF c

\* A scalar takes one register, of the class of its one eightbyte.
LEMMA ScalarFacts ==
  ASSUME AInv, Passable, pc = "load", i <= Len(args), ~Type(i).agg, InRegisters(st, Type(i))
  PROVE  /\ DOMAIN Class(i) = {0} /\ Type(i).size \in 1 .. 8 /\ 0 \in Words(Type(i))
         /\ \/ Class(i)[0] = "INTEGER" /\ 8 >= Held(Type(i), 0)
            \/ Class(i)[0] = "SSE" /\ SseWidth(Type(i).size) >= Held(Type(i), 0)
         /\ SseWidth(Type(i).size) \in Nat
         /\ Class(i) = [e \in {0} |-> Class(i)[0]]
<1>1. /\ args[i] \in Operands /\ ByRegister(i) /\ Type(i) \in AbiTypes
      /\ Class(i) = [e \in DOMAIN Class(i) |-> Class(i)[e]]
      /\ ~abi_in_memory(Class(i)) => DOMAIN Class(i) = Words(Type(i))
  BY LoadPassFacts
<1>2. ~abi_in_memory(Class(i)) /\ Carried(Type(i))
  BY <1>1 DEF Class, ByRegister, InRegisters, Passable, Type
<1>3. Type(i).size \in 1 .. 8
  BY <1>2 DEF Carried
<1>4. Words(Type(i)) = {0}
  BY <1>3 DEF Words, Bytes, Eightbytes
<1>5. Suffices(Type(i), Class(i), 0)
  BY <1>1, <1>2, <1>4 DEF Carried, Class
<1>6. Remaining(Type(i), 0) = Type(i).size
  BY <1>3 DEF Remaining
<1>7. Held(Type(i), 0) <= 8
  BY <1>1, <1>4, HeldFacts
<1>8. SseWidth(Type(i).size) \in Nat
  BY <1>3, WidthFacts
<1>9. Held(Type(i), 0) \in Nat
  BY <1>1, <1>4, HeldFacts
<1>10. QED BY <1>1, <1>2, <1>3, <1>4, <1>5, <1>6, <1>7, <1>8, <1>9 DEF Suffices

\* A floating scalar takes the next SSE register.
LEMMA LoadSseArrives ==
  ASSUME AInv, Passable, LoadSse
  PROVE  Arrival'
<1> DEFINE c == Class(i)
<1>1. /\ pc = "load" /\ i <= Len(args) /\ pc' = "load" /\ i' = i + 1 /\ InRegisters(st, Type(i))
      /\ UNCHANGED <<args, ret, stack, params, ireg>> /\ ~Type(i).agg
      /\ c = [e \in {0} |-> "SSE"]
      /\ xreg' = [xreg EXCEPT ![st.sse] = Word(i, 0, SseWidth(Type(i).size))]
      /\ st' = [st EXCEPT !.sse = @ + 1]
  BY DEF LoadSse, Type, Class
<1>2. /\ st \in Pos /\ st.int = At(i - 1).int /\ st.sse = At(i - 1).sse
      /\ ByRegister(i) /\ At(i).int = st.int + Needs(c, "INTEGER")
      /\ At(i).sse = st.sse + Needs(c, "SSE") /\ At(i).sse <= NSse
      /\ xreg \in [0 .. NSse - 1 -> WordType] /\ NSse \in Nat
  BY <1>1, LoadPassFacts
<1>3. DOMAIN c = {0} /\ c[0] = "SSE"
  BY <1>1
<1>4. SseWidth(Type(i).size) >= Held(Type(i), 0)
  BY <1>1, <1>3, ScalarFacts
<1> HIDE DEF c
<1>5. Rank(c, 0) = 0 /\ Needs(c, "SSE") = 1 /\ Needs(c, "INTEGER") = 0
  BY <1>3, OneRegister
<1>6. st.int \in Nat /\ st.sse \in Nat
  BY <1>2 DEF Pos
<1>7. st'.int = At(i).int /\ st'.sse = At(i).sse
  BY <1>1, <1>2, <1>5, <1>6 DEF Pos
<1>8. st.sse \in 0 .. NSse - 1
  BY <1>2, <1>5, <1>6
<1>9. xreg'[st.sse] = Word(i, 0, SseWidth(Type(i).size))
      /\ \A r \in 0 .. NSse - 1 : r < st.sse => xreg'[r] = xreg[r]
  BY <1>1, <1>2, <1>6, <1>8
<1>10. Holds(xreg'[st.sse], i, 0)
  BY <1>4, <1>9 DEF Holds, Word
<1>11. st.sse + Rank(c, 0) = st.sse
  BY <1>5, <1>6
<1>12. \A e \in DOMAIN c :
         /\ c[e] = "INTEGER" => Holds(ireg'[At(i - 1).int + Rank(c, e)], i, e)
         /\ c[e] = "SSE" => Holds(xreg'[At(i - 1).sse + Rank(c, e)], i, e)
  BY <1>2, <1>3, <1>10, <1>11
<1>13. QED BY <1>1, <1>2, <1>7, <1>9, <1>12, LoadStep DEF c

\* Any other scalar takes the next integer register.
LEMMA LoadIntArrives ==
  ASSUME AInv, Passable, LoadInt
  PROVE  Arrival'
<1> DEFINE c == Class(i)
<1>1. /\ pc = "load" /\ i <= Len(args) /\ pc' = "load" /\ i' = i + 1 /\ InRegisters(st, Type(i))
      /\ UNCHANGED <<args, ret, stack, params, xreg>> /\ ~Type(i).agg
      /\ c # [e \in {0} |-> "SSE"]
      /\ ireg' = IF st.int < NInt THEN [ireg EXCEPT ![st.int] = Word(i, 0, 8)] ELSE ireg
      /\ st' = [st EXCEPT !.int = @ + 1]
  BY DEF LoadInt, Type, Class
<1>2. /\ st \in Pos /\ st.int = At(i - 1).int /\ st.sse = At(i - 1).sse
      /\ ByRegister(i) /\ At(i).int = st.int + Needs(c, "INTEGER")
      /\ At(i).sse = st.sse + Needs(c, "SSE") /\ At(i).int <= NInt
      /\ ireg \in [0 .. NInt - 1 -> WordType] /\ NInt \in Nat
  BY <1>1, LoadPassFacts
<1>3. DOMAIN c = {0} /\ c[0] = "INTEGER" /\ 8 >= Held(Type(i), 0)
  <2>1. /\ DOMAIN c = {0} /\ c = [e \in {0} |-> c[0]]
        /\ \/ c[0] = "INTEGER" /\ 8 >= Held(Type(i), 0)
           \/ c[0] = "SSE"
    BY <1>1, ScalarFacts
  <2> HIDE DEF c
  <2>2. QED BY <2>1, <1>1
<1> HIDE DEF c
<1>4. Rank(c, 0) = 0 /\ Needs(c, "INTEGER") = 1 /\ Needs(c, "SSE") = 0
  BY <1>3, OneRegister
<1>5. st.int \in Nat /\ st.sse \in Nat
  BY <1>2 DEF Pos
<1>6. st'.int = At(i).int /\ st'.sse = At(i).sse
  BY <1>1, <1>2, <1>4, <1>5 DEF Pos
<1>7. st.int \in 0 .. NInt - 1 /\ st.int < NInt
  BY <1>2, <1>4, <1>5
<1>8. ireg'[st.int] = Word(i, 0, 8) /\ \A r \in 0 .. NInt - 1 : r < st.int => ireg'[r] = ireg[r]
  BY <1>1, <1>2, <1>5, <1>7
<1>9. Holds(ireg'[st.int], i, 0)
  BY <1>3, <1>8 DEF Holds, Word
<1>10. st.int + Rank(c, 0) = st.int
  BY <1>4, <1>5
<1>11. \A e \in DOMAIN c :
         /\ c[e] = "INTEGER" => Holds(ireg'[At(i - 1).int + Rank(c, e)], i, e)
         /\ c[e] = "SSE" => Holds(xreg'[At(i - 1).sse + Rank(c, e)], i, e)
  BY <1>2, <1>3, <1>9, <1>10
<1>12. QED BY <1>1, <1>2, <1>6, <1>8, <1>11, LoadStep DEF c

\* The address of the result object goes where no argument is.
LEMMA CallArrives ==
  ASSUME AInv, Call
  PROVE  Arrival'
<1>1. /\ pc = "load" /\ i = Len(args) + 1 /\ pc' = "callee" /\ i' = 1
      /\ ireg' = IF call_sret THEN [ireg EXCEPT ![0] = Sret] ELSE ireg
      /\ UNCHANGED <<args, ret, stack, params, xreg>>
  BY DEF Call
<1>2. /\ args \in Seq(Operands) /\ ret \in RetTypes /\ Len(args) \in Nat
      /\ Pushed(0) /\ params = << >> /\ \A k \in 1 .. i - 1 : Loaded(k)
      /\ ireg \in [0 .. NInt - 1 -> WordType]
  BY <1>1, PassFacts DEF AInv, Arrival, TypeOK
<1>3. Pushed(0)'
  BY <1>1, <1>2, PushedSame
<1>4. \A r \in 0 .. NInt - 1 : IntAtStart <= r => ireg'[r] = ireg[r]
  <2>1. CASE call_sret
    BY <1>1, <1>2, <2>1, CallConstants DEF IntAtStart
  <2>2. CASE ~call_sret
    BY <1>1, <2>2
  <2>3. QED BY <2>1, <2>2
<1>5. \A k \in 1 .. Len(args) : Loaded(k)'
  <2> TAKE k \in 1 .. Len(args)
  <2>1. Loaded(k)
    BY <1>1, <1>2
  <2>2. QED BY <2>1, <1>1, <1>2, <1>4, LoadedSame
<1>6. Len(args)' = Len(args)
  BY <1>1
<1>7. params' = [k \in 1 .. i' - 1 |-> params'[k]]
  <2>1. 1 .. i' - 1 = {} /\ DOMAIN params' = {} /\ params' = << >>
    BY <1>1, <1>2
  <2>2. QED BY <2>1
<1>8. ArgumentsArrive'
  BY <1>1, <1>2 DEF ArgumentsArrive
<1>9. QED BY <1>1, <1>3, <1>5, <1>6, <1>7, <1>8 DEF Arrival

\* A list of n elements and one more.
LEMMA OneMore ==
  ASSUME NEW n \in Nat, NEW s, s = [k \in 1 .. n |-> s[k]], NEW x
  PROVE  /\ Append(s, x) = [k \in 1 .. n + 1 |-> Append(s, x)[k]]
         /\ \A k \in 1 .. n : Append(s, x)[k] = s[k]
         /\ Append(s, x)[n + 1] = x
<1> DEFINE S == {s[k] : k \in 1 .. n} \cup {x}
<1>1. s \in Seq(S) /\ x \in S
  OBVIOUS
<1>2. Len(s) = n
  BY <1>1
<1> HIDE DEF S
<1>3. /\ Append(s, x) \in Seq(S)
      /\ Len(Append(s, x)) = Len(s) + 1
      /\ \A k \in 1 .. Len(s) : Append(s, x)[k] = s[k]
      /\ Append(s, x)[Len(s) + 1] = x
  BY <1>1, AppendProperties
<1>4. QED BY <1>2, <1>3

\* One more parameter, captured or not.
LEMMA CaptureStep ==
  ASSUME AInv, pc = "callee", i <= Len(args), pc' = "callee", i' = i + 1,
         UNCHANGED <<args, ret, stack, ireg, xreg>>,
         NEW x, params' = Append(params, x),
         x # << >> => \A e \in Words(args[i].param) :
                        /\ x[e].arg = i
                        /\ x[e].eb = e
                        /\ x[e].bytes >= Held(args[i].param, e)
  PROVE  Arrival'
<1>1. /\ args \in Seq(Operands) /\ ret \in RetTypes /\ Len(args) \in Nat
      /\ i \in 1 .. Len(args) + 1 /\ Pushed(0) /\ \A k \in 1 .. Len(args) : Loaded(k)
      /\ params = [k \in 1 .. i - 1 |-> params[k]] /\ ArgumentsArrive
  BY PassFacts DEF AInv, Arrival, Balance
<1>2. PICK n : n = i - 1
  OBVIOUS
<1>3. n \in Nat /\ n + 1 = i /\ params = [k \in 1 .. n |-> params[k]]
  BY <1>1, <1>2
<1>4. /\ params' = [k \in 1 .. n + 1 |-> params'[k]]
      /\ \A k \in 1 .. n : params'[k] = params[k]
      /\ params'[n + 1] = x
  <2>1. /\ Append(params, x) = [k \in 1 .. n + 1 |-> Append(params, x)[k]]
        /\ \A k \in 1 .. n : Append(params, x)[k] = params[k]
        /\ Append(params, x)[n + 1] = x
    BY <1>3, OneMore
  <2>2. QED BY <2>1
<1>5. Pushed(0)'
  BY <1>1, PushedSame
<1>6. \A k \in 1 .. Len(args) : Loaded(k)'
  BY <1>1, LoadedNext DEF Loaded
<1>7. ArgumentsArrive'
  <2>1. DOMAIN params' = 1 .. n + 1 /\ DOMAIN params = 1 .. n
    BY <1>3, <1>4
  <2> DEFINE Arrived(p, k) == p # << >> => \A e \in Words(args[k].param) :
                                             /\ p[e].arg = k
                                             /\ p[e].eb = e
                                             /\ p[e].bytes >= Held(args[k].param, e)
  <2>2. \A k \in DOMAIN params : Arrived(params[k], k)
    BY <1>1 DEF ArgumentsArrive
  <2>3. Arrived(x, i)
    OBVIOUS
  <2>4. (\A k \in DOMAIN params' : Arrived(params'[k], k)) => ArgumentsArrive'
    BY DEF ArgumentsArrive
  <2> HIDE DEF Arrived
  <2>5. ASSUME NEW k \in 1 .. n + 1
        PROVE  Arrived(params'[k], k)
    <3>1. CASE k = n + 1
      BY <3>1, <2>3, <1>3, <1>4
    <3>2. CASE k # n + 1
      BY <3>2, <1>3, <1>4, <2>1, <2>2
    <3>3. QED BY <3>1, <3>2
  <2>6. QED BY <2>1, <2>4, <2>5
<1>8. i' - 1 = n + 1 /\ Len(args)' = Len(args)
  BY <1>1, <1>2
<1>9. QED BY <1>4, <1>5, <1>6, <1>7, <1>8 DEF Arrival

\* A named parameter is its argument.
LEMMA CaptureParamArrives ==
  ASSUME AInv, Passable, CaptureParam
  PROVE  Arrival'
<1>1. /\ pc = "callee" /\ i <= Len(args) /\ pc' = "callee" /\ i' = i + 1
      /\ UNCHANGED <<args, ret, stack, ireg, xreg>> /\ params' = Append(params, Captured(i))
  BY DEF CaptureParam
<1>2. /\ args \in Seq(Operands) /\ TypeOK /\ Len(args) \in Nat
      /\ i \in 1 .. Len(args) + 1 /\ Pushed(0) /\ \A k \in 1 .. Len(args) : Loaded(k)
  BY <1>1, PassFacts DEF AInv, Arrival, Balance
<1>3. i \in 1 .. Len(args) /\ args[i] \in Operands
  BY <1>1, <1>2
<1>4. args[i].param = Type(i)
  BY <1>3 DEF Passable, Type
<1>5. \A e \in Words(Type(i)) : Holds(Captured(i)[e], i, e)
  BY <1>2, <1>3, CaptureFacts
<1>6. QED BY <1>1, <1>4, <1>5, CaptureStep DEF Holds

\* A parameter without a name keeps its place in the list.
LEMMA UnnamedParamArrives ==
  ASSUME AInv, UnnamedParam
  PROVE  Arrival'
BY CaptureStep DEF UnnamedParam

\* Arrival is inductive.
LEMMA NextArrives ==
  ASSUME Passable
  PROVE  AInv /\ [Next]_vars => AInv'
<1> SUFFICES ASSUME AInv, [Next]_vars PROVE AInv'
  OBVIOUS
<1>1. BInv'
  BY NextBalance DEF AInv
<1>2. CASE UNCHANGED vars
  <2>1. UNCHANGED <<args, ret, pc, i, st, ireg, xreg, stack, params>>
    BY <1>2 DEF vars
  <2>2. Arrival' <=> Arrival
    BY <2>1 DEF Arrival, Pushed, Loaded, Holds, Slot, At, ByRegister, Class, Type, ArgTypes, Start,
       IntAtStart, call_sret, ArgumentsArrive
  <2>3. QED BY <1>1, <2>2 DEF AInv
<1>3. ASSUME Body \/ IrRet \/ TakeResult
      PROVE  Arrival'
  <2>1. /\ pc' \in {"return", "result", "done"} /\ UNCHANGED <<args, params>>
    BY <1>3 DEF Body, IrRet, TakeResult
  <2>2. ArgumentsArrive'
    BY <2>1, StillArrives DEF AInv, Arrival
  <2>3. QED BY <2>1, <2>2 DEF Arrival
<1>4. ASSUME Next
      PROVE  Arrival'
  BY <1>3, <1>4, ClassifyArrives, EndClassifyArrives, PushArgArrives, EndPushArrives,
     SkipArgArrives, LoadAggregateArrives, LoadSseArrives, LoadIntArrives, CallArrives,
     CaptureParamArrives, UnnamedParamArrives DEF Next
<1>5. QED BY <1>1, <1>2, <1>4 DEF AInv

\* Arguments reach their parameters, byte for byte, whatever their number,
\* their types and the registers there are: the caller's three passes
\* (codegen.c:707-827) and the callee's compute_arg_state (codegen.c:31-69)
\* agree about every place.
THEOREM ArgumentsReachParameters ==
  ASSUME Passable
  PROVE  Spec => []ArgumentsArrive
<1>1. Init => AInv
  <2>1. Init => Arrival
    BY DEF Init, Arrival, ArgumentsArrive
  <2>2. QED BY <2>1, InitBalance DEF AInv
<1>2. AInv /\ [Next]_vars => AInv'
  BY NextArrives
<1>3. AInv => ArgumentsArrive
  BY DEF AInv, Arrival
<1>4. QED BY <1>1, <1>2, <1>3, PTL DEF Spec

-----------------------------------------------------------------------------
(* The result *)

\* A result that one move per eightbyte takes whole and, if it is a struct or a
\* union, no move stores beyond (README, "Departures": eightbytes of 3, 5, 6 or
\* 7 bytes, and a struct whose last eightbyte is a float).
Returnable(ty) ==
  /\ ~ty.agg => ty.size <= 8
  /\ ~abi_in_memory(abi_classify(ty)) =>
       \A e \in DOMAIN abi_classify(ty) :
         /\ Suffices(ty, abi_classify(ty), e)
         /\ ty.agg /\ abi_classify(ty)[e] = "SSE" => Remaining(ty, e) >= 8

NoResult == [int |-> [r \in {0, 1} |-> Junk], sse |-> [r \in {0, 1} |-> Junk]]

\* The width IR_RET moves an eightbyte of class INTEGER with.
RetWidth(e) == IF ret.agg THEN IntWidth(Remaining(ret, e)) ELSE 8

\* How far the result has come.
WayBack ==
  /\ call_sret /\ pc \in {"callee", "return"} => ireg[0] = Sret
  /\ pc \notin {"result", "done"} => retregs = NoResult
  /\ call_sret /\ pc \in {"result", "done"} =>
       result = [e \in Words(ret) |-> Stored(Word(Result, e, 8), Held(ret, e))]
  /\ ~call_sret /\ pc = "result" =>
       LET c == abi_classify(ret)
       IN  \A e \in DOMAIN c :
             /\ c[e] = "INTEGER" => retregs.int[Rank(c, e)] = Word(Result, e, RetWidth(e))
             /\ c[e] = "SSE" =>
                  retregs.sse[Rank(c, e)] = Word(Result, e, SseWidth(Remaining(ret, e)))
  /\ ResultArrives

RInv == BInv /\ WayBack

\* Two eightbytes need no more than the two registers of a class.
LEMMA TwoRegisters ==
  ASSUME NEW c, Small(c), NEW cls
  PROVE  Needs(c, cls) \in Nat /\ Needs(c, cls) <= 2
<1> DEFINE S == {e \in DOMAIN c : c[e] = cls}
<1>1. S \subseteq {0, 1}
  BY DEF Small
<1>2. IsFiniteSet({0, 1}) /\ Cardinality({0, 1}) = 2
  <2>1. IsFiniteSet({0}) /\ Cardinality({0}) = 1
    BY FS_Singleton
  <2>2. {0, 1} = {0} \cup {1} /\ 1 \notin {0}
    OBVIOUS
  <2>3. IsFiniteSet({0} \cup {1}) /\ Cardinality({0} \cup {1}) = Cardinality({0}) + 1
    BY <2>1, <2>2, FS_AddElement
  <2>4. QED BY <2>1, <2>2, <2>3
<1> HIDE DEF S
<1>3. Cardinality(S) <= 2 /\ Cardinality(S) \in Nat
  BY <1>1, <1>2, FS_Subset, FS_CardinalityType
<1>4. QED BY <1>3 DEF Needs, S

\* A move does not take more than there is, except of a lone byte.
LEMMA WidthFits ==
  ASSUME NEW n \in Nat \ {0}
  PROVE  IntWidth(n) <= n
<1>1. CASE n >= 8
  BY <1>1 DEF IntWidth
<1>2. CASE n \in 4 .. 7
  BY <1>2 DEF IntWidth
<1>3. CASE n \in 2 .. 3
  BY <1>3 DEF IntWidth
<1>4. CASE n = 1
  BY <1>4 DEF IntWidth
<1>5. QED BY <1>1, <1>2, <1>3, <1>4

\* Steps before the return leave the way back alone.
LEMMA BeforeReturn ==
  ASSUME WayBack, UNCHANGED <<ret, retregs>>, pc' \notin {"result", "done"},
         pc \notin {"result", "done"},
         call_sret /\ pc' \in {"callee", "return"} => ireg'[0] = Sret
  PROVE  WayBack'
<1>1. call_sret' <=> call_sret
  BY DEF call_sret
<1>2. ResultArrives'
  BY DEF ResultArrives
<1>3. QED BY <1>1, <1>2 DEF WayBack, NoResult

\* What a stored word keeps.
LEMMA StoredFacts ==
  ASSUME NEW e \in Nat, NEW b \in Nat, NEW n \in Nat, NEW h \in Nat, h <= b, h <= n
  PROVE  LET s == Stored(Word(Result, e, b), n)
         IN  s.word.arg = Result /\ s.word.eb = e /\ s.word.bytes >= h /\ s.stored = n
BY DEF Stored, Clip, Word

\* The callee's return: through the hidden pointer, which has survived, or in the
\* registers of the result's classes.
LEMMA IrRetReturns ==
  ASSUME RInv, IrRet
  PROVE  WayBack'
<1> DEFINE c == abi_classify(ret)
<1>1. /\ ret \in RetTypes /\ ret \in AbiTypes /\ ret' = ret /\ pc = "return" /\ pc' = "result"
      /\ retregs = NoResult /\ (call_sret => ireg[0] = Sret) /\ (call_sret' <=> call_sret)
  BY CallConstants DEF RInv, BInv, TypeOK, WayBack, IrRet, call_sret
<1>2. ResultArrives'
  BY <1>1 DEF ResultArrives
<1>3. CASE call_sret
  <2>1. result' = [e \in Words(ret) |-> Stored(Word(Result, e, 8), Held(ret, e))]
    BY <1>1, <1>3 DEF IrRet
  <2>2. QED BY <1>1, <1>2, <1>3, <2>1 DEF WayBack
<1>4. CASE ~call_sret
  <2> DEFINE iwords == [e \in DOMAIN c |->
                          Word(Result, e, IF ret.agg THEN IntWidth(Remaining(ret, e)) ELSE 8)]
             xwords == [e \in DOMAIN c |-> Word(Result, e, SseWidth(Remaining(ret, e)))]
             W == {iwords[e] : e \in DOMAIN c} \cup {xwords[e] : e \in DOMAIN c} \cup {Junk}
             junk == [r \in {0, 1} |-> Junk]
  <2>1. retregs' = [int |-> Load(retregs.int, 0, c, "INTEGER", iwords),
                    sse |-> Load(retregs.sse, 0, c, "SSE", xwords)]
    BY <1>4 DEF IrRet
  <2>2. retregs.int = junk /\ retregs.sse = junk
    BY <1>1 DEF NoResult
  <2>3. junk \in [0 .. 2 - 1 -> W]
    <3>1. {0, 1} = 0 .. 2 - 1 /\ Junk \in W
      OBVIOUS
    <3> HIDE DEF W
    <3>2. QED BY <3>1
  <2>4. Small(c)
    <3>1. ret.size \in Int /\ Len(ret.leaves) \in Nat
      BY <1>1 DEF AbiTypes
    <3>2. QED BY <3>1, ClassifyFacts DEF Small
  <2>5. iwords \in [DOMAIN c -> W] /\ xwords \in [DOMAIN c -> W]
    OBVIOUS
  <2>6. \A e \in DOMAIN c : /\ iwords[e] = Word(Result, e, RetWidth(e))
                            /\ xwords[e] = Word(Result, e, SseWidth(Remaining(ret, e)))
    BY DEF RetWidth
  <2>7. Needs(c, "INTEGER") \in Nat /\ Needs(c, "INTEGER") <= 2
        /\ Needs(c, "SSE") \in Nat /\ Needs(c, "SSE") <= 2
    BY <2>4, TwoRegisters
  <2>8. \A e \in DOMAIN c : Rank(c, e) \in Nat
    BY <2>4, RankFacts
  <2> HIDE DEF c, iwords, xwords, W, junk
  <2>9. Loads(Load(junk, 0, c, "INTEGER", iwords), junk, 2, 0, c, "INTEGER", iwords)
        /\ Loads(Load(junk, 0, c, "SSE", xwords), junk, 2, 0, c, "SSE", xwords)
    BY <2>3, <2>4, <2>5, LoadFacts
  <2>10. /\ Loads(retregs'.int, junk, 2, 0, c, "INTEGER", iwords)
         /\ Loads(retregs'.sse, junk, 2, 0, c, "SSE", xwords)
    BY <2>1, <2>2, <2>9
  <2>11. \A e \in DOMAIN c : /\ c[e] = "INTEGER" => retregs'.int[Rank(c, e)] = iwords[e]
                             /\ c[e] = "SSE" => retregs'.sse[Rank(c, e)] = xwords[e]
    <3>1. \A e \in DOMAIN c : 0 + Rank(c, e) = Rank(c, e)
      BY <2>8
    <3>2. 0 + Needs(c, "INTEGER") <= 2 /\ 0 + Needs(c, "SSE") <= 2
      BY <2>7
    <3>3. QED BY <2>10, <3>1, <3>2 DEF Loads
  <2>12. \A e \in DOMAIN c :
           /\ c[e] = "INTEGER" => retregs'.int[Rank(c, e)] = Word(Result, e, RetWidth(e))
           /\ c[e] = "SSE" =>
                retregs'.sse[Rank(c, e)] = Word(Result, e, SseWidth(Remaining(ret, e)))
    BY <2>6, <2>11
  <2>13. \A e : RetWidth(e)' = RetWidth(e)
    BY <1>1 DEF RetWidth
  <2>14. QED BY <1>1, <1>2, <1>4, <2>12, <2>13 DEF WayBack, c
<1>5. QED BY <1>3, <1>4

\* The caller stores the result.
LEMMA TakeResultReturns ==
  ASSUME RInv, Returnable(ret), TakeResult
  PROVE  WayBack'
<1> DEFINE c == abi_classify(ret)
<1>1. /\ ret \in AbiTypes /\ ret' = ret /\ pc = "result" /\ pc' = "done"
      /\ (call_sret' <=> call_sret)
  BY CallConstants DEF RInv, BInv, TypeOK, TakeResult, call_sret
<1>2. \A e \in Words(ret) : /\ e \in Nat /\ Held(ret, e) \in Nat /\ Held(ret, e) <= 8
                            /\ Held(ret, e) <= Remaining(ret, e)
                            /\ Remaining(ret, e) \in Nat \ {0}
                            /\ IntWidth(Remaining(ret, e)) \in Nat
                            /\ IntWidth(Remaining(ret, e)) <= Remaining(ret, e)
                            /\ SseWidth(Remaining(ret, e)) \in Nat
                            /\ SseWidth(Remaining(ret, e)) <= 8
                            /\ IntWidth(Remaining(ret, e)) <= 8
  <2> TAKE e \in Words(ret)
  <2>1. e \in Nat /\ Remaining(ret, e) \in Nat \ {0}
    BY <1>1, WordsFacts
  <2>2. QED BY <1>1, <2>1, HeldFacts, WidthFacts, WidthFits
<1>3. CASE call_sret
  <2>1. result' = [e \in Words(ret) |-> Stored(Word(Result, e, 8), Held(ret, e))]
    BY <1>1, <1>3 DEF TakeResult, RInv, WayBack
  <2>2. ASSUME NEW e \in Words(ret)
        PROVE  /\ result'[e].word.arg = Result /\ result'[e].word.eb = e
               /\ result'[e].word.bytes >= Held(ret, e)
               /\ result'[e].stored <= Remaining(ret, e)
    <3>1. result'[e] = Stored(Word(Result, e, 8), Held(ret, e))
      BY <2>1
    <3>2. QED BY <3>1, <1>2, StoredFacts
  <2>3. DOMAIN result' = Words(ret)
    BY <2>1
  <2>4. ResultArrives'
    BY <1>1, <2>2, <2>3 DEF ResultArrives
  <2>5. QED BY <1>1, <1>3, <2>1, <2>4 DEF WayBack
<1>4. CASE ~call_sret
  <2>1. ~abi_in_memory(c)
    BY <1>4 DEF call_sret
  <2>2. DOMAIN c = Words(ret)
    <3>1. ret.size \in Int /\ Len(ret.leaves) \in Nat
      BY <1>1 DEF AbiTypes
    <3>2. QED BY <3>1, <2>1, ClassifyFacts
  <2>3. DOMAIN result' = DOMAIN c
    BY <1>4 DEF TakeResult
  <2>4. ASSUME NEW e \in DOMAIN c
        PROVE  /\ result'[e].word.arg = Result /\ result'[e].word.eb = e
               /\ result'[e].word.bytes >= Held(ret, e)
               /\ ret.agg => result'[e].stored <= Remaining(ret, e)
    <3>1. Suffices(ret, c, e) /\ (ret.agg /\ c[e] = "SSE" => Remaining(ret, e) >= 8)
      BY <2>1 DEF Returnable
    <3>2. e \in Words(ret)
      BY <2>2
    <3>3. CASE c[e] = "INTEGER"
      <4>1. result'[e] = Stored(retregs.int[Rank(c, e)], IntWidth(Remaining(ret, e)))
        BY <1>4, <3>3 DEF TakeResult, ReturnRank
      <4>2. retregs.int[Rank(c, e)] = Word(Result, e, RetWidth(e))
        BY <1>1, <1>4, <3>3 DEF RInv, WayBack
      <4>3. Held(ret, e) <= IntWidth(Remaining(ret, e))
        BY <3>1, <3>3 DEF Suffices
      <4>4. RetWidth(e) \in Nat /\ Held(ret, e) <= RetWidth(e)
        BY <1>2, <3>2, <4>3 DEF RetWidth
      <4>5. result'[e] = Stored(Word(Result, e, RetWidth(e)), IntWidth(Remaining(ret, e)))
        BY <4>1, <4>2
      <4> DEFINE b == RetWidth(e)
                 n == IntWidth(Remaining(ret, e))
                 h == Held(ret, e)
                 s == Stored(Word(Result, e, b), n)
      <4>6. /\ e \in Nat /\ b \in Nat /\ n \in Nat /\ h \in Nat /\ h <= b /\ h <= n
            /\ n <= Remaining(ret, e) /\ result'[e] = s
        BY <1>2, <3>2, <4>3, <4>4, <4>5
      <4> HIDE DEF c, b, n, h
      <4>7. s.word.arg = Result /\ s.word.eb = e /\ s.word.bytes >= h /\ s.stored = n
        BY <4>6, StoredFacts
      <4> HIDE DEF s
      <4>8. QED BY <4>6, <4>7 DEF h
    <3>4. CASE c[e] # "INTEGER"
      <4> DEFINE n == IF ret.agg THEN 8 ELSE SseWidth(ret.size)
      <4>1. c[e] = "SSE" /\ Held(ret, e) <= SseWidth(Remaining(ret, e))
        BY <3>1, <3>4 DEF Suffices
      <4>2. result'[e] = Stored(retregs.sse[Rank(c, e)], n)
        BY <1>4, <4>1 DEF TakeResult, ReturnRank
      <4>3. retregs.sse[Rank(c, e)] = Word(Result, e, SseWidth(Remaining(ret, e)))
        BY <1>1, <1>4, <4>1 DEF RInv, WayBack
      <4>4. n \in Nat /\ Held(ret, e) <= n
        <5>1. CASE ret.agg
          BY <5>1, <1>2, <3>2
        <5>2. CASE ~ret.agg
          <6>1. ret.size \in Int /\ ret.size <= 8
            BY <1>1, <5>2 DEF AbiTypes, Returnable
          <6>2. e = 0
            BY <1>2, <3>2, <6>1 DEF Remaining
          <6>3. Remaining(ret, e) = ret.size
            BY <6>1, <6>2 DEF Remaining
          <6>4. QED BY <5>2, <6>3, <4>1, <1>2, <3>2
        <5>3. QED BY <5>1, <5>2
      <4>5. ret.agg => n <= Remaining(ret, e)
        BY <3>1, <4>1
      <4> DEFINE b == SseWidth(Remaining(ret, e))
                 h == Held(ret, e)
                 s == Stored(Word(Result, e, b), n)
      <4>6. /\ e \in Nat /\ b \in Nat /\ n \in Nat /\ h \in Nat /\ h <= b /\ h <= n
            /\ (ret.agg => n <= Remaining(ret, e)) /\ result'[e] = s
        BY <1>2, <3>2, <4>1, <4>2, <4>3, <4>4, <4>5
      <4> HIDE DEF c, b, n, h
      <4>7. s.word.arg = Result /\ s.word.eb = e /\ s.word.bytes >= h /\ s.stored = n
        BY <4>6, StoredFacts
      <4> HIDE DEF s
      <4>8. QED BY <4>6, <4>7 DEF h
    <3>5. QED BY <3>3, <3>4
  <2> HIDE DEF c
  <2>5. ResultArrives'
    BY <1>1, <2>2, <2>3, <2>4 DEF ResultArrives
  <2>6. QED BY <1>1, <1>4, <2>5 DEF WayBack
<1>5. QED BY <1>3, <1>4

\* The way back, step by step.
LEMMA NextReturns ==
  ASSUME \A ty \in RetTypes : Returnable(ty)
  PROVE  RInv /\ [Next]_vars => RInv'
<1> SUFFICES ASSUME RInv, [Next]_vars PROVE RInv'
  OBVIOUS
<1>1. BInv' /\ BInv /\ WayBack /\ Returnable(ret)
  BY NextBalance DEF RInv, BInv, TypeOK
<1>2. CASE UNCHANGED vars
  <2>1. UNCHANGED <<ret, pc, ireg, retregs, result>>
    BY <1>2 DEF vars
  <2>2. WayBack' <=> WayBack
    BY <2>1 DEF WayBack, call_sret, NoResult, RetWidth, ResultArrives
  <2>3. QED BY <1>1, <2>2 DEF RInv
<1>3. ASSUME (\E op \in Operands : Classify(op)) \/ EndClassify \/ PushArg \/ EndPush \/ SkipArg
             \/ LoadAggregate \/ LoadSse \/ LoadInt
      PROVE  WayBack'
  <2>1. /\ UNCHANGED <<ret, retregs>> /\ pc \in {"count", "push", "load"}
        /\ pc' \in {"count", "push", "load"}
    BY <1>3 DEF Classify, EndClassify, PushArg, EndPush, SkipArg, LoadAggregate, LoadSse, LoadInt
  <2>2. QED BY <1>1, <2>1, BeforeReturn
<1>4. ASSUME Call PROVE WayBack'
  <2>1. /\ UNCHANGED <<ret, retregs>> /\ pc = "load" /\ pc' = "callee"
        /\ ireg' = IF call_sret THEN [ireg EXCEPT ![0] = Sret] ELSE ireg
    BY <1>4 DEF Call
  <2>2. call_sret => ireg'[0] = Sret
    BY <1>1, <2>1, CallConstants DEF BInv, TypeOK
  <2>3. QED BY <1>1, <2>1, <2>2, BeforeReturn
<1>5. ASSUME CaptureParam \/ UnnamedParam \/ Body PROVE WayBack'
  <2>1. /\ UNCHANGED <<ret, retregs, ireg>> /\ pc = "callee" /\ pc' \in {"callee", "return"}
    BY <1>5 DEF CaptureParam, UnnamedParam, Body
  <2>2. QED BY <1>1, <2>1, BeforeReturn DEF WayBack
<1>6. Next => WayBack'
  BY <1>1, <1>3, <1>4, <1>5, IrRetReturns, TakeResultReturns DEF Next, RInv
<1>7. QED BY <1>1, <1>2, <1>6 DEF RInv

\* The caller's object receives the result and nothing beside it, whether it
\* travels through the hidden pointer or in rax, rdx, xmm0 and xmm1: IR_RET
\* (codegen.c:885-929) and the end of IR_CALL (codegen.c:848-881) pick the same
\* registers, and the pointer survives the arguments.
THEOREM ResultReachesCaller ==
  ASSUME \A ty \in RetTypes : Returnable(ty)
  PROVE  Spec => []ResultArrives
<1>1. Init => RInv
  <2>1. Init => WayBack
    BY DEF Init, WayBack, NoResult, ResultArrives
  <2>2. QED BY <2>1, InitBalance DEF RInv
<1>2. RInv /\ [Next]_vars => RInv'
  BY NextReturns
<1>3. RInv => ResultArrives
  BY DEF RInv, WayBack
<1>4. QED BY <1>1, <1>2, <1>3, PTL DEF Spec
=============================================================================
