----------------------------- MODULE SharedFacts -----------------------------
(***************************************************************************)
(* Facts that the proofs of more than one component rest on: rounding up to *)
(* an alignment, induction over a range of numbers, and the recursion of     *)
(* abi_classify over the scalars of a type.                                  *)
(***************************************************************************)
EXTENDS Align, AbiClass, WellFoundedInduction, TLAPS

-----------------------------------------------------------------------------
(* Rounding *)

\* A remainder is below its divisor.
LEMMA ModBounds ==
  ASSUME NEW m \in Nat, NEW a \in Nat \ {0}
  PROVE  m % a \in 0 .. a - 1 /\ m % a <= m
  OBVIOUS

LEMMA ProductIsMultiple ==
  ASSUME NEW a \in Nat \ {0}, NEW q \in Int
  PROVE  (a * q) % a = 0
  OBVIOUS

\* Removing the remainder leaves a multiple.
LEMMA RoundedIsMultiple ==
  ASSUME NEW m \in Nat, NEW a \in Nat \ {0}
  PROVE  (m - (m % a)) % a = 0
<1>1. m = a * (m \div a) + (m % a)
  OBVIOUS
<1>2. m - (m % a) = a * (m \div a)
  BY <1>1
<1>3. (a * (m \div a)) % a = 0
  BY ProductIsMultiple
<1> QED BY <1>2, <1>3

\* AlignUp returns a multiple of a, not below n, and less than a above it.
LEMMA AlignUpFacts ==
  ASSUME NEW n \in Nat, NEW a \in Nat \ {0}
  PROVE  /\ AlignUp(n, a) \in Nat
         /\ AlignUp(n, a) >= n
         /\ AlignUp(n, a) < n + a
         /\ AlignUp(n, a) % a = 0
<1> DEFINE m == n + a - 1
<1>1. m \in Nat
  OBVIOUS
<1>2. m % a \in 0 .. a - 1 /\ m % a <= m
  BY <1>1, ModBounds
<1>3. (m - (m % a)) % a = 0
  BY <1>1, RoundedIsMultiple
<1> QED BY <1>1, <1>2, <1>3 DEF AlignUp

\* A multiple of a multiple is a multiple.
LEMMA MultipleTransitive ==
  ASSUME NEW n \in Nat, NEW a \in Nat \ {0}, NEW b \in Nat \ {0},
         n % b = 0, b % a = 0
  PROVE  n % a = 0
<1>1. n = b * (n \div b) /\ b = a * (b \div a)
  OBVIOUS
<1> DEFINE q == (b \div a) * (n \div b)
<1>2. q \in Int /\ n = a * q
  BY <1>1
<1>3. (a * q) % a = 0
  BY <1>2, ProductIsMultiple
<1> QED BY <1>2, <1>3

\* The sum of two multiples is a multiple.
LEMMA MultipleSum ==
  ASSUME NEW m \in Nat, NEW n \in Nat, NEW a \in Nat \ {0}, m % a = 0, n % a = 0
  PROVE  (m + n) % a = 0
<1>1. m = a * (m \div a) /\ n = a * (n \div a)
  OBVIOUS
<1> DEFINE q == (m \div a) + (n \div a)
<1>2. q \in Int /\ m + n = a * q
  BY <1>1
<1>3. (a * q) % a = 0
  BY <1>2, ProductIsMultiple
<1> QED BY <1>2, <1>3

-----------------------------------------------------------------------------
(* Induction over a range.  It is stated of a set, not of a predicate: the  *)
(* least number of the range outside the set has a predecessor in it.        *)

\* A set of numbers that is not empty has a least member.
LEMMA SmallestNumber ==
  ASSUME NEW T \in SUBSET Nat, T # {}
  PROVE  \E d \in T : \A y \in T : d <= y
<1> DEFINE R == OpToRel(<, Nat)
<1>1. IsWellFoundedOn(R, Nat)
  BY NatLessThanWellFounded
<1>2. \A a, b \in Nat : a < b => <<a, b>> \in R
  BY DEF OpToRel
<1> HIDE DEF R
<1>3. PICK d \in T : \A y \in T : ~ (<<y, d>> \in R)
  BY <1>1, WFMin, Zenon
<1>4. ASSUME NEW y \in T
      PROVE  d <= y
  <2>1. d \in Nat /\ y \in Nat
    OBVIOUS
  <2>2. ~ (y < d)
    BY <2>1, <1>2, <1>3, Zenon
  <2>3. QED BY <2>1, <2>2
<1>5. QED BY <1>4

\* Induction up to n, over a set of numbers.
LEMMA UpTo ==
  ASSUME NEW n \in Nat, NEW P, 0 \in P, \A k \in 1 .. n : k - 1 \in P => k \in P
  PROVE  \A k \in 0 .. n : k \in P
<1> DEFINE Bad == {k \in 0 .. n : k \notin P}
<1>1. SUFFICES ASSUME Bad # {} PROVE FALSE
  OBVIOUS
<1>2. Bad \in SUBSET Nat
  OBVIOUS
<1>3. PICK d \in Bad : \A y \in Bad : d <= y
  <2> HIDE DEF Bad
  <2>1. QED BY <1>1, <1>2, SmallestNumber
<1>4. d \in 1 .. n /\ d - 1 \in 0 .. n /\ d \notin P
  OBVIOUS
<1>5. d - 1 \notin Bad
  BY <1>3, <1>4
<1>6. QED BY <1>4, <1>5

-----------------------------------------------------------------------------
(* The classes of a type *)

\* The recursion of ClassesAfter defines a function.
LEMMA ClassesExist ==
  ASSUME NEW leaves, NEW start, NEW n \in Nat
  PROVE  \E s : s = [k \in 0 .. n |-> IF k = 0 THEN start ELSE classify_range(s[k - 1], leaves[k])]
<1> DEFINE P == {m \in 0 .. n : \E s : s = [k \in 0 .. m |-> IF k = 0 THEN start
                                                    ELSE classify_range(s[k - 1], leaves[k])]}
<1>1. 0 \in P
  <2> DEFINE s == [k \in 0 .. 0 |-> start]
  <2>1. s = [k \in 0 .. 0 |-> IF k = 0 THEN start ELSE classify_range(s[k - 1], leaves[k])]
    OBVIOUS
  <2> HIDE DEF s
  <2>2. 0 \in 0 .. n
    OBVIOUS
  <2>3. QED BY <2>1, <2>2
<1>2. ASSUME NEW d \in 1 .. n, d - 1 \in P
      PROVE  d \in P
  <2>1. PICK s : s = [k \in 0 .. d - 1 |-> IF k = 0 THEN start
                                           ELSE classify_range(s[k - 1], leaves[k])]
    BY <1>2
  <2> DEFINE t == [k \in 0 .. d |-> IF k = d THEN classify_range(s[d - 1], leaves[d]) ELSE s[k]]
  <2>2. ASSUME NEW k \in 0 .. d
        PROVE  t[k] = IF k = 0 THEN start ELSE classify_range(t[k - 1], leaves[k])
    <3>1. CASE k = 0
      BY <2>1, <3>1
    <3>2. CASE k # 0 /\ k = d
      <4>1. t[k - 1] = s[d - 1]
        BY <3>2
      <4>2. QED BY <3>2, <4>1
    <3>3. CASE k # 0 /\ k # d
      <4>1. k \in 0 .. d - 1 /\ k - 1 \in 0 .. d - 1 /\ k - 1 # d
        BY <3>3
      <4>2. t[k] = s[k] /\ t[k - 1] = s[k - 1]
        BY <3>3, <4>1
      <4>3. s[k] = classify_range(s[k - 1], leaves[k])
        BY <2>1, <3>3, <4>1
      <4>4. QED BY <3>3, <4>2, <4>3
    <3>4. QED BY <3>1, <3>2, <3>3
  <2>3. t = [k \in 0 .. d |-> IF k = 0 THEN start ELSE classify_range(t[k - 1], leaves[k])]
    BY <2>2
  <2> HIDE DEF t
  <2>4. d \in 0 .. n
    OBVIOUS
  <2>5. QED BY <2>3, <2>4
<1>3. \A k \in 0 .. n : k \in P
  <2> HIDE DEF P
  <2>1. QED BY <1>1, <1>2, UpTo
<1>4. QED BY <1>3

\* The classes start as NONE, and each leaf in turn is merged into them.
LEMMA ClassesSteps ==
  ASSUME NEW leaves, NEW n, Len(leaves) \in Nat
  PROVE  /\ ClassesAfter(leaves, n)[0] = [e \in 0 .. n - 1 |-> "NONE"]
         /\ \A k \in 1 .. Len(leaves) :
              ClassesAfter(leaves, n)[k] =
                classify_range(ClassesAfter(leaves, n)[k - 1], leaves[k])
<1> DEFINE w == ClassesAfter(leaves, n)
           l == Len(leaves)
           start == [e \in 0 .. n - 1 |-> "NONE"]
<1>1. w = CHOOSE s : s = [k \in 0 .. l |-> IF k = 0 THEN start
                                           ELSE classify_range(s[k - 1], leaves[k])]
  BY DEF ClassesAfter
<1>2. w = [k \in 0 .. l |-> IF k = 0 THEN start ELSE classify_range(w[k - 1], leaves[k])]
  <2> HIDE DEF start
  <2>1. QED BY <1>1, ClassesExist
<1>3. l \in Nat
  OBVIOUS
<1> HIDE DEF w, l, start
<1>4. w[0] = start /\ \A k \in 1 .. l : w[k] = classify_range(w[k - 1], leaves[k])
  BY <1>2, <1>3
<1>5. QED BY <1>4 DEF w, l, start

\* Every leaf leaves the number of eightbytes alone.
LEMMA ClassesDomain ==
  ASSUME NEW leaves, NEW n, Len(leaves) \in Nat
  PROVE  DOMAIN ClassesAfter(leaves, n)[Len(leaves)] = 0 .. n - 1
<1> DEFINE w == ClassesAfter(leaves, n)
           l == Len(leaves)
           P == {k \in 0 .. l : DOMAIN w[k] = 0 .. n - 1}
<1>1. l \in Nat
  OBVIOUS
<1> HIDE DEF w
<1>2. /\ w[0] = [e \in 0 .. n - 1 |-> "NONE"]
      /\ \A k \in 1 .. l : w[k] = classify_range(w[k - 1], leaves[k])
  BY ClassesSteps DEF w
<1>3. 0 \in P
  BY <1>1, <1>2
<1>4. ASSUME NEW k \in 1 .. l, k - 1 \in P
      PROVE  k \in P
  <2>1. w[k] = classify_range(w[k - 1], leaves[k])
    BY <1>2
  <2>2. DOMAIN w[k] = DOMAIN w[k - 1]
    BY <2>1 DEF classify_range, Share, PostMerger
  <2>3. QED BY <1>4, <2>2
<1>5. \A k \in 0 .. l : k \in P
  <2> HIDE DEF P, l
  <2>1. QED BY <1>1, <1>3, <1>4, UpTo
<1>6. QED BY <1>1, <1>5 DEF w
=============================================================================
