---------------------------- MODULE StmtParseProofs ----------------------------
(***************************************************************************)
(* The statement parser by itself, on any text: its stack of tasks leads     *)
(* from where it is to one tree at depth 0 (StackInv).  A task has one       *)
(* effect on the number of nodes and on the two depths, whatever tasks it    *)
(* becomes and whatever errors are reported on the way; so a step has only   *)
(* to lead where the task it replaces did.                                  *)
(***************************************************************************)
EXTENDS StmtParse, SharedFacts, FiniteSetTheorems

-----------------------------------------------------------------------------
(* What a task does *)

Points == [built : Nat, loop : Nat, switch : Nat]
Point(n, loop, switch) == [built |-> n, loop |-> loop, switch |-> switch]

\* The tasks that leave one node more than there were.
Yielding == {"statement", "expression", "optional", "compound", "init", "labelled", "name"}

\* From a to b: what a task does in the end, whatever tasks it becomes before.
Builds(t, a, b) ==
  \/ t.t \in {"expect", "pragma", "match ;"} /\ b = a
  \/ t.t \in Yielding /\ b = [a EXCEPT !.built = @ + 1]
  \/ t.t = "led" /\ a.built >= 1 /\ b = a
  \/ t.t = "else" /\ a.built >= 2 /\ b = [a EXCEPT !.built = @ - 1]
  \/ t.t = "make" /\ Parts(t.k) <= a.built /\ b = [a EXCEPT !.built = @ - Parts(t.k) + 1]
  \/ t.t = "items" /\ t.before \in 0 .. a.built /\ b = [a EXCEPT !.built = t.before + 1]
Enters(t, a, b) ==
  \E by \in {1, -1} :
    \/ t = Depth("loop", by) /\ b = [a EXCEPT !.loop = @ + by]
    \/ t = Depth("switch", by) /\ b = [a EXCEPT !.switch = @ + by]
Does(t, a, b) == Builds(t, a, b) \/ Enters(t, a, b)

\* A list of tasks leads from a to b through points of the parser.
Leads(ts, a, b) ==
  \E p \in [1 .. Len(ts) + 1 -> Points] :
    /\ p[1] = a /\ p[Len(ts) + 1] = b
    /\ \A i \in 1 .. Len(ts) : Does(ts[i], p[i], p[i + 1])

LEMMA LeadsNowhere ==
  ASSUME NEW a \in Points
  PROVE  Leads(<< >>, a, a)
<1> DEFINE p == [i \in 1 .. 1 |-> a]
<1>1. p \in [1 .. Len(<< >>) + 1 -> Points] /\ p[1] = a /\ p[Len(<< >>) + 1] = a
  OBVIOUS
<1>2. \A i \in 1 .. Len(<< >>) : Does(<< >>[i], p[i], p[i + 1])
  OBVIOUS
<1> QED BY <1>1, <1>2 DEF Leads

\* One list after the other.
LEMMA LeadsOn ==
  ASSUME NEW T, NEW ts \in Seq(T), NEW us \in Seq(T), NEW a, NEW b, NEW c,
         Leads(ts, a, b), Leads(us, b, c)
  PROVE  Leads(ts \o us, a, c)
<1>1. PICK p \in [1 .. Len(ts) + 1 -> Points] :
        /\ p[1] = a /\ p[Len(ts) + 1] = b
        /\ \A i \in 1 .. Len(ts) : Does(ts[i], p[i], p[i + 1])
  BY DEF Leads
<1>2. PICK q \in [1 .. Len(us) + 1 -> Points] :
        /\ q[1] = b /\ q[Len(us) + 1] = c
        /\ \A i \in 1 .. Len(us) : Does(us[i], q[i], q[i + 1])
  BY DEF Leads
<1> DEFINE n == Len(ts)
           m == Len(us)
           r == [i \in 1 .. n + m + 1 |-> IF i <= n THEN p[i] ELSE q[i - n]]
<1>3. n \in Nat /\ m \in Nat /\ Len(ts \o us) = n + m
  OBVIOUS
<1>4. r \in [1 .. n + m + 1 -> Points]
  BY <1>1, <1>2, <1>3
<1>5. r[1] = a
  BY <1>1, <1>2, <1>3
<1>6. r[n + m + 1] = c
  BY <1>2, <1>3
<1>7. ASSUME NEW i \in 1 .. n + m PROVE Does((ts \o us)[i], r[i], r[i + 1])
  <2>1. CASE i <= n
    <3>1. i \in 1 .. n /\ (ts \o us)[i] = ts[i] /\ r[i] = p[i]
      BY <1>3, <2>1
    <3>2. r[i + 1] = p[i + 1]
      BY <1>1, <1>2, <1>3, <2>1
    <3> QED BY <1>1, <3>1, <3>2
  <2>2. CASE i > n
    <3>1. i - n \in 1 .. m /\ (ts \o us)[i] = us[i - n] /\ r[i] = q[i - n]
      BY <1>3, <2>2
    <3>2. r[i + 1] = q[(i - n) + 1]
      BY <1>3, <2>2
    <3> HIDE DEF r
    <3> QED BY <1>2, <3>1, <3>2
  <2> QED BY <1>3, <2>1, <2>2
<1> HIDE DEF r
<1>8. r \in [1 .. Len(ts \o us) + 1 -> Points] /\ r[Len(ts \o us) + 1] = c
      /\ \A i \in 1 .. Len(ts \o us) : Does((ts \o us)[i], r[i], r[i + 1])
  BY <1>3, <1>4, <1>6, <1>7
<1> QED BY <1>5, <1>8 DEF Leads

LEMMA LeadsOne ==
  ASSUME NEW t, NEW a \in Points, NEW b \in Points, Does(t, a, b)
  PROVE  Leads(<<t>>, a, b)
<1> DEFINE p == [i \in 1 .. 2 |-> IF i = 1 THEN a ELSE b]
<1>1. p \in [1 .. Len(<<t>>) + 1 -> Points] /\ p[1] = a /\ p[Len(<<t>>) + 1] = b
  OBVIOUS
<1>2. \A i \in 1 .. Len(<<t>>) : i = 1 /\ <<t>>[i] = t
  OBVIOUS
<1>3. p[1] = a /\ p[1 + 1] = b
  OBVIOUS
<1> HIDE DEF p
<1>4. \A i \in 1 .. Len(<<t>>) : Does(<<t>>[i], p[i], p[i + 1])
  BY <1>2, <1>3
<1> QED BY <1>1, <1>4 DEF Leads

\* A task, then others.
LEMMA LeadsCons ==
  ASSUME NEW T, NEW t \in T, NEW ts \in Seq(T), NEW a \in Points, NEW b \in Points, NEW c,
         Does(t, a, b), Leads(ts, b, c)
  PROVE  Leads(<<t>> \o ts, a, c)
<1>1. <<t>> \in Seq(T)
  OBVIOUS
<1>2. Leads(<<t>>, a, b)
  BY LeadsOne
<1> QED BY <1>1, <1>2, LeadsOn

LEMMA LeadsTwo ==
  ASSUME NEW t, NEW u,
         NEW a \in Points, NEW b \in Points, NEW c \in Points,
         Does(t, a, b), Does(u, b, c)
  PROVE  Leads(<<t, u>>, a, c)
<1> DEFINE s == <<t, u>>
           p == <<a, b, c>>
<1>1. Len(s) = 2 /\ p \in [1 .. 3 -> Points]
  OBVIOUS
<1>2. p[1] = a /\ p[3] = c
  OBVIOUS
<1>3. /\ Does(s[1], p[1], p[1 + 1])
      /\ Does(s[2], p[2], p[2 + 1])
  OBVIOUS
<1> HIDE DEF s, p
<1>4. \A i \in 1 .. 2 : i = 1 \/ i = 2
  OBVIOUS
<1>5. \A i \in 1 .. 2 : Does(s[i], p[i], p[i + 1])
  BY <1>3, <1>4
<1>6. Leads(s, a, c)
  BY <1>1, <1>2, <1>5 DEF Leads
<1> QED BY <1>6 DEF s

LEMMA LeadsThree ==
  ASSUME NEW t, NEW u, NEW v,
         NEW a \in Points, NEW b \in Points, NEW c \in Points, NEW d \in Points,
         Does(t, a, b), Does(u, b, c), Does(v, c, d)
  PROVE  Leads(<<t, u, v>>, a, d)
<1> DEFINE s == <<t, u, v>>
           p == <<a, b, c, d>>
<1>1. Len(s) = 3 /\ p \in [1 .. 4 -> Points]
  OBVIOUS
<1>2. p[1] = a /\ p[4] = d
  OBVIOUS
<1>3. /\ Does(s[1], p[1], p[1 + 1])
      /\ Does(s[2], p[2], p[2 + 1])
      /\ Does(s[3], p[3], p[3 + 1])
  OBVIOUS
<1> HIDE DEF s, p
<1>4. \A i \in 1 .. 3 : i = 1 \/ i = 2 \/ i = 3
  OBVIOUS
<1>5. \A i \in 1 .. 3 : Does(s[i], p[i], p[i + 1])
  BY <1>3, <1>4
<1>6. Leads(s, a, d)
  BY <1>1, <1>2, <1>5 DEF Leads
<1> QED BY <1>6 DEF s

LEMMA LeadsFour ==
  ASSUME NEW t, NEW u, NEW v, NEW w,
         NEW a \in Points, NEW b \in Points, NEW c \in Points, NEW d \in Points,
         NEW e \in Points,
         Does(t, a, b), Does(u, b, c), Does(v, c, d), Does(w, d, e)
  PROVE  Leads(<<t, u, v, w>>, a, e)
<1> DEFINE s == <<t, u, v, w>>
           p == <<a, b, c, d, e>>
<1>1. Len(s) = 4 /\ p \in [1 .. 5 -> Points]
  OBVIOUS
<1>2. p[1] = a /\ p[5] = e
  OBVIOUS
<1>3. /\ Does(s[1], p[1], p[1 + 1])
      /\ Does(s[2], p[2], p[2 + 1])
      /\ Does(s[3], p[3], p[3 + 1])
      /\ Does(s[4], p[4], p[4 + 1])
  OBVIOUS
<1> HIDE DEF s, p
<1>4. \A i \in 1 .. 4 : i = 1 \/ i = 2 \/ i = 3 \/ i = 4
  OBVIOUS
<1>5. \A i \in 1 .. 4 : Does(s[i], p[i], p[i + 1])
  BY <1>3, <1>4
<1>6. Leads(s, a, e)
  BY <1>1, <1>2, <1>5 DEF Leads
<1> QED BY <1>6 DEF s

LEMMA LeadsFive ==
  ASSUME NEW t, NEW u, NEW v, NEW w, NEW x,
         NEW a \in Points, NEW b \in Points, NEW c \in Points, NEW d \in Points,
         NEW e \in Points, NEW f \in Points,
         Does(t, a, b), Does(u, b, c), Does(v, c, d), Does(w, d, e),
         Does(x, e, f)
  PROVE  Leads(<<t, u, v, w, x>>, a, f)
<1> DEFINE s == <<t, u, v, w, x>>
           p == <<a, b, c, d, e, f>>
<1>1. Len(s) = 5 /\ p \in [1 .. 6 -> Points]
  OBVIOUS
<1>2. p[1] = a /\ p[6] = f
  OBVIOUS
<1>3. /\ Does(s[1], p[1], p[1 + 1])
      /\ Does(s[2], p[2], p[2 + 1])
      /\ Does(s[3], p[3], p[3 + 1])
      /\ Does(s[4], p[4], p[4 + 1])
      /\ Does(s[5], p[5], p[5 + 1])
  OBVIOUS
<1> HIDE DEF s, p
<1>4. \A i \in 1 .. 5 : i = 1 \/ i = 2 \/ i = 3 \/ i = 4 \/ i = 5
  OBVIOUS
<1>5. \A i \in 1 .. 5 : Does(s[i], p[i], p[i + 1])
  BY <1>3, <1>4
<1>6. Leads(s, a, f)
  BY <1>1, <1>2, <1>5 DEF Leads
<1> QED BY <1>6 DEF s

LEMMA LeadsSix ==
  ASSUME NEW t, NEW u, NEW v, NEW w, NEW x, NEW y,
         NEW a \in Points, NEW b \in Points, NEW c \in Points, NEW d \in Points,
         NEW e \in Points, NEW f \in Points, NEW g \in Points,
         Does(t, a, b), Does(u, b, c), Does(v, c, d), Does(w, d, e),
         Does(x, e, f), Does(y, f, g)
  PROVE  Leads(<<t, u, v, w, x, y>>, a, g)
<1> DEFINE s == <<t, u, v, w, x, y>>
           p == <<a, b, c, d, e, f, g>>
<1>1. Len(s) = 6 /\ p \in [1 .. 7 -> Points]
  OBVIOUS
<1>2. p[1] = a /\ p[7] = g
  OBVIOUS
<1>3. /\ Does(s[1], p[1], p[1 + 1])
      /\ Does(s[2], p[2], p[2 + 1])
      /\ Does(s[3], p[3], p[3 + 1])
      /\ Does(s[4], p[4], p[4 + 1])
      /\ Does(s[5], p[5], p[5 + 1])
      /\ Does(s[6], p[6], p[6 + 1])
  OBVIOUS
<1> HIDE DEF s, p
<1>4. \A i \in 1 .. 6 : i = 1 \/ i = 2 \/ i = 3 \/ i = 4 \/ i = 5 \/ i = 6
  OBVIOUS
<1>5. \A i \in 1 .. 6 : Does(s[i], p[i], p[i + 1])
  BY <1>3, <1>4
<1>6. Leads(s, a, g)
  BY <1>1, <1>2, <1>5 DEF Leads
<1> QED BY <1>6 DEF s

\* The first task of a list that leads somewhere does something, and the others
\* lead on from there.
LEMMA LeadsFirst ==
  ASSUME NEW T, NEW ts \in Seq(T), ts # << >>, NEW a, NEW c, Leads(ts, a, c)
  PROVE  \E b \in Points : Does(Head(ts), a, b) /\ Leads(Tail(ts), b, c)
<1>1. PICK p \in [1 .. Len(ts) + 1 -> Points] :
        /\ p[1] = a /\ p[Len(ts) + 1] = c
        /\ \A i \in 1 .. Len(ts) : Does(ts[i], p[i], p[i + 1])
  BY DEF Leads
<1> DEFINE n == Len(ts)
           q == [i \in 1 .. n |-> p[i + 1]]
<1>2. n \in Nat \ {0} /\ Len(Tail(ts)) = n - 1 /\ Head(ts) = ts[1]
  OBVIOUS
<1>3. Does(Head(ts), a, p[2]) /\ p[2] \in Points
  BY <1>1, <1>2
<1>4. q \in [1 .. n -> Points] /\ q[1] = p[2] /\ q[n] = c
  BY <1>1, <1>2
<1>5. ASSUME NEW i \in 1 .. n - 1 PROVE Does(Tail(ts)[i], q[i], q[i + 1])
  <2>1. Tail(ts)[i] = ts[i + 1] /\ i + 1 \in 1 .. n
    BY <1>2
  <2>2. q[i] = p[i + 1] /\ q[i + 1] = p[(i + 1) + 1]
    BY <1>2
  <2> HIDE DEF q
  <2> QED BY <1>1, <2>1, <2>2
<1> DEFINE rest == Tail(ts)
<1>6. Len(rest) = n - 1 /\ \A i \in 1 .. n - 1 : Does(rest[i], q[i], q[i + 1])
  BY <1>2, <1>5
<1> HIDE DEF q, rest
<1>7. q \in [1 .. Len(rest) + 1 -> Points] /\ q[Len(rest) + 1] = c
  BY <1>2, <1>4, <1>6
<1>8. Leads(rest, p[2], c)
  BY <1>4, <1>6, <1>7 DEF Leads
<1> QED BY <1>3, <1>8 DEF rest

-----------------------------------------------------------------------------
(* What is left to do leads to one tree *)

IsSeq(s) == \E S : s \in Seq(S)

\* The point with k more nodes than there are.
Over(k) == Point(Len(built) + k, loop_depth, switch_depth)
Here == Over(0)
AtEnd == Point(1, 0, 0)

StackInv ==
  /\ IsSeq(text) /\ pos \in 1 .. Len(text) + 1
  /\ n_errors \in 0 .. 1 /\ loop_depth \in Nat /\ switch_depth \in Nat
  /\ IsSeq(built) /\ IsSeq(tasks)
  /\ Leads(tasks, Here, AtEnd)

LEMMA SeqLen == ASSUME NEW s, IsSeq(s) PROVE Len(s) \in Nat
BY DEF IsSeq

LEMMA SeqJoin ==
  ASSUME NEW s, NEW t, IsSeq(s), IsSeq(t)
  PROVE  IsSeq(s \o t) /\ Len(s \o t) = Len(s) + Len(t)
<1>1. PICK S : s \in Seq(S)
  BY DEF IsSeq
<1>2. PICK T : t \in Seq(T)
  BY DEF IsSeq
<1>3. s \in Seq(S \union T) /\ t \in Seq(S \union T)
  BY <1>1, <1>2
<1>4. s \o t \in Seq(S \union T) /\ Len(s \o t) = Len(s) + Len(t)
  BY <1>3
<1> QED BY <1>4 DEF IsSeq

LEMMA SeqTail ==
  ASSUME NEW s, IsSeq(s), s # << >>
  PROVE  IsSeq(Tail(s))
BY DEF IsSeq

LEMMA SeqShort ==
  ASSUME NEW x, NEW y, NEW z
  PROVE  /\ IsSeq(<< >>) /\ Len(<< >>) = 0
         /\ IsSeq(<<x>>) /\ Len(<<x>>) = 1
<1>1. << >> \in Seq({x}) /\ <<x>> \in Seq({x})
  OBVIOUS
<1> QED BY <1>1 DEF IsSeq

\* The first n of a list, and another one.
LEMMA SeqCut ==
  ASSUME NEW s, IsSeq(s), NEW n \in 0 .. Len(s), NEW x
  PROVE  IsSeq(Append(SubSeq(s, 1, n), x)) /\ Len(Append(SubSeq(s, 1, n), x)) = n + 1
<1>1. PICK S : s \in Seq(S)
  BY DEF IsSeq
<1>2. s \in Seq(S \union {x})
  BY <1>1
<1>3. SubSeq(s, 1, n) \in Seq(S \union {x}) /\ Len(SubSeq(s, 1, n)) = n
  BY <1>2
<1>4. Append(SubSeq(s, 1, n), x) \in Seq(S \union {x}) /\ Len(Append(SubSeq(s, 1, n), x)) = n + 1
  BY <1>3
<1> QED BY <1>4 DEF IsSeq

LEMMA PointIn ==
  ASSUME NEW n \in Nat, NEW l \in Nat, NEW s \in Nat
  PROVE  Point(n, l, s) \in Points
BY DEF Point, Points

LEMMA PartsFew == \A k : Parts(k) \in 0 .. 4
BY DEF Parts

\* Every task does from the points it needs what it does.
LEMMA TaskDoes ==
  ASSUME NEW n \in Nat, NEW l \in Nat, NEW s \in Nat, NEW k
  PROVE  /\ Does(Expect(k), Point(n, l, s), Point(n, l, s))
         /\ Does(Possibly(k), Point(n, l, s), Point(n + 1, l, s))
         /\ Does(Make(k), Point(n + Parts(k), l, s), Point(n + 1, l, s))
         /\ Does(Items(n), Point(n, l, s), Point(n + 1, l, s))
         /\ Does(Depth("loop", 1), Point(n, l, s), Point(n, l + 1, s))
         /\ Does(Depth("loop", -1), Point(n, l + 1, s), Point(n, l, s))
         /\ Does(Depth("switch", 1), Point(n, l, s), Point(n, l, s + 1))
         /\ Does(Depth("switch", -1), Point(n, l, s + 1), Point(n, l, s))
         /\ \A t \in Yielding : Does(Task(t), Point(n, l, s), Point(n + 1, l, s))
         /\ Does(Task("led"), Point(n + 1, l, s), Point(n + 1, l, s))
         /\ Does(Task("else"), Point(n + 2, l, s), Point(n + 1, l, s))
         /\ \A t \in {"pragma", "match ;"} : Does(Task(t), Point(n, l, s), Point(n, l, s))
<1>1. Parts(k) \in 0 .. 4
  BY PartsFew
<1>2. Does(Expect(k), Point(n, l, s), Point(n, l, s))
  BY Zenon DEF Does, Builds, Enters, Expect
<1>3. Does(Possibly(k), Point(n, l, s), Point(n + 1, l, s))
  BY DEF Does, Builds, Enters, Possibly, Point, Yielding
<1>4. Does(Make(k), Point(n + Parts(k), l, s), Point(n + 1, l, s))
  BY <1>1 DEF Does, Builds, Enters, Make, Point
<1>5. Does(Items(n), Point(n, l, s), Point(n + 1, l, s))
  BY DEF Does, Builds, Enters, Items, Point
<1>6. /\ Does(Depth("loop", 1), Point(n, l, s), Point(n, l + 1, s))
      /\ Does(Depth("loop", -1), Point(n, l + 1, s), Point(n, l, s))
  BY DEF Does, Builds, Enters, Depth, Point
<1>7. /\ Does(Depth("switch", 1), Point(n, l, s), Point(n, l, s + 1))
      /\ Does(Depth("switch", -1), Point(n, l, s + 1), Point(n, l, s))
  BY DEF Does, Builds, Enters, Depth, Point
<1>8. ASSUME NEW t \in Yielding PROVE Does(Task(t), Point(n, l, s), Point(n + 1, l, s))
  <2>1. [Point(n, l, s) EXCEPT !.built = @ + 1] = Point(n + 1, l, s)
    BY DEF Point
  <2>2. Task(t).t = t
    BY Zenon DEF Task
  <2> QED BY <2>1, <2>2, Zenon DEF Does, Builds, Enters
<1>9. Does(Task("led"), Point(n + 1, l, s), Point(n + 1, l, s))
  BY DEF Does, Builds, Enters, Task, Point
<1>10. Does(Task("else"), Point(n + 2, l, s), Point(n + 1, l, s))
  BY DEF Does, Builds, Enters, Task, Point
<1>11. ASSUME NEW t \in {"pragma", "match ;"}
       PROVE  Does(Task(t), Point(n, l, s), Point(n, l, s))
  BY Zenon DEF Does, Builds, Enters, Task
<1> QED BY <1>2, <1>3, <1>4, <1>5, <1>6, <1>7, <1>8, <1>9, <1>10, <1>11

\* What the first task does from here.
LEMMA DoingDoes ==
  ASSUME StackInv, NEW m \in Points, Does(task, Here, m)
  PROVE  /\ \A t \in {"expect", "pragma", "match ;"} : Doing(t) => m = Here
         /\ \A t \in Yielding : Doing(t) => m = Over(1)
         /\ Doing("led") => m = Here /\ Len(built) >= 1
         /\ Doing("else") => Len(built) >= 2 /\ m = Over(-1)
         /\ Doing("make") => Parts(task.k) <= Len(built) /\ m = Over(1 - Parts(task.k))
         /\ Doing("items") => task.before \in 0 .. Len(built) /\ m = Over(task.before + 1 - Len(built))
         /\ Doing("depth") =>
              \/ task.what = "loop" /\ loop_depth + task.by \in Nat
                 /\ m = Point(Len(built), loop_depth + task.by, switch_depth)
              \/ task.what = "switch" /\ switch_depth + task.by \in Nat
                 /\ m = Point(Len(built), loop_depth, switch_depth + task.by)
<1>1. Len(built) \in Nat /\ loop_depth \in Nat /\ switch_depth \in Nat
  BY SeqLen DEF StackInv
<1>2. Here = Point(Len(built), loop_depth, switch_depth)
  BY <1>1 DEF Here, Over
<1>0. /\ task.t # "depth" => Builds(task, Here, m)
      /\ \A t : Doing(t) => task.t = t
      /\ task.t = "depth" => Enters(task, Here, m)
  <2>1. \A what, by : Depth(what, by).t = "depth"
    BY Zenon DEF Depth
  <2>2. task.t # "depth" => Builds(task, Here, m)
    BY <2>1, Zenon DEF Does, Enters
  <2>3. \A t : Doing(t) => task.t = t
    BY Zenon DEF Doing, task
  <2>4. task.t = "depth" => Enters(task, Here, m)
    BY DEF Does, Builds, Yielding
  <2> QED BY <2>2, <2>3, <2>4
<1>3. ASSUME NEW t \in {"expect", "pragma", "match ;"}, Doing(t) PROVE m = Here
  BY <1>0, <1>3 DEF Builds, Yielding
<1>4. ASSUME NEW t \in Yielding, Doing(t) PROVE m = Over(1)
  BY <1>0, <1>1, <1>2, <1>4 DEF Builds, Yielding, Point, Over
<1>5. ASSUME Doing("led") PROVE m = Here /\ Len(built) >= 1
  BY <1>0, <1>1, <1>2, <1>5 DEF Builds, Yielding, Point
<1>6. ASSUME Doing("else") PROVE Len(built) >= 2 /\ m = Over(-1)
  BY <1>0, <1>1, <1>2, <1>6 DEF Builds, Yielding, Point, Over
<1>7. ASSUME Doing("make") PROVE Parts(task.k) <= Len(built) /\ m = Over(1 - Parts(task.k))
  <2>1. Parts(task.k) \in 0 .. 4
    BY PartsFew
  <2>2. task.t = "make"
    BY <1>7, Zenon DEF Doing, task
  <2>3. Parts(task.k) <= Here.built /\ m = [Here EXCEPT !.built = @ - Parts(task.k) + 1]
    BY <1>0, <2>2 DEF Builds, Yielding
  <2> DEFINE p == Parts(task.k)
  <2>4. Here.built = Len(built)
    BY <1>2 DEF Point
  <2>5. p \in Nat /\ p <= Len(built) /\ m = [Here EXCEPT !.built = @ - p + 1]
    BY <2>1, <2>3, <2>4
  <2> HIDE DEF p
  <2>6. m = Over(1 - p)
    BY <1>1, <1>2, <2>5 DEF Over, Point
  <2> QED BY <2>5, <2>6 DEF p
<1>8. ASSUME Doing("items")
      PROVE  task.before \in 0 .. Len(built) /\ m = Over(task.before + 1 - Len(built))
  <2>1. task.t = "items"
    BY <1>8, Zenon DEF Doing, task
  <2>2. task.before \in 0 .. Here.built /\ m = [Here EXCEPT !.built = task.before + 1]
    BY <1>0, <2>1 DEF Builds, Yielding
  <2> DEFINE before == task.before
  <2>3. before \in 0 .. Len(built) /\ m = [Here EXCEPT !.built = before + 1]
    BY <1>2, <2>2 DEF Point
  <2> HIDE DEF before
  <2>4. m = Over(before + 1 - Len(built))
    BY <1>1, <1>2, <2>3 DEF Over, Point
  <2> QED BY <2>3, <2>4 DEF before
<1>9. ASSUME Doing("depth")
      PROVE \/ task.what = "loop" /\ loop_depth + task.by \in Nat
               /\ m = Point(Len(built), loop_depth + task.by, switch_depth)
            \/ task.what = "switch" /\ switch_depth + task.by \in Nat
               /\ m = Point(Len(built), loop_depth, switch_depth + task.by)
  <2>1. task.t = "depth"
    BY <1>9, Zenon DEF Doing, task
  <2>2. PICK by \in {1, -1} :
          \/ task = Depth("loop", by) /\ m = [Here EXCEPT !.loop = @ + by]
          \/ task = Depth("switch", by) /\ m = [Here EXCEPT !.switch = @ + by]
    BY <1>0, <2>1, Zenon DEF Enters
  <2>3. \/ task.what = "loop" /\ task.by = by /\ m = [Here EXCEPT !.loop = @ + by]
        \/ task.what = "switch" /\ task.by = by /\ m = [Here EXCEPT !.switch = @ + by]
    BY <2>2 DEF Depth
  <2>4. \/ task.what = "loop" /\ task.by = by /\ loop_depth + by \in Nat
           /\ m = Point(Len(built), loop_depth + by, switch_depth)
        \/ task.what = "switch" /\ task.by = by /\ switch_depth + by \in Nat
           /\ m = Point(Len(built), loop_depth, switch_depth + by)
    BY <1>1, <1>2, <2>3 DEF Point, Points
  <2> QED BY <2>4
<1> QED BY <1>3, <1>4, <1>5, <1>6, <1>7, <1>8, <1>9

-----------------------------------------------------------------------------
(* What constructs become *)

LEMMA PartsAre ==
  /\ Parts("for") = 4 /\ Parts("if") = 3
  /\ \A k \in {"while", "switch", "do", "case", "label", "call"} : Parts(k) = 2
  /\ \A k \in {"return", "expr", "default", "goto"} : Parts(k) = 1
  /\ \A k \in {"break", "continue"} : Parts(k) = 0
BY DEF Parts

\* Does, for the tasks of constructs.
LEMMA StepsOf ==
  ASSUME NEW n \in Nat, NEW l \in Nat, NEW s \in Nat
  PROVE  /\ \A k : Does(Expect(k), Point(n, l, s), Point(n, l, s))
         /\ \A k : Does(Possibly(k), Point(n, l, s), Point(n + 1, l, s))
         /\ Does(Make("for"), Point(n + 4, l, s), Point(n + 1, l, s))
         /\ Does(Make("if"), Point(n + 3, l, s), Point(n + 1, l, s))
         /\ \A k \in {"while", "switch", "do", "case", "label", "call"} :
              Does(Make(k), Point(n + 2, l, s), Point(n + 1, l, s))
         /\ \A k \in {"return", "expr", "default", "goto"} :
              Does(Make(k), Point(n + 1, l, s), Point(n + 1, l, s))
         /\ \A k \in {"break", "continue"} : Does(Make(k), Point(n, l, s), Point(n + 1, l, s))
         /\ Does(Statement, Point(n, l, s), Point(n + 1, l, s))
         /\ Does(Expression, Point(n, l, s), Point(n + 1, l, s))
<1>1. \A k : /\ Does(Expect(k), Point(n, l, s), Point(n, l, s))
             /\ Does(Possibly(k), Point(n, l, s), Point(n + 1, l, s))
             /\ Does(Make(k), Point(n + Parts(k), l, s), Point(n + 1, l, s))
  BY TaskDoes
<1>2. \A k \in {"break", "continue"} : Does(Make(k), Point(n, l, s), Point(n + 1, l, s))
  <2>1. n + 0 = n
    OBVIOUS
  <2> QED BY <1>1, <2>1, PartsAre, Zenon
<1>3. \A t \in Yielding : Does(Task(t), Point(n, l, s), Point(n + 1, l, s))
  BY TaskDoes
<1>4. /\ Does(Statement, Point(n, l, s), Point(n + 1, l, s))
      /\ Does(Expression, Point(n, l, s), Point(n + 1, l, s))
  BY <1>3, Zenon DEF Yielding, Statement, Expression
<1>5. Does(Make("for"), Point(n + 4, l, s), Point(n + 1, l, s))
  BY <1>1, PartsAre, Zenon
<1>6. Does(Make("if"), Point(n + 3, l, s), Point(n + 1, l, s))
  BY <1>1, PartsAre, Zenon
<1>7. \A k \in {"while", "switch", "do", "case", "label", "call"} :
        Does(Make(k), Point(n + 2, l, s), Point(n + 1, l, s))
  BY <1>1, PartsAre, Zenon
<1>8. \A k \in {"return", "expr", "default", "goto"} :
        Does(Make(k), Point(n + 1, l, s), Point(n + 1, l, s))
  BY <1>1, PartsAre, Zenon
<1> QED BY <1>1, <1>2, <1>4, <1>5, <1>6, <1>7, <1>8, Zenon

\* Points with n nodes and up to four more.
LEMMA NearPoints ==
  ASSUME NEW n \in Nat, NEW l \in Nat, NEW s \in Nat
  PROVE  /\ Point(n, l, s) \in Points /\ Point(n + 1, l, s) \in Points
         /\ Point(n + 2, l, s) \in Points /\ Point(n + 3, l, s) \in Points
         /\ Point(n + 4, l, s) \in Points
BY PointIn

LEMMA IfLeads ==
  ASSUME NEW n \in Nat, NEW l \in Nat, NEW s \in Nat, NEW j, NEW k
  PROVE  Leads(<<Expect(j), Expression, Expect(k), Statement, Task("else")>>,
               Point(n, l, s), Point(n + 1, l, s))
<1> DEFINE a == Point(n, l, s)
           b == Point(n + 1, l, s)
           c == Point(n + 2, l, s)
<1>1. a \in Points /\ b \in Points /\ c \in Points
  BY NearPoints
<1>2. Does(Expect(j), a, a) /\ Does(Expression, a, b)
  BY StepsOf
<1>3. n + 1 \in Nat /\ (n + 1) + 1 = n + 2
  OBVIOUS
<1>4. Does(Expect(k), b, b) /\ Does(Statement, b, c)
  BY <1>3, StepsOf
<1>5. Does(Task("else"), c, b)
  BY TaskDoes
<1> HIDE DEF a, b, c
<1>6. Leads(<<Expect(j), Expression, Expect(k), Statement, Task("else")>>, a, b)
  BY <1>1, <1>2, <1>4, <1>5, LeadsFive, Zenon
<1> QED BY <1>6 DEF a, b

\* A body inside a loop or a switch.
LEMMA InsideLeads ==
  ASSUME NEW n \in Nat, NEW l \in Nat, NEW s \in Nat, NEW what \in {"loop", "switch"}
  PROVE  Leads(Inside(what, <<Statement>>), Point(n, l, s), Point(n + 1, l, s))
<1>1. Inside(what, <<Statement>>) = <<Depth(what, 1)>> \o <<Statement>> \o <<Depth(what, -1)>>
  BY DEF Inside
<1> DEFINE T == {Depth(what, 1), Statement, Depth(what, -1)}
<1>2. /\ <<Depth(what, 1)>> \in Seq(T) /\ <<Statement>> \in Seq(T) /\ <<Depth(what, -1)>> \in Seq(T)
      /\ <<Depth(what, 1)>> \o <<Statement>> \in Seq(T)
  OBVIOUS
<1> HIDE DEF T
<1> DEFINE in(k) == IF what = "loop" THEN Point(k, l + 1, s) ELSE Point(k, l, s + 1)
<1>3. /\ Point(n, l, s) \in Points /\ Point(n + 1, l, s) \in Points
      /\ in(n) \in Points /\ in(n + 1) \in Points
  BY PointIn
<1>4. Does(Depth(what, 1), Point(n, l, s), in(n))
  BY TaskDoes
<1>5. Does(Statement, in(n), in(n + 1))
  BY StepsOf
<1>6. Does(Depth(what, -1), in(n + 1), Point(n + 1, l, s))
  <2> DEFINE m == n + 1
  <2>1. m \in Nat
    OBVIOUS
  <2> HIDE DEF m
  <2>2. /\ Does(Depth("loop", -1), Point(m, l + 1, s), Point(m, l, s))
        /\ Does(Depth("switch", -1), Point(m, l, s + 1), Point(m, l, s))
    BY <2>1, TaskDoes
  <2>3. Does(Depth(what, -1), in(m), Point(m, l, s))
    BY <2>2
  <2> QED BY <2>3 DEF m
<1> HIDE DEF in
<1>7. /\ Leads(<<Depth(what, 1)>>, Point(n, l, s), in(n))
      /\ Leads(<<Statement>>, in(n), in(n + 1))
      /\ Leads(<<Depth(what, -1)>>, in(n + 1), Point(n + 1, l, s))
  BY <1>3, <1>4, <1>5, <1>6, LeadsOne, Zenon
<1>8. Leads(<<Depth(what, 1)>> \o <<Statement>>, Point(n, l, s), in(n + 1))
  BY <1>2, <1>7, LeadsOn, Zenon
<1> QED BY <1>1, <1>2, <1>7, <1>8, LeadsOn, Zenon

LEMMA InsideSeq ==
  ASSUME NEW what
  PROVE  IsSeq(Inside(what, <<Statement>>))
<1> DEFINE T == {Depth(what, 1), Statement, Depth(what, -1)}
<1>1. Inside(what, <<Statement>>) \in Seq(T)
  BY DEF Inside
<1> QED BY <1>1 DEF IsSeq

\* One list after the other, whatever they hold.
LEMMA LeadsOver ==
  ASSUME NEW ts, NEW us, IsSeq(ts), IsSeq(us), NEW a, NEW b, NEW c, Leads(ts, a, b), Leads(us, b, c)
  PROVE  Leads(ts \o us, a, c)
<1>1. PICK S : ts \in Seq(S)
  BY DEF IsSeq
<1>2. PICK T : us \in Seq(T)
  BY DEF IsSeq
<1>3. ts \in Seq(S \union T) /\ us \in Seq(S \union T)
  BY <1>1, <1>2
<1> QED BY <1>3, LeadsOn

\* Lists of up to six tasks.
LEMMA SeqUpToSix ==
  ASSUME NEW t, NEW u, NEW v, NEW w, NEW x, NEW y
  PROVE  /\ IsSeq(<<t, u>>) /\ IsSeq(<<t, u, v>>) /\ IsSeq(<<t, u, v, w>>)
         /\ IsSeq(<<t, u, v, w, x>>) /\ IsSeq(<<t, u, v, w, x, y>>)
<1> DEFINE T == {t, u, v, w, x, y}
<1>1. <<t, u>> \in Seq(T) /\ <<t, u, v>> \in Seq(T)
  OBVIOUS
<1>2. <<t, u, v, w>> \in Seq(T) /\ <<t, u, v, w, x>> \in Seq(T)
  OBVIOUS
<1>3. <<t, u, v, w, x, y>> \in Seq(T)
  OBVIOUS
<1> HIDE DEF T
<1> QED BY <1>1, <1>2, <1>3 DEF IsSeq

LEMMA WhileLeads ==
  ASSUME NEW n \in Nat, NEW l \in Nat, NEW s \in Nat, NEW j, NEW k,
         NEW what \in {"loop", "switch"}, NEW kind \in {"while", "switch"}
  PROVE  Leads(<<Expect(j), Expression, Expect(k)>> \o Inside(what, <<Statement>>) \o <<Make(kind)>>,
               Point(n, l, s), Point(n + 1, l, s))
<1> DEFINE a == Point(n, l, s)
           b == Point(n + 1, l, s)
           c == Point(n + 2, l, s)
<1>1. a \in Points /\ b \in Points /\ c \in Points
  BY NearPoints
<1>2. Does(Expect(j), a, a) /\ Does(Expression, a, b)
  BY StepsOf
<1>3. n + 1 \in Nat /\ (n + 1) + 1 = n + 2
  OBVIOUS
<1>4. Does(Expect(k), b, b)
  BY <1>3, StepsOf
<1>5. Leads(Inside(what, <<Statement>>), b, c)
  BY <1>3, InsideLeads
<1>6. Does(Make(kind), c, b)
  BY StepsOf
<1> HIDE DEF a, b, c
<1>7. Leads(<<Expect(j), Expression, Expect(k)>>, a, b)
  BY <1>1, <1>2, <1>4, LeadsThree, Zenon
<1>8. Leads(<<Make(kind)>>, c, b)
  BY <1>1, <1>6, LeadsOne, Zenon
<1>9. /\ IsSeq(<<Expect(j), Expression, Expect(k)>>) /\ IsSeq(<<Make(kind)>>)
      /\ IsSeq(Inside(what, <<Statement>>))
  BY SeqUpToSix, SeqShort, InsideSeq, Zenon
<1>10. IsSeq(<<Expect(j), Expression, Expect(k)>> \o Inside(what, <<Statement>>))
  BY <1>9, SeqJoin, Zenon
<1>11. Leads(<<Expect(j), Expression, Expect(k)>> \o Inside(what, <<Statement>>), a, c)
  BY <1>5, <1>7, <1>9, LeadsOver, Zenon
<1>12. Leads(<<Expect(j), Expression, Expect(k)>> \o Inside(what, <<Statement>>) \o <<Make(kind)>>,
             a, b)
  BY <1>8, <1>9, <1>10, <1>11, LeadsOver, Zenon
<1> QED BY <1>12 DEF a, b

LEMMA DoLeads ==
  ASSUME NEW n \in Nat, NEW l \in Nat, NEW s \in Nat, NEW h, NEW i, NEW j, NEW k
  PROVE  Leads(Inside("loop", <<Statement>>)
                 \o <<Expect(h), Expect(i), Expression, Expect(j), Expect(k), Make("do")>>,
               Point(n, l, s), Point(n + 1, l, s))
<1> DEFINE a == Point(n, l, s)
           b == Point(n + 1, l, s)
           c == Point(n + 2, l, s)
<1>1. a \in Points /\ b \in Points /\ c \in Points
  BY NearPoints
<1>2. n + 1 \in Nat /\ (n + 1) + 1 = n + 2 /\ n + 2 \in Nat
  OBVIOUS
<1>3. Does(Expect(h), b, b) /\ Does(Expect(i), b, b) /\ Does(Expression, b, c)
  BY <1>2, StepsOf
<1>4. Does(Expect(j), c, c) /\ Does(Expect(k), c, c)
  BY <1>2, StepsOf
<1>5. Does(Make("do"), c, b)
  BY StepsOf
<1>6. Leads(Inside("loop", <<Statement>>), a, b)
  BY InsideLeads
<1> HIDE DEF a, b, c
<1>7. Leads(<<Expect(h), Expect(i), Expression, Expect(j), Expect(k), Make("do")>>, b, b)
  BY <1>1, <1>3, <1>4, <1>5, LeadsSix, Zenon
<1>8. /\ IsSeq(<<Expect(h), Expect(i), Expression, Expect(j), Expect(k), Make("do")>>)
      /\ IsSeq(Inside("loop", <<Statement>>))
  BY SeqUpToSix, InsideSeq, Zenon
<1>9. Leads(Inside("loop", <<Statement>>)
              \o <<Expect(h), Expect(i), Expression, Expect(j), Expect(k), Make("do")>>, a, b)
  BY <1>6, <1>7, <1>8, LeadsOver, Zenon
<1> QED BY <1>9 DEF a, b

LEMMA ForLeads ==
  ASSUME NEW n \in Nat, NEW l \in Nat, NEW s \in Nat, NEW g, NEW h, NEW i, NEW j, NEW k
  PROVE  Leads(<<Expect(g), Task("init"), Possibly(h), Expect(i), Possibly(j), Expect(k)>>
                 \o Inside("loop", <<Statement>>) \o <<Make("for")>>,
               Point(n, l, s), Point(n + 1, l, s))
<1> DEFINE a == Point(n, l, s)
           b == Point(n + 1, l, s)
           c == Point(n + 2, l, s)
           d == Point(n + 3, l, s)
           e == Point(n + 4, l, s)
           head == <<Expect(g), Task("init"), Possibly(h), Expect(i), Possibly(j), Expect(k)>>
<1>1. a \in Points /\ b \in Points /\ c \in Points /\ d \in Points /\ e \in Points
  BY NearPoints
<1>2. /\ n + 1 \in Nat /\ (n + 1) + 1 = n + 2 /\ n + 2 \in Nat
      /\ (n + 2) + 1 = n + 3 /\ n + 3 \in Nat /\ (n + 3) + 1 = n + 4
  OBVIOUS
<1>3. Does(Expect(g), a, a) /\ Does(Task("init"), a, b)
  BY TaskDoes DEF Yielding
<1>4. Does(Possibly(h), b, c)
  BY <1>2, StepsOf
<1>5. Does(Expect(i), c, c) /\ Does(Possibly(j), c, d)
  BY <1>2, StepsOf
<1>6. Does(Expect(k), d, d)
  BY <1>2, StepsOf
<1>7. Leads(Inside("loop", <<Statement>>), d, e)
  BY <1>2, InsideLeads
<1>8. Does(Make("for"), e, b)
  BY StepsOf
<1> HIDE DEF a, b, c, d, e
<1>9. Leads(head, a, d)
  BY <1>1, <1>3, <1>4, <1>5, <1>6, LeadsSix, Zenon
<1>10. IsSeq(head) /\ IsSeq(Inside("loop", <<Statement>>)) /\ IsSeq(<<Make("for")>>)
  BY SeqUpToSix, SeqShort, InsideSeq, Zenon
<1> HIDE DEF head
<1>11. IsSeq(head \o Inside("loop", <<Statement>>))
  BY <1>10, SeqJoin, Zenon
<1>12. Leads(head \o Inside("loop", <<Statement>>), a, e)
  BY <1>7, <1>9, <1>10, LeadsOver, Zenon
<1>13. Leads(<<Make("for")>>, e, b)
  BY <1>1, <1>8, LeadsOne, Zenon
<1>14. Leads(head \o Inside("loop", <<Statement>>) \o <<Make("for")>>, a, b)
  BY <1>10, <1>11, <1>12, <1>13, LeadsOver, Zenon
<1> QED BY <1>14 DEF a, b, head

\* The shorter lists of tasks, from n nodes and some that are there already.
LEMMA ShortLeads ==
  ASSUME NEW n \in Nat, NEW l \in Nat, NEW s \in Nat, NEW j, NEW k
  PROVE  /\ Leads(<<Expression, Expect(j), Task("led")>>, Point(n, l, s), Point(n + 1, l, s))
         /\ Leads(<<Expression, Expect(j), Make("expr")>>, Point(n, l, s), Point(n + 1, l, s))
         /\ Leads(<<Possibly(j), Expect(k), Make("return")>>, Point(n, l, s), Point(n + 1, l, s))
         /\ Leads(<<Task("name"), Expect(j), Make("goto")>>, Point(n, l, s), Point(n + 1, l, s))
         /\ Leads(<<Expression, Expect(j), Task("labelled"), Make("case")>>,
                  Point(n, l, s), Point(n + 1, l, s))
         /\ Leads(<<Expect(j), Task("labelled"), Make("default")>>,
                  Point(n, l, s), Point(n + 1, l, s))
         /\ \A kind \in {"break", "continue"} :
              Leads(<<Expect(j), Make(kind)>>, Point(n, l, s), Point(n + 1, l, s))
         /\ Leads(<<Expect(j), Items(n)>>, Point(n, l, s), Point(n + 1, l, s))
         /\ Leads(<<Statement, Make("label")>>, Point(n + 1, l, s), Point(n + 1, l, s))
         /\ Leads(<<Task("led"), Expect(j), Make("expr")>>, Point(n + 1, l, s), Point(n + 1, l, s))
         /\ Leads(<<Expect(j), Make("call"), Task("led")>>, Point(n + 2, l, s), Point(n + 1, l, s))
         /\ Leads(<<Expression, Expect(j), Make("call"), Task("led")>>,
                  Point(n + 1, l, s), Point(n + 1, l, s))
         /\ Leads(<<Statement, Make("if")>>, Point(n + 2, l, s), Point(n + 1, l, s))
         /\ Leads(<<Make("if")>>, Point(n + 3, l, s), Point(n + 1, l, s))
         /\ Leads(<<Expect(j), Task("match ;")>>, Point(n, l, s), Point(n, l, s))
<1> DEFINE a == Point(n, l, s)
           b == Point(n + 1, l, s)
           c == Point(n + 2, l, s)
           d == Point(n + 3, l, s)
<1>1. a \in Points /\ b \in Points /\ c \in Points /\ d \in Points
  BY NearPoints
<1>2. /\ n + 1 \in Nat /\ (n + 1) + 1 = n + 2 /\ n + 2 \in Nat /\ (n + 2) + 1 = n + 3
  OBVIOUS
<1>3. /\ Does(Expect(j), a, a) /\ Does(Expect(k), a, a) /\ Does(Expression, a, b)
      /\ Does(Statement, a, b) /\ Does(Possibly(j), a, b) /\ Does(Possibly(k), a, b)
  BY StepsOf
<1>4. /\ Does(Expect(j), b, b) /\ Does(Expect(k), b, b) /\ Does(Expression, b, c)
      /\ Does(Statement, b, c)
  BY <1>2, StepsOf
<1>5. Does(Expect(j), c, c) /\ Does(Statement, c, d)
  BY <1>2, StepsOf
<1>6. /\ Does(Make("expr"), b, b) /\ Does(Make("return"), b, b) /\ Does(Make("goto"), b, b)
      /\ Does(Make("default"), b, b)
      /\ \A kind \in {"break", "continue"} : Does(Make(kind), a, b)
  BY StepsOf
<1>7. /\ Does(Make("case"), c, b) /\ Does(Make("label"), c, b) /\ Does(Make("call"), c, b)
      /\ Does(Make("if"), d, b)
  BY StepsOf
<1>8. /\ Does(Task("led"), b, b) /\ Does(Task("name"), a, b) /\ Does(Task("labelled"), a, b)
      /\ Does(Task("match ;"), a, a) /\ Does(Items(n), a, b)
  BY TaskDoes, Zenon DEF Yielding
<1>9. Does(Task("labelled"), b, c)
  <2>1. \A t \in Yielding : Does(Task(t), Point(n + 1, l, s), Point((n + 1) + 1, l, s))
    BY <1>2, TaskDoes
  <2> QED BY <1>2, <2>1, Zenon DEF Yielding
<1> HIDE DEF a, b, c, d
<1>10. /\ Leads(<<Expression, Expect(j), Task("led")>>, a, b)
       /\ Leads(<<Expression, Expect(j), Make("expr")>>, a, b)
       /\ Leads(<<Possibly(j), Expect(k), Make("return")>>, a, b)
       /\ Leads(<<Task("name"), Expect(j), Make("goto")>>, a, b)
  BY <1>1, <1>3, <1>4, <1>6, <1>8, LeadsThree, Zenon
<1>11. Leads(<<Expression, Expect(j), Task("labelled"), Make("case")>>, a, b)
  BY <1>1, <1>3, <1>4, <1>7, <1>9, LeadsFour, Zenon
<1>12. Leads(<<Expect(j), Task("labelled"), Make("default")>>, a, b)
  BY <1>1, <1>3, <1>6, <1>8, LeadsThree, Zenon
<1>13. /\ \A kind \in {"break", "continue"} : Leads(<<Expect(j), Make(kind)>>, a, b)
       /\ Leads(<<Expect(j), Items(n)>>, a, b)
       /\ Leads(<<Expect(j), Task("match ;")>>, a, a)
  BY <1>1, <1>3, <1>6, <1>8, LeadsTwo, Zenon
<1>14. Leads(<<Statement, Make("label")>>, b, b)
  BY <1>1, <1>4, <1>7, LeadsTwo, Zenon
<1>15. Leads(<<Task("led"), Expect(j), Make("expr")>>, b, b)
  BY <1>1, <1>4, <1>6, <1>8, LeadsThree, Zenon
<1>16. Leads(<<Expect(j), Make("call"), Task("led")>>, c, b)
  BY <1>1, <1>5, <1>7, <1>8, LeadsThree, Zenon
<1>17. Leads(<<Expression, Expect(j), Make("call"), Task("led")>>, b, b)
  BY <1>1, <1>4, <1>5, <1>7, <1>8, LeadsFour, Zenon
<1>18. Leads(<<Statement, Make("if")>>, c, b)
  BY <1>1, <1>5, <1>7, LeadsTwo, Zenon
<1>19. Leads(<<Make("if")>>, d, b)
  BY <1>1, <1>7, LeadsOne, Zenon
<1> QED BY <1>10, <1>11, <1>12, <1>13, <1>14, <1>15, <1>16, <1>17, <1>18, <1>19, Zenon DEF a, b, c, d

-----------------------------------------------------------------------------
(* Steps *)

LEMMA Counts ==
  ASSUME StackInv
  PROVE  /\ Len(built) \in Nat /\ Len(text) \in Nat /\ loop_depth \in Nat /\ switch_depth \in Nat
         /\ Here = Point(Len(built), loop_depth, switch_depth)
         /\ Over(1) = Point(Len(built) + 1, loop_depth, switch_depth)
         /\ Here \in Points /\ Over(1) \in Points
<1>1. /\ Len(built) \in Nat /\ Len(text) \in Nat /\ loop_depth \in Nat /\ switch_depth \in Nat
  BY SeqLen DEF StackInv
<1>2. Here = Point(Len(built), loop_depth, switch_depth)
  BY <1>1 DEF Here, Over
<1>3. Over(1) = Point(Len(built) + 1, loop_depth, switch_depth)
  BY DEF Over
<1> QED BY <1>1, <1>2, <1>3, PointIn

\* Tokens are passed only while there are some.
LEMMA PosFacts ==
  ASSUME StackInv
  PROVE  /\ pos + 0 \in 1 .. Len(text) + 1 /\ pos + One \in 1 .. Len(text) + 1
         /\ tok.k # "EOF" => pos + 1 \in 1 .. Len(text) + 1
         /\ pos < Len(text) => pos + 2 \in 1 .. Len(text) + 1
<1>1. Len(text) \in Nat /\ pos \in 1 .. Len(text) + 1
  BY Counts DEF StackInv
<1>2. pos > Len(text) => tok.k = "EOF"
  BY <1>1 DEF tok
<1>3. One \in {0, 1} /\ (One = 1 => tok.k # "EOF")
  BY DEF One
<1> QED BY <1>1, <1>2, <1>3

\* What the first task leads to.
LEMMA FirstTask ==
  ASSUME StackInv, tasks # << >>
  PROVE  \E m \in Points : Does(task, Here, m) /\ Leads(Tail(tasks), m, AtEnd)
<1>1. PICK T : tasks \in Seq(T)
  BY DEF StackInv, IsSeq
<1> QED BY <1>1, LeadsFirst DEF StackInv, task

\* The first task becomes others that lead to where it leads itself.
LEMMA GoesKeeps ==
  ASSUME StackInv, tasks # << >>, NEW n, NEW next, NEW nodes, IsSeq(next), IsSeq(nodes),
         Goes(n, next, nodes), pos + n \in 1 .. Len(text) + 1, Silent \/ Reports,
         loop_depth' \in Nat, switch_depth' \in Nat,
         NEW m \in Points, Leads(Tail(tasks), m, AtEnd),
         Leads(next, Point(Len(built) + Len(nodes), loop_depth', switch_depth'), m)
  PROVE  StackInv'
<1>1. IsSeq(built') /\ Len(built') = Len(built) + Len(nodes)
  BY SeqJoin, Zenon DEF Goes, StackInv
<1>2. IsSeq(Tail(tasks))
  BY SeqTail DEF StackInv
<1>3. IsSeq(tasks') /\ tasks' = next \o Tail(tasks)
  BY <1>2, SeqJoin, Zenon DEF Goes
<1>4. Here' = Point(Len(built) + Len(nodes), loop_depth', switch_depth')
  <2>1. Len(built) \in Nat /\ Len(nodes) \in Nat
    BY SeqLen, Zenon DEF StackInv
  <2>2. Len(built') + 0 = Len(built) + Len(nodes)
    BY <1>1, <2>1
  <2> QED BY <2>2, Zenon DEF Here, Over
<1>5. Leads(tasks', Here', AtEnd)
  BY <1>2, <1>3, <1>4, LeadsOver, Zenon
<1>6. text' = text /\ pos' = pos + n
  BY Zenon DEF Goes
<1>7. n_errors' \in 0 .. 1
  BY DEF StackInv, Silent, Reports
<1>8. AtEnd' = AtEnd
  BY Zenon DEF AtEnd
<1>9. IsSeq(text') /\ pos' \in 1 .. Len(text') + 1
  BY <1>6, Zenon DEF StackInv
<1> QED BY <1>1, <1>3, <1>5, <1>7, <1>8, <1>9, Zenon DEF StackInv

\* The same where the depths stay and no node, or one, is made.
LEMMA BareKeeps ==
  ASSUME StackInv, tasks # << >>, NEW n, NEW next, IsSeq(next), Goes(n, next, << >>),
         pos + n \in 1 .. Len(text) + 1, Silent \/ Reports, SameDepths,
         NEW m \in Points, Leads(Tail(tasks), m, AtEnd), Leads(next, Here, m)
  PROVE  StackInv'
<1>1. Len(<< >>) = 0 /\ IsSeq(<< >>)
  BY SeqShort
<1>2. loop_depth' = loop_depth /\ switch_depth' = switch_depth
  BY Zenon DEF SameDepths
<1>3. Here = Point(Len(built) + 0, loop_depth, switch_depth)
  BY Zenon DEF Here, Over
<1>4. loop_depth' \in Nat /\ switch_depth' \in Nat
  BY <1>2, Zenon DEF StackInv
<1> QED BY <1>1, <1>2, <1>3, <1>4, GoesKeeps, Zenon

LEMMA MakingKeeps ==
  ASSUME StackInv, tasks # << >>, NEW n, NEW next, NEW x, IsSeq(next), Goes(n, next, <<x>>),
         pos + n \in 1 .. Len(text) + 1, Silent \/ Reports, SameDepths,
         NEW m \in Points, Leads(Tail(tasks), m, AtEnd), Leads(next, Over(1), m)
  PROVE  StackInv'
<1>1. Len(<<x>>) = 1 /\ IsSeq(<<x>>)
  BY SeqShort
<1>2. loop_depth' = loop_depth /\ switch_depth' = switch_depth
  BY Zenon DEF SameDepths
<1>3. Over(1) = Point(Len(built) + 1, loop_depth, switch_depth)
  BY Zenon DEF Over
<1>4. loop_depth' \in Nat /\ switch_depth' \in Nat
  BY <1>2, Zenon DEF StackInv
<1> QED BY <1>1, <1>2, <1>3, <1>4, GoesKeeps, Zenon

\* A task that yields a node becomes others that do.
LEMMA YieldBecomes ==
  ASSUME StackInv, NEW t \in Yielding, Doing(t), NEW n, NEW next, IsSeq(next),
         Goes(n, next, << >>), pos + n \in 1 .. Len(text) + 1, Silent \/ Reports, SameDepths,
         Leads(next, Point(Len(built), loop_depth, switch_depth),
                     Point(Len(built) + 1, loop_depth, switch_depth))
  PROVE  StackInv'
<1>1. tasks # << >>
  BY Zenon DEF Doing
<1>2. PICK m \in Points : Does(task, Here, m) /\ Leads(Tail(tasks), m, AtEnd)
  BY <1>1, FirstTask
<1>3. m = Over(1)
  BY <1>2, DoingDoes, Zenon
<1> QED BY <1>1, <1>2, <1>3, Counts, BareKeeps, Zenon

\* A task that yields a node makes it, and what is left leaves their number.
LEMMA YieldMakes ==
  ASSUME StackInv, NEW t \in Yielding, Doing(t), NEW n, NEW next, NEW x, IsSeq(next),
         Goes(n, next, <<x>>), pos + n \in 1 .. Len(text) + 1, Silent \/ Reports, SameDepths,
         Leads(next, Point(Len(built) + 1, loop_depth, switch_depth),
                     Point(Len(built) + 1, loop_depth, switch_depth))
  PROVE  StackInv'
<1>1. tasks # << >>
  BY Zenon DEF Doing
<1>2. PICK m \in Points : Does(task, Here, m) /\ Leads(Tail(tasks), m, AtEnd)
  BY <1>1, FirstTask
<1>3. m = Over(1)
  BY <1>2, DoingDoes, Zenon
<1> QED BY <1>1, <1>2, <1>3, Counts, MakingKeeps, Zenon

\* Lists of one task, from the counts there are.
LEMMA OneLeads ==
  ASSUME StackInv
  PROVE  LET n == Len(built) IN
         /\ Leads(<<Expression>>, Point(n, loop_depth, switch_depth),
                                  Point(n + 1, loop_depth, switch_depth))
         /\ Leads(<<Statement>>, Point(n, loop_depth, switch_depth),
                                 Point(n + 1, loop_depth, switch_depth))
         /\ Leads(<<Task("compound")>>, Point(n, loop_depth, switch_depth),
                                        Point(n + 1, loop_depth, switch_depth))
         /\ Leads(<<Task("led")>>, Point(n + 1, loop_depth, switch_depth),
                                   Point(n + 1, loop_depth, switch_depth))
         /\ Leads(<< >>, Point(n + 1, loop_depth, switch_depth),
                         Point(n + 1, loop_depth, switch_depth))
         /\ Leads(<<Task("pragma")>>, Point(n + 1, loop_depth, switch_depth),
                                      Point(n + 1, loop_depth, switch_depth))
<1> DEFINE n == Len(built)
           a == Point(n, loop_depth, switch_depth)
           b == Point(n + 1, loop_depth, switch_depth)
<1>1. n \in Nat /\ n + 1 \in Nat /\ loop_depth \in Nat /\ switch_depth \in Nat
  BY Counts
<1>2. a \in Points /\ b \in Points
  BY <1>1, PointIn
<1>3. Does(Expression, a, b) /\ Does(Statement, a, b)
  BY <1>1, StepsOf
<1>4. Does(Task("compound"), a, b) /\ Does(Task("led"), b, b)
  BY <1>1, TaskDoes, Zenon DEF Yielding
<1>5. Does(Task("pragma"), b, b)
  BY <1>1, TaskDoes, Zenon
<1> HIDE DEF a, b
<1>6. /\ Leads(<<Expression>>, a, b) /\ Leads(<<Statement>>, a, b)
      /\ Leads(<<Task("compound")>>, a, b) /\ Leads(<<Task("led")>>, b, b)
      /\ Leads(<<Task("pragma")>>, b, b)
  BY <1>2, <1>3, <1>4, <1>5, LeadsOne, Zenon
<1>7. Leads(<< >>, b, b)
  BY <1>2, LeadsNowhere, Zenon
<1> QED BY <1>6, <1>7 DEF a, b

LEMMA OperandKeeps == StackInv /\ ParseOperand => StackInv'
<1> SUFFICES ASSUME StackInv, ParseOperand PROVE StackInv'
  OBVIOUS
<1> DEFINE x == IF tok.k = "ident" THEN Atom(tok.id) ELSE tok.e
<1>1. /\ Doing("expression") /\ tok.k # "EOF"
      /\ Goes(1, <<Task("led")>>, <<x>>) /\ Silent /\ SameDepths
  BY Zenon DEF ParseOperand
<1> HIDE DEF x
<1>2. "expression" \in Yielding
  BY Zenon DEF Yielding
<1>3. IsSeq(<<Task("led")>>)
  BY SeqShort
<1> QED BY <1>1, <1>2, <1>3, PosFacts, OneLeads, YieldMakes, Zenon

LEMMA UnexpectedKeeps == StackInv /\ ParseUnexpected => StackInv'
<1> SUFFICES ASSUME StackInv, ParseUnexpected PROVE StackInv'
  OBVIOUS
<1>1. /\ Doing("expression")
      /\ Goes(One, <<Task("led")>>, <<[k |-> "int", val |-> 0]>>) /\ Reports /\ SameDepths
  BY Zenon DEF ParseUnexpected
<1>2. "expression" \in Yielding
  BY Zenon DEF Yielding
<1>3. IsSeq(<<Task("led")>>)
  BY SeqShort
<1> QED BY <1>1, <1>2, <1>3, PosFacts, OneLeads, YieldMakes, Zenon

LEMMA ParenthesesKeep == StackInv /\ ParseParentheses => StackInv'
<1> SUFFICES ASSUME StackInv, ParseParentheses PROVE StackInv'
  OBVIOUS
<1> DEFINE close == ")"
<1>1. /\ Doing("expression") /\ tok.k # "EOF"
      /\ Goes(1, <<Expression, Expect(close), Task("led")>>, << >>) /\ Silent /\ SameDepths
  BY Zenon DEF ParseParentheses
<1> HIDE DEF close
<1>2. "expression" \in Yielding
  BY Zenon DEF Yielding
<1>3. IsSeq(<<Expression, Expect(close), Task("led")>>)
  BY SeqUpToSix
<1> QED BY <1>1, <1>2, <1>3, PosFacts, Counts, ShortLeads, YieldBecomes, Zenon

LEMMA IfKeeps == StackInv /\ ParseIf => StackInv'
<1> SUFFICES ASSUME StackInv, ParseIf PROVE StackInv'
  OBVIOUS
<1> DEFINE open == "("
           close == ")"
<1>1. /\ Doing("statement") /\ tok.k # "EOF"
      /\ Goes(1, <<Expect(open), Expression, Expect(close), Statement, Task("else")>>,
              << >>)
      /\ Silent /\ SameDepths
  BY Zenon DEF ParseIf, Starts, At
<1> HIDE DEF open, close
<1>2. "statement" \in Yielding
  BY Zenon DEF Yielding
<1>3. IsSeq(<<Expect(open), Expression, Expect(close), Statement, Task("else")>>)
  BY SeqUpToSix
<1> QED BY <1>1, <1>2, <1>3, PosFacts, Counts, IfLeads, YieldBecomes, Zenon

LEMMA WhileKeeps == StackInv /\ ParseWhile => StackInv'
<1> SUFFICES ASSUME StackInv, ParseWhile PROVE StackInv'
  OBVIOUS
<1> DEFINE open == "("
           close == ")"
<1>1. /\ Doing("statement") /\ tok.k # "EOF"
      /\ Goes(1, <<Expect(open), Expression, Expect(close)>>
                   \o Inside("loop", <<Statement>>) \o <<Make("while")>>,
              << >>)
      /\ Silent /\ SameDepths
  BY Zenon DEF ParseWhile, Starts, At
<1> HIDE DEF open, close
<1>2. "statement" \in Yielding
  BY Zenon DEF Yielding
<1>3. IsSeq(<<Expect(open), Expression, Expect(close)>>
                   \o Inside("loop", <<Statement>>) \o <<Make("while")>>)
  BY SeqUpToSix, SeqShort, InsideSeq, SeqJoin, Zenon
<1> QED BY <1>1, <1>2, <1>3, PosFacts, Counts, WhileLeads, YieldBecomes, Zenon

LEMMA SwitchKeeps == StackInv /\ ParseSwitch => StackInv'
<1> SUFFICES ASSUME StackInv, ParseSwitch PROVE StackInv'
  OBVIOUS
<1> DEFINE open == "("
           close == ")"
<1>1. /\ Doing("statement") /\ tok.k # "EOF"
      /\ Goes(1, <<Expect(open), Expression, Expect(close)>>
                   \o Inside("switch", <<Statement>>) \o <<Make("switch")>>,
              << >>)
      /\ Silent /\ SameDepths
  BY Zenon DEF ParseSwitch, Starts, At
<1> HIDE DEF open, close
<1>2. "statement" \in Yielding
  BY Zenon DEF Yielding
<1>3. IsSeq(<<Expect(open), Expression, Expect(close)>>
                   \o Inside("switch", <<Statement>>) \o <<Make("switch")>>)
  BY SeqUpToSix, SeqShort, InsideSeq, SeqJoin, Zenon
<1> QED BY <1>1, <1>2, <1>3, PosFacts, Counts, WhileLeads, YieldBecomes, Zenon

LEMMA DoKeeps == StackInv /\ ParseDo => StackInv'
<1> SUFFICES ASSUME StackInv, ParseDo PROVE StackInv'
  OBVIOUS
<1> DEFINE open == "("
           close == ")"
           semi == ";"
<1>1. /\ Doing("statement") /\ tok.k # "EOF"
      /\ Goes(1, Inside("loop", <<Statement>>)
                   \o <<Expect("while"), Expect(open), Expression, Expect(close), Expect(semi), Make("do")>>,
              << >>)
      /\ Silent /\ SameDepths
  BY Zenon DEF ParseDo, Starts, At
<1> HIDE DEF open, close, semi
<1>2. "statement" \in Yielding
  BY Zenon DEF Yielding
<1>3. IsSeq(Inside("loop", <<Statement>>)
                   \o <<Expect("while"), Expect(open), Expression, Expect(close), Expect(semi), Make("do")>>)
  BY SeqUpToSix, InsideSeq, SeqJoin, Zenon
<1> QED BY <1>1, <1>2, <1>3, PosFacts, Counts, DoLeads, YieldBecomes, Zenon

LEMMA ForKeeps == StackInv /\ ParseFor => StackInv'
<1> SUFFICES ASSUME StackInv, ParseFor PROVE StackInv'
  OBVIOUS
<1> DEFINE open == "("
           close == ")"
           semi == ";"
<1>1. /\ Doing("statement") /\ tok.k # "EOF"
      /\ Goes(1, <<Expect(open), Task("init"), Possibly(semi), Expect(semi), Possibly(close), Expect(close)>>
                   \o Inside("loop", <<Statement>>) \o <<Make("for")>>,
              << >>)
      /\ Silent /\ SameDepths
  BY Zenon DEF ParseFor, Starts, At
<1> HIDE DEF open, close, semi
<1>2. "statement" \in Yielding
  BY Zenon DEF Yielding
<1>3. IsSeq(<<Expect(open), Task("init"), Possibly(semi), Expect(semi), Possibly(close), Expect(close)>>
                   \o Inside("loop", <<Statement>>) \o <<Make("for")>>)
  BY SeqUpToSix, SeqShort, InsideSeq, SeqJoin, Zenon
<1> QED BY <1>1, <1>2, <1>3, PosFacts, Counts, ForLeads, YieldBecomes, Zenon

LEMMA ReturnKeeps == StackInv /\ ParseReturn => StackInv'
<1> SUFFICES ASSUME StackInv, ParseReturn PROVE StackInv'
  OBVIOUS
<1> DEFINE semi == ";"
<1>1. /\ Doing("statement") /\ tok.k # "EOF"
      /\ Goes(1, <<Possibly(semi), Expect(semi), Make("return")>>,
              << >>)
      /\ Silent /\ SameDepths
  BY Zenon DEF ParseReturn, Starts, At
<1> HIDE DEF semi
<1>2. "statement" \in Yielding
  BY Zenon DEF Yielding
<1>3. IsSeq(<<Possibly(semi), Expect(semi), Make("return")>>)
  BY SeqUpToSix
<1> QED BY <1>1, <1>2, <1>3, PosFacts, Counts, ShortLeads, YieldBecomes, Zenon

LEMMA GotoKeeps == StackInv /\ ParseGoto => StackInv'
<1> SUFFICES ASSUME StackInv, ParseGoto PROVE StackInv'
  OBVIOUS
<1> DEFINE semi == ";"
<1>1. /\ Doing("statement") /\ tok.k # "EOF"
      /\ Goes(1, <<Task("name"), Expect(semi), Make("goto")>>,
              << >>)
      /\ Silent /\ SameDepths
  BY Zenon DEF ParseGoto, Starts, At
<1> HIDE DEF semi
<1>2. "statement" \in Yielding
  BY Zenon DEF Yielding
<1>3. IsSeq(<<Task("name"), Expect(semi), Make("goto")>>)
  BY SeqUpToSix
<1> QED BY <1>1, <1>2, <1>3, PosFacts, Counts, ShortLeads, YieldBecomes, Zenon

LEMMA CaseKeeps == StackInv /\ ParseCase => StackInv'
<1> SUFFICES ASSUME StackInv, ParseCase PROVE StackInv'
  OBVIOUS
<1> DEFINE colon == ":"
<1>1. /\ Doing("statement") /\ tok.k # "EOF"
      /\ Goes(1, <<Expression, Expect(colon), Task("labelled"), Make("case")>>,
              << >>)
      /\ Silent /\ SameDepths
  BY Zenon DEF ParseCase, Starts, At
<1> HIDE DEF colon
<1>2. "statement" \in Yielding
  BY Zenon DEF Yielding
<1>3. IsSeq(<<Expression, Expect(colon), Task("labelled"), Make("case")>>)
  BY SeqUpToSix
<1> QED BY <1>1, <1>2, <1>3, PosFacts, Counts, ShortLeads, YieldBecomes, Zenon

LEMMA DefaultKeeps == StackInv /\ ParseDefault => StackInv'
<1> SUFFICES ASSUME StackInv, ParseDefault PROVE StackInv'
  OBVIOUS
<1> DEFINE colon == ":"
<1>1. /\ Doing("statement") /\ tok.k # "EOF"
      /\ Goes(1, <<Expect(colon), Task("labelled"), Make("default")>>,
              << >>)
      /\ Silent /\ SameDepths
  BY Zenon DEF ParseDefault, Starts, At
<1> HIDE DEF colon
<1>2. "statement" \in Yielding
  BY Zenon DEF Yielding
<1>3. IsSeq(<<Expect(colon), Task("labelled"), Make("default")>>)
  BY SeqUpToSix
<1> QED BY <1>1, <1>2, <1>3, PosFacts, Counts, ShortLeads, YieldBecomes, Zenon

LEMMA EmptyKeeps == StackInv /\ ParseEmpty => StackInv'
<1> SUFFICES ASSUME StackInv, ParseEmpty PROVE StackInv'
  OBVIOUS
<1>1. /\ Doing("statement") /\ tok.k # "EOF"
      /\ Goes(1, << >>,
              <<EmptyBlock>>)
      /\ Silent /\ SameDepths
  BY Zenon DEF ParseEmpty, At
<1>2. "statement" \in Yielding
  BY Zenon DEF Yielding
<1>3. IsSeq(<< >>)
  BY SeqShort
<1> QED BY <1>1, <1>2, <1>3, PosFacts, Counts, OneLeads, YieldMakes, Zenon

LEMMA DeclKeeps == StackInv /\ ParseDecl => StackInv'
<1> SUFFICES ASSUME StackInv, ParseDecl PROVE StackInv'
  OBVIOUS
<1>1. /\ Doing("statement") /\ tok.k # "EOF"
      /\ Goes(1, << >>,
              <<tok>>)
      /\ Silent /\ SameDepths
  BY Zenon DEF ParseDecl, At
<1>2. "statement" \in Yielding
  BY Zenon DEF Yielding
<1>3. IsSeq(<< >>)
  BY SeqShort
<1> QED BY <1>1, <1>2, <1>3, PosFacts, Counts, OneLeads, YieldMakes, Zenon

LEMMA PragmaKeeps == StackInv /\ ParsePragma => StackInv'
<1> SUFFICES ASSUME StackInv, ParsePragma PROVE StackInv'
  OBVIOUS
<1>1. /\ Doing("statement") /\ tok.k # "EOF"
      /\ Goes(1, <<Task("pragma")>>,
              <<EmptyBlock>>)
      /\ Silent /\ SameDepths
  BY Zenon DEF ParsePragma, At
<1>2. "statement" \in Yielding
  BY Zenon DEF Yielding
<1>3. IsSeq(<<Task("pragma")>>)
  BY SeqShort
<1> QED BY <1>1, <1>2, <1>3, PosFacts, Counts, OneLeads, YieldMakes, Zenon

LEMMA ExprStmtKeeps == StackInv /\ ParseExprStmt => StackInv'
<1> SUFFICES ASSUME StackInv, ParseExprStmt PROVE StackInv'
  OBVIOUS
<1> DEFINE semi == ";"
<1>1. /\ Doing("statement")
      /\ Goes(0, <<Expression, Expect(semi), Make("expr")>>,
              << >>)
      /\ Silent /\ SameDepths
  BY Zenon DEF ParseExprStmt
<1> HIDE DEF semi
<1>2. "statement" \in Yielding
  BY Zenon DEF Yielding
<1>3. IsSeq(<<Expression, Expect(semi), Make("expr")>>)
  BY SeqUpToSix
<1> QED BY <1>1, <1>2, <1>3, PosFacts, Counts, ShortLeads, YieldBecomes, Zenon

LEMMA OptionalKeeps == StackInv /\ ParseOptional => StackInv'
<1> SUFFICES ASSUME StackInv, ParseOptional PROVE StackInv'
  OBVIOUS
<1>1. /\ Doing("optional") /\ Silent /\ SameDepths
      /\ Goes(0, << >>, <<None>>) \/ Goes(0, <<Expression>>, << >>)
  BY Zenon DEF ParseOptional
<1>2. "optional" \in Yielding
  BY Zenon DEF Yielding
<1>3. IsSeq(<< >>) /\ IsSeq(<<Expression>>)
  BY SeqShort
<1>4. CASE Goes(0, << >>, <<None>>)
  BY <1>1, <1>2, <1>3, <1>4, PosFacts, OneLeads, YieldMakes, Zenon
<1>5. CASE Goes(0, <<Expression>>, << >>)
  BY <1>1, <1>2, <1>3, <1>5, PosFacts, OneLeads, YieldBecomes, Zenon
<1> QED BY <1>1, <1>4, <1>5

LEMMA ForInitKeeps == StackInv /\ ParseForInit => StackInv'
<1> SUFFICES ASSUME StackInv, ParseForInit PROVE StackInv'
  OBVIOUS
<1> DEFINE semi == ";"
<1>1. /\ Doing("init") /\ Silent /\ SameDepths
      /\ \/ tok.k # "EOF" /\ Goes(1, << >>, <<None>>)
         \/ tok.k # "EOF" /\ Goes(1, << >>, <<tok>>)
         \/ Goes(0, <<Expression, Expect(semi), Make("expr")>>, << >>)
  BY Zenon DEF ParseForInit
<1> HIDE DEF semi
<1>2. "init" \in Yielding
  BY Zenon DEF Yielding
<1>3. IsSeq(<< >>) /\ IsSeq(<<Expression, Expect(semi), Make("expr")>>)
  BY SeqShort, SeqUpToSix
<1>4. CASE tok.k # "EOF" /\ \E x : Goes(1, << >>, <<x>>)
  BY <1>1, <1>2, <1>3, <1>4, PosFacts, OneLeads, YieldMakes, Zenon
<1>5. CASE Goes(0, <<Expression, Expect(semi), Make("expr")>>, << >>)
  BY <1>1, <1>2, <1>3, <1>5, PosFacts, Counts, ShortLeads, YieldBecomes, Zenon
<1> QED BY <1>1, <1>4, <1>5, Zenon

LEMMA NameKeeps == StackInv /\ ParseName => StackInv'
<1> SUFFICES ASSUME StackInv, ParseName PROVE StackInv'
  OBVIOUS
<1>1. /\ Doing("name") /\ SameDepths
      /\ \/ tok.k # "EOF" /\ Goes(1, << >>, <<tok.id>>) /\ Silent
         \/ Goes(One, << >>, <<0>>) /\ Reports
  BY Zenon DEF ParseName
<1>2. "name" \in Yielding
  BY Zenon DEF Yielding
<1>3. IsSeq(<< >>)
  BY SeqShort
<1>4. CASE tok.k # "EOF" /\ Goes(1, << >>, <<tok.id>>) /\ Silent
  BY <1>1, <1>2, <1>3, <1>4, PosFacts, OneLeads, YieldMakes, Zenon
<1>5. CASE Goes(One, << >>, <<0>>) /\ Reports
  BY <1>1, <1>2, <1>3, <1>5, PosFacts, OneLeads, YieldMakes, Zenon
<1> QED BY <1>1, <1>4, <1>5, Zenon

LEMMA LabelledKeeps == StackInv /\ ParseLabelled => StackInv'
<1> SUFFICES ASSUME StackInv, ParseLabelled PROVE StackInv'
  OBVIOUS
<1>1. /\ Doing("labelled") /\ Silent /\ SameDepths
      /\ Goes(0, << >>, <<EmptyBlock>>) \/ Goes(0, <<Statement>>, << >>)
  BY Zenon DEF ParseLabelled
<1>2. "labelled" \in Yielding
  BY Zenon DEF Yielding
<1>3. IsSeq(<< >>) /\ IsSeq(<<Statement>>)
  BY SeqShort
<1>4. CASE Goes(0, << >>, <<EmptyBlock>>)
  BY <1>1, <1>2, <1>3, <1>4, PosFacts, OneLeads, YieldMakes, Zenon
<1>5. CASE Goes(0, <<Statement>>, << >>)
  BY <1>1, <1>2, <1>3, <1>5, PosFacts, OneLeads, YieldBecomes, Zenon
<1> QED BY <1>1, <1>4, <1>5

\* An identifier starts a labelled statement or an expression.
LEMMA IdentKeeps == StackInv /\ ParseIdent => StackInv'
<1> SUFFICES ASSUME StackInv, ParseIdent PROVE StackInv'
  OBVIOUS
<1> DEFINE semi == ";"
<1>1. /\ Doing("statement") /\ tok.k # "EOF" /\ Silent /\ SameDepths
      /\ \/ pos < Len(text) /\ Goes(2, <<Statement, Make("label")>>, <<tok.id>>)
         \/ Goes(1, <<Task("led"), Expect(semi), Make("expr")>>, <<Atom(tok.id)>>)
  BY Zenon DEF ParseIdent, At
<1> HIDE DEF semi
<1>2. "statement" \in Yielding
  BY Zenon DEF Yielding
<1>3. IsSeq(<<Statement, Make("label")>>) /\ IsSeq(<<Task("led"), Expect(semi), Make("expr")>>)
  BY SeqUpToSix
<1>4. CASE pos < Len(text) /\ Goes(2, <<Statement, Make("label")>>, <<tok.id>>)
  BY <1>1, <1>2, <1>3, <1>4, PosFacts, Counts, ShortLeads, YieldMakes, Zenon
<1>5. CASE Goes(1, <<Task("led"), Expect(semi), Make("expr")>>, <<Atom(tok.id)>>)
  BY <1>1, <1>2, <1>3, <1>5, PosFacts, Counts, ShortLeads, YieldMakes, Zenon
<1> QED BY <1>1, <1>4, <1>5, Zenon

LEMMA BreakKeeps == StackInv /\ ParseBreak => StackInv'
<1> SUFFICES ASSUME StackInv, ParseBreak PROVE StackInv'
  OBVIOUS
<1> DEFINE semi == ";"
<1>1. /\ Doing("statement") /\ tok.k \in {"break", "continue"} /\ tok.k # "EOF"
      /\ Goes(1, <<Expect(semi), Make(tok.k)>>, << >>)
      /\ Silent \/ Reports
      /\ SameDepths
  BY Zenon DEF ParseBreak, At
<1> HIDE DEF semi
<1>2. "statement" \in Yielding
  BY Zenon DEF Yielding
<1>3. IsSeq(<<Expect(semi), Make(tok.k)>>)
  BY SeqUpToSix
<1> QED BY <1>1, <1>2, <1>3, PosFacts, Counts, ShortLeads, YieldBecomes, Zenon

LEMMA CompoundKeeps == StackInv /\ ParseCompound => StackInv'
<1> SUFFICES ASSUME StackInv, ParseCompound PROVE StackInv'
  OBVIOUS
<1> DEFINE open == "{"
<1>1. /\ Silent /\ SameDepths
      /\ \/ Doing("statement") /\ Goes(0, <<Task("compound")>>, << >>)
         \/ Doing("compound") /\ Goes(0, <<Expect(open), Items(Len(built))>>, << >>)
  BY Zenon DEF ParseCompound, At
<1> HIDE DEF open
<1>2. "statement" \in Yielding /\ "compound" \in Yielding
  BY Zenon DEF Yielding
<1>3. IsSeq(<<Task("compound")>>) /\ IsSeq(<<Expect(open), Items(Len(built))>>)
  BY SeqShort, SeqUpToSix
<1>4. CASE Doing("statement") /\ Goes(0, <<Task("compound")>>, << >>)
  BY <1>1, <1>2, <1>3, <1>4, PosFacts, OneLeads, YieldBecomes, Zenon
<1>5. CASE Doing("compound") /\ Goes(0, <<Expect(open), Items(Len(built))>>, << >>)
  BY <1>1, <1>2, <1>3, <1>5, PosFacts, Counts, ShortLeads, YieldBecomes, Zenon
<1> QED BY <1>1, <1>4, <1>5, Zenon

\* Where the first task leaves the point alone, so must what it becomes.
LEMMA SameBecomes ==
  ASSUME StackInv, NEW t \in {"expect", "pragma", "match ;", "led"}, Doing(t), NEW n, NEW next,
         IsSeq(next), Goes(n, next, << >>), pos + n \in 1 .. Len(text) + 1, Silent \/ Reports,
         SameDepths, Leads(next, Here, Here)
  PROVE  StackInv'
<1>1. tasks # << >>
  BY Zenon DEF Doing
<1>2. PICK m \in Points : Does(task, Here, m) /\ Leads(Tail(tasks), m, AtEnd)
  BY <1>1, FirstTask
<1>3. m = Here
  BY <1>2, DoingDoes, Zenon
<1> QED BY <1>1, <1>2, <1>3, BareKeeps, Zenon

LEMMA ExpectKeeps == StackInv /\ ParseExpect => StackInv'
<1> SUFFICES ASSUME StackInv, ParseExpect PROVE StackInv'
  OBVIOUS
<1>1. Doing("expect") /\ Goes(One, << >>, << >>) /\ (Silent \/ Reports) /\ SameDepths
  BY Zenon DEF ParseExpect
<1>2. IsSeq(<< >>) /\ Leads(<< >>, Here, Here)
  BY SeqShort, Counts, LeadsNowhere, Zenon
<1> QED BY <1>1, <1>2, PosFacts, SameBecomes, Zenon

LEMMA PragmaEndKeeps == StackInv /\ PragmaEnd => StackInv'
<1> SUFFICES ASSUME StackInv, PragmaEnd PROVE StackInv'
  OBVIOUS
<1>1. /\ Doing("match ;") /\ Silent /\ SameDepths
      /\ \/ tok.k # "EOF" /\ Goes(1, << >>, << >>)
         \/ Goes(0, << >>, << >>)
  BY Zenon DEF PragmaEnd
<1>2. IsSeq(<< >>) /\ Leads(<< >>, Here, Here)
  BY SeqShort, Counts, LeadsNowhere, Zenon
<1> QED BY <1>1, <1>2, PosFacts, SameBecomes, Zenon

LEMMA PragmaArgumentKeeps == StackInv /\ PragmaArgument => StackInv'
<1> SUFFICES ASSUME StackInv, PragmaArgument PROVE StackInv'
  OBVIOUS
<1> DEFINE close == ")"
<1>1. /\ Doing("pragma") /\ Silent /\ SameDepths
      /\ \/ Goes(0, <<Task("match ;")>>, << >>)
         \/ pos < Len(text) /\ Goes(2, <<Expect(close), Task("match ;")>>, << >>)
         \/ tok.k # "EOF" /\ Goes(1, <<Expect(close), Task("match ;")>>, << >>)
  BY Zenon DEF PragmaArgument
<1> HIDE DEF close
<1>2. IsSeq(<<Task("match ;")>>) /\ IsSeq(<<Expect(close), Task("match ;")>>)
  BY SeqShort, SeqUpToSix
<1>3. Leads(<<Expect(close), Task("match ;")>>, Here, Here)
  BY Counts, ShortLeads, Zenon
<1>4. Leads(<<Task("match ;")>>, Here, Here)
  <2>1. Does(Task("match ;"), Here, Here)
    BY Counts, TaskDoes, Zenon
  <2> QED BY <2>1, Counts, LeadsOne, Zenon
<1> QED BY <1>1, <1>2, <1>3, <1>4, PosFacts, SameBecomes, Zenon

LEMMA LedKeeps == StackInv /\ ParseLed => StackInv'
<1> SUFFICES ASSUME StackInv, ParseLed PROVE StackInv'
  OBVIOUS
<1> DEFINE close == ")"
           n == Len(built) - 1
<1>1. /\ Doing("led") /\ Silent /\ SameDepths
      /\ \/ Goes(0, << >>, << >>)
         \/ tok.k # "EOF" /\ Goes(1, <<Expect(close), Make("call"), Task("led")>>, <<None>>)
         \/ tok.k # "EOF" /\ Goes(1, <<Expression, Expect(close), Make("call"), Task("led")>>, << >>)
  BY Zenon DEF ParseLed
<1> HIDE DEF close
<1>2. tasks # << >>
  BY <1>1, Zenon DEF Doing
<1>3. PICK m \in Points : Does(task, Here, m) /\ Leads(Tail(tasks), m, AtEnd)
  BY <1>2, FirstTask
<1>4. m = Here /\ Len(built) >= 1
  BY <1>1, <1>3, DoingDoes, Zenon
<1>5. n \in Nat /\ Len(built) = n + 1 /\ Len(built) + 1 = n + 2
  BY <1>4, Counts
<1> HIDE DEF n
<1>6. /\ Here = Point(n + 1, loop_depth, switch_depth)
      /\ Over(1) = Point(n + 2, loop_depth, switch_depth)
  BY <1>5, Counts, Zenon
<1>7. /\ Leads(<<Expect(close), Make("call"), Task("led")>>, Over(1), Here)
      /\ Leads(<<Expression, Expect(close), Make("call"), Task("led")>>, Here, Here)
  BY <1>5, <1>6, Counts, ShortLeads, Zenon
<1>8. /\ IsSeq(<<Expect(close), Make("call"), Task("led")>>)
      /\ IsSeq(<<Expression, Expect(close), Make("call"), Task("led")>>) /\ IsSeq(<< >>)
  BY SeqUpToSix, SeqShort
<1>9. CASE Goes(0, << >>, << >>)
  <2>1. Leads(<< >>, Here, Here)
    BY Counts, LeadsNowhere, Zenon
  <2> QED BY <1>1, <1>8, <1>9, <2>1, PosFacts, SameBecomes, Zenon
<1>10. CASE tok.k # "EOF" /\ Goes(1, <<Expect(close), Make("call"), Task("led")>>, <<None>>)
  BY <1>1, <1>2, <1>3, <1>4, <1>7, <1>8, <1>10, PosFacts, MakingKeeps, Zenon
<1>11. CASE /\ tok.k # "EOF"
            /\ Goes(1, <<Expression, Expect(close), Make("call"), Task("led")>>, << >>)
  BY <1>1, <1>2, <1>3, <1>4, <1>7, <1>8, <1>11, PosFacts, BareKeeps, Zenon
<1> QED BY <1>1, <1>9, <1>10, <1>11, Zenon

LEMMA ElseKeeps == StackInv /\ ParseElse => StackInv'
<1> SUFFICES ASSUME StackInv, ParseElse PROVE StackInv'
  OBVIOUS
<1> DEFINE n == Len(built) - 2
<1>1. /\ Doing("else") /\ Silent /\ SameDepths
      /\ \/ tok.k # "EOF" /\ Goes(1, <<Statement, Make("if")>>, << >>)
         \/ Goes(0, <<Make("if")>>, <<None>>)
  BY Zenon DEF ParseElse
<1>2. tasks # << >>
  BY <1>1, Zenon DEF Doing
<1>3. PICK m \in Points : Does(task, Here, m) /\ Leads(Tail(tasks), m, AtEnd)
  BY <1>2, FirstTask
<1>4. m = Over(-1) /\ Len(built) >= 2
  BY <1>1, <1>3, DoingDoes, Zenon
<1>5. n \in Nat /\ Len(built) = n + 2 /\ Len(built) + 1 = n + 3 /\ Len(built) + (-1) = n + 1
  BY <1>4, Counts
<1> HIDE DEF n
<1>6. /\ Here = Point(n + 2, loop_depth, switch_depth)
      /\ Over(1) = Point(n + 3, loop_depth, switch_depth)
      /\ m = Point(n + 1, loop_depth, switch_depth)
  BY <1>4, <1>5, Counts, Zenon DEF Over
<1>7. Leads(<<Statement, Make("if")>>, Here, m) /\ Leads(<<Make("if")>>, Over(1), m)
  BY <1>5, <1>6, Counts, ShortLeads, Zenon
<1>8. IsSeq(<<Statement, Make("if")>>) /\ IsSeq(<<Make("if")>>)
  BY SeqUpToSix, SeqShort
<1>9. CASE tok.k # "EOF" /\ Goes(1, <<Statement, Make("if")>>, << >>)
  BY <1>1, <1>2, <1>3, <1>7, <1>8, <1>9, PosFacts, BareKeeps, Zenon
<1>10. CASE Goes(0, <<Make("if")>>, <<None>>)
  BY <1>1, <1>2, <1>3, <1>7, <1>8, <1>10, PosFacts, MakingKeeps, Zenon
<1> QED BY <1>1, <1>9, <1>10, Zenon

LEMMA DepthKeeps == StackInv /\ ParseDepth => StackInv'
<1> SUFFICES ASSUME StackInv, ParseDepth PROVE StackInv'
  OBVIOUS
<1>1. /\ Doing("depth") /\ Silent /\ Goes(0, << >>, << >>)
      /\ task.what = "loop" => loop_depth' = loop_depth + task.by /\ switch_depth' = switch_depth
      /\ task.what # "loop" => switch_depth' = switch_depth + task.by /\ loop_depth' = loop_depth
  BY Zenon DEF ParseDepth
<1>2. tasks # << >>
  BY <1>1, Zenon DEF Doing
<1>3. PICK m \in Points : Does(task, Here, m) /\ Leads(Tail(tasks), m, AtEnd)
  BY <1>2, FirstTask
<1>4. /\ loop_depth' \in Nat /\ switch_depth' \in Nat
      /\ m = Point(Len(built), loop_depth', switch_depth')
  <2>1. \/ task.what = "loop" /\ loop_depth + task.by \in Nat
           /\ m = Point(Len(built), loop_depth + task.by, switch_depth)
        \/ task.what = "switch" /\ switch_depth + task.by \in Nat
           /\ m = Point(Len(built), loop_depth, switch_depth + task.by)
    BY <1>1, <1>3, DoingDoes, Zenon
  <2> QED BY <1>1, <2>1, Counts, Zenon
<1>5. Leads(<< >>, m, m) /\ IsSeq(<< >>) /\ Len(<< >>) = 0
  BY <1>3, LeadsNowhere, SeqShort, Zenon
<1>6. Len(built) + 0 = Len(built)
  BY Counts
<1>7. pos + 0 \in 1 .. Len(text) + 1
  BY PosFacts
<1> QED BY <1>1, <1>2, <1>3, <1>4, <1>5, <1>6, <1>7, GoesKeeps, Zenon

LEMMA ItemKeeps == StackInv /\ ParseItem => StackInv'
<1> SUFFICES ASSUME StackInv, ParseItem PROVE StackInv'
  OBVIOUS
<1>1. Doing("items") /\ Goes(0, <<Statement, task>>, << >>) /\ Silent /\ SameDepths
  BY Zenon DEF ParseItem
<1>2. tasks # << >> /\ task.t = "items"
  BY <1>1, Zenon DEF Doing, task
<1>3. PICK m \in Points : Does(task, Here, m) /\ Leads(Tail(tasks), m, AtEnd)
  BY <1>2, FirstTask
<1>4. task.before \in 0 .. Len(built) /\ m = Over(task.before + 1 - Len(built))
  BY <1>1, <1>3, DoingDoes, Zenon
<1>5. Does(task, Over(1), m)
  <2> DEFINE before == task.before
  <2>1. before \in 0 .. Len(built) + 1 /\ Over(1).built = Len(built) + 1
    BY <1>4, Counts DEF Over, Point
  <2>2. m = [Over(1) EXCEPT !.built = before + 1]
    <3> HIDE DEF before
    <3>1. before \in 0 .. Len(built) /\ m = Over(before + 1 - Len(built))
      BY <1>4 DEF before
    <3> QED BY <3>1, Counts DEF Over, Point
  <2> QED BY <1>2, <2>1, <2>2, Zenon DEF Does, Builds
<1>6. Does(Statement, Here, Over(1))
  BY Counts, StepsOf, Zenon
<1>7. Leads(<<Statement, task>>, Here, m) /\ IsSeq(<<Statement, task>>)
  BY <1>3, <1>5, <1>6, Counts, LeadsTwo, SeqUpToSix, Zenon
<1> QED BY <1>1, <1>2, <1>3, <1>7, PosFacts, BareKeeps, Zenon

\* Nodes are taken off the end of those built, and one is put there.
LEMMA TakingKeeps ==
  ASSUME StackInv, tasks # << >>, NEW next, IsSeq(next), tasks' = next \o Tail(tasks),
         NEW n \in 0 .. Len(built), NEW x, built' = Append(SubSeq(built, 1, n), x),
         text' = text, pos' = pos, Silent, SameDepths,
         NEW m \in Points, m = Point(n + 1, loop_depth, switch_depth),
         Leads(next, m, m), Leads(Tail(tasks), m, AtEnd)
  PROVE  StackInv'
<1>1. IsSeq(built') /\ Len(built') = n + 1
  BY SeqCut, Zenon DEF StackInv
<1>2. IsSeq(Tail(tasks))
  BY SeqTail DEF StackInv
<1>3. IsSeq(tasks')
  BY <1>2, SeqJoin, Zenon
<1>4. loop_depth' = loop_depth /\ switch_depth' = switch_depth /\ n_errors' = n_errors
  BY Zenon DEF SameDepths, Silent
<1>5. Here' = m
  <2>1. (n + 1) + 0 = n + 1
    BY Counts
  <2> QED BY <1>1, <1>4, <2>1, Zenon DEF Here, Over
<1>6. AtEnd' = AtEnd
  BY Zenon DEF AtEnd
<1>7. Leads(tasks', Here', AtEnd')
  BY <1>2, <1>5, <1>6, LeadsOver, Zenon
<1> QED BY <1>1, <1>3, <1>4, <1>7, Zenon DEF StackInv

LEMMA MakeKeeps == StackInv /\ ParseMake => StackInv'
<1> SUFFICES ASSUME StackInv, ParseMake PROVE StackInv'
  OBVIOUS
<1> DEFINE n == Len(built) - Parts(task.k)
           x == Node(task.k, SubSeq(built, n + 1, Len(built)))
<1>1. /\ Doing("make") /\ built' = Append(SubSeq(built, 1, n), x) /\ tasks' = Tail(tasks)
      /\ text' = text /\ pos' = pos /\ Silent /\ SameDepths
  BY Zenon DEF ParseMake
<1> HIDE DEF x
<1>2. tasks # << >>
  BY <1>1, Zenon DEF Doing
<1>3. PICK m \in Points : Does(task, Here, m) /\ Leads(Tail(tasks), m, AtEnd)
  BY <1>2, FirstTask
<1>4. Parts(task.k) <= Len(built) /\ m = Over(1 - Parts(task.k))
  BY <1>1, <1>3, DoingDoes, Zenon
<1>5. n \in 0 .. Len(built) /\ m = Point(n + 1, loop_depth, switch_depth)
  <2> DEFINE p == Parts(task.k)
  <2>1. p \in 0 .. 4
    BY PartsFew
  <2>2. p <= Len(built) /\ m = Over(1 - p)
    BY <1>4
  <2> HIDE DEF p
  <2>3. Len(built) - p \in 0 .. Len(built)
    BY <2>1, <2>2, Counts
  <2>4. Len(built) + (1 - p) = (Len(built) - p) + 1
    BY <2>1, Counts
  <2>5. m = Point((Len(built) - p) + 1, loop_depth, switch_depth)
    BY <2>2, <2>4, Zenon DEF Over
  <2> QED BY <2>3, <2>5 DEF p
<1> HIDE DEF n
<1>6. Leads(<< >>, m, m) /\ IsSeq(<< >>)
  BY <1>3, LeadsNowhere, SeqShort, Zenon
<1>7. tasks' = << >> \o Tail(tasks)
  <2>1. PICK T : Tail(tasks) \in Seq(T)
    BY <1>2, SeqTail DEF StackInv, IsSeq
  <2> QED BY <1>1, <2>1
<1> QED BY <1>1, <1>2, <1>3, <1>5, <1>6, <1>7, TakingKeeps, Zenon

LEMMA ItemsEndKeeps == StackInv /\ ParseItemsEnd => StackInv'
<1> SUFFICES ASSUME StackInv, ParseItemsEnd PROVE StackInv'
  OBVIOUS
<1> DEFINE close == "}"
           n == task.before
           x == [k |-> "compound", stmts |-> SubSeq(built, n + 1, Len(built))]
<1>1. /\ Doing("items") /\ pos' = pos /\ text' = text /\ Silent /\ SameDepths
      /\ tasks' = <<Expect(close)>> \o Tail(tasks) /\ built' = Append(SubSeq(built, 1, n), x)
  BY Zenon DEF ParseItemsEnd
<1> HIDE DEF close, x
<1>2. tasks # << >>
  BY <1>1, Zenon DEF Doing
<1>3. PICK m \in Points : Does(task, Here, m) /\ Leads(Tail(tasks), m, AtEnd)
  BY <1>2, FirstTask
<1>4. n \in 0 .. Len(built) /\ m = Over(n + 1 - Len(built))
  BY <1>1, <1>3, DoingDoes, Zenon
<1> HIDE DEF n
<1>5. m = Point(n + 1, loop_depth, switch_depth)
  <2>1. Len(built) + (n + 1 - Len(built)) = n + 1
    BY <1>4, Counts
  <2> QED BY <1>4, <2>1, Zenon DEF Over
<1>6. Does(Expect(close), m, m)
  <2>1. n + 1 \in Nat
    BY <1>4, Counts
  <2> QED BY <1>5, <2>1, Counts, TaskDoes, Zenon
<1>7. Leads(<<Expect(close)>>, m, m) /\ IsSeq(<<Expect(close)>>)
  BY <1>3, <1>6, LeadsOne, SeqShort, Zenon
<1> QED BY <1>1, <1>2, <1>3, <1>4, <1>5, <1>7, TakingKeeps, Zenon

-----------------------------------------------------------------------------
(* Depths *)

\* How many numbers of a set are up to k.
CountTo(S, k) == Cardinality(S \cap (1 .. k))

LEMMA PartGrows ==
  ASSUME NEW n \in Nat, NEW S \in SUBSET (1 .. n), NEW k \in 1 .. n
  PROVE  CountTo(S, k) = IF k \in S THEN CountTo(S, k - 1) + 1 ELSE CountTo(S, k - 1)
<1> DEFINE R == S \cap (1 .. k - 1)
<1>1. IsFiniteSet(1 .. n)
  BY FS_Interval
<1>2. R \in SUBSET (1 .. n)
  OBVIOUS
<1>3. IsFiniteSet(R)
  BY <1>1, <1>2, FS_Subset, Zenon
<1>4. k \notin R
  OBVIOUS
<1>5. S \cap (1 .. k) = IF k \in S THEN R \cup {k} ELSE R
  OBVIOUS
<1> HIDE DEF R
<1>6. Cardinality(R \cup {k}) = Cardinality(R) + 1
  BY <1>3, <1>4, FS_AddElement
<1> QED BY <1>5, <1>6 DEF R, CountTo

\* A level that goes up at some places and down at others.
LEMMA LevelsCount ==
  ASSUME NEW n \in Nat, NEW f \in [1 .. n + 1 -> Nat],
         NEW ups \in SUBSET (1 .. n), NEW downs \in SUBSET (1 .. n),
         \A i \in 1 .. n : f[i + 1] = IF i \in ups THEN f[i] + 1
                                      ELSE IF i \in downs THEN f[i] - 1 ELSE f[i],
         ups \cap downs = {}
  PROVE  f[n + 1] = f[1] + Cardinality(ups) - Cardinality(downs)
<1>0. \A S \in {ups, downs} : \A k \in 1 .. n :
        CountTo(S, k) = IF k \in S THEN CountTo(S, k - 1) + 1 ELSE CountTo(S, k - 1)
  <2> SUFFICES ASSUME NEW S \in SUBSET (1 .. n), NEW k \in 1 .. n
               PROVE  CountTo(S, k) = IF k \in S THEN CountTo(S, k - 1) + 1 ELSE CountTo(S, k - 1)
    OBVIOUS
  <2> QED BY PartGrows, Zenon
<1> DEFINE Up(k) == CountTo(ups, k)
           Down(k) == CountTo(downs, k)
           P == {k \in 0 .. n : Up(k) \in Nat /\ Down(k) \in Nat /\ f[k + 1] = f[1] + Up(k) - Down(k)}
<1>1. 0 \in P
  <2>1. ups \cap (1 .. 0) = {} /\ downs \cap (1 .. 0) = {}
    OBVIOUS
  <2>2. Up(0) = 0 /\ Down(0) = 0
    BY <2>1, FS_EmptySet DEF CountTo
  <2>3. 0 + 1 = 1 /\ f[1] \in Nat
    OBVIOUS
  <2> HIDE DEF Up, Down
  <2> QED BY <2>2, <2>3
<1>2. ASSUME NEW k \in 1 .. n, k - 1 \in P PROVE k \in P
  <2>1. /\ Up(k) = IF k \in ups THEN Up(k - 1) + 1 ELSE Up(k - 1)
        /\ Down(k) = IF k \in downs THEN Down(k - 1) + 1 ELSE Down(k - 1)
    BY <1>0
  <2> HIDE DEF Up, Down
  <2>2. Up(k - 1) \in Nat /\ Down(k - 1) \in Nat /\ f[(k - 1) + 1] = f[1] + Up(k - 1) - Down(k - 1)
    BY <1>2
  <2>3. (k - 1) + 1 = k /\ f[k] \in Nat /\ f[1] \in Nat /\ k \in 0 .. n
    OBVIOUS
  <2>4. f[k + 1] = IF k \in ups THEN f[k] + 1 ELSE IF k \in downs THEN f[k] - 1 ELSE f[k]
    OBVIOUS
  <2>5. ~(k \in ups /\ k \in downs)
    OBVIOUS
  <2> DEFINE u == Up(k - 1)
             d == Down(k - 1)
  <2>6. u \in Nat /\ d \in Nat /\ f[k] = f[1] + u - d
    BY <2>2, <2>3
  <2>7. Up(k) = (IF k \in ups THEN u + 1 ELSE u) /\ Down(k) = (IF k \in downs THEN d + 1 ELSE d)
    BY <2>1, Zenon
  <2> HIDE DEF u, d
  <2>8. Up(k) \in Nat /\ Down(k) \in Nat
    BY <2>6, <2>7
  <2>9. f[k + 1] = f[1] + Up(k) - Down(k)
    <3>1. CASE k \in ups
      BY <2>3, <2>4, <2>5, <2>6, <2>7, <3>1
    <3>2. CASE k \in downs
      BY <2>3, <2>4, <2>5, <2>6, <2>7, <3>2
    <3>3. CASE k \notin ups /\ k \notin downs
      BY <2>3, <2>4, <2>6, <2>7, <3>3
    <3> QED BY <3>1, <3>2, <3>3
  <2> QED BY <2>3, <2>8, <2>9
<1>3. n \in P
  <2> HIDE DEF P
  <2>1. \A k \in 0 .. n : k \in P
    BY <1>1, <1>2, UpTo, Zenon
  <2> QED BY <2>1
<1>4. ups \cap (1 .. n) = ups /\ downs \cap (1 .. n) = downs
  OBVIOUS
<1> QED BY <1>3, <1>4 DEF CountTo

\* A chain of tasks changes the depths by what it enters and leaves.
LEMMA ChainCounts ==
  ASSUME NEW T, NEW ts \in Seq(T), NEW a, NEW b, Leads(ts, a, b)
  PROVE  LET At1(what, by) == Cardinality({i \in DOMAIN ts : ts[i] = Depth(what, by)}) IN
         /\ b.loop = a.loop + At1("loop", 1) - At1("loop", -1)
         /\ b.switch = a.switch + At1("switch", 1) - At1("switch", -1)
<1> DEFINE n == Len(ts)
           At1(what, by) == {i \in DOMAIN ts : ts[i] = Depth(what, by)}
<1>1. n \in Nat /\ DOMAIN ts = 1 .. n
  OBVIOUS
<1>2. PICK p \in [1 .. n + 1 -> Points] :
        /\ p[1] = a /\ p[n + 1] = b
        /\ \A i \in 1 .. n : Does(ts[i], p[i], p[i + 1])
  BY Zenon DEF Leads
<1> HIDE DEF n
<1>3. \A what, by : At1(what, by) \in SUBSET (1 .. n)
  BY <1>1
<1>4. \A i, what, by : i \in At1(what, by) <=> i \in 1 .. n /\ ts[i] = Depth(what, by)
  BY <1>1
<1>5. /\ At1("loop", 1) \cap At1("loop", -1) = {}
      /\ At1("switch", 1) \cap At1("switch", -1) = {}
  <2>1. \A what : Depth(what, 1) # Depth(what, -1)
    BY DEF Depth
  <2> QED BY <2>1
<1>6. ASSUME NEW i \in 1 .. n
      PROVE  /\ p[i + 1].loop = IF i \in At1("loop", 1) THEN p[i].loop + 1
                                ELSE IF i \in At1("loop", -1) THEN p[i].loop - 1 ELSE p[i].loop
             /\ p[i + 1].switch = IF i \in At1("switch", 1) THEN p[i].switch + 1
                                  ELSE IF i \in At1("switch", -1) THEN p[i].switch - 1 ELSE p[i].switch
  <2> HIDE DEF At1
  <2> DEFINE t == ts[i]
             x == p[i]
             y == p[i + 1]
  <2>1. i + 1 \in 1 .. n + 1 /\ i \in 1 .. n + 1
    BY <1>1
  <2>2. x \in Points /\ y \in Points /\ Does(t, x, y)
    BY <1>2, <2>1, Zenon
  <2>3. \A what, by : i \in At1(what, by) <=> t = Depth(what, by)
    BY <1>4, Zenon
  <2> HIDE DEF t, x, y
  <2>4. CASE Enters(t, x, y)
    <3>1. PICK by \in {1, -1} : \/ t = Depth("loop", by) /\ y = [x EXCEPT !.loop = @ + by]
                                \/ t = Depth("switch", by) /\ y = [x EXCEPT !.switch = @ + by]
      BY <2>4, Zenon DEF Enters
    <3>2. CASE t = Depth("loop", by) /\ y = [x EXCEPT !.loop = @ + by]
      <4>1. y.loop = x.loop + by /\ y.switch = x.switch /\ x.loop \in Nat
        BY <2>2, <3>2 DEF Points
      <4>2. /\ t = Depth("loop", 1) <=> by = 1
            /\ t = Depth("loop", -1) <=> by = -1
            /\ t # Depth("switch", 1) /\ t # Depth("switch", -1)
        BY <3>2 DEF Depth
      <4> QED BY <2>3, <4>1, <4>2 DEF x, y
    <3>3. CASE t = Depth("switch", by) /\ y = [x EXCEPT !.switch = @ + by]
      <4>1. y.switch = x.switch + by /\ y.loop = x.loop /\ x.switch \in Nat
        BY <2>2, <3>3 DEF Points
      <4>2. /\ t = Depth("switch", 1) <=> by = 1
            /\ t = Depth("switch", -1) <=> by = -1
            /\ t # Depth("loop", 1) /\ t # Depth("loop", -1)
        BY <3>3 DEF Depth
      <4> QED BY <2>3, <4>1, <4>2 DEF x, y
    <3> QED BY <3>1, <3>2, <3>3
  <2>5. CASE Builds(t, x, y)
    <3>1. y.loop = x.loop /\ y.switch = x.switch
      BY <2>2, <2>5 DEF Builds, Points
    <3>2. t.t # "depth"
      BY <2>5 DEF Builds, Yielding
    <3>3. \A what, by : t # Depth(what, by)
      <4>1. \A what, by : Depth(what, by).t = "depth"
        BY Zenon DEF Depth
      <4> QED BY <3>2, <4>1, Zenon
    <3> QED BY <2>3, <3>1, <3>3 DEF x, y
  <2> QED BY <2>2, <2>4, <2>5 DEF Does
<1> HIDE DEF At1
<1>7. \A i \in 1 .. n + 1 : p[i].loop \in Nat /\ p[i].switch \in Nat
  BY <1>2 DEF Points
<1>8. b.loop = a.loop + Cardinality(At1("loop", 1)) - Cardinality(At1("loop", -1))
  <2> DEFINE f == [i \in 1 .. n + 1 |-> p[i].loop]
             ups == At1("loop", 1)
             downs == At1("loop", -1)
  <2>1. f \in [1 .. n + 1 -> Nat] /\ f[1] = a.loop /\ f[n + 1] = b.loop
    BY <1>1, <1>2, <1>7
  <2>2. ASSUME NEW i \in 1 .. n
        PROVE f[i + 1] = IF i \in ups THEN f[i] + 1 ELSE IF i \in downs THEN f[i] - 1 ELSE f[i]
    <3>1. f[i + 1] = p[i + 1].loop /\ f[i] = p[i].loop
      BY <1>1
    <3> QED BY <1>6, <3>1
  <2>3. ups \in SUBSET (1 .. n) /\ downs \in SUBSET (1 .. n) /\ ups \cap downs = {}
    BY <1>3, <1>5
  <2> HIDE DEF f, ups, downs
  <2>4. f[n + 1] = f[1] + Cardinality(ups) - Cardinality(downs)
    BY <1>1, <2>1, <2>2, <2>3, LevelsCount
  <2> QED BY <2>1, <2>4 DEF ups, downs
<1>9. b.switch = a.switch + Cardinality(At1("switch", 1)) - Cardinality(At1("switch", -1))
  <2> DEFINE f == [i \in 1 .. n + 1 |-> p[i].switch]
             ups == At1("switch", 1)
             downs == At1("switch", -1)
  <2>1. f \in [1 .. n + 1 -> Nat] /\ f[1] = a.switch /\ f[n + 1] = b.switch
    BY <1>1, <1>2, <1>7
  <2>2. ASSUME NEW i \in 1 .. n
        PROVE f[i + 1] = IF i \in ups THEN f[i] + 1 ELSE IF i \in downs THEN f[i] - 1 ELSE f[i]
    <3>1. f[i + 1] = p[i + 1].switch /\ f[i] = p[i].switch
      BY <1>1
    <3> QED BY <1>6, <3>1
  <2>3. ups \in SUBSET (1 .. n) /\ downs \in SUBSET (1 .. n) /\ ups \cap downs = {}
    BY <1>3, <1>5
  <2> HIDE DEF f, ups, downs
  <2>4. f[n + 1] = f[1] + Cardinality(ups) - Cardinality(downs)
    BY <1>1, <2>1, <2>2, <2>3, LevelsCount
  <2> QED BY <2>1, <2>4 DEF ups, downs
<1> QED BY <1>8, <1>9 DEF At1

LEMMA StepKeeps == StackInv /\ [ParseStep]_parse_vars => StackInv'
<1>1. StackInv /\ UNCHANGED parse_vars => StackInv'
  <2> SUFFICES ASSUME StackInv, UNCHANGED parse_vars PROVE StackInv'
    OBVIOUS
  <2>1. /\ text' = text /\ pos' = pos /\ tasks' = tasks /\ built' = built
        /\ n_errors' = n_errors /\ loop_depth' = loop_depth /\ switch_depth' = switch_depth
    BY Zenon DEF parse_vars
  <2>2. Here' = Here /\ AtEnd' = AtEnd
    BY <2>1, Zenon DEF Here, Over, AtEnd
  <2> QED BY <2>1, <2>2, Zenon DEF StackInv
<1> QED
  BY <1>1, ExpectKeeps, OperandKeeps, ParenthesesKeep, UnexpectedKeeps, LedKeeps, OptionalKeeps,
     MakeKeeps, DepthKeeps, CompoundKeeps, ItemKeeps, ItemsEndKeeps, IfKeeps, ElseKeeps,
     WhileKeeps, DoKeeps, ForKeeps, ForInitKeeps, ReturnKeeps, BreakKeeps, GotoKeeps, NameKeeps,
     SwitchKeeps, CaseKeeps, DefaultKeeps, LabelledKeeps, EmptyKeeps, DeclKeeps, IdentKeeps,
     ExprStmtKeeps, PragmaKeeps, PragmaArgumentKeeps, PragmaEndKeeps, Zenon DEF ParseStep

LEMMA StackStart == ASSUME IsSeq(text), ParseInit PROVE StackInv
<1>1. Len(text) \in Nat
  BY SeqLen
<1>2. /\ pos = 1 /\ tasks = <<Task("compound")>> /\ built = << >>
      /\ n_errors = 0 /\ loop_depth = 0 /\ switch_depth = 0
  BY Zenon DEF ParseInit
<1>3. IsSeq(tasks) /\ IsSeq(built) /\ Len(built) = 0
  BY <1>2, SeqShort, Zenon
<1>4. Here = Point(0, 0, 0)
  BY <1>2, <1>3 DEF Here, Over
<1>5. Does(Task("compound"), Point(0, 0, 0), Point(0 + 1, 0, 0))
  BY TaskDoes DEF Yielding
<1>6. Point(0, 0, 0) \in Points /\ Point(1, 0, 0) \in Points
  BY PointIn
<1>7. Does(Task("compound"), Point(0, 0, 0), Point(1, 0, 0))
  BY <1>5
<1>8. Leads(tasks, Here, AtEnd)
  BY <1>2, <1>4, <1>6, <1>7, LeadsOne, Zenon DEF AtEnd
<1>9. pos \in 1 .. Len(text) + 1 /\ n_errors \in 0 .. 1 /\ loop_depth \in Nat /\ switch_depth \in Nat
  BY <1>1, <1>2
<1> QED BY <1>3, <1>8, <1>9, Zenon DEF StackInv

\* There are finitely many tasks of a kind.
LEMMA SomeTasks ==
  ASSUME NEW T, NEW ts \in Seq(T), NEW v
  PROVE  Cardinality({i \in DOMAIN ts : ts[i] = v}) \in Nat
<1>1. DOMAIN ts = 1 .. Len(ts) /\ Len(ts) \in Nat
  OBVIOUS
<1>2. IsFiniteSet(1 .. Len(ts))
  BY <1>1, FS_Interval
<1>3. {i \in DOMAIN ts : ts[i] = v} \in SUBSET (1 .. Len(ts))
  BY <1>1
<1>4. IsFiniteSet({i \in DOMAIN ts : ts[i] = v})
  BY <1>2, <1>3, FS_Subset, Zenon
<1> QED BY <1>4, FS_CardinalityType, Zenon

LEMMA HereAtEnd ==
  AtEnd.loop = 0 /\ AtEnd.switch = 0 /\ Here.loop = loop_depth /\ Here.switch = switch_depth
BY DEF AtEnd, Here, Over, Point

LEMMA StackOK == StackInv => ParserOK
<1> SUFFICES ASSUME StackInv PROVE ParserOK
  OBVIOUS
<1>1. /\ pos \in 1 .. Len(text) + 1 /\ n_errors \in 0 .. 1
      /\ loop_depth \in Nat /\ switch_depth \in Nat
  BY Zenon DEF StackInv
<1>2. EnoughBuilt
  <2>1. CASE tasks = << >>
    BY <2>1, Zenon DEF EnoughBuilt, Doing
  <2>2. CASE tasks # << >>
    <3>1. PICK m \in Points : Does(task, Here, m)
      BY <2>2, FirstTask
    <3>2. Doing("make") => Parts(task.k) <= Len(built)
      BY <3>1, DoingDoes, Zenon
    <3>3. Doing("items") => task.before \in 0 .. Len(built)
      BY <3>1, DoingDoes, Zenon
    <3>4. \A i \in 0 .. Len(built) : i <= Len(built)
      BY Counts
    <3> QED BY <3>2, <3>3, <3>4, Zenon DEF EnoughBuilt
  <2> QED BY <2>1, <2>2
<1>3. ASSUME tasks = << >> PROVE Len(built) = 1
  <2>1. Leads(<< >>, Here, AtEnd)
    BY <1>3, Zenon DEF StackInv
  <2>2. PICK p \in [1 .. Len(<< >>) + 1 -> Points] : p[1] = Here /\ p[Len(<< >>) + 1] = AtEnd
    BY <2>1 DEF Leads
  <2>3. Len(<< >>) + 1 = 1
    OBVIOUS
  <2>4. Here = AtEnd
    BY <2>2, <2>3, Zenon
  <2>5. Point(Len(built), loop_depth, switch_depth) = Point(1, 0, 0)
    BY <2>4, Counts, Zenon DEF AtEnd
  <2> QED BY <2>5 DEF Point
<1>4. DepthsRight
  <2>1. PICK T : tasks \in Seq(T)
    BY Zenon DEF StackInv, IsSeq
  <2>2. Leads(tasks, Here, AtEnd)
    BY Zenon DEF StackInv
  <2>3. /\ AtEnd.loop = Here.loop + Cardinality(Pending("loop", 1)) - Cardinality(Pending("loop", -1))
        /\ AtEnd.switch = Here.switch + Cardinality(Pending("switch", 1)) - Cardinality(Pending("switch", -1))
    BY <2>1, <2>2, ChainCounts, Zenon DEF Pending
  <2>4. \A what, by : Cardinality(Pending(what, by)) \in Nat
    BY <2>1, SomeTasks, Zenon DEF Pending
  <2>5. /\ AtEnd.loop = 0 /\ AtEnd.switch = 0
        /\ Here.loop = loop_depth /\ Here.switch = switch_depth
    BY HereAtEnd
  <2> HIDE DEF Pending, Here, AtEnd
  <2>6. \A d, up, down \in Nat : 0 = d + up - down => d = down - up
    OBVIOUS
  <2>7. /\ 0 = loop_depth + Cardinality(Pending("loop", 1)) - Cardinality(Pending("loop", -1))
        /\ 0 = switch_depth + Cardinality(Pending("switch", 1)) - Cardinality(Pending("switch", -1))
    BY <2>3, <2>5, Zenon
  <2>8. loop_depth = Cardinality(Pending("loop", -1)) - Cardinality(Pending("loop", 1))
    BY <1>1, <2>4, <2>6, <2>7, Zenon
  <2>9. switch_depth = Cardinality(Pending("switch", -1)) - Cardinality(Pending("switch", 1))
    BY <1>1, <2>4, <2>6, <2>7, Zenon
  <2> QED BY <2>8, <2>9, Zenon DEF DepthsRight, Around
<1> QED BY <1>1, <1>2, <1>3, <1>4, Zenon DEF ParserOK

\* Whatever tokens a text is made of, and whatever errors parse_statement finds
\* in it: the parser stays in the text, its loop and switch depths are those of
\* the loops and switches it is in, no construct lacks one of its parts, and at
\* the end there is one tree.
THEOREM RecoveryIsWhole == ASSUME NEW Tokens PROVE ParseSpec(Tokens) => []ParserOK
<1>1. text \in Seq(Tokens) /\ ParseInit => StackInv
  BY StackStart DEF IsSeq
<1>2. StackInv /\ [ParseStep]_parse_vars => StackInv'
  BY StepKeeps
<1> QED BY <1>1, <1>2, StackOK, PTL DEF ParseSpec
================================================================================
