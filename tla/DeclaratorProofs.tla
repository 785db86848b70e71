--------------------------- MODULE DeclaratorProofs ---------------------------
(***************************************************************************)
(* Interning, for every hash function and every input: among the nodes of    *)
(* the type table that were not changed after they were made, no two are     *)
(* equal.  What makes it inductive is that such a node still hashes to the   *)
(* bucket it is in.                                                         *)
(*                                                                         *)
(* References, for every hash function into the buckets and every input: the *)
(* parser stays inside its input, and what the type table, the names, the    *)
(* tags and the declarations refer to exists.  What makes it inductive is    *)
(* which frame may wait for which, and that NULL, the type that a declarator *)
(* in parentheses is parsed on, is returned to that declarator's group only. *)
(***************************************************************************)
EXTENDS Declarator, SharedFacts

\* The second part of the key a node is made with.
ExtraOf(node) == CASE node.k = "ptr" -> node.qual
                   [] node.k = "unsized" -> UnsizedKey
                   [] OTHER -> node.n

IsHeap(h) ==
  /\ h = [nodes |-> h.nodes, buckets |-> h.buckets]
  /\ \E N : h.nodes \in Seq(N)
  /\ h.buckets \in [Slots -> Seq(Nat)]
  /\ \A s \in Slots : \A i \in DOMAIN h.buckets[s] : h.buckets[s][i] \in DOMAIN h.nodes

\* Every unchanged node is in the bucket of its own key ...
UnderItsKey(h, c) ==
  \A s \in Slots : \A i \in DOMAIN h.buckets[s] :
    h.buckets[s][i] \notin c =>
      LET node == h.nodes[h.buckets[s][i]] IN Hash(node.sub, ExtraOf(node)) = s

\* ... and no other of its bucket equals it.
OnceInBucket(h, c) ==
  \A s \in Slots : \A i, j \in DOMAIN h.buckets[s] :
    /\ h.buckets[s][i] \notin c /\ h.buckets[s][j] \notin c
    /\ h.nodes[h.buckets[s][i]] = h.nodes[h.buckets[s][j]]
    => h.buckets[s][i] = h.buckets[s][j]

HeapInv(h, c) == IsHeap(h) /\ UnderItsKey(h, c) /\ OnceInBucket(h, c)

\* The inductive invariant gives InternedOnce.
LEMMA HeapInvOnce == HeapInv(heap, changed) => InternedOnce
<1> SUFFICES ASSUME HeapInv(heap, changed),
                    NEW t \in DOMAIN heap.nodes \ changed, NEW u \in DOMAIN heap.nodes \ changed,
                    InTable(t), InTable(u), heap.nodes[t] = heap.nodes[u]
             PROVE  t = u
  BY DEF InternedOnce
<1> DEFINE slot == Hash(heap.nodes[t].sub, ExtraOf(heap.nodes[t]))
<1>1. \E i \in DOMAIN heap.buckets[slot] : slot \in Slots /\ heap.buckets[slot][i] = t
  BY DEF InTable, HeapInv, UnderItsKey
<1>2. \E i \in DOMAIN heap.buckets[slot] : slot \in Slots /\ heap.buckets[slot][i] = u
  BY DEF InTable, HeapInv, UnderItsKey
<1>3. QED
  BY <1>1, <1>2 DEF HeapInv, OnceInBucket

\* A new node outside the table leaves the table as it is.
LEMMA AllocateInv ==
  ASSUME NEW h, NEW c, NEW node, HeapInv(h, c)
  PROVE  HeapInv(Allocate(h, node).heap, c)
<1> DEFINE g == Allocate(h, node).heap
<1>1. g = [nodes |-> Append(h.nodes, node), buckets |-> h.buckets]
  BY DEF Allocate, Made, HeapInv, IsHeap
<1> HIDE DEF g
<1>2. PICK N : h.nodes \in Seq(N)
  BY DEF HeapInv, IsHeap
<1>3. /\ g.nodes \in Seq(N \union {node})
      /\ \A t \in DOMAIN h.nodes : t \in DOMAIN g.nodes /\ g.nodes[t] = h.nodes[t]
  <2>1. h.nodes \in Seq(N \union {node}) /\ node \in N \union {node}
    BY <1>2
  <2>2. QED
    BY <1>1, <2>1
<1>4. IsHeap(g)
  BY <1>1, <1>3 DEF HeapInv, IsHeap
<1>5. UnderItsKey(g, c) /\ OnceInBucket(g, c)
  BY <1>1, <1>3 DEF HeapInv, IsHeap, UnderItsKey, OnceInBucket
<1>6. QED
  BY <1>4, <1>5 DEF HeapInv, g

\* A constructor finds the node it wants, or links a new one that is equal to
\* no unchanged node of the bucket.
LEMMA InternInv ==
  ASSUME NEW h, NEW c, NEW node, HeapInv(h, c)
  PROVE  HeapInv(Intern(h, ExtraOf(node), node).heap, c)
<1> DEFINE slot == Hash(node.sub, ExtraOf(node))
           new == Len(h.nodes) + 1
           g == Intern(h, ExtraOf(node), node).heap
<1>1. CASE Hits(h, slot, node) # {}
  BY <1>1 DEF Intern, Made
<1>2. CASE Hits(h, slot, node) = {}
  <2>1. g = [nodes |-> Append(h.nodes, node),
             buckets |-> [h.buckets EXCEPT ![slot] = <<new>> \o @]]
    BY <1>2 DEF Intern, Made
  <2> HIDE DEF g
  <2>2. PICK N : h.nodes \in Seq(N)
    BY DEF HeapInv, IsHeap
  <2>3. /\ g.nodes \in Seq(N \union {node}) /\ new \in Nat /\ new \notin DOMAIN h.nodes
        /\ \A t \in DOMAIN h.nodes : t \in DOMAIN g.nodes /\ g.nodes[t] = h.nodes[t]
        /\ new \in DOMAIN g.nodes /\ g.nodes[new] = node
    <3>1. h.nodes \in Seq(N \union {node}) /\ node \in N \union {node}
      BY <2>2
    <3>2. QED
      BY <2>1, <3>1
  <2>4. /\ g.buckets \in [Slots -> Seq(Nat)]
        /\ \A s \in Slots : \A i \in DOMAIN g.buckets[s] :
             \/ s = slot /\ g.buckets[s][i] = new
             \/ \E j \in DOMAIN h.buckets[s] : g.buckets[s][i] = h.buckets[s][j]
    <3> SUFFICES ASSUME NEW s \in Slots
                 PROVE  /\ g.buckets[s] \in Seq(Nat)
                        /\ \A i \in DOMAIN g.buckets[s] :
                             \/ s = slot /\ g.buckets[s][i] = new
                             \/ \E j \in DOMAIN h.buckets[s] : g.buckets[s][i] = h.buckets[s][j]
      <4>1. DOMAIN g.buckets = Slots /\ g.buckets = [s \in Slots |-> g.buckets[s]]
        BY <2>1 DEF HeapInv, IsHeap
      <4>2. QED
        BY <4>1
    <3> DEFINE b == h.buckets[s]
    <3>1. b \in Seq(Nat)
      BY DEF HeapInv, IsHeap
    <3>2. CASE s = slot
      <4>1. g.buckets[s] = <<new>> \o b
        BY <2>1, <3>2 DEF HeapInv, IsHeap
      <4> HIDE DEF b, new
      <4>2. <<new>> \o b \in Seq(Nat)
        BY <2>3, <3>1
      <4>3. \A i \in DOMAIN (<<new>> \o b) :
              \/ (<<new>> \o b)[i] = new
              \/ i - 1 \in DOMAIN b /\ (<<new>> \o b)[i] = b[i - 1]
        BY <2>3, <3>1
      <4>4. QED
        BY <3>2, <4>1, <4>2, <4>3 DEF b
    <3>3. CASE s # slot
      BY <2>1, <3>1, <3>3 DEF HeapInv, IsHeap
    <3>4. QED
      BY <3>2, <3>3
  <2>7. IsHeap(g)
    <3>1. \A s \in Slots : \A i \in DOMAIN g.buckets[s] : g.buckets[s][i] \in DOMAIN g.nodes
      BY <2>3, <2>4 DEF HeapInv, IsHeap
    <3>2. QED
      BY <2>1, <2>3, <2>4, <3>1 DEF IsHeap
  <2>8. UnderItsKey(g, c)
    <3> SUFFICES ASSUME NEW s \in Slots, NEW i \in DOMAIN g.buckets[s], g.buckets[s][i] \notin c
                 PROVE  LET node2 == g.nodes[g.buckets[s][i]]
                        IN Hash(node2.sub, ExtraOf(node2)) = s
      BY DEF UnderItsKey
    <3>1. CASE s = slot /\ g.buckets[s][i] = new
      BY <2>3, <3>1
    <3>2. CASE \E j \in DOMAIN h.buckets[s] : g.buckets[s][i] = h.buckets[s][j]
      BY <2>3, <3>2 DEF HeapInv, IsHeap, UnderItsKey
    <3>3. QED
      BY <2>4, <3>1, <3>2
  <2>9. \A i \in DOMAIN h.buckets[slot] : h.nodes[h.buckets[slot][i]] # node
    BY <1>2 DEF Hits
  <2>10. OnceInBucket(g, c)
    <3> SUFFICES ASSUME NEW s \in Slots,
                        NEW i \in DOMAIN g.buckets[s], NEW j \in DOMAIN g.buckets[s],
                        g.buckets[s][i] \notin c, g.buckets[s][j] \notin c,
                        g.nodes[g.buckets[s][i]] = g.nodes[g.buckets[s][j]]
                 PROVE  g.buckets[s][i] = g.buckets[s][j]
      BY DEF OnceInBucket
    <3>1. \A k \in DOMAIN g.buckets[s] :
            \/ s = slot /\ g.buckets[s][k] = new /\ g.nodes[g.buckets[s][k]] = node
            \/ \E m \in DOMAIN h.buckets[s] :
                 /\ g.buckets[s][k] = h.buckets[s][m]
                 /\ g.nodes[g.buckets[s][k]] = h.nodes[h.buckets[s][m]]
      <4> SUFFICES ASSUME NEW k \in DOMAIN g.buckets[s]
                   PROVE  \/ s = slot /\ g.buckets[s][k] = new /\ g.nodes[g.buckets[s][k]] = node
                          \/ \E m \in DOMAIN h.buckets[s] :
                               /\ g.buckets[s][k] = h.buckets[s][m]
                               /\ g.nodes[g.buckets[s][k]] = h.nodes[h.buckets[s][m]]
        OBVIOUS
      <4>1. CASE s = slot /\ g.buckets[s][k] = new
        BY <2>3, <4>1
      <4>2. CASE \E m \in DOMAIN h.buckets[s] : g.buckets[s][k] = h.buckets[s][m]
        <5>1. PICK m \in DOMAIN h.buckets[s] : g.buckets[s][k] = h.buckets[s][m]
          BY <4>2
        <5>2. h.buckets[s][m] \in DOMAIN h.nodes
          BY DEF HeapInv, IsHeap
        <5>3. QED
          BY <2>3, <5>1, <5>2
      <4>3. QED
        BY <2>4, <4>1, <4>2
    <3>2. QED
      BY <2>9, <3>1 DEF HeapInv, OnceInBucket
  <2>11. QED
    BY <2>7, <2>8, <2>10 DEF HeapInv, g
<1>3. QED
  BY <1>1, <1>2

\* A node that is changed in place counts as changed.
LEMMA ChangeInv ==
  ASSUME NEW h, NEW c, NEW t, NEW node, HeapInv(h, c)
  PROVE  HeapInv([nodes |-> [h.nodes EXCEPT ![t] = node], buckets |-> h.buckets], c \union {t})
<1> DEFINE nodes == [h.nodes EXCEPT ![t] = node]
           g == [nodes |-> nodes, buckets |-> h.buckets]
<1>1. g.nodes = nodes /\ g.buckets = h.buckets /\ g = [nodes |-> g.nodes, buckets |-> g.buckets]
  OBVIOUS
<1> HIDE DEF g
<1>2. PICK N : h.nodes \in Seq(N)
  BY DEF HeapInv, IsHeap
<1>3. /\ nodes \in Seq(N \union {node}) /\ DOMAIN nodes = DOMAIN h.nodes
      /\ \A u \in DOMAIN h.nodes \ {t} : nodes[u] = h.nodes[u]
  <2>1. h.nodes \in [1 .. Len(h.nodes) -> N] /\ Len(h.nodes) \in Nat
    BY <1>2
  <2>2. nodes \in [1 .. Len(h.nodes) -> N \union {node}]
    BY <2>1
  <2>3. nodes \in Seq(N \union {node})
    BY <2>1, <2>2
  <2>4. QED
    BY <2>1, <2>3
<1> HIDE DEF nodes
<1>4. IsHeap(g)
  BY <1>1, <1>3 DEF HeapInv, IsHeap
<1>5. UnderItsKey(g, c \union {t}) /\ OnceInBucket(g, c \union {t})
  BY <1>1, <1>3 DEF HeapInv, IsHeap, UnderItsKey, OnceInBucket
<1>6. QED
  BY <1>4, <1>5 DEF HeapInv, g, nodes

\* The operations of the type table.
LEMMA OperationsInv ==
  ASSUME NEW h, NEW c, HeapInv(h, c), NEW t, NEW q
  PROVE  /\ HeapInv(type_pointer(h, t, q).heap, c)
         /\ HeapInv(type_array(h, t, q).heap, c)
         /\ HeapInv(type_array_unsized(h, t).heap, c)
         /\ HeapInv(type_qualify(h, t, q).heap, c)
<1>1. HeapInv(type_pointer(h, t, q).heap, c)
  <2> DEFINE node == Node("ptr", "", t, q, 0, << >>)
  <2>1. ExtraOf(node) = q
    BY DEF Node, ExtraOf
  <2>2. QED
    BY <2>1, InternInv DEF type_pointer
<1>2. HeapInv(type_array(h, t, q).heap, c)
  <2> DEFINE node == Node("array", "", t, 0, q, << >>)
  <2>1. ExtraOf(node) = q
    BY DEF Node, ExtraOf
  <2>2. QED
    BY <2>1, InternInv DEF type_array
<1>3. HeapInv(type_array_unsized(h, t).heap, c)
  <2> DEFINE node == Node("unsized", "", t, 0, -1, << >>)
  <2>1. ExtraOf(node) = UnsizedKey
    BY DEF Node, ExtraOf
  <2>2. HeapInv(Intern(h, ExtraOf(node), node).heap, c)
    BY InternInv
  <2>3. QED
    BY <2>1, <2>2 DEF type_array_unsized
<1>4. HeapInv(type_qualify(h, t, q).heap, c)
  BY AllocateInv DEF type_qualify, Made
<1>5. QED
  BY <1>1, <1>2, <1>3, <1>4

LEMMA FunctionInv ==
  ASSUME NEW h, NEW c, HeapInv(h, c), NEW t, NEW params, NEW variadic
  PROVE  HeapInv(type_func(h, t, params, variadic).heap, c)
<1>1. ASSUME NEW extra
      PROVE  HeapInv(Intern(h, extra, Node("func", "", t, 0, extra, params)).heap, c)
  <2> DEFINE node == Node("func", "", t, 0, extra, params)
  <2>1. ExtraOf(node) = extra
    BY DEF Node, ExtraOf
  <2>2. QED
    BY <2>1, InternInv
<1>2. QED
  BY <1>1 DEF type_func

LEMMA InPlaceInv ==
  ASSUME NEW h, NEW c, HeapInv(h, c), NEW t, NEW x
  PROVE  HeapInv(Patch(h, t, x), c \union {t}) /\ HeapInv(Complete(h, t, x), c \union {t})
  BY ChangeInv DEF Patch, Complete

-----------------------------------------------------------------------------

\* Base: the type table after a specifier list is resolved.
LEMMA BaseInv ==
  ASSUME NEW ds, HeapInv(heap, changed)
  PROVE  HeapInv(Base(ds).heap, changed)
BY OperationsInv DEF Base, Made

LEMMA InitInv == Init => HeapInv(heap, changed)
<1> SUFFICES ASSUME Init PROVE HeapInv(heap, changed)
  OBVIOUS
<1>1. heap = [nodes |-> << >>, buckets |-> [s \in Slots |-> << >>]]
  BY DEF Init, NoTypes
<1>2. << >> \in Seq(Nat) /\ DOMAIN << >> = {}
  OBVIOUS
<1>3. QED
  BY <1>1, <1>2 DEF HeapInv, IsHeap, UnderItsKey, OnceInBucket

LEMMA StepInv == HeapInv(heap, changed) /\ [Next]_vars => HeapInv(heap, changed)'
<1> SUFFICES ASSUME HeapInv(heap, changed), [Next]_vars PROVE HeapInv(heap', changed')
  BY DEF HeapInv, IsHeap, UnderItsKey, OnceInBucket
<1>1. CASE UNCHANGED <<heap, changed>>
  BY <1>1
<1>2. CASE SpecTag
  <2>1. changed' = changed
    BY <1>2 DEF SpecTag, SameChanges
  <2>2. heap' = heap \/ \E k, x : heap' = Allocate(heap, Node(k, x, NULL, 0, -1, << >>)).heap
    BY <1>2 DEF SpecTag, NewTagged, Made
  <2>3. QED
    BY <2>1, <2>2, AllocateInv
<1>3. CASE MemberSpecs \/ ParamSpecs \/ ListBase
  <2>1. changed' = changed /\ heap' = Base(ret.ds).heap
    BY <1>3 DEF MemberSpecs, ParamSpecs, ListBase, SameChanges
  <2>2. QED
    BY <2>1, BaseInv
<1>4. CASE Point
  BY <1>4, OperationsInv DEF Point, SameChanges
<1>5. CASE SuffixArray
  <2>1. changed' = changed
    BY <1>5 DEF SuffixArray, SameChanges
  <2>2. \/ heap' = type_array_unsized(heap, top.inner).heap
        \/ heap' = type_array(heap, top.inner, NumberOf[tok]).heap
    BY <1>5 DEF SuffixArray
  <2>3. QED
    BY <2>1, <2>2, OperationsInv
<1>6. CASE FunctionDone
  BY <1>6, FunctionInv DEF FunctionDone, SameChanges
<1>7. CASE BodyDone
  BY <1>7, InPlaceInv DEF BodyDone, Completed
<1>8. CASE PatchGroup
  BY <1>8, InPlaceInv DEF PatchGroup
<1>9. QED
  <2>1. CASE UNCHANGED vars
    BY <2>1, <1>1 DEF vars
  <2>2. CASE ReadSpecs
    BY <2>2, <1>1, <1>2 DEF ReadSpecs, SpecStorage, SpecQual, SpecWhole, SpecPart, SpecLong,
       SpecTypedefName, SpecDuplicateTag, SpecTagged, SpecsDone, Specifier, OnlyParsing, SameChanges
  <2>3. CASE ReadBody
    BY <2>3, <1>1, <1>3, <1>7 DEF ReadBody, Member, MemberUnnamed, MemberDeclarator, MemberDone,
       MemberMore, Enumerator, NotAnEnumerator, OnlyParsing, SameChanges
  <2>4. CASE ReadDeclarator
    BY <2>4, <1>1, <1>3, <1>4, <1>5, <1>6, <1>8 DEF ReadDeclarator, Star, StarQual, StarsDone,
       Group, GroupDone, Direct, DirectDone, SuffixFunction, Ellipsis, Param, ParamDone,
       SuffixDone, OnlyParsing, SameChanges
  <2>5. CASE ReadList
    BY <2>5, <1>1, <1>3 DEF ReadList, TopDeclaration, TopSkip, ListDeclared, ListUnnamed,
       ListMore, ListEnd, OnlyParsing, SameChanges
  <2>6. QED
    BY <2>1, <2>2, <2>3, <2>4, <2>5 DEF Next

\* TypesInternedOnce: for every hash function and every token sequence, two
\* nodes of the type table that were not patched are different types, so the
\* constructors of type.c never make a type twice.
THEOREM TypesInternedOnce == Spec => []InternedOnce
<1>1. Spec => []HeapInv(heap, changed)
  BY InitInv, StepInv, PTL DEF Spec
<1>2. QED
  BY <1>1, HeapInvOnce, PTL

-----------------------------------------------------------------------------
(***************************************************************************)
(* References, over the nodes D that there are: what a frame of the parser   *)
(* holds, what it waits for, and what a frame on top finds in ret.           *)
(***************************************************************************)

Refs(D) == (-Len(ScalarNames) .. -1) \union D
RefsOrNull(D) == Refs(D) \union {NULL}
Names == Idents \union {""}

\* A frame refers to types that exist; NULL is only the base of a declarator in
\* parentheses, and what is not known yet.
FrameOK(D, fr) ==
  \/ /\ fr.f = "specs"
     /\ DOMAIN fr = {"f", "at", "storage", "qual", "flags", "base", "seen"}
     /\ fr.at \in {"loop", "tag"} /\ fr.base \in RefsOrNull(D)
  \/ /\ fr.f = "list"
     /\ DOMAIN fr = {"f", "at", "ds", "base"}
     /\ fr.at \in {"specs", "declarator", "more", "end"}
     /\ fr.at # "specs" => fr.base \in Refs(D)
  \/ /\ fr.f \in {"members", "enum"}
     /\ DOMAIN fr = {"f", "at", "type", "base", "members"}
     /\ fr.type \in D
     /\ fr.at \in (IF fr.f = "enum" THEN {"loop", "close"}
                   ELSE {"loop", "specs", "next", "declarator", "more"})
     /\ fr.at \in {"next", "declarator", "more"} => fr.base \in Refs(D)
  \/ /\ fr.f = "declarator"
     /\ DOMAIN fr = {"f", "at", "base", "quals", "name", "group"}
     /\ fr.at \in {"stars", "point", "group", "suffix", "patch"}
     /\ fr.base \in RefsOrNull(D) /\ fr.name \in Names /\ fr.group \in RefsOrNull(D)
  \/ /\ fr.f = "suffix"
     /\ DOMAIN fr = {"f", "at", "inner", "params", "variadic"}
     /\ fr.at \in {"loop", "close", "param", "specs", "declarator"}
     /\ fr.inner \in RefsOrNull(D)

\* The call a frame waits for: only a group is parsed on NULL.
Awaits(caller, callee) ==
  \/ caller.at = "tag" /\ callee.f \in {"members", "enum"}
  \/ caller.at = "specs" /\ callee.f = "specs"
  \/ caller.at = "declarator" /\ callee.f = "declarator" /\ callee.base # NULL
  \/ caller.at = "group" /\ callee.f = "declarator"
  \/ /\ caller.at \in {"suffix", "patch"} /\ callee.f = "suffix"
     /\ caller.base # NULL => callee.inner # NULL

\* What a frame on top of the stack finds in ret.
Answered(D, fr, r) ==
  /\ fr.at \in {"tag", "declarator"} => r.type \in Refs(D)
  /\ fr.at = "specs" => r.ds.base \in RefsOrNull(D)
  /\ fr.at \in {"declarator", "group"} => r.name \in Names
  /\ fr.at \in {"group", "suffix", "patch"} => r.type \in RefsOrNull(D)
  /\ fr.at \in {"suffix", "patch"} /\ fr.base # NULL => r.type # NULL

StackOK(D, st, r) ==
  /\ \E N : st \in Seq(N)
  /\ \A i \in DOMAIN st : FrameOK(D, st[i])
  /\ \A i \in 2 .. Len(st) : Awaits(st[i], st[i - 1])
  /\ st # << >> => Answered(D, Head(st), r)

NodeFields == {"k", "name", "sub", "qual", "n", "params"}
NodesOK(h) ==
  \A t \in DOMAIN h.nodes :
    DOMAIN h.nodes[t] = NodeFields /\ h.nodes[t].sub \in RefsOrNull(DOMAIN h.nodes)

\* TypeOK and what it rests on.
RefsInv ==
  /\ HeapInv(heap, changed) /\ NodesOK(heap)
  /\ program \in Programs
  /\ StackOK(DOMAIN heap.nodes, stack, ret)
  /\ TypeOK

-----------------------------------------------------------------------------
(* The stack *)

LEMMA RefsGrow ==
  ASSUME NEW D, NEW E, D \subseteq E
  PROVE  /\ Refs(D) \subseteq Refs(E) /\ RefsOrNull(D) \subseteq RefsOrNull(E)
         /\ \A fr : FrameOK(D, fr) => FrameOK(E, fr)
         /\ \A fr, r : Answered(D, fr, r) => Answered(E, fr, r)
<1>1. Refs(D) \subseteq Refs(E) /\ RefsOrNull(D) \subseteq RefsOrNull(E)
  BY DEF Refs, RefsOrNull
<1>2. ASSUME NEW fr, FrameOK(D, fr) PROVE FrameOK(E, fr)
  <2> HIDE DEF Refs, RefsOrNull
  <2>1. QED
    BY <1>1, <1>2 DEF FrameOK
<1>3. ASSUME NEW fr, NEW r, Answered(D, fr, r) PROVE Answered(E, fr, r)
  <2> HIDE DEF Refs, RefsOrNull
  <2>1. QED
    BY <1>1, <1>3 DEF Answered
<1>4. QED
  BY <1>1, <1>2, <1>3

\* Sequences with a new head.
LEMMA HeadReplaced ==
  ASSUME NEW N, NEW s \in Seq(N), s # << >>, NEW x
  PROVE  /\ <<x>> \o Tail(s) \in Seq(N \union {x}) /\ Len(<<x>> \o Tail(s)) = Len(s)
         /\ Len(s) \in Nat \ {0} /\ Head(s) = s[1]
         /\ Head(<<x>> \o Tail(s)) = x /\ (<<x>> \o Tail(s))[1] = x
         /\ \A i \in 2 .. Len(s) : (<<x>> \o Tail(s))[i] = s[i]
<1>1. Tail(s) \in Seq(N) /\ Len(Tail(s)) = Len(s) - 1 /\ Len(s) \in Nat \ {0} /\ Head(s) = s[1]
  OBVIOUS
<1>2. \A i \in 1 .. Len(s) - 1 : Tail(s)[i] = s[i + 1]
  OBVIOUS
<1> DEFINE t == Tail(s)
<1>3. t \in Seq(N \union {x}) /\ <<x>> \in Seq(N \union {x})
  BY <1>1
<1> HIDE DEF t
<1>4. /\ <<x>> \o t \in Seq(N \union {x}) /\ Len(<<x>> \o t) = 1 + Len(t)
      /\ (<<x>> \o t)[1] = x /\ \A i \in 2 .. Len(t) + 1 : (<<x>> \o t)[i] = t[i - 1]
  BY <1>3
<1>5. Head(<<x>> \o t) = x
  BY <1>3, <1>4
<1>6. QED
  BY <1>1, <1>2, <1>4, <1>5 DEF t

LEMMA BecomeOK ==
  ASSUME NEW D, NEW E, D \subseteq E, NEW st, NEW r, NEW fr, NEW r2,
         StackOK(D, st, r), st # << >>, FrameOK(E, fr),
         \A c : Awaits(c, Head(st)) => Awaits(c, fr),
         Answered(E, fr, r2)
  PROVE  StackOK(E, <<fr>> \o Tail(st), r2)
<1> DEFINE s2 == <<fr>> \o Tail(st)
<1>1. PICK N : st \in Seq(N)
  BY DEF StackOK
<1>2. /\ s2 \in Seq(N \union {fr}) /\ Len(s2) = Len(st) /\ Len(st) \in Nat \ {0}
      /\ Head(st) = st[1] /\ Head(s2) = fr /\ s2[1] = fr
      /\ \A i \in 2 .. Len(st) : s2[i] = st[i]
  BY <1>1, HeadReplaced
<1> HIDE DEF s2
<1>3. DOMAIN s2 = 1 .. Len(st) /\ DOMAIN st = 1 .. Len(st)
  BY <1>1, <1>2
<1>4. \A i \in DOMAIN s2 : FrameOK(E, s2[i])
  <2>1. \A x : FrameOK(D, x) => FrameOK(E, x)
    BY RefsGrow
  <2>2. \A i \in DOMAIN st : FrameOK(D, st[i])
    BY DEF StackOK
  <2>3. QED
    BY <1>2, <1>3, <2>1, <2>2
<1>5. \A i \in 2 .. Len(s2) : Awaits(s2[i], s2[i - 1])
  <2> SUFFICES ASSUME NEW i \in 2 .. Len(st) PROVE Awaits(s2[i], s2[i - 1])
    BY <1>2
  <2>1. Awaits(st[i], st[i - 1])
    BY DEF StackOK
  <2>2. CASE i = 2
    BY <1>2, <2>1, <2>2
  <2>3. CASE i # 2
    BY <1>2, <2>1, <2>3
  <2>4. QED
    BY <2>2, <2>3
<1>6. QED
  BY <1>2, <1>4, <1>5 DEF StackOK, s2

LEMMA CallOK ==
  ASSUME NEW D, NEW E, D \subseteq E, NEW st, NEW r, NEW fr, NEW callee, NEW r2,
         StackOK(D, st, r), st # << >>, FrameOK(E, fr), FrameOK(E, callee),
         \A c : Awaits(c, Head(st)) => Awaits(c, fr),
         Awaits(fr, callee), callee.at \in {"loop", "stars"}
  PROVE  StackOK(E, <<callee, fr>> \o Tail(st), r2)
<1> DEFINE s2 == <<callee, fr>> \o Tail(st)
           t == Tail(st)
<1>1. PICK N : st \in Seq(N)
  BY DEF StackOK
<1>2. /\ t \in Seq(N) /\ Len(t) = Len(st) - 1 /\ Len(st) \in Nat \ {0} /\ Head(st) = st[1]
      /\ \A i \in 1 .. Len(st) - 1 : t[i] = st[i + 1]
  BY <1>1
<1> HIDE DEF t
<1>3. /\ s2 \in Seq(N \union {fr, callee}) /\ Len(s2) = 2 + Len(t)
      /\ s2[1] = callee /\ s2[2] = fr
      /\ \A i \in 3 .. Len(s2) : s2[i] = t[i - 2]
  <2>1. t \in Seq(N \union {fr, callee}) /\ <<callee, fr>> \in Seq(N \union {fr, callee})
    BY <1>2
  <2>2. s2 = <<callee, fr>> \o t
    BY DEF t
  <2> HIDE DEF s2
  <2>3. QED
    BY <2>1, <2>2
<1> HIDE DEF s2
<1>4. Head(s2) = callee
  BY <1>2, <1>3
<1>5. DOMAIN s2 = 1 .. Len(st) + 1 /\ DOMAIN st = 1 .. Len(st)
  BY <1>1, <1>2, <1>3
<1>6. \A i \in 3 .. Len(st) + 1 : s2[i] = st[i - 1]
  BY <1>2, <1>3
<1>7. \A i \in DOMAIN s2 : FrameOK(E, s2[i])
  <2> SUFFICES ASSUME NEW i \in 3 .. Len(st) + 1 PROVE FrameOK(E, s2[i])
    BY <1>3, <1>5
  <2>1. FrameOK(D, st[i - 1])
    BY <1>2, <1>5 DEF StackOK
  <2>2. QED
    BY <1>6, <2>1, RefsGrow
<1>8. \A i \in 2 .. Len(s2) : Awaits(s2[i], s2[i - 1])
  <2> SUFFICES ASSUME NEW i \in 3 .. Len(st) + 1 PROVE Awaits(s2[i], s2[i - 1])
    BY <1>2, <1>3
  <2>1. Awaits(st[i - 1], st[i - 2])
    BY <1>2 DEF StackOK
  <2>2. CASE i = 3
    BY <1>2, <1>3, <1>6, <2>1, <2>2
  <2>3. CASE i # 3
    <3>1. s2[i - 1] = st[i - 2]
      BY <1>2, <1>6, <2>3
    <3>2. QED
      BY <1>6, <2>1, <3>1
  <2>4. QED
    BY <2>2, <2>3
<1>9. Answered(E, callee, r2)
  BY DEF Answered
<1>10. s2 # << >>
  BY <1>3, <1>2
<1>11. QED
  BY <1>3, <1>4, <1>7, <1>8, <1>9 DEF StackOK, s2

LEMMA ReturnOK ==
  ASSUME NEW D, NEW E, D \subseteq E, NEW st, NEW r, NEW r2,
         StackOK(D, st, r), st # << >>,
         \A c : Awaits(c, Head(st)) /\ FrameOK(E, c) => Answered(E, c, r2)
  PROVE  StackOK(E, Tail(st), r2)
<1> DEFINE t == Tail(st)
<1>1. PICK N : st \in Seq(N)
  BY DEF StackOK
<1>2. /\ t \in Seq(N) /\ Len(t) = Len(st) - 1 /\ Len(st) \in Nat \ {0} /\ Head(st) = st[1]
      /\ \A i \in 1 .. Len(st) - 1 : t[i] = st[i + 1]
      /\ DOMAIN t = 1 .. Len(st) - 1 /\ DOMAIN st = 1 .. Len(st)
  BY <1>1
<1> HIDE DEF t
<1>3. \A i \in DOMAIN t : FrameOK(E, t[i])
  <2>1. \A x : FrameOK(D, x) => FrameOK(E, x)
    BY RefsGrow
  <2>2. \A i \in DOMAIN st : FrameOK(D, st[i])
    BY DEF StackOK
  <2>3. QED
    BY <1>2, <2>1, <2>2
<1>4. \A i \in 2 .. Len(t) : Awaits(t[i], t[i - 1])
  BY <1>2 DEF StackOK
<1>5. ASSUME t # << >> PROVE Answered(E, Head(t), r2)
  <2>1. Len(st) >= 2 /\ Head(t) = st[2] /\ Head(t) = t[1] /\ 1 \in DOMAIN t
    BY <1>2, <1>5
  <2>2. Awaits(st[2], st[2 - 1])
    BY <1>2, <2>1 DEF StackOK
  <2>3. QED
    BY <1>2, <1>3, <2>1, <2>2
<1>6. QED
  BY <1>2, <1>3, <1>4, <1>5 DEF StackOK, t


-----------------------------------------------------------------------------
(* The type table *)

\* Nothing is taken away, and a tag's node stays what it is.
Grows(h, g) ==
  /\ DOMAIN h.nodes \subseteq DOMAIN g.nodes
  /\ \A t \in DOMAIN h.nodes : g.nodes[t].k = h.nodes[t].k

\* What a constructor gives: a table that has grown, and a type of it.
Gives(h, m) ==
  NodesOK(m.heap) /\ Grows(h, m.heap) /\ m.type \in Refs(DOMAIN m.heap.nodes)

LEMMA AppendedNodes ==
  ASSUME NEW h, IsHeap(h), NodesOK(h),
         NEW node, DOMAIN node = NodeFields, node.sub \in RefsOrNull(DOMAIN h.nodes),
         NEW g, g.nodes = Append(h.nodes, node)
  PROVE  /\ NodesOK(g) /\ Grows(h, g)
         /\ Len(h.nodes) + 1 \in DOMAIN g.nodes /\ g.nodes[Len(h.nodes) + 1] = node
<1>1. PICK N : h.nodes \in Seq(N)
  BY DEF IsHeap
<1> DEFINE new == Len(h.nodes) + 1
<1>2. h.nodes \in Seq(N \union {node}) /\ Len(h.nodes) \in Nat
  BY <1>1
<1>3. /\ DOMAIN g.nodes = DOMAIN h.nodes \union {new} /\ new \in DOMAIN g.nodes
      /\ g.nodes[new] = node /\ \A t \in DOMAIN h.nodes : g.nodes[t] = h.nodes[t]
  BY <1>2
<1>4. RefsOrNull(DOMAIN h.nodes) \subseteq RefsOrNull(DOMAIN g.nodes)
  BY <1>3 DEF Refs, RefsOrNull
<1> HIDE DEF new
<1>5. NodesOK(g)
  BY <1>3, <1>4 DEF NodesOK
<1>6. QED
  BY <1>3, <1>5 DEF Grows, new

LEMMA AllocateGives ==
  ASSUME NEW h, IsHeap(h), NodesOK(h),
         NEW node, DOMAIN node = NodeFields, node.sub \in RefsOrNull(DOMAIN h.nodes)
  PROVE  LET m == Allocate(h, node)
         IN Gives(h, m) /\ m.type \in DOMAIN m.heap.nodes /\ m.heap.nodes[m.type].k = node.k
<1> DEFINE m == Allocate(h, node)
<1>1. m.heap.nodes = Append(h.nodes, node) /\ m.type = Len(h.nodes) + 1
  BY DEF Allocate, Made, IsHeap
<1> HIDE DEF m
<1>2. /\ NodesOK(m.heap) /\ Grows(h, m.heap)
      /\ m.type \in DOMAIN m.heap.nodes /\ m.heap.nodes[m.type] = node
  BY <1>1, AppendedNodes
<1>3. QED
  BY <1>2 DEF Gives, Refs, m

\* ptr_hash gives a bucket of the table.
HashesToSlots == \A p, extra : Hash(p, extra) \in Slots

LEMMA InternGives ==
  ASSUME HashesToSlots, NEW h, IsHeap(h), NodesOK(h), NEW extra,
         NEW node, DOMAIN node = NodeFields, node.sub \in RefsOrNull(DOMAIN h.nodes)
  PROVE  Gives(h, Intern(h, extra, node))
<1> DEFINE slot == Hash(node.sub, extra)
           hits == Hits(h, slot, node)
           m == Intern(h, extra, node)
<1>1. CASE hits # {}
  <2> DEFINE i == CHOOSE i \in hits : \A j \in hits : i <= j
  <2>1. h.buckets[slot] \in Seq(Nat) /\ hits \in SUBSET Nat
    BY DEF HashesToSlots, IsHeap, Hits
  <2>2. \E k \in hits : \A j \in hits : k <= j
    <3> HIDE DEF hits
    <3>1. QED
      BY <1>1, <2>1, SmallestNumber
  <2>3. i \in hits
    <3> HIDE DEF hits
    <3>1. QED
      BY <2>2
  <2>4. m.heap = h /\ m.type = h.buckets[slot][i]
    BY <1>1 DEF Intern, Made
  <2>5. h.buckets[slot][i] \in DOMAIN h.nodes
    BY <2>3 DEF HashesToSlots, IsHeap, Hits
  <2> HIDE DEF m, i
  <2>6. QED
    BY <2>4, <2>5 DEF Gives, Grows, Refs, m
<1>2. CASE hits = {}
  <2>1. m.heap.nodes = Append(h.nodes, node) /\ m.type = Len(h.nodes) + 1
    BY <1>2 DEF Intern, Made
  <2> HIDE DEF m
  <2>2. NodesOK(m.heap) /\ Grows(h, m.heap) /\ m.type \in DOMAIN m.heap.nodes
    BY <2>1, AppendedNodes
  <2>3. QED
    BY <2>2 DEF Gives, Refs, m
<1>3. QED
  BY <1>1, <1>2

LEMMA NodeFacts ==
  ASSUME NEW k, NEW name, NEW sub, NEW qual, NEW n, NEW params
  PROVE  LET node == Node(k, name, sub, qual, n, params)
         IN DOMAIN node = NodeFields /\ node.sub = sub /\ node.k = k
  BY DEF Node, NodeFields

\* The constructors, on a type that exists or on NULL.
LEMMA ConstructorsGive ==
  ASSUME HashesToSlots, NEW h, IsHeap(h), NodesOK(h),
         NEW t \in RefsOrNull(DOMAIN h.nodes), NEW q, NEW params, NEW variadic
  PROVE  /\ Gives(h, type_pointer(h, t, q))
         /\ Gives(h, type_array(h, t, q))
         /\ Gives(h, type_array_unsized(h, t))
         /\ Gives(h, type_func(h, t, params, variadic))
<1>1. \A k, name, q2, n, p, extra : Gives(h, Intern(h, extra, Node(k, name, t, q2, n, p)))
  <2> SUFFICES ASSUME NEW k, NEW name, NEW q2, NEW n, NEW p, NEW extra
               PROVE  Gives(h, Intern(h, extra, Node(k, name, t, q2, n, p)))
    OBVIOUS
  <2> DEFINE node == Node(k, name, t, q2, n, p)
  <2>1. DOMAIN node = NodeFields /\ node.sub = t
    BY NodeFacts
  <2> HIDE DEF node
  <2>2. Gives(h, Intern(h, extra, node))
    BY <2>1, InternGives
  <2>3. QED
    BY <2>2 DEF node
<1>2. QED
  BY <1>1 DEF type_pointer, type_array, type_array_unsized, type_func

LEMMA SameGives ==
  ASSUME NEW h, NodesOK(h), NEW t \in Refs(DOMAIN h.nodes)
  PROVE  Gives(h, Made(h, t))
  BY DEF Gives, Made, Grows

LEMMA QualifyGives ==
  ASSUME NEW h, IsHeap(h), NodesOK(h), NEW t \in Refs(DOMAIN h.nodes), NEW q
  PROVE  Gives(h, type_qualify(h, t, q))
<1> DEFINE node == [At(h, t) EXCEPT !.qual = With(@, q)]
<1>1. DOMAIN At(h, t) = NodeFields /\ At(h, t).sub \in RefsOrNull(DOMAIN h.nodes)
  <2>1. CASE t < 0
    BY <2>1, NodeFacts DEF At, RefsOrNull
  <2>2. CASE ~(t < 0)
    <3>1. t \in DOMAIN h.nodes
      BY <2>2 DEF Refs, ScalarNames
    <3>2. QED
      BY <2>2, <3>1 DEF At, NodesOK
  <2>3. QED
    BY <2>1, <2>2
<1>2. DOMAIN node = NodeFields /\ node.sub = At(h, t).sub
  BY <1>1 DEF NodeFields
<1> HIDE DEF node
<1>3. Gives(h, Allocate(h, node)) /\ Gives(h, Made(h, t))
  BY <1>1, <1>2, AllocateGives, SameGives
<1>4. QED
  BY <1>3 DEF type_qualify, node

\* A node is changed in place: its kind and the references in it stay good.
LEMMA InPlaceGives ==
  ASSUME NEW h, IsHeap(h), NodesOK(h), NEW t \in DOMAIN h.nodes,
         NEW sub \in RefsOrNull(DOMAIN h.nodes), NEW members
  PROVE  /\ NodesOK(Patch(h, t, sub)) /\ Grows(h, Patch(h, t, sub))
         /\ NodesOK(Complete(h, t, members)) /\ Grows(h, Complete(h, t, members))
  BY DEF NodesOK, Grows, Patch, Complete, NodeFields

\* A specifier list stands for a type.
LEMMA resolve_type_specFacts ==
  ASSUME NEW D, NEW ds, ds.base \in RefsOrNull(D)
  PROVE  resolve_type_spec(ds) \in Refs(D)
<1>1. CASE ds.base # NULL
  BY <1>1 DEF resolve_type_spec, RefsOrNull
<1>2. CASE ds.base = NULL
  <2> DEFINE fits == {i \in DOMAIN SpecTable : SpecTable[i][1] \subseteq ds.flags}
             i == CHOOSE i \in fits : \A j \in fits : i <= j
  <2>1. DOMAIN SpecTable = 1 .. 17 /\ SpecTable[17][1] = {}
    BY DEF SpecTable
  <2>2. fits \in SUBSET (1 .. 17) /\ 17 \in fits
    BY <2>1
  <2>3. i \in fits
    <3> HIDE DEF fits
    <3>1. \E k \in fits : \A j \in fits : k <= j
      BY <2>2, SmallestNumber
    <3>2. QED
      BY <3>1
  <2>4. resolve_type_spec(ds) = Scalar(SpecTable[i][2])
    BY <1>2 DEF resolve_type_spec
  <2>5. i \in 1 .. 17
    BY <2>2, <2>3
  <2> HIDE DEF i
  <2>6. \E n \in 1 .. 16 : ScalarNames[n] = SpecTable[i][2]
    BY <2>5 DEF ScalarNames, SpecTable
  <2>7. DOMAIN ScalarNames = 1 .. 16 /\ Len(ScalarNames) = 16
    BY DEF ScalarNames
  <2>8. Scalar(SpecTable[i][2]) \in -16 .. -1
    <3> HIDE DEF ScalarNames, SpecTable
    <3>1. QED
      BY <2>6, <2>7 DEF Scalar
  <2>9. QED
    BY <2>4, <2>7, <2>8 DEF Refs
<1>3. QED
  BY <1>1, <1>2

LEMMA BaseGives ==
  ASSUME NEW ds, IsHeap(heap), NodesOK(heap), ds.base \in RefsOrNull(DOMAIN heap.nodes)
  PROVE  Gives(heap, Base(ds))
<1>1. resolve_type_spec(ds) \in Refs(DOMAIN heap.nodes)
  BY resolve_type_specFacts
<1>2. QED
  BY <1>1, SameGives, QualifyGives DEF Base

-----------------------------------------------------------------------------
(* The steps: what they do to the input, the type table and the names *)

Inside(p) == p \in 1 .. Len(program.tokens) + 1

LEMMA PositionFacts ==
  ASSUME program \in Programs, Inside(pos)
  PROVE  /\ Len(program.tokens) \in Nat
         /\ \A i : TokenAt(i) # "EOF" => i <= Len(program.tokens)
         /\ tok # "EOF" => Inside(pos + 1)
         /\ tok # "EOF" /\ TokenAt(pos + 1) # "EOF" => Inside(pos + 2)
         /\ tok # "EOF" /\ TokenAt(pos + 1) # "EOF" /\ TokenAt(pos + 2) # "EOF" => Inside(pos + 3)
<1>1. program.tokens \in Seq(STRING)
  BY InputAssumption
<1>2. Len(program.tokens) \in Nat
  BY <1>1
<1>3. QED
  BY <1>2 DEF Inside, TokenAt, tok

LEMMA PositionStep ==
  ASSUME program \in Programs, Inside(pos), errors \in BOOLEAN, [Next]_vars
  PROVE  program' = program /\ Inside(pos') /\ errors' \in BOOLEAN
<1>1. CASE UNCHANGED vars
  BY <1>1 DEF vars, parse_vars
<1>8. pos \in Int
  BY DEF Inside
<1>9. pos + 0 = pos
  BY <1>8
<1>0. /\ "EOF" \notin Idents /\ "EOF" \notin StorageTokens /\ "EOF" \notin QualTokens
      /\ "EOF" \notin SpecTokens /\ "EOF" \notin TagTokens /\ "EOF" \notin WidthTokens
      /\ "EOF" \notin ValueTokens /\ "EOF" \notin ArrayTokens
  BY InputAssumption DEF StorageTokens, QualTokens, SpecTokens, TagTokens, WidthTokens, ValueTokens,
     ArrayTokens
<1>6. ASSUME NEW t, expect(t) PROVE Inside(pos') /\ errors' \in BOOLEAN
  BY <1>6, PositionFacts DEF expect, Report
<1>2. CASE ReadSpecs
  <2>1. CASE SpecTag
    <3>1. program' = program /\ errors' = errors /\ tok # "EOF"
      BY <2>1 DEF SpecTag, TagTokens
    <3> DEFINE tagged == TokenAt(pos + 1) \in Idents
               after == IF tagged THEN pos + 2 ELSE pos + 1
    <3>2. (pos' = after + 1 /\ TokenAt(after) = "{") \/ pos' = after
      BY <2>1 DEF SpecTag
    <3>3. Inside(after) /\ (TokenAt(after) = "{" => Inside(after + 1))
      <4>1. CASE tagged
        <5>1. TokenAt(pos + 1) # "EOF"
          BY <1>0, <4>1
        <5>2. Inside(pos + 2) /\ (TokenAt(pos + 2) # "EOF" => Inside(pos + 3))
          BY <3>1, <5>1, PositionFacts
        <5>3. pos + 2 + 1 = pos + 3
          BY DEF Inside
        <5>4. QED
          BY <4>1, <5>2, <5>3
      <4>2. CASE ~tagged
        <5>2. Inside(pos + 1) /\ (TokenAt(pos + 1) # "EOF" => Inside(pos + 2))
          BY <3>1, PositionFacts
        <5>3. pos + 1 + 1 = pos + 2
          BY DEF Inside
        <5>4. QED
          BY <4>2, <5>2, <5>3
      <4>3. QED
        BY <4>1, <4>2
    <3>4. QED
      BY <3>1, <3>2, <3>3
  <2>2. CASE SpecTagged \/ SpecsDone
    BY <2>2 DEF SpecTagged, SpecsDone, OnlyParsing
  <2>3. CASE ReadSpecs /\ ~SpecTag /\ ~SpecTagged /\ ~SpecsDone
    <3>1. /\ pos' = pos + 1 /\ program' = program /\ errors' \in BOOLEAN
      BY <2>3 DEF ReadSpecs, SpecStorage, SpecQual, SpecWhole, SpecPart, SpecLong,
       SpecTypedefName, SpecDuplicateTag, Specifier, Skip, Report, OnlyParsing
    <3>2. tok # "EOF"
      BY <2>3, <1>0 DEF ReadSpecs, SpecStorage, SpecQual, SpecWhole, SpecPart, SpecLong,
       SpecTypedefName, SpecDuplicateTag, is_typedef_name
    <3>3. QED
      BY <3>1, <3>2, PositionFacts
  <2>4. QED
    BY <1>2, <2>1, <2>2, <2>3
<1>3. CASE ReadBody
  <2>1. CASE Member \/ MemberDeclarator
    BY <2>1 DEF Member, MemberDeclarator, OnlyParsing
  <2>2. CASE MemberSpecs
    BY <2>2 DEF MemberSpecs, Report
  <2>3. CASE MemberUnnamed
    BY <2>3, <1>6 DEF MemberUnnamed, OnlyParsing
  <2>4. CASE MemberDone
    <3>1. /\ program' = program /\ errors' \in BOOLEAN
          /\ (pos' = pos + 1 /\ tok # "EOF") \/ pos' = pos + 0
      BY <2>4, <1>0 DEF MemberDone, Skip, Report, OnlyParsing
    <3>2. QED
      BY <3>1, <1>9, PositionFacts
  <2>5. CASE MemberMore
    <3>1. CASE tok = ","
      BY <2>5, <3>1, PositionFacts DEF MemberMore, Skip, Report, OnlyParsing
    <3>2. CASE tok # ","
      BY <2>5, <3>2, <1>6 DEF MemberMore, OnlyParsing
    <3>3. QED
      BY <3>1, <3>2
  <2>6. CASE Enumerator
    <3> DEFINE given == TokenAt(pos + 1) \in ValueTokens
               then == TokenAt(IF given THEN pos + 2 ELSE pos + 1)
    <3>1. /\ program' = program /\ errors' = errors /\ tok # "EOF"
          /\ pos' = pos + (IF given THEN 2 ELSE 1) + (IF then = "," THEN 1 ELSE 0)
      BY <2>6, <1>0 DEF Enumerator
    <3>2. CASE given
      <4>1. TokenAt(pos + 1) # "EOF"
        BY <1>0, <3>2
      <4>2. Inside(pos + 2) /\ (TokenAt(pos + 2) # "EOF" => Inside(pos + 3))
        BY <3>1, <4>1, PositionFacts
      <4>3. pos' = pos + 2 + 0 \/ (then # "EOF" /\ pos' = pos + 2 + 1)
        BY <3>1, <3>2, Zenon
      <4>5. pos + 2 + 0 = pos + 2 /\ pos + 2 + 1 = pos + 3
        BY <1>8
      <4>6. then = TokenAt(pos + 2)
        BY <3>2, Zenon
      <4> HIDE DEF given, then
      <4>7. Inside(pos') \/ (then # "EOF" /\ pos' = pos + 3)
        BY <4>2, <4>3, <4>5
      <4>4. QED
        BY <3>1, <4>2, <4>6, <4>7
    <3>3. CASE ~given
      <4>2. Inside(pos + 1) /\ (TokenAt(pos + 1) # "EOF" => Inside(pos + 2))
        BY <3>1, PositionFacts
      <4>3. pos' = pos + 1 + 0 \/ (then # "EOF" /\ pos' = pos + 1 + 1)
        BY <3>1, <3>3, Zenon
      <4>5. pos + 1 + 0 = pos + 1 /\ pos + 1 + 1 = pos + 2
        BY <1>8
      <4>6. then = TokenAt(pos + 1)
        BY <3>3, Zenon
      <4> HIDE DEF given, then
      <4>7. Inside(pos') \/ (then # "EOF" /\ pos' = pos + 2)
        BY <4>2, <4>3, <4>5
      <4>4. QED
        BY <3>1, <4>2, <4>6, <4>7
    <3>4. QED
      BY <3>2, <3>3
  <2>7. CASE NotAnEnumerator
    BY <2>7, PositionFacts DEF NotAnEnumerator, Skip, Report, OnlyParsing
  <2>8. CASE BodyDone
    BY <2>8, <1>6 DEF BodyDone
  <2>9. QED
    BY <1>3, <2>1, <2>2, <2>3, <2>4, <2>5, <2>6, <2>7, <2>8 DEF ReadBody
<1>4. CASE ReadDeclarator
  <2>1. CASE StarsDone \/ Point \/ PatchGroup \/ DirectDone \/ Param \/ SuffixDone
    BY <2>1 DEF StarsDone, Point, PatchGroup, DirectDone, Param, SuffixDone, OnlyParsing
  <2>2. CASE Star \/ StarQual \/ Group \/ SuffixArray \/ SuffixFunction \/ Ellipsis
    <3>1. program' = program /\ errors' \in BOOLEAN /\ pos' = pos + 1
      BY <2>2 DEF Star, StarQual, Group, SuffixArray, SuffixFunction, Ellipsis, Skip, Report,
         OnlyParsing
    <3>2. tok # "EOF"
      BY <2>2, <1>0 DEF Star, StarQual, Group, SuffixArray, SuffixFunction, Ellipsis
    <3>3. QED
      BY <3>1, <3>2, PositionFacts
  <2>3. CASE Direct \/ ParamDone
    <3>1. program' = program /\ errors' \in BOOLEAN
      BY <2>3 DEF Direct, ParamDone, Skip, Report, OnlyParsing
    <3>2. (pos' = pos + 1 /\ tok # "EOF") \/ pos' = pos + 0
      BY <2>3, <1>0 DEF Direct, ParamDone, Skip
    <3>3. QED
      BY <3>1, <3>2, PositionFacts DEF Inside
  <2>4. CASE GroupDone \/ FunctionDone
    BY <2>4, <1>6 DEF GroupDone, FunctionDone, OnlyParsing
  <2>5. CASE ParamSpecs
    BY <2>5 DEF ParamSpecs, Report
  <2>6. QED
    BY <1>4, <2>1, <2>2, <2>3, <2>4, <2>5 DEF ReadDeclarator
<1>5. CASE ReadList
  <2>1. CASE TopDeclaration \/ ListDeclared
    BY <2>1 DEF TopDeclaration, ListDeclared, OnlyParsing
  <2>2. CASE TopSkip \/ ListMore
    BY <2>2, PositionFacts DEF TopSkip, ListMore, Skip, Report, OnlyParsing
  <2>3. CASE ListBase
    <3>1. program' = program /\ errors' \in BOOLEAN /\ ((pos' = pos + 1 /\ tok = ";") \/ pos' = pos)
      BY <2>3 DEF ListBase, Skip, Report
    <3>2. QED
      BY <3>1, PositionFacts
  <2>4. CASE ListUnnamed
    <3>1. program' = program /\ errors' \in BOOLEAN /\ ((pos' = pos + 1 /\ tok = ",") \/ pos' = pos + 0)
      BY <2>4 DEF ListUnnamed, Skip, Report, OnlyParsing
    <3>3. tok # "EOF" \/ pos' = pos
      BY <3>1, <1>9, Zenon
    <3>2. QED
      BY <3>1, <3>3, <1>9, PositionFacts
  <2>5. CASE ListEnd
    BY <2>5, <1>6 DEF ListEnd, OnlyParsing
  <2>6. QED
    BY <1>5, <2>1, <2>2, <2>3, <2>4, <2>5 DEF ReadList
<1>7. QED
  BY <1>1, <1>2, <1>3, <1>4, <1>5, Zenon DEF Next

LEMMA TopFacts ==
  ASSUME NEW D, StackOK(D, stack, ret), stack # << >>
  PROVE  FrameOK(D, top) /\ Answered(D, top, ret)
<1>1. PICK N : stack \in Seq(N)
  BY DEF StackOK
<1>2. top = stack[1] /\ 1 \in DOMAIN stack
  BY <1>1 DEF top
<1>3. QED
  BY <1>2 DEF StackOK, top

LEMMA HeapFacts ==
  ASSUME NEW h, IsHeap(h)
  PROVE  /\ DOMAIN h.nodes \subseteq Nat \ {0}
         /\ NULL \notin Refs(DOMAIN h.nodes) /\ RefsOrNull(DOMAIN h.nodes) \subseteq Int
         /\ \A t \in Refs(DOMAIN h.nodes) : t < 0 \/ t \in DOMAIN h.nodes
<1>1. PICK N : h.nodes \in Seq(N)
  BY DEF IsHeap
<1>2. DOMAIN h.nodes = 1 .. Len(h.nodes) /\ Len(h.nodes) \in Nat /\ Len(ScalarNames) \in Nat
  BY <1>1 DEF ScalarNames
<1>3. QED
  BY <1>2 DEF Refs, RefsOrNull, NULL

\* The tags stand for nodes of their kind.
TagsOK(h, g) ==
  /\ DOMAIN g \subseteq Idents
  /\ \A x \in DOMAIN g :
       g[x] \in DOMAIN h.nodes /\ h.nodes[g[x]].k \in TagTokens \union {"enum"}

\* A tag's type, found or made.
LEMMA SpecTagGives ==
  ASSUME IsHeap(heap), NodesOK(heap), TagsOK(heap, tags), SpecTag
  PROVE  \E m : /\ heap' = m.heap /\ Gives(heap, m) /\ m.type \in DOMAIN heap'.nodes
                /\ TagsOK(heap', tags')
                /\ \/ /\ stack' = <<[top EXCEPT !.at = "tag"]>> \o Tail(stack)
                      /\ ret' = Result(m.type, "")
                   \/ \E k \in {"enum", "members"} :
                        Call([top EXCEPT !.at = "tag"], Body(m.type, k))
<1> DEFINE tagged == TokenAt(pos + 1) \in Idents
           tag == IF tagged THEN TokenAt(pos + 1) ELSE ""
           known == tagged /\ tag \in DOMAIN tags /\ heap.nodes[tags[tag]].k = tok
           m == IF known THEN Made(heap, tags[tag]) ELSE NewTagged(heap, tok, tag)
<1>1. /\ heap' = m.heap
      /\ tags' = IF tagged
                 THEN [x \in DOMAIN tags \union {tag} |-> IF x = tag THEN m.type ELSE tags[x]]
                 ELSE tags
      /\ \/ /\ stack' = <<[top EXCEPT !.at = "tag"]>> \o Tail(stack)
            /\ ret' = Result(m.type, "")
         \/ Call([top EXCEPT !.at = "tag"], Body(m.type, "enum"))
         \/ Call([top EXCEPT !.at = "tag"], Body(m.type, "members"))
  BY DEF SpecTag
<1>2. tok \in TagTokens \union {"enum"} /\ (tagged => tag \in Idents)
  BY DEF SpecTag
<1>3. /\ Gives(heap, m) /\ m.type \in DOMAIN m.heap.nodes
      /\ m.heap.nodes[m.type].k \in TagTokens \union {"enum"}
  <2>1. CASE known
    <3>1. tags[tag] \in DOMAIN heap.nodes /\ heap.nodes[tags[tag]].k \in TagTokens \union {"enum"}
      BY <2>1 DEF TagsOK
    <3>2. m = Made(heap, tags[tag])
      BY <2>1
    <3> HIDE DEF m, tag
    <3>3. Gives(heap, m)
      BY <3>1, <3>2, SameGives DEF Refs
    <3>4. QED
      BY <3>1, <3>2, <3>3 DEF Made
  <2>2. CASE ~known
    <3> DEFINE node == Node(tok, tag, NULL, 0, -1, << >>)
    <3>1. m = Allocate(heap, node)
      BY <2>2 DEF NewTagged
    <3>2. DOMAIN node = NodeFields /\ node.sub = NULL /\ node.k = tok
      BY DEF Node, NodeFields
    <3> HIDE DEF m, node
    <3>3. node.sub \in RefsOrNull(DOMAIN heap.nodes)
      BY <3>2 DEF RefsOrNull
    <3>4. Gives(heap, m) /\ m.type \in DOMAIN m.heap.nodes /\ m.heap.nodes[m.type].k = node.k
      BY <3>1, <3>2, <3>3, AllocateGives
    <3>5. QED
      BY <1>2, <3>2, <3>4
  <2>3. QED
    BY <2>1, <2>2
<1>4. TagsOK(heap', tags')
  <2> HIDE DEF m, tagged, tag
  <2>1. \A x \in DOMAIN tags :
          tags[x] \in DOMAIN heap'.nodes /\ heap'.nodes[tags[x]].k \in TagTokens \union {"enum"}
    BY <1>1, <1>3 DEF Gives, Grows, TagsOK
  <2>2. m.type \in DOMAIN heap'.nodes /\ heap'.nodes[m.type].k \in TagTokens \union {"enum"}
    BY <1>1, <1>3
  <2>3. DOMAIN tags \subseteq Idents
    BY DEF TagsOK
  <2>4. CASE tagged
    <3>1. tags' = [x \in DOMAIN tags \union {tag} |-> IF x = tag THEN m.type ELSE tags[x]]
      BY <1>1, <2>4
    <3>2. QED
      BY <1>2, <2>1, <2>2, <2>3, <2>4, <3>1 DEF TagsOK
  <2>5. CASE ~tagged
    BY <1>1, <2>1, <2>3, <2>5 DEF TagsOK
  <2>6. QED
    BY <2>4, <2>5
<1> HIDE DEF m
<1>5. QED
  BY <1>1, <1>3, <1>4

LEMMA HeapStep ==
  ASSUME HashesToSlots, IsHeap(heap), NodesOK(heap), TagsOK(heap, tags),
         StackOK(DOMAIN heap.nodes, stack, ret), [Next]_vars
  PROVE  NodesOK(heap') /\ Grows(heap, heap')
<1> DEFINE D == DOMAIN heap.nodes
<1>1. CASE UNCHANGED heap
  BY <1>1 DEF NodesOK, Grows
<1>2. CASE SpecTag
  BY <1>2, SpecTagGives DEF Gives
<1>3. CASE MemberSpecs \/ ParamSpecs \/ ListBase
  <2>1. heap' = Base(ret.ds).heap /\ stack # << >> /\ top.at = "specs"
    BY <1>3 DEF MemberSpecs, ParamSpecs, ListBase, In
  <2>2. ret.ds.base \in RefsOrNull(D)
    BY <2>1, TopFacts DEF Answered
  <2>3. QED
    BY <2>1, <2>2, BaseGives DEF Gives
<1>4. CASE Point
  <2>1. stack # << >> /\ top.f = "declarator" /\ heap' = type_pointer(heap, top.base, top.quals[Len(top.quals)]).heap
    BY <1>4 DEF Point, In
  <2>2. top.base \in RefsOrNull(D)
    BY <2>1, TopFacts DEF FrameOK
  <2>3. Gives(heap, type_pointer(heap, top.base, top.quals[Len(top.quals)]))
    BY <2>2, ConstructorsGive
  <2>4. QED
    BY <2>1, <2>3 DEF Gives
<1>5. CASE SuffixArray \/ FunctionDone
  <2>1. stack # << >> /\ top.f = "suffix"
    BY <1>5 DEF SuffixArray, FunctionDone, In
  <2>2. top.inner \in RefsOrNull(D)
    BY <2>1, TopFacts DEF FrameOK
  <2>3. \/ heap' = type_array_unsized(heap, top.inner).heap
        \/ heap' = type_array(heap, top.inner, NumberOf[tok]).heap
        \/ heap' = type_func(heap, top.inner, Params(top.params), top.variadic).heap
    BY <1>5 DEF SuffixArray, FunctionDone
  <2>4. /\ Gives(heap, type_array_unsized(heap, top.inner))
        /\ Gives(heap, type_array(heap, top.inner, NumberOf[tok]))
        /\ Gives(heap, type_func(heap, top.inner, Params(top.params), top.variadic))
    BY <2>2, ConstructorsGive
  <2>5. QED
    BY <2>3, <2>4 DEF Gives
<1>6. CASE BodyDone
  <2>1. stack # << >> /\ top.f \in {"members", "enum"} /\ heap' = Complete(heap, top.type, top.members)
    BY <1>6 DEF BodyDone, Completed, In
  <2>2. top.type \in D
    BY <2>1, TopFacts DEF FrameOK
  <2>3. NULL \in RefsOrNull(D)
    BY DEF RefsOrNull
  <2>4. QED
    BY <2>1, <2>2, <2>3, InPlaceGives
<1>7. CASE PatchGroup
  <2>1. stack # << >> /\ top.f = "declarator" /\ top.at = "patch"
    BY <1>7 DEF PatchGroup, In
  <2>2. top.group \in RefsOrNull(D) /\ ret.type \in RefsOrNull(D)
    BY <2>1, TopFacts DEF FrameOK, Answered
  <2>3. CASE top.group # NULL /\ Open(top.group)
    <3>1. heap' = Patch(heap, top.group, ret.type)
      BY <1>7, <2>3 DEF PatchGroup
    <3>2. top.group \in D
      <4>1. top.group < 0 => At(heap, top.group).k = "scalar"
        BY DEF At, Node
      <4>2. top.group \in Refs(D)
        BY <2>2, <2>3 DEF RefsOrNull
      <4>3. QED
        BY <2>3, <4>1, <4>2, HeapFacts DEF Open
    <3>3. QED
      BY <2>2, <3>1, <3>2, InPlaceGives
  <2>4. QED
    BY <1>1, <1>7, <2>3 DEF PatchGroup
<1>9. QED
  <2>1. CASE UNCHANGED vars
    BY <2>1, <1>1 DEF vars
  <2>2. CASE ReadSpecs
    BY <2>2, <1>1, <1>2 DEF ReadSpecs, SpecStorage, SpecQual, SpecWhole, SpecPart, SpecLong,
       SpecTypedefName, SpecDuplicateTag, SpecTagged, SpecsDone, Specifier, OnlyParsing
  <2>3. CASE ReadBody
    BY <2>3, <1>1, <1>3, <1>6 DEF ReadBody, Member, MemberUnnamed, MemberDeclarator, MemberDone,
       MemberMore, Enumerator, NotAnEnumerator, OnlyParsing
  <2>4. CASE ReadDeclarator
    BY <2>4, <1>1, <1>3, <1>4, <1>5, <1>7 DEF ReadDeclarator, Star, StarQual, StarsDone,
       Group, GroupDone, Direct, DirectDone, SuffixFunction, Ellipsis, Param, ParamDone,
       SuffixDone, OnlyParsing
  <2>5. CASE ReadList
    BY <2>5, <1>1, <1>3 DEF ReadList, TopDeclaration, TopSkip, ListDeclared, ListUnnamed,
       ListMore, ListEnd, OnlyParsing
  <2>6. QED
    BY <2>1, <2>2, <2>3, <2>4, <2>5 DEF Next

\* What a symbol is, over the nodes D.
SymbolsOver(D, kinds) == [name : Idents, kind : kinds, type : Refs(D)]
AnyKind == {"typedef", "var", "enum"}

LEMMA SymbolFacts ==
  ASSUME NEW D, scope \in Seq(SymbolsOver(D, AnyKind)), NEW x, SymbolsOf(x) # {}
  PROVE  symbol(x).type \in Refs(D)
<1> DEFINE Newest == {i \in SymbolsOf(x) : \A j \in SymbolsOf(x) : j <= i}
           Older == {Len(scope) - i : i \in SymbolsOf(x)}
<1>1. Len(scope) \in Nat /\ DOMAIN scope = 1 .. Len(scope)
  OBVIOUS
<1>2. SymbolsOf(x) \subseteq 1 .. Len(scope)
  BY <1>1 DEF SymbolsOf
<1>3. Older \in SUBSET Nat /\ Older # {}
  BY <1>1, <1>2
<1>4. PICK d \in Older : \A y \in Older : d <= y
  <2> HIDE DEF Older
  <2>1. QED
    BY <1>3, SmallestNumber
<1>5. PICK i \in SymbolsOf(x) : d = Len(scope) - i
  BY <1>4
<1>6. ASSUME NEW j \in SymbolsOf(x) PROVE j <= i
  <2>1. d <= Len(scope) - j
    BY <1>4
  <2>2. i \in Int /\ j \in Int
    BY <1>1, <1>2
  <2>3. QED
    BY <1>1, <1>5, <2>1, <2>2
<1>7. (CHOOSE k \in SymbolsOf(x) : \A j \in SymbolsOf(x) : j <= k) \in 1 .. Len(scope)
  BY <1>2, <1>5, <1>6
<1>8. \A k \in 1 .. Len(scope) : scope[k] \in SymbolsOver(D, AnyKind)
  BY <1>1
<1>9. symbol(x) \in SymbolsOver(D, AnyKind)
  BY <1>7, <1>8 DEF symbol
<1>10. QED
  BY <1>9 DEF SymbolsOver

LEMMA BecomeStep ==
  ASSUME NEW D, NEW E, D \subseteq E, StackOK(D, stack, ret), stack # << >>,
         NEW fr, Become(fr), FrameOK(E, fr),
         \A c : Awaits(c, top) => Awaits(c, fr), Answered(E, fr, ret)
  PROVE  StackOK(E, stack', ret')
  BY BecomeOK DEF Become, top

LEMMA CallStep ==
  ASSUME NEW D, NEW E, D \subseteq E, StackOK(D, stack, ret), stack # << >>,
         NEW fr, NEW callee, Call(fr, callee), FrameOK(E, fr), FrameOK(E, callee),
         \A c : Awaits(c, top) => Awaits(c, fr),
         Awaits(fr, callee), callee.at \in {"loop", "stars"}
  PROVE  StackOK(E, stack', ret')
  BY CallOK DEF Call, top

LEMMA ReturnStep ==
  ASSUME NEW D, NEW E, D \subseteq E, StackOK(D, stack, ret), stack # << >>,
         NEW r, Return(r),
         \A c : Awaits(c, top) /\ FrameOK(E, c) => Answered(E, c, r)
  PROVE  StackOK(E, stack', ret')
  BY ReturnOK DEF Return, top

LEMMA ResultFacts ==
  ASSUME NEW t, NEW n
  PROVE  Result(t, n).type = t /\ Result(t, n).name = n
  BY DEF Result

\* Specifiers: a frame of parse_decl_spec in its loop.
LoopSpecs(D, fr) ==
  /\ fr.f = "specs" /\ DOMAIN fr = {"f", "at", "storage", "qual", "flags", "base", "seen"}
  /\ fr.at = "loop" /\ fr.base \in RefsOrNull(D)

LEMMA LoopSpecsFacts ==
  ASSUME NEW D, NEW fr, LoopSpecs(D, fr)
  PROVE  /\ FrameOK(D, fr) /\ \A r : Answered(D, fr, r)
         /\ \A c : Awaits(c, fr) <=> c.at = "specs"
  BY DEF LoopSpecs, FrameOK, Answered, Awaits

LEMMA SpecifiersStack ==
  ASSUME NEW D, StackOK(D, stack, ret), scope \in Seq(SymbolsOver(D, AnyKind)), NEW E, D \subseteq E,
         \/ SpecStorage \/ SpecQual \/ SpecWhole \/ SpecPart \/ SpecLong \/ SpecTypedefName
         \/ SpecDuplicateTag
  PROVE  StackOK(E, stack', ret')
<1>1. stack # << >> /\ top.f = "specs" /\ top.at = "loop"
  BY DEF SpecStorage, SpecQual, SpecWhole, SpecPart, SpecLong, SpecTypedefName, SpecDuplicateTag, In
<1>2. LoopSpecs(D, top)
  BY <1>1, TopFacts DEF FrameOK, LoopSpecs
<1>3. \E fr : LoopSpecs(D, fr) /\ Become(fr)
  <2>1. CASE SpecStorage
    BY <2>1, <1>2 DEF SpecStorage, Specifier, LoopSpecs
  <2>2. CASE SpecQual
    BY <2>2, <1>2 DEF SpecQual, Specifier, LoopSpecs
  <2>3. CASE SpecWhole
    BY <2>3, <1>2 DEF SpecWhole, Specifier, LoopSpecs
  <2>4. CASE SpecPart
    BY <2>4, <1>2 DEF SpecPart, Specifier, LoopSpecs
  <2>5. CASE SpecLong
    BY <2>5, <1>2 DEF SpecLong, Specifier, LoopSpecs
  <2>6. CASE SpecTypedefName
    <3>1. symbol(tok).type \in RefsOrNull(D)
      BY <2>6, SymbolFacts DEF SpecTypedefName, is_typedef_name, RefsOrNull
    <3>2. QED
      BY <2>6, <3>1, <1>2 DEF SpecTypedefName, Specifier, LoopSpecs
  <2>7. CASE SpecDuplicateTag
    BY <2>7, <1>2 DEF SpecDuplicateTag, Specifier
  <2>8. QED
    BY <2>1, <2>2, <2>3, <2>4, <2>5, <2>6, <2>7
<1>4. PICK fr : LoopSpecs(D, fr) /\ Become(fr)
  BY <1>3
<1>5. LoopSpecs(E, fr)
  BY <1>4, RefsGrow DEF LoopSpecs
<1>6. /\ FrameOK(E, fr) /\ Answered(E, fr, ret)
      /\ \A c : Awaits(c, top) => Awaits(c, fr)
  BY <1>2, <1>4, <1>5, LoopSpecsFacts
<1>7. QED
  BY <1>1, <1>4, <1>6, BecomeStep

LEMMA TagStack ==
  ASSUME NEW D, StackOK(D, stack, ret), NEW E, D \subseteq E, stack # << >>,
         top.f = "specs", top.at = "loop", NEW t \in E, NEW k \in {"enum", "members"},
         \/ stack' = <<[top EXCEPT !.at = "tag"]>> \o Tail(stack) /\ ret' = Result(t, "")
         \/ Call([top EXCEPT !.at = "tag"], Body(t, k))
  PROVE  StackOK(E, stack', ret')
<1> DEFINE fr == [top EXCEPT !.at = "tag"]
<1>1. LoopSpecs(D, top)
  BY TopFacts DEF FrameOK, LoopSpecs
<1>2. /\ fr.f = "specs" /\ fr.at = "tag" /\ FrameOK(E, fr)
      /\ \A c : Awaits(c, top) => Awaits(c, fr)
  BY <1>1, RefsGrow DEF LoopSpecs, FrameOK, Awaits
<1> HIDE DEF fr
<1>3. CASE stack' = <<fr>> \o Tail(stack) /\ ret' = Result(t, "")
  <2>3. ret'.type \in Refs(E)
    BY <1>3 DEF Result, Refs
  <2>1. Answered(E, fr, ret')
    BY <1>2, <2>3 DEF Answered
  <2>2. QED
    BY <1>2, <1>3, <2>1, BecomeOK DEF top
<1>4. CASE Call(fr, Body(t, k))
  <2>1. /\ FrameOK(E, Body(t, k)) /\ Awaits(fr, Body(t, k)) /\ Body(t, k).at = "loop"
    BY <1>2 DEF FrameOK, Awaits, Body
  <2>2. QED
    BY <1>2, <1>4, <2>1, CallStep
<1>5. QED
  BY <1>3, <1>4 DEF fr

LEMMA SpecsEndStack ==
  ASSUME NEW D, StackOK(D, stack, ret), NEW E, D \subseteq E, SpecTagged \/ SpecsDone
  PROVE  StackOK(E, stack', ret')
<1>1. CASE SpecTagged
  <2> DEFINE fr == [top EXCEPT !.at = "loop", !.base = ret.type, !.seen = TRUE]
  <2>1. stack # << >> /\ top.f = "specs" /\ top.at = "tag" /\ Become(fr)
    BY <1>1 DEF SpecTagged, In
  <2>2. FrameOK(D, top) /\ Answered(D, top, ret)
    BY <2>1, TopFacts
  <2>3. ret.type \in RefsOrNull(E)
    BY <2>1, <2>2, RefsGrow DEF Answered, RefsOrNull
  <2>4. LoopSpecs(E, fr)
    BY <2>1, <2>2, <2>3 DEF LoopSpecs, FrameOK
  <2> HIDE DEF fr
  <2>5. /\ FrameOK(E, fr) /\ Answered(E, fr, ret)
        /\ \A c : Awaits(c, top) => Awaits(c, fr)
    BY <2>1, <2>4, LoopSpecsFacts DEF Awaits
  <2>6. QED
    BY <2>1, <2>5, BecomeStep
<1>2. CASE SpecsDone
  <2> DEFINE r == [Result(NULL, "") EXCEPT !.ds = top]
  <2>1. stack # << >> /\ top.f = "specs" /\ top.at = "loop" /\ Return(r)
    BY <1>2 DEF SpecsDone, In
  <2>5. top.base \in RefsOrNull(D)
    BY <2>1, TopFacts DEF FrameOK
  <2>2. top.base \in RefsOrNull(E)
    BY <2>5, RefsGrow
  <2>3. r.ds = top
    BY DEF Result
  <2> HIDE DEF r
  <2>4. ASSUME NEW c, Awaits(c, top) PROVE Answered(E, c, r)
    BY <2>1, <2>2, <2>3, <2>4 DEF Awaits, Answered
  <2>6. QED
    BY <2>1, <2>4, ReturnStep
<1>3. QED
  BY <1>1, <1>2

\* A specifier list, or a declarator, is called.
LEMMA CalleeFacts ==
  ASSUME NEW D
  PROVE  /\ FrameOK(D, Specs) /\ Specs.f = "specs" /\ Specs.at = "loop"
         /\ \A b \in RefsOrNull(D) :
              /\ FrameOK(D, Declarator(b)) /\ Declarator(b).f = "declarator"
              /\ Declarator(b).at = "stars" /\ Declarator(b).base = b
              /\ FrameOK(D, Suffix(b)) /\ Suffix(b).f = "suffix"
              /\ Suffix(b).at = "loop" /\ Suffix(b).inner = b
<1>1. NULL \in RefsOrNull(D) /\ "" \in Names
  BY DEF RefsOrNull, Names
<1>2. FrameOK(D, Specs) /\ Specs.f = "specs" /\ Specs.at = "loop"
  BY <1>1 DEF FrameOK, Specs
<1>3. ASSUME NEW b \in RefsOrNull(D)
      PROVE  /\ FrameOK(D, Declarator(b)) /\ Declarator(b).f = "declarator"
             /\ Declarator(b).at = "stars" /\ Declarator(b).base = b
  BY <1>1 DEF FrameOK, Declarator
<1>4. ASSUME NEW b \in RefsOrNull(D)
      PROVE  /\ FrameOK(D, Suffix(b)) /\ Suffix(b).f = "suffix"
             /\ Suffix(b).at = "loop" /\ Suffix(b).inner = b
  BY <1>1 DEF FrameOK, Suffix
<1>5. QED
  BY <1>2, <1>3, <1>4

\* Struct and enum bodies: a frame of the body of a type of D.
BodyFrame(D, fr) ==
  /\ fr.f \in {"members", "enum"} /\ DOMAIN fr = {"f", "at", "type", "base", "members"}
  /\ fr.type \in D

LEMMA BodyFrameFacts ==
  ASSUME NEW D, NEW fr, BodyFrame(D, fr)
  PROVE  \A c : Awaits(c, fr) <=> c.at = "tag"
  BY DEF BodyFrame, Awaits

LEMMA BodyStack ==
  ASSUME NEW D, StackOK(D, stack, ret), NEW E, D \subseteq E, ReadBody, NULL \notin Refs(E),
         MemberSpecs => Gives(heap, Base(ret.ds)) /\ E = DOMAIN Base(ret.ds).heap.nodes
  PROVE  StackOK(E, stack', ret')
<1>1. /\ stack # << >> /\ top.f \in {"members", "enum"}
      /\ FrameOK(D, top) /\ Answered(D, top, ret)
  <2>1. stack # << >> /\ top.f \in {"members", "enum"}
    BY DEF ReadBody, Member, MemberSpecs, MemberUnnamed, MemberDeclarator, MemberDone, MemberMore,
       Enumerator, NotAnEnumerator, BodyDone, In
  <2>2. QED
    BY <2>1, TopFacts
<1>2. BodyFrame(D, top)
  BY <1>1 DEF FrameOK, BodyFrame
<1>3. Refs(D) \subseteq Refs(E) /\ FrameOK(E, top) /\ Answered(E, top, ret)
  BY <1>1, RefsGrow
<1>4. ASSUME NEW fr, Become(fr), FrameOK(E, fr), fr.f = top.f, Answered(E, fr, ret)
      PROVE  StackOK(E, stack', ret')
  <2>1. \A c : Awaits(c, top) => Awaits(c, fr)
    BY <1>1, <1>4 DEF Awaits
  <2>2. QED
    BY <1>1, <1>4, <2>1, BecomeStep
<1>5. ASSUME NEW fr, NEW callee, Call(fr, callee), FrameOK(E, fr), fr.f = top.f,
             FrameOK(E, callee), Awaits(fr, callee), callee.at \in {"loop", "stars"}
      PROVE  StackOK(E, stack', ret')
  <2>1. \A c : Awaits(c, top) => Awaits(c, fr)
    BY <1>1, <1>5 DEF Awaits
  <2>2. QED
    BY <1>1, <1>5, <2>1, CallStep
<1>6. CASE Member
  <2> DEFINE fr == [top EXCEPT !.at = "specs"]
  <2>1. Call(fr, Specs) /\ top.f = "members"
    BY <1>6 DEF Member, In
  <2>2. FrameOK(E, fr) /\ fr.f = top.f /\ fr.at = "specs"
    BY <1>3, <2>1 DEF FrameOK
  <2> HIDE DEF fr
  <2>3. Awaits(fr, Specs)
    BY <2>2, CalleeFacts DEF Awaits
  <2>4. QED
    BY <1>5, <2>1, <2>2, <2>3, CalleeFacts
<1>7. CASE MemberSpecs
  <2> DEFINE b == Base(ret.ds)
             fr == [top EXCEPT !.at = "next", !.base = b.type]
  <2>1. Become(fr) /\ top.f = "members"
    BY <1>7 DEF MemberSpecs, In
  <2>2. b.type \in Refs(E)
    BY <1>7 DEF Gives
  <2> HIDE DEF b
  <2>3. FrameOK(E, fr) /\ fr.f = top.f /\ fr.at = "next"
    BY <1>3, <2>1, <2>2 DEF FrameOK
  <2> HIDE DEF fr
  <2>4. Answered(E, fr, ret)
    BY <2>3 DEF Answered
  <2>5. QED
    BY <1>4, <2>1, <2>3, <2>4
<1>8. CASE MemberUnnamed
  <2>1. top.f = "members" /\ top.at = "next" /\ \E x : Become([top EXCEPT !.at = "loop", !.members = x])
    BY <1>8 DEF MemberUnnamed, In
  <2>2. PICK x : Become([top EXCEPT !.at = "loop", !.members = x])
    BY <2>1
  <2> DEFINE fr == [top EXCEPT !.at = "loop", !.members = x]
  <2>3. FrameOK(E, fr) /\ fr.f = top.f /\ fr.at = "loop"
    BY <1>3, <2>1 DEF FrameOK
  <2> HIDE DEF fr
  <2>4. Answered(E, fr, ret)
    BY <2>3 DEF Answered
  <2>5. QED
    BY <1>4, <2>2, <2>3, <2>4 DEF fr
<1>9. CASE MemberDeclarator
  <2> DEFINE fr == [top EXCEPT !.at = "declarator"]
  <2>1. Call(fr, Declarator(top.base)) /\ top.f = "members" /\ top.at = "next"
    BY <1>9 DEF MemberDeclarator, In
  <2>2. FrameOK(E, fr) /\ fr.f = top.f /\ fr.at = "declarator" /\ top.base \in Refs(E)
    BY <1>3, <2>1 DEF FrameOK
  <2>3. top.base \in RefsOrNull(E) /\ top.base # NULL
    BY <2>2 DEF RefsOrNull
  <2> HIDE DEF fr
  <2>4. Awaits(fr, Declarator(top.base))
    BY <2>2, <2>3, CalleeFacts DEF Awaits
  <2>5. QED
    BY <1>5, <2>1, <2>2, <2>3, <2>4, CalleeFacts
<1>10. CASE MemberDone
  <2>1. top.f = "members" /\ top.at = "declarator" /\ \E x : Become([top EXCEPT !.at = "more", !.members = x])
    BY <1>10 DEF MemberDone, In
  <2>2. PICK x : Become([top EXCEPT !.at = "more", !.members = x])
    BY <2>1
  <2> DEFINE fr == [top EXCEPT !.at = "more", !.members = x]
  <2>3. FrameOK(E, fr) /\ fr.f = top.f /\ fr.at = "more"
    BY <1>3, <2>1 DEF FrameOK
  <2> HIDE DEF fr
  <2>4. Answered(E, fr, ret)
    BY <2>3 DEF Answered
  <2>5. QED
    BY <1>4, <2>2, <2>3, <2>4 DEF fr
<1>11. CASE MemberMore
  <2>1. top.f = "members" /\ top.at = "more" /\ \E x \in {"next", "loop"} : Become([top EXCEPT !.at = x])
    BY <1>11 DEF MemberMore, In
  <2>2. PICK x \in {"next", "loop"} : Become([top EXCEPT !.at = x])
    BY <2>1
  <2> DEFINE fr == [top EXCEPT !.at = x]
  <2>3. FrameOK(E, fr) /\ fr.f = top.f /\ fr.at = x
    BY <1>3, <2>1 DEF FrameOK
  <2> HIDE DEF fr
  <2>4. Answered(E, fr, ret)
    BY <2>3 DEF Answered
  <2>5. QED
    BY <1>4, <2>2, <2>3, <2>4 DEF fr
<1>12. CASE Enumerator
  <2>1. top.f = "enum" /\ \E a \in {"loop", "close"} : \E x :
                             Become([top EXCEPT !.at = a, !.members = x])
    BY <1>12 DEF Enumerator, In
  <2>6. PICK a \in {"loop", "close"} : \E x : Become([top EXCEPT !.at = a, !.members = x])
    BY <2>1
  <2>2. PICK x : Become([top EXCEPT !.at = a, !.members = x])
    BY <2>6
  <2> DEFINE fr == [top EXCEPT !.at = a, !.members = x]
  <2>3. FrameOK(E, fr) /\ fr.f = top.f /\ fr.at = a
    BY <1>3, <2>1 DEF FrameOK
  <2> HIDE DEF fr
  <2>4. Answered(E, fr, ret)
    BY <2>3 DEF Answered
  <2>5. QED
    BY <1>4, <2>2, <2>3, <2>4 DEF fr
<1>13. CASE NotAnEnumerator
  BY <1>3, <1>4, <1>13 DEF NotAnEnumerator
<1>14. CASE BodyDone
  <2>1. Return(Result(top.type, "")) /\ top.type \in Refs(E)
    BY <1>2, <1>14 DEF BodyDone, BodyFrame, Refs
  <2>2. ASSUME NEW c, Awaits(c, top) PROVE Answered(E, c, Result(top.type, ""))
    <3>1. c.at = "tag"
      BY <1>2, <2>2, BodyFrameFacts
    <3>2. QED
      BY <2>1, <3>1, ResultFacts DEF Answered
  <2>3. QED
    BY <1>1, <2>1, <2>2, ReturnStep
<1>15. QED
  BY <1>6, <1>7, <1>8, <1>9, <1>10, <1>11, <1>12, <1>13, <1>14 DEF ReadBody

LEMMA ListStack ==
  ASSUME NEW D, StackOK(D, stack, ret), NEW E, D \subseteq E, ReadList, NULL \notin Refs(E),
         ListBase => Gives(heap, Base(ret.ds)) /\ E = DOMAIN Base(ret.ds).heap.nodes
  PROVE  StackOK(E, stack', ret')
<1>1. CASE TopSkip
  BY <1>1, RefsGrow DEF TopSkip, StackOK
<1>2. CASE TopDeclaration
  <2>1. stack' = <<Specs, DeclList>>
    BY <1>2 DEF TopDeclaration
  <2>2. FrameOK(E, DeclList) /\ DeclList.at = "specs"
    BY DEF FrameOK, DeclList
  <2>3. FrameOK(E, Specs) /\ Awaits(DeclList, Specs) /\ Answered(E, Specs, ret')
    BY <2>2, CalleeFacts DEF Awaits, Answered
  <2>4. <<Specs, DeclList>> \in Seq({Specs, DeclList})
    OBVIOUS
  <2>5. /\ DOMAIN stack' = {1, 2} /\ Len(stack') = 2 /\ stack' # << >>
        /\ stack'[1] = Specs /\ stack'[2] = DeclList /\ Head(stack') = Specs
    BY <2>1
  <2> HIDE DEF StackOK
  <2>6. \A i \in DOMAIN stack' : FrameOK(E, stack'[i])
    BY <2>2, <2>3, <2>5
  <2>7. \A i \in 2 .. Len(stack') : Awaits(stack'[i], stack'[i - 1])
    BY <2>3, <2>5
  <2>8. QED
    BY <2>1, <2>3, <2>4, <2>5, <2>6, <2>7 DEF StackOK
<1>3. CASE ~TopSkip /\ ~TopDeclaration
  <2>1. stack # << >> /\ top.f = "list"
    BY <1>3 DEF ReadList, ListBase, ListDeclared, ListUnnamed, ListMore, ListEnd, In
  <2>2. FrameOK(D, top)
    BY <2>1, TopFacts
  <2>3. Refs(D) \subseteq Refs(E) /\ FrameOK(E, top)
    BY <2>2, RefsGrow
  <2>4. \A c : ~Awaits(c, top)
    BY <2>1 DEF Awaits
  <2>5. ASSUME NEW a \in {"more", "end"}, Become([top EXCEPT !.at = a]), top.at = "declarator"
        PROVE  StackOK(E, stack', ret')
    <3> DEFINE fr == [top EXCEPT !.at = a]
    <3>1. FrameOK(E, fr) /\ fr.at = a
      BY <2>1, <2>3, <2>5 DEF FrameOK
    <3> HIDE DEF fr
    <3>2. Answered(E, fr, ret)
      BY <3>1 DEF Answered
    <3>3. QED
      BY <2>1, <2>4, <2>5, <3>1, <3>2, BecomeStep DEF fr
  <2>6. ASSUME NEW fr, NEW b \in Refs(E), Call(fr, Declarator(b)), fr.at = "declarator", FrameOK(E, fr)
        PROVE  StackOK(E, stack', ret')
    <3>1. b \in RefsOrNull(E) /\ b # NULL
      BY DEF RefsOrNull
    <3>2. Awaits(fr, Declarator(b)) /\ FrameOK(E, Declarator(b)) /\ Declarator(b).at = "stars"
      BY <2>6, <3>1, CalleeFacts DEF Awaits
    <3>3. QED
      BY <2>1, <2>4, <2>6, <3>2, CallStep
  <2>7. ASSUME NEW r, Return(r) PROVE StackOK(E, stack', ret')
    BY <2>1, <2>4, <2>7, ReturnStep
  <2>8. CASE ListBase
    <3> DEFINE b == Base(ret.ds)
               fr == [top EXCEPT !.at = "declarator", !.ds = ret.ds, !.base = b.type]
    <3>1. Return(Result(NULL, "")) \/ Call(fr, Declarator(b.type))
      BY <2>8 DEF ListBase
    <3>2. b.type \in Refs(E)
      BY <2>8 DEF Gives
    <3> HIDE DEF b
    <3>3. FrameOK(E, fr) /\ fr.at = "declarator"
      BY <2>1, <2>3, <3>2 DEF FrameOK
    <3> HIDE DEF fr
    <3>4. QED
      BY <2>6, <2>7, <3>1, <3>2, <3>3
  <2>9. CASE ListDeclared
    BY <2>5, <2>9 DEF ListDeclared, In
  <2>10. CASE ListUnnamed
    BY <2>5, <2>10 DEF ListUnnamed, In
  <2>11. CASE ListMore
    <3> DEFINE fr == [top EXCEPT !.at = "declarator"]
    <3>1. Call(fr, Declarator(top.base)) /\ top.at = "more"
      BY <2>11 DEF ListMore, In
    <3>2. FrameOK(E, fr) /\ fr.at = "declarator" /\ top.base \in Refs(E)
      BY <2>1, <2>3, <3>1 DEF FrameOK
    <3> HIDE DEF fr
    <3>3. QED
      BY <2>6, <3>1, <3>2
  <2>12. CASE ListEnd
    BY <2>7, <2>12 DEF ListEnd
  <2>13. QED
    BY <1>3, <2>8, <2>9, <2>10, <2>11, <2>12 DEF ReadList
<1>4. QED
  BY <1>1, <1>2, <1>3

\* A declarator: while it stands on a type it never goes back to NULL.
LEMMA DeclaratorStack ==
  ASSUME NEW D, StackOK(D, stack, ret), NEW E, D \subseteq E, NULL \notin Refs(E),
         NULL \notin Refs(D), InputAssumption,
         \/ Star \/ StarQual \/ StarsDone \/ Point \/ Group \/ GroupDone \/ PatchGroup
         \/ Direct \/ DirectDone,
         Point => E = DOMAIN heap'.nodes
                  /\ Gives(heap, type_pointer(heap, top.base, top.quals[Len(top.quals)]))
  PROVE  StackOK(E, stack', ret')
<1>1. /\ stack # << >> /\ top.f = "declarator"
      /\ FrameOK(D, top) /\ Answered(D, top, ret)
  <2>1. stack # << >> /\ top.f = "declarator"
    BY DEF Star, StarQual, StarsDone, Point, Group, GroupDone, PatchGroup, Direct, DirectDone, In
  <2>2. QED
    BY <2>1, TopFacts
<1>2. /\ FrameOK(E, top) /\ Answered(E, top, ret)
      /\ Refs(D) \subseteq Refs(E) /\ RefsOrNull(D) \subseteq RefsOrNull(E)
  BY <1>1, RefsGrow
<1>3. top.base \in RefsOrNull(E) /\ top.name \in Names /\ top.group \in RefsOrNull(E)
  BY <1>1, <1>2 DEF FrameOK
<1>4. ASSUME NEW fr, FrameOK(E, fr), fr.f = top.f, top.base # NULL => fr.base # NULL
      PROVE  \A c : Awaits(c, top) => Awaits(c, fr)
  BY <1>1, <1>4 DEF Awaits
<1>5. ASSUME NEW fr, Become(fr), FrameOK(E, fr), fr.f = top.f, fr.at \in {"stars", "point"},
             top.base # NULL => fr.base # NULL
      PROVE  StackOK(E, stack', ret')
  <2>1. Answered(E, fr, ret)
    BY <1>5 DEF Answered
  <2>2. QED
    BY <1>1, <1>4, <1>5, <2>1, BecomeStep
<1>6. CASE Star \/ StarQual \/ StarsDone
  <2>1. PICK a \in {"stars", "point"} : \E q : Become([top EXCEPT !.at = a, !.quals = q])
    <3>1. top.f = "declarator" /\ top.at = "stars"
      BY <1>6 DEF Star, StarQual, StarsDone, In
    <3>2. CASE StarsDone
      <4>1. [top EXCEPT !.at = "point"] = [top EXCEPT !.at = "point", !.quals = top.quals]
        BY <1>1 DEF FrameOK
      <4>2. QED
        BY <3>2, <4>1 DEF StarsDone
    <3>3. CASE Star \/ StarQual
      <4>1. \E q : Become([top EXCEPT !.quals = q])
        BY <3>3 DEF Star, StarQual
      <4>2. \A q : [top EXCEPT !.quals = q] = [top EXCEPT !.at = "stars", !.quals = q]
        BY <1>1, <3>1 DEF FrameOK
      <4>3. QED
        BY <4>1, <4>2
    <3>4. QED
      BY <1>6, <3>2, <3>3
  <2>2. PICK q : Become([top EXCEPT !.at = a, !.quals = q])
    BY <2>1
  <2> DEFINE fr == [top EXCEPT !.at = a, !.quals = q]
  <2>3. FrameOK(E, fr) /\ fr.f = top.f /\ fr.at = a /\ fr.base = top.base
    BY <1>1, <1>2, <1>3 DEF FrameOK
  <2> HIDE DEF fr
  <2>4. QED
    BY <1>5, <2>2, <2>3 DEF fr
<1>7. CASE Point
  <2> DEFINE made == type_pointer(heap, top.base, top.quals[Len(top.quals)])
             q == SubSeq(top.quals, 1, Len(top.quals) - 1)
             fr == [top EXCEPT !.base = made.type, !.quals = q]
  <2>1. Become(fr) /\ heap' = made.heap /\ top.at = "point"
    BY <1>7 DEF Point, In
  <2>2. made.type \in Refs(E)
    BY <1>7, <2>1 DEF Gives
  <2> HIDE DEF made, q
  <2>3. FrameOK(E, fr) /\ fr.f = top.f /\ fr.at = "point" /\ fr.base # NULL
    BY <1>1, <1>2, <1>3, <2>1, <2>2 DEF FrameOK, RefsOrNull
  <2> HIDE DEF fr
  <2>4. QED
    BY <1>5, <2>1, <2>3
<1>8. CASE Group
  <2> DEFINE fr == [top EXCEPT !.at = "group"]
  <2>1. Call(fr, Declarator(NULL)) /\ NULL \in RefsOrNull(E)
    BY <1>8 DEF Group, RefsOrNull
  <2>2. FrameOK(E, fr) /\ fr.f = top.f /\ fr.at = "group" /\ fr.base = top.base
    BY <1>1, <1>2, <1>3 DEF FrameOK
  <2> HIDE DEF fr
  <2>3. /\ Awaits(fr, Declarator(NULL)) /\ FrameOK(E, Declarator(NULL))
        /\ Declarator(NULL).at = "stars"
    BY <2>1, <2>2, CalleeFacts DEF Awaits
  <2>4. \A c : Awaits(c, top) => Awaits(c, fr)
    BY <1>4, <2>2
  <2>5. QED
    BY <1>1, <2>1, <2>2, <2>3, <2>4, CallStep
<1>9. ASSUME NEW a \in {"suffix", "patch"}, NEW n \in Names, NEW g \in RefsOrNull(E),
             NEW fr, fr = [top EXCEPT !.at = a, !.name = n, !.group = g],
             Call(fr, Suffix(top.base))
      PROVE  StackOK(E, stack', ret')
  <2>2. FrameOK(E, fr) /\ fr.f = top.f /\ fr.at = a /\ fr.base = top.base
    BY <1>1, <1>2, <1>3, <1>9 DEF FrameOK
  <2>6. /\ FrameOK(E, Suffix(top.base)) /\ Suffix(top.base).f = "suffix"
        /\ Suffix(top.base).at = "loop" /\ Suffix(top.base).inner = top.base
    <3>1. \A b \in RefsOrNull(E) :
            FrameOK(E, Suffix(b)) /\ Suffix(b).f = "suffix" /\ Suffix(b).at = "loop" /\ Suffix(b).inner = b
      BY CalleeFacts
    <3>2. QED
      BY <1>3, <3>1
  <2>3. Awaits(fr, Suffix(top.base))
    BY <2>2, <2>6 DEF Awaits
  <2>4. \A c : Awaits(c, top) => Awaits(c, fr)
    BY <1>4, <2>2
  <2>5. QED
    BY <1>1, <1>9, <2>2, <2>3, <2>4, <2>6, CallStep
<1>10. CASE GroupDone
  <2>1. /\ Call([top EXCEPT !.at = "patch", !.name = ret.name, !.group = ret.type], Suffix(top.base))
        /\ top.at = "group"
    BY <1>10 DEF GroupDone, In
  <2>2. ret.name \in Names /\ ret.type \in RefsOrNull(E)
    BY <1>2, <2>1 DEF Answered
  <2>3. QED
    BY <1>9, <2>1, <2>2
<1>11. CASE Direct
  <2> DEFINE n == IF tok \in Idents THEN tok ELSE ""
  <2>1. Call([top EXCEPT !.at = "suffix", !.name = n], Suffix(top.base))
    BY <1>11 DEF Direct
  <2>2. n \in Names
    BY DEF Names
  <2> HIDE DEF n
  <2>3. [top EXCEPT !.at = "suffix", !.name = n]
          = [top EXCEPT !.at = "suffix", !.name = n, !.group = top.group]
    BY <1>1 DEF FrameOK
  <2>4. QED
    BY <1>3, <1>9, <2>1, <2>2, <2>3
<1>12. CASE DirectDone \/ PatchGroup
  <2>1. PICK t : /\ Return(Result(t, top.name)) /\ t \in RefsOrNull(E)
                 /\ top.base # NULL => t # NULL
    <3>1. CASE DirectDone
      <4>1. Return(Result(ret.type, top.name)) /\ top.at = "suffix"
        BY <3>1 DEF DirectDone, In
      <4>2. QED
        BY <1>2, <4>1 DEF Answered
    <3>2. CASE PatchGroup
      <4>1. /\ Return(Result(IF top.group = NULL THEN ret.type ELSE top.group, top.name))
            /\ top.at = "patch"
        BY <3>2 DEF PatchGroup, In
      <4>2. QED
        BY <1>2, <1>3, <4>1 DEF Answered
    <3>3. QED
      BY <1>12, <3>1, <3>2
  <2>2. ASSUME NEW c, Awaits(c, top) PROVE Answered(E, c, Result(t, top.name))
    <3>1. c.at = "group" \/ (c.at = "declarator" /\ top.base # NULL)
      BY <1>1, <2>2 DEF Awaits
    <3>2. t # NULL => t \in Refs(E)
      BY <2>1 DEF RefsOrNull
    <3>3. Result(t, top.name).type = t /\ Result(t, top.name).name = top.name
      BY ResultFacts
    <3>4. QED
      BY <1>3, <2>1, <3>1, <3>2, <3>3 DEF Answered
  <2>3. QED
    BY <1>1, <2>1, <2>2, ReturnStep
<1>13. QED
  BY <1>6, <1>7, <1>8, <1>10, <1>11, <1>12

\* A suffix: the same of the type it is put on.
LEMMA SuffixStack ==
  ASSUME NEW D, StackOK(D, stack, ret), NEW E, D \subseteq E, NULL \notin Refs(E),
         \/ SuffixArray \/ SuffixFunction \/ Ellipsis \/ Param \/ ParamSpecs \/ ParamDone
         \/ FunctionDone \/ SuffixDone,
         E = DOMAIN heap'.nodes,
         ParamSpecs => Gives(heap, Base(ret.ds)),
         SuffixArray \/ FunctionDone =>
           \E m : Gives(heap, m) /\ heap' = m.heap /\ Become([top EXCEPT !.at = "loop", !.inner = m.type])
  PROVE  StackOK(E, stack', ret')
<1>1. /\ stack # << >> /\ top.f = "suffix"
      /\ FrameOK(D, top) /\ Answered(D, top, ret)
  <2>1. stack # << >> /\ top.f = "suffix"
    BY DEF SuffixArray, SuffixFunction, Ellipsis, Param, ParamSpecs, ParamDone, FunctionDone,
       SuffixDone, In
  <2>2. QED
    BY <2>1, TopFacts
<1>2. FrameOK(E, top) /\ Answered(E, top, ret) /\ Refs(D) \subseteq Refs(E)
  BY <1>1, RefsGrow
<1>3. top.inner \in RefsOrNull(E)
  BY <1>1, <1>2 DEF FrameOK
<1>4. ASSUME NEW fr, FrameOK(E, fr), fr.f = top.f, top.inner # NULL => fr.inner # NULL
      PROVE  \A c : Awaits(c, top) => Awaits(c, fr)
  BY <1>1, <1>4 DEF Awaits
<1>5. ASSUME NEW fr, Become(fr), FrameOK(E, fr), fr.f = top.f, fr.at \in {"loop", "close", "param"},
             top.inner # NULL => fr.inner # NULL
      PROVE  StackOK(E, stack', ret')
  <2>1. Answered(E, fr, ret)
    BY <1>5 DEF Answered
  <2>2. QED
    BY <1>1, <1>4, <1>5, <2>1, BecomeStep
<1>6. ASSUME NEW a \in {"close", "param"}, NEW p, NEW v,
             Become([top EXCEPT !.at = a, !.params = p, !.variadic = v])
      PROVE  StackOK(E, stack', ret')
  <2> DEFINE fr == [top EXCEPT !.at = a, !.params = p, !.variadic = v]
  <2>1. FrameOK(E, fr) /\ fr.f = top.f /\ fr.at = a /\ fr.inner = top.inner
    BY <1>1, <1>2, <1>3 DEF FrameOK
  <2> HIDE DEF fr
  <2>2. QED
    BY <1>5, <1>6, <2>1 DEF fr
<1>7. CASE SuffixArray \/ FunctionDone
  <2>1. PICK m : /\ Gives(heap, m) /\ heap' = m.heap
                 /\ Become([top EXCEPT !.at = "loop", !.inner = m.type])
    BY <1>7
  <2> DEFINE fr == [top EXCEPT !.at = "loop", !.inner = m.type]
  <2>2. m.type \in Refs(E)
    BY <2>1 DEF Gives
  <2>3. FrameOK(E, fr) /\ fr.f = top.f /\ fr.at = "loop" /\ fr.inner # NULL
    BY <1>1, <1>2, <2>2 DEF FrameOK, RefsOrNull
  <2> HIDE DEF fr
  <2>4. QED
    BY <1>5, <2>1, <2>3 DEF fr
<1>8. CASE SuffixFunction
  <2>1. PICK a \in {"close", "param"} :
               Become([top EXCEPT !.at = a, !.params = << >>, !.variadic = FALSE])
    BY <1>8 DEF SuffixFunction
  <2>2. QED
    BY <1>6, <2>1
<1>9. CASE Ellipsis
  <2>1. Become([top EXCEPT !.at = "close", !.variadic = TRUE])
    BY <1>9 DEF Ellipsis
  <2>2. [top EXCEPT !.at = "close", !.variadic = TRUE]
          = [top EXCEPT !.at = "close", !.params = top.params, !.variadic = TRUE]
    BY <1>1 DEF FrameOK
  <2>3. QED
    BY <1>6, <2>1, <2>2
<1>10. CASE ParamDone
  <2>1. PICK a \in {"close", "param"} : \E p : Become([top EXCEPT !.at = a, !.params = p])
    BY <1>10 DEF ParamDone
  <2>2. PICK p : Become([top EXCEPT !.at = a, !.params = p])
    BY <2>1
  <2>3. [top EXCEPT !.at = a, !.params = p]
          = [top EXCEPT !.at = a, !.params = p, !.variadic = top.variadic]
    BY <1>1 DEF FrameOK
  <2>4. QED
    BY <1>6, <2>2, <2>3
<1>11. CASE Param
  <2> DEFINE fr == [top EXCEPT !.at = "specs"]
  <2>1. Call(fr, Specs)
    BY <1>11 DEF Param
  <2>2. FrameOK(E, fr) /\ fr.f = top.f /\ fr.at = "specs" /\ fr.inner = top.inner
    BY <1>1, <1>2, <1>3 DEF FrameOK
  <2> HIDE DEF fr
  <2>3. \A c : Awaits(c, top) => Awaits(c, fr)
    BY <1>4, <2>2
  <2>4. FrameOK(E, Specs) /\ Specs.f = "specs" /\ Specs.at = "loop"
    BY CalleeFacts
  <2>5. Awaits(fr, Specs)
    BY <2>2, <2>4 DEF Awaits
  <2>6. QED
    BY <1>1, <2>1, <2>2, <2>3, <2>4, <2>5, CallStep
<1>12. CASE ParamSpecs
  <2> DEFINE b == Base(ret.ds)
             fr == [top EXCEPT !.at = "declarator"]
  <2>1. Call(fr, Declarator(b.type)) /\ heap' = b.heap
    BY <1>12 DEF ParamSpecs
  <2>2. b.type \in RefsOrNull(E) /\ b.type # NULL
    BY <1>12, <2>1 DEF Gives, RefsOrNull
  <2> HIDE DEF b
  <2>3. FrameOK(E, fr) /\ fr.f = top.f /\ fr.at = "declarator" /\ fr.inner = top.inner
    BY <1>1, <1>2, <1>3 DEF FrameOK
  <2> HIDE DEF fr
  <2>4. \A c : Awaits(c, top) => Awaits(c, fr)
    BY <1>4, <2>3
  <2>5. /\ FrameOK(E, Declarator(b.type)) /\ Declarator(b.type).f = "declarator"
        /\ Declarator(b.type).at = "stars" /\ Declarator(b.type).base = b.type
    BY <2>2, CalleeFacts
  <2>6. Awaits(fr, Declarator(b.type))
    BY <2>2, <2>3, <2>5 DEF Awaits
  <2>7. QED
    BY <1>1, <2>1, <2>3, <2>4, <2>5, <2>6, CallStep
<1>13. CASE SuffixDone
  <2>1. Return(Result(top.inner, ""))
    BY <1>13 DEF SuffixDone
  <2>2. ASSUME NEW c, Awaits(c, top) PROVE Answered(E, c, Result(top.inner, ""))
    <3>1. c.at \in {"suffix", "patch"} /\ (c.base # NULL => top.inner # NULL)
      BY <1>1, <2>2 DEF Awaits
    <3>2. QED
      BY <1>3, <3>1, ResultFacts DEF Answered
  <2>3. QED
    BY <1>1, <2>1, <2>2, ReturnStep
<1>14. QED
  BY <1>7, <1>8, <1>9, <1>10, <1>11, <1>12, <1>13

LEMMA StackStep ==
  ASSUME HashesToSlots, IsHeap(heap), NodesOK(heap), TagsOK(heap, tags), IsHeap(heap'),
         scope \in Seq(SymbolsOver(DOMAIN heap.nodes, AnyKind)),
         StackOK(DOMAIN heap.nodes, stack, ret), Grows(heap, heap'), [Next]_vars
  PROVE  StackOK(DOMAIN heap'.nodes, stack', ret')
<1> DEFINE D == DOMAIN heap.nodes
           E == DOMAIN heap'.nodes
<1>1. D \subseteq E /\ NULL \notin Refs(D) /\ NULL \notin Refs(E)
  BY HeapFacts DEF Grows
<1>2. CASE UNCHANGED vars
  <2>1. heap' = heap /\ stack' = stack /\ ret' = ret
    BY <1>2 DEF vars, parse_vars
  <2>2. QED
    BY <2>1
<1>3. CASE ReadSpecs
  <2>1. CASE SpecTag
    <3>1. stack # << >> /\ top.f = "specs" /\ top.at = "loop"
      BY <2>1 DEF SpecTag, In
    <3>2. PICK m : /\ m.type \in E
                   /\ \/ /\ stack' = <<[top EXCEPT !.at = "tag"]>> \o Tail(stack)
                         /\ ret' = Result(m.type, "")
                      \/ \E k \in {"enum", "members"} :
                           Call([top EXCEPT !.at = "tag"], Body(m.type, k))
      BY <2>1, SpecTagGives
    <3>3. StackOK(D, stack, ret) /\ m.type \in E
      BY <3>2
    <3> HIDE DEF E, D
    <3>4. PICK k \in {"enum", "members"} :
              \/ /\ stack' = <<[top EXCEPT !.at = "tag"]>> \o Tail(stack)
                 /\ ret' = Result(m.type, "")
              \/ Call([top EXCEPT !.at = "tag"], Body(m.type, k))
      BY <3>2
    <3>5. StackOK(E, stack', ret')
      BY <1>1, <3>1, <3>3, <3>4, TagStack
    <3>6. QED
      BY <3>5 DEF E
  <2>2. CASE SpecTagged \/ SpecsDone
    BY <1>1, <2>2, SpecsEndStack
  <2>3. CASE SpecStorage \/ SpecQual \/ SpecWhole \/ SpecPart \/ SpecLong \/ SpecTypedefName
             \/ SpecDuplicateTag
    BY <1>1, <2>3, SpecifiersStack
  <2>4. QED
    BY <1>3, <2>1, <2>2, <2>3 DEF ReadSpecs
<1>4. ASSUME MemberSpecs \/ ParamSpecs \/ ListBase
      PROVE  heap' = Base(ret.ds).heap /\ Gives(heap, Base(ret.ds))
  <2>1. heap' = Base(ret.ds).heap /\ stack # << >> /\ top.at = "specs"
    BY <1>4 DEF MemberSpecs, ParamSpecs, ListBase, In
  <2>2. ret.ds.base \in RefsOrNull(D)
    BY <2>1, TopFacts DEF Answered
  <2>3. QED
    BY <2>1, <2>2, BaseGives
<1>5. CASE ReadBody
  <2>1. MemberSpecs => Gives(heap, Base(ret.ds)) /\ E = DOMAIN Base(ret.ds).heap.nodes
    BY <1>4
  <2>2. StackOK(D, stack, ret)
    OBVIOUS
  <2> HIDE DEF E, D
  <2>3. StackOK(E, stack', ret')
    BY <1>1, <1>5, <2>1, <2>2, BodyStack
  <2>4. QED
    BY <2>3 DEF E
<1>6. CASE ReadList
  <2>1. ListBase => Gives(heap, Base(ret.ds)) /\ E = DOMAIN Base(ret.ds).heap.nodes
    BY <1>4
  <2>2. StackOK(D, stack, ret)
    OBVIOUS
  <2> HIDE DEF E, D
  <2>3. StackOK(E, stack', ret')
    BY <1>1, <1>6, <2>1, <2>2, ListStack
  <2>4. QED
    BY <2>3 DEF E
<1>7. CASE Star \/ StarQual \/ StarsDone \/ Point \/ Group \/ GroupDone \/ PatchGroup
           \/ Direct \/ DirectDone
  <2>1. Point => Gives(heap, type_pointer(heap, top.base, top.quals[Len(top.quals)]))
    <3>1. SUFFICES ASSUME Point PROVE Gives(heap, type_pointer(heap, top.base, top.quals[Len(top.quals)]))
      OBVIOUS
    <3>2. stack # << >> /\ top.f = "declarator"
      BY <3>1 DEF Point, In
    <3>3. top.base \in RefsOrNull(D)
      BY <3>2, TopFacts DEF FrameOK
    <3>4. QED
      BY <3>3, ConstructorsGive
  <2>2. Point => E = DOMAIN heap'.nodes
    OBVIOUS
  <2>3. StackOK(D, stack, ret)
    OBVIOUS
  <2> HIDE DEF E, D
  <2>4. StackOK(E, stack', ret')
    BY <1>1, <1>7, <2>1, <2>2, <2>3, InputAssumption, DeclaratorStack
  <2>5. QED
    BY <2>4 DEF E
<1>8. CASE SuffixArray \/ SuffixFunction \/ Ellipsis \/ Param \/ ParamSpecs \/ ParamDone
           \/ FunctionDone \/ SuffixDone
  <2>1. SuffixArray \/ FunctionDone =>
          \E m : Gives(heap, m) /\ heap' = m.heap /\ Become([top EXCEPT !.at = "loop", !.inner = m.type])
    <3>1. SUFFICES ASSUME SuffixArray \/ FunctionDone
                   PROVE  \E m : /\ Gives(heap, m) /\ heap' = m.heap
                                 /\ Become([top EXCEPT !.at = "loop", !.inner = m.type])
      OBVIOUS
    <3>2. stack # << >> /\ top.f = "suffix"
      BY <3>1 DEF SuffixArray, FunctionDone, In
    <3>3. top.inner \in RefsOrNull(D) /\ FrameOK(D, top)
      BY <3>2, TopFacts DEF FrameOK
    <3>4. CASE SuffixArray
      <4> DEFINE made == IF tok = "[]" THEN type_array_unsized(heap, top.inner)
                         ELSE type_array(heap, top.inner, NumberOf[tok])
      <4>1. top.at = "loop" /\ Become([top EXCEPT !.inner = made.type]) /\ heap' = made.heap
        BY <3>4 DEF SuffixArray, In
      <4>2. Gives(heap, type_array_unsized(heap, top.inner))
            /\ Gives(heap, type_array(heap, top.inner, NumberOf[tok]))
        BY <3>3, ConstructorsGive
      <4>3. Gives(heap, made)
        BY <4>2
      <4> HIDE DEF made
      <4>4. [top EXCEPT !.inner = made.type] = [top EXCEPT !.at = "loop", !.inner = made.type]
        BY <3>2, <3>3, <4>1 DEF FrameOK
      <4>5. QED
        BY <4>1, <4>3, <4>4
    <3>5. CASE FunctionDone
      <4> DEFINE made == type_func(heap, top.inner, Params(top.params), top.variadic)
      <4>1. Become([top EXCEPT !.at = "loop", !.inner = made.type]) /\ heap' = made.heap
        BY <3>5 DEF FunctionDone
      <4>2. Gives(heap, made)
        BY <3>3, ConstructorsGive
      <4> HIDE DEF made
      <4>3. QED
        BY <4>1, <4>2
    <3>6. QED
      BY <3>1, <3>4, <3>5
  <2>2. ParamSpecs => Gives(heap, Base(ret.ds))
    BY <1>4
  <2>3. E = DOMAIN heap'.nodes
    OBVIOUS
  <2>4. StackOK(D, stack, ret)
    OBVIOUS
  <2> HIDE DEF E, D
  <2>5. StackOK(E, stack', ret')
    BY <1>1, <1>8, <2>1, <2>2, <2>3, <2>4, SuffixStack
  <2>6. QED
    BY <2>5 DEF E
<1>9. QED
  BY <1>2, <1>3, <1>5, <1>6, <1>7, <1>8, Zenon DEF Next, ReadDeclarator

-----------------------------------------------------------------------------
(* Names *)

VarKind == {"typedef", "var"}

LEMMA IntIsAType ==
  ASSUME NEW D
  PROVE  Scalar("int") \in Refs(D)
<1>1. Len(ScalarNames) = 16 /\ DOMAIN ScalarNames = 1 .. 16 /\ ScalarNames[8] = "int"
  BY DEF ScalarNames
<1> DEFINE i == CHOOSE i \in DOMAIN ScalarNames : ScalarNames[i] = "int"
<1>2. i \in 1 .. 16 /\ Scalar("int") = -i
  BY <1>1 DEF Scalar
<1> HIDE DEF i
<1>3. QED
  BY <1>1, <1>2 DEF Refs

LEMMA AppendIn ==
  ASSUME NEW S, NEW s \in Seq(S), NEW x \in S
  PROVE  Append(s, x) \in Seq(S)
OBVIOUS

LEMMA SymbolsGrow ==
  ASSUME NEW D, NEW E, D \subseteq E, NEW s, NEW kinds, s \in Seq(SymbolsOver(D, kinds))
  PROVE  s \in Seq(SymbolsOver(E, kinds))
<1>1. SymbolsOver(D, kinds) \subseteq SymbolsOver(E, kinds)
  BY RefsGrow DEF SymbolsOver
<1>2. QED
  BY <1>1

LEMMA NamesStep ==
  ASSUME IsHeap(heap), NodesOK(heap), TagsOK(heap, tags), InputAssumption,
         scope \in Seq(SymbolsOver(DOMAIN heap.nodes, AnyKind)),
         decls \in Seq(SymbolsOver(DOMAIN heap.nodes, VarKind)),
         changed \subseteq DOMAIN heap.nodes,
         StackOK(DOMAIN heap.nodes, stack, ret), Grows(heap, heap'), [Next]_vars
  PROVE  /\ scope' \in Seq(SymbolsOver(DOMAIN heap'.nodes, AnyKind))
         /\ decls' \in Seq(SymbolsOver(DOMAIN heap'.nodes, VarKind))
         /\ TagsOK(heap', tags')
         /\ changed' \subseteq DOMAIN heap'.nodes
<1> DEFINE D == DOMAIN heap.nodes
           E == DOMAIN heap'.nodes
<1>1. D \subseteq E
  BY DEF Grows
<1>2. /\ scope \in Seq(SymbolsOver(E, AnyKind)) /\ decls \in Seq(SymbolsOver(E, VarKind))
      /\ changed \subseteq E /\ TagsOK(heap', tags)
  <2>1. TagsOK(heap', tags)
    BY DEF TagsOK, Grows
  <2> HIDE DEF D, E
  <2>2. QED
    BY <1>1, <2>1, SymbolsGrow DEF D
<1>3. CASE UNCHANGED <<name_vars, changed>>
  BY <1>2, <1>3 DEF name_vars
<1>4. CASE SpecTag
  <2>1. TagsOK(heap', tags')
    BY <1>4, SpecTagGives
  <2>2. UNCHANGED <<scope, decls, changed>>
    BY <1>4 DEF SpecTag, SameChanges
  <2>3. QED
    BY <1>2, <2>1, <2>2
<1>5. CASE Enumerator
  <2>1. /\ tok \in Idents /\ scope' = Append(scope, [name |-> tok, kind |-> "enum", type |-> Scalar("int")])
        /\ UNCHANGED <<decls, tags, changed>>
    BY <1>5 DEF Enumerator, SameChanges
  <2>2. Scalar("int") \in Refs(E)
    BY IntIsAType
  <2>3. [name |-> tok, kind |-> "enum", type |-> Scalar("int")] \in SymbolsOver(E, AnyKind)
    BY <2>1, <2>2 DEF SymbolsOver, AnyKind
  <2> HIDE DEF E
  <2> DEFINE S == SymbolsOver(E, AnyKind)
             x == [name |-> tok, kind |-> "enum", type |-> Scalar("int")]
  <2>6. scope \in Seq(S) /\ x \in S /\ scope' = Append(scope, x)
    BY <1>2, <2>1, <2>3
  <2> HIDE DEF S, x
  <2>7. scope' \in Seq(S)
    BY <2>6, AppendIn, Zenon
  <2>4. scope' \in Seq(SymbolsOver(E, AnyKind))
    BY <2>7 DEF S
  <2>5. QED
    BY <1>2, <2>1, <2>4 DEF E
<1>6. CASE ListDeclared
  <2> DEFINE kind == IF top.ds.storage = "typedef" THEN "typedef" ELSE "var"
             entry == [name |-> ret.name, kind |-> kind, type |-> ret.type]
  <2>1. /\ decls' = Append(decls, entry) /\ scope' = Append(scope, entry) /\ ret.name # ""
        /\ UNCHANGED <<tags, changed>> /\ stack # << >> /\ top.at = "declarator"
    BY <1>6 DEF ListDeclared, SameChanges, In
  <2>2. ret.name \in Idents /\ ret.type \in Refs(D)
    BY <2>1, TopFacts DEF Answered, Names
  <2>3. ret.type \in Refs(E)
    BY <1>1, <2>2, RefsGrow
  <2>4. entry \in SymbolsOver(E, VarKind) /\ entry \in SymbolsOver(E, AnyKind)
    BY <2>2, <2>3 DEF SymbolsOver, VarKind, AnyKind
  <2> DEFINE S == SymbolsOver(E, AnyKind)
             T == SymbolsOver(E, VarKind)
  <2>5. /\ scope \in Seq(S) /\ entry \in S /\ scope' = Append(scope, entry)
        /\ decls \in Seq(T) /\ entry \in T /\ decls' = Append(decls, entry)
    BY <1>2, <2>1, <2>4
  <2> HIDE DEF S, T, entry
  <2>6. scope' \in Seq(S) /\ decls' \in Seq(T)
    BY <2>5, AppendIn, Zenon
  <2>7. QED
    BY <1>2, <2>1, <2>6 DEF S, T
<1>7. CASE BodyDone
  <2>1. changed' = changed \union {top.type} /\ UNCHANGED name_vars /\ stack # << >>
        /\ top.f \in {"members", "enum"}
    BY <1>7 DEF BodyDone, SameNames, In
  <2>2. top.type \in E
    BY <1>1, <2>1, TopFacts DEF FrameOK
  <2>3. QED
    BY <1>2, <2>1, <2>2 DEF name_vars
<1>8. CASE PatchGroup
  <2>1. UNCHANGED name_vars /\ stack # << >> /\ top.f = "declarator"
    BY <1>8 DEF PatchGroup, SameNames, In
  <2>2. CASE top.group # NULL /\ Open(top.group)
    <3>1. changed' = changed \union {top.group}
      BY <1>8, <2>2 DEF PatchGroup
    <3>2. top.group \in Refs(D)
      BY <2>1, <2>2, TopFacts DEF FrameOK, RefsOrNull
    <3>3. ~(top.group < 0)
      BY <2>2 DEF Open, At, Node
    <3>4. top.group \in E
      BY <1>1, <3>2, <3>3, HeapFacts
    <3>5. QED
      BY <1>2, <2>1, <3>1, <3>4 DEF name_vars
  <2>3. CASE ~(top.group # NULL /\ Open(top.group))
    BY <1>2, <1>8, <2>1, <2>3 DEF PatchGroup, name_vars
  <2>4. QED
    BY <2>2, <2>3
<1>9. QED
  <2>1. CASE UNCHANGED vars
    BY <2>1, <1>3 DEF vars
  <2>2. CASE ReadSpecs
    BY <2>2, <1>3, <1>4 DEF ReadSpecs, SpecStorage, SpecQual, SpecWhole, SpecPart, SpecLong,
       SpecTypedefName, SpecDuplicateTag, SpecTagged, SpecsDone, Specifier, OnlyParsing, SameNames, SameChanges
  <2>3. CASE ReadBody
    BY <2>3, <1>3, <1>5, <1>7 DEF ReadBody, Member, MemberSpecs, MemberUnnamed, MemberDeclarator,
       MemberDone, MemberMore, NotAnEnumerator, OnlyParsing, SameNames, SameChanges
  <2>4. CASE ReadDeclarator
    BY <2>4, <1>3, <1>8 DEF ReadDeclarator, Star, StarQual, StarsDone, Point,
       Group, GroupDone, Direct, DirectDone, SuffixArray, SuffixFunction, Ellipsis, Param, ParamSpecs,
       ParamDone, FunctionDone, SuffixDone, OnlyParsing, SameNames, SameChanges
  <2>5. CASE ReadList
    BY <2>5, <1>3, <1>6 DEF ReadList, TopDeclaration, TopSkip, ListBase, ListUnnamed,
       ListMore, ListEnd, OnlyParsing, SameNames, SameChanges
  <2>6. QED
    BY <2>1, <2>2, <2>3, <2>4, <2>5 DEF Next

-----------------------------------------------------------------------------
(* The invariant *)

LEMMA TypeOKParts ==
  TypeOK <=>
    /\ Inside(pos) /\ errors \in BOOLEAN
    /\ scope \in Seq(SymbolsOver(DOMAIN heap.nodes, AnyKind))
    /\ decls \in Seq(SymbolsOver(DOMAIN heap.nodes, VarKind))
    /\ TagsOK(heap, tags)
    /\ \A t \in DOMAIN heap.nodes : heap.nodes[t].sub \in RefsOrNull(DOMAIN heap.nodes)
    /\ changed \subseteq DOMAIN heap.nodes
    /\ \A s \in Slots : \A i \in DOMAIN heap.buckets[s] : heap.buckets[s][i] \in DOMAIN heap.nodes
BY DEF TypeOK, Inside, SymbolsOver, Symbol, Types, Refs, RefsOrNull, AnyKind, VarKind, TagsOK

LEMMA StartInside == Len(program.tokens) \in Nat => Inside(1)
BY DEF Inside

LEMMA RefsInit == Init => RefsInv
<1> SUFFICES ASSUME Init PROVE RefsInv
  OBVIOUS
<1>1. HeapInv(heap, changed)
  BY InitInv
<1>2. heap = [nodes |-> << >>, buckets |-> [s \in Slots |-> << >>]]
  BY DEF Init, NoTypes
<1>3. NodesOK(heap)
  BY <1>2 DEF NodesOK
<1>4. program.tokens \in Seq(STRING)
  BY InputAssumption DEF Init
<1>5. StackOK(DOMAIN heap.nodes, stack, ret)
  <2>1. stack = << >>
    BY DEF Init
  <2>2. << >> \in Seq(Nat) /\ DOMAIN << >> = {} /\ Len(<< >>) = 0
    OBVIOUS
  <2>3. QED
    BY <2>1, <2>2 DEF StackOK
<1>6. TypeOK
  <2>5. Len(program.tokens) \in Nat
    BY <1>4
  <2>6. pos = 1 /\ errors = FALSE
    BY DEF Init
  <2>1. Inside(pos) /\ errors \in BOOLEAN
    BY <2>5, <2>6, StartInside, Zenon
  <2>2. /\ scope \in Seq(SymbolsOver(DOMAIN heap.nodes, AnyKind))
        /\ decls \in Seq(SymbolsOver(DOMAIN heap.nodes, VarKind))
    <3>1. scope = << >> /\ decls = << >>
      BY DEF Init
    <3>2. \A S : << >> \in Seq(S)
      OBVIOUS
    <3>3. QED
      BY <3>1, <3>2
  <2>3. TagsOK(heap, tags) /\ changed = {}
    BY DEF TagsOK, Init
  <2>4. QED
    BY <1>2, <2>1, <2>2, <2>3, TypeOKParts
<1>7. QED
  BY <1>1, <1>3, <1>5, <1>6 DEF RefsInv, Init

LEMMA RefsStep ==
  ASSUME HashesToSlots, RefsInv, [Next]_vars
  PROVE  RefsInv'
<1> DEFINE D == DOMAIN heap.nodes
<1>1. /\ IsHeap(heap) /\ NodesOK(heap) /\ program \in Programs /\ StackOK(D, stack, ret)
      /\ Inside(pos) /\ errors \in BOOLEAN
      /\ scope \in Seq(SymbolsOver(D, AnyKind)) /\ decls \in Seq(SymbolsOver(D, VarKind))
      /\ TagsOK(heap, tags) /\ changed \subseteq D
  BY TypeOKParts DEF RefsInv, HeapInv
<1>2. HeapInv(heap', changed')
  BY StepInv DEF RefsInv, HeapInv, IsHeap, UnderItsKey, OnceInBucket
<1>3. IsHeap(heap')
  BY <1>2 DEF HeapInv
<1>4. NodesOK(heap') /\ Grows(heap, heap')
  BY <1>1, HeapStep
<1>5. StackOK(DOMAIN heap'.nodes, stack', ret')
  BY <1>1, <1>3, <1>4, StackStep
<1>6. program' = program /\ Inside(pos') /\ errors' \in BOOLEAN
  BY <1>1, PositionStep
<1>7. /\ scope' \in Seq(SymbolsOver(DOMAIN heap'.nodes, AnyKind))
      /\ decls' \in Seq(SymbolsOver(DOMAIN heap'.nodes, VarKind))
      /\ TagsOK(heap', tags') /\ changed' \subseteq DOMAIN heap'.nodes
  BY <1>1, <1>4, InputAssumption, NamesStep
<1>8. TypeOK'
  <2>1. pos' \in 1 .. Len(program'.tokens) + 1
    BY <1>6 DEF Inside
  <2>2. \A t \in DOMAIN heap'.nodes : heap'.nodes[t].sub \in RefsOrNull(DOMAIN heap'.nodes)
    BY <1>4 DEF NodesOK
  <2>3. \A s \in Slots : \A i \in DOMAIN heap'.buckets[s] : heap'.buckets[s][i] \in DOMAIN heap'.nodes
    BY <1>3 DEF IsHeap
  <2>4. QED
    BY <1>6, <1>7, <2>1, <2>2, <2>3
       DEF TypeOK, SymbolsOver, Symbol, Types, Refs, RefsOrNull, AnyKind, VarKind, TagsOK
<1>9. QED
  BY <1>1, <1>2, <1>4, <1>5, <1>6, <1>8
     DEF RefsInv, HeapInv, IsHeap, UnderItsKey, OnceInBucket, NodesOK, StackOK

\* TypesReferToTypes: for every token sequence and every hash function into
\* the buckets, the parser of declarations stays inside its input, and every
\* symbol, declaration, tag and node refers to a type that exists; a
\* declarator parsed on NULL, in parentheses, gives NULL to no one.
THEOREM TypesReferToTypes ==
  ASSUME HashesToSlots
  PROVE  Spec => []TypeOK
<1>1. RefsInv /\ [Next]_vars => RefsInv'
  BY RefsStep
<1>2. RefsInv => TypeOK
  BY DEF RefsInv
<1>3. QED
  BY <1>1, <1>2, RefsInit, PTL DEF Spec
=============================================================================
