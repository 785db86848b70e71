------------------------------ MODULE AbiLayout ------------------------------
(***************************************************************************)
(* The layout of an aggregate (StructLayout), objects of it (FieldAccess)   *)
(* and its ABI class (AbiClass) together: abi_classify reads the offsets     *)
(* type_seal_struct wrote.  A member type carries its scalars besides size   *)
(* and align: one scalar, every element of an array, or all of a nested      *)
(* struct or union with its END.  A bit-field is classified by its declared  *)
(* type at the offset of its storage unit.                                   *)
(***************************************************************************)
EXTENDS FieldAccess, AbiClass, FiniteSets

\* A long double has 16 bytes (type.c:265) and lies within its type.
ASSUME ClassConstants ==
  \A t \in Types :
    /\ t.scalars \in Seq(Scalars)
    /\ \A j \in DOMAIN t.scalars : t.scalars[j].cls = "X87" => t.scalars[j].off + 16 <= t.size

\* A mutation: the elements of an array are all classified at its start.
ShiftedToStart(m) ==
  [j \in DOMAIN m.type.scalars |-> [m.type.scalars[j] EXCEPT !.off = m.off]]

\* The scalars of member m at their offsets in the aggregate.
Shifted(m) ==
  [j \in DOMAIN m.type.scalars |-> [m.type.scalars[j] EXCEPT !.off = @ + m.off]]

\* What classify_range has reached after each number of members.
\* type_seal_struct gives a bit-field of width 0 no offset: it stays in the
\* list at offset 0.
LeavesAfter ==
  LET reached[k \in 0 .. Len(members)] ==
        IF k = 0 THEN IF zero_width THEN <<[off |-> 0, cls |-> "INTEGER"]>> ELSE << >>
        ELSE reached[k - 1] \o Shifted(members[k])
  IN  reached

\* The aggregate as abi_classify sees it.
Aggregate == [size |-> size, agg |-> TRUE, leaves |-> LeavesAfter[Len(members)]]

-----------------------------------------------------------------------------
(* The ABI's definition (System V AMD64, 3.2.3), by sets: the order of the   *)
(* members plays no part in it.                                             *)

ScalarsOf(m) == {[off |-> m.off + m.type.scalars[j].off, cls |-> m.type.scalars[j].cls] :
                   j \in DOMAIN m.type.scalars}

\* Every scalar of the aggregate, those of arrays and nested aggregates too.
Contents == {x \in UNION {ScalarsOf(members[i]) : i \in DOMAIN members} : x.cls # "END"}

\* The classes of the scalars in eightbyte e.
ClassesIn(e) ==
  {x.cls : x \in {y \in Contents : y.off \div 8 = e}}
    \union {"X87UP" : x \in {y \in Contents : y.cls = "X87" /\ y.off \div 8 = e - 1}}

Merged(e) ==
  LET s == ClassesIn(e)
  IN  IF s = {} THEN "NONE"
      ELSE IF "INTEGER" \in s THEN "INTEGER"
      ELSE IF Cardinality(s) = 1 THEN CHOOSE c \in s : TRUE
      ELSE "MEMORY"

InMemory ==
  \/ size > 16
  \/ \E e \in 0 .. Eightbytes(size) - 1 :
       \/ Merged(e) = "MEMORY"
       \/ Merged(e) = "X87UP" /\ Merged(e - 1) # "X87"

\* A long double whose second half shares its bytes with an integer, and
\* floating point or a nested aggregate beside them.  The ABI merges two fields
\* at a time, and there the result depends on which two come first: MEMORY
\* stays MEMORY whatever follows.  The post-merger of a nested aggregate looks
\* at all that was merged before it, which the ABI does not ask for.
OrderDecides ==
  /\ \E x \in Contents : x.cls = "X87"
  /\ "INTEGER" \in ClassesIn(1)
  /\ \/ "SSE" \in ClassesIn(0) \union ClassesIn(1)
     \/ \E i \in DOMAIN members : \E x \in ScalarsOf(members[i]) : x.cls = "END"

-----------------------------------------------------------------------------
(* Property *)

\* The classifier's incremental merging over the offsets the layout chose, one
\* scalar at a time with the post-merger of every nested aggregate on the way,
\* computes the ABI's classes: a struct travels where code from another compiler
\* expects it.  Left out are aggregates with a bit-field of width 0, which the
\* ABI ignores and the classifier does not, and those where OrderDecides.
MatchesABI ==
  /\ sealed /\ ~zero_width /\ (\A i \in DOMAIN members : members[i].width # 0)
  /\ ~OrderDecides
  => LET classes == abi_classify(Aggregate)
     IN  IF InMemory THEN abi_in_memory(classes)
         ELSE \A e \in 0 .. Eightbytes(size) - 1 : classes[e] = Merged(e)
=============================================================================
