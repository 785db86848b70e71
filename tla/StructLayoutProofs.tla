------------------------- MODULE StructLayoutProofs --------------------------
(***************************************************************************)
(* For every set of complete member types and every member list: the layout *)
(* of a struct or union is right; stores and initializers, through the loads, *)
(* masks, shifts and stores that irgen.c emits, reach the member they name   *)
(* and no other; and the classes abi_classify computes are the ABI's.        *)
(***************************************************************************)
EXTENDS AbiLayout, SharedFacts, FiniteSetTheorems, SequenceTheorems, TLAPS

\* Every member ends at or below offset; while a unit is open it is the last
\* thing laid out, and what is in it is below bit_next.
Placed(m) ==
  /\ m.off % m.type.align = 0
  /\ m.type.align <= max_align
  /\ IsBitField(m) => m.bit + m.width <= 8 * m.type.size
  /\ End(m) <= offset
  /\ kind = "struct" /\ bit_next > 0 =>
       \/ End(m) <= unit.off
       \/ /\ IsBitField(m) /\ m.off = unit.off /\ m.type.size = unit.size
          /\ m.bit + m.width <= bit_next

\* The same of a member m in the next state.
PlacedNext(m) ==
  /\ m.off % m.type.align = 0
  /\ m.type.align <= max_align'
  /\ IsBitField(m) => m.bit + m.width <= 8 * m.type.size
  /\ End(m) <= offset'
  /\ kind' = "struct" /\ bit_next' > 0 =>
       \/ End(m) <= unit'.off
       \/ /\ IsBitField(m) /\ m.off = unit'.off /\ m.type.size = unit'.size
          /\ m.bit + m.width <= bit_next'

UnitInv ==
  kind = "struct" /\ bit_next > 0 =>
    /\ unit.off + unit.size = offset
    /\ unit.off % unit.align = 0

MaxAlignInv ==
  max_align = 1 \/ \E t \in Types : t.align = max_align

IInv ==
  /\ TypeOK
  /\ \A i \in 1 .. Len(members) : Placed(members[i])
  /\ UnitInv
  /\ MaxAlignInv
  /\ MembersDisjoint
  /\ sealed => size = AlignUp(offset, max_align)

LEMMA TypeFacts ==
  ASSUME NEW t \in Types
  PROVE  /\ t.size \in Nat \ {0} /\ t.align \in Nat \ {0} /\ t.size % t.align = 0
  BY StructConstants

LEMMA LargerFacts ==
  ASSUME TypeOK, MaxAlignInv, NEW t \in Types, max_align' = Larger(max_align, t.align)
  PROVE  /\ max_align' \in Nat \ {0} /\ max_align' >= max_align
         /\ max_align' >= t.align /\ MaxAlignInv'
<1>1. max_align \in Nat \ {0} /\ t.align \in Nat \ {0}
  BY TypeFacts DEF TypeOK
<1> QED BY <1>1 DEF Larger, MaxAlignInv

LEMMA MembersTyped ==
  ASSUME TypeOK
  PROVE  /\ Len(members) \in Nat
         /\ \A i \in 1 .. Len(members) :
              /\ members[i] \in Member
              /\ members[i].off \in Nat /\ members[i].bit \in Nat
              /\ members[i].width \in Nat \union {-1}
              /\ members[i].type \in Types
              /\ members[i].type.size \in Nat \ {0}
              /\ members[i].type.align \in Nat \ {0}
<1>1. members \in Seq(Member)
  BY DEF TypeOK
<1>2. Len(members) \in Nat /\ \A i \in 1 .. Len(members) : members[i] \in Member
  BY <1>1
<1> QED BY <1>2, TypeFacts DEF Member, NotBitField

\* The common part of the four actions that add a member: the new member is
\* well placed, the old ones still are, and they are all before it.
LEMMA AddPreserves ==
  ASSUME IInv, ~sealed, NEW t \in Types, NEW w \in Nat \union {-1},
         NEW off \in Nat, NEW bit \in Nat, AddMember(t, w, off, bit),
         offset' \in Nat, bit_next' \in Nat,
         unit' \in [off : Nat, size : Nat, align : Nat \ {0}],
         UnitInv',
         NEW m, m = [type |-> t, width |-> w, off |-> off, bit |-> bit],
         \A i \in 1 .. Len(members) : PlacedNext(members[i]),
         PlacedNext(m),
         kind = "struct" =>
           \A i \in 1 .. Len(members) :
             \/ End(members[i]) <= off
             \/ SameUnit(members[i], m) /\ members[i].bit + members[i].width <= bit
  PROVE  IInv'
<1>1. /\ m \in Member /\ members' \in Seq(Member)
      /\ Len(members') = Len(members) + 1
      /\ \A i \in 1 .. Len(members) : members'[i] = members[i]
      /\ members'[Len(members) + 1] = m
      /\ \A i \in 1 .. Len(members') :
           i \in 1 .. Len(members) \/ i = Len(members) + 1
  <2>1. m \in Member
    BY DEF Member, NotBitField
  <2>2. members \in Seq(Member) /\ members' = Append(members, m)
    BY DEF IInv, TypeOK, AddMember
  <2> QED BY <2>1, <2>2
<1>2. /\ kind' = kind /\ sealed' = sealed /\ size' = size
      /\ max_align' = Larger(max_align, t.align)
  BY DEF AddMember
<1>3. max_align' \in Nat \ {0} /\ MaxAlignInv'
  BY <1>2, LargerFacts DEF IInv
<1>4. TypeOK'
  BY <1>1, <1>2, <1>3 DEF IInv, TypeOK
<1>5. ASSUME NEW i \in 1 .. Len(members') PROVE Placed(members[i])' 
  <2>1. CASE i \in 1 .. Len(members)
    BY <1>1, <2>1 DEF Placed, PlacedNext, End, IsBitField
  <2>2. CASE i = Len(members) + 1
    <3>1. members'[i] = m
      BY <1>1, <2>2
    <3> QED BY <3>1 DEF Placed, PlacedNext, End, IsBitField
  <2> QED BY <1>1, <1>5, <2>1, <2>2
<1>6. MembersDisjoint'
  <2> SUFFICES ASSUME kind = "struct",
                      NEW i \in 1 .. Len(members'), NEW j \in 1 .. Len(members'),
                      i < j
               PROVE  \/ End(members'[i]) <= members'[j].off
                      \/ /\ SameUnit(members'[i], members'[j])
                         /\ members'[i].bit + members'[i].width <= members'[j].bit
    BY <1>2 DEF MembersDisjoint, End, SameUnit, IsBitField
  <2>1. i \in 1 .. Len(members) /\ members'[i] = members[i]
    BY <1>1, MembersTyped DEF IInv
  <2>2. CASE j \in 1 .. Len(members)
    BY <1>1, <2>1, <2>2 DEF IInv, MembersDisjoint
  <2>3. CASE j = Len(members) + 1
    <3>1. members'[j] = m /\ m.off = off /\ m.bit = bit
      BY <1>1, <2>3
    <3> QED BY <2>1, <3>1
  <2> QED BY <1>1, <2>2, <2>3
<1> QED BY <1>2, <1>3, <1>4, <1>5, <1>6 DEF IInv

\* An old member stays well placed when offset grows, max_align grows and the
\* open unit is closed, replaced by one above, or filled further.
LEMMA OldStayPlaced ==
  ASSUME IInv, NEW i \in 1 .. Len(members), kind' = kind,
         max_align' \in Nat, max_align' >= max_align,
         offset' \in Nat, offset' >= offset,
         kind = "struct" =>
           \/ bit_next' = 0
           \/ unit'.off \in Nat /\ unit'.off >= offset
           \/ /\ unit' = unit /\ bit_next > 0 /\ bit_next' \in Nat
              /\ bit_next' >= bit_next
  PROVE  PlacedNext(members[i])
<1>1. /\ members[i].off \in Nat /\ members[i].bit \in Nat
      /\ members[i].width \in Nat \union {-1}
      /\ members[i].type.size \in Nat \ {0} /\ members[i].type.align \in Nat \ {0}
  BY MembersTyped DEF IInv
<1>2. Placed(members[i])
  BY DEF IInv
<1>3. /\ offset \in Nat /\ max_align \in Nat /\ bit_next \in Nat
      /\ unit.off \in Nat
  BY DEF IInv, TypeOK
<1>4. ASSUME kind = "struct", bit_next' > 0
      PROVE  \/ End(members[i]) <= unit'.off
             \/ /\ IsBitField(members[i]) /\ members[i].off = unit'.off
                /\ members[i].type.size = unit'.size
                /\ members[i].bit + members[i].width <= bit_next'
  <2>1. End(members[i]) \in Nat /\ End(members[i]) <= offset
    BY <1>1, <1>2 DEF Placed, End
  <2>2. CASE unit'.off \in Nat /\ unit'.off >= offset
    BY <1>3, <2>1, <2>2
  <2>3. CASE /\ unit' = unit /\ bit_next > 0 /\ bit_next' \in Nat
             /\ bit_next' >= bit_next
    <3>1. CASE End(members[i]) <= unit.off
      BY <2>3, <3>1
    <3>2. CASE /\ IsBitField(members[i]) /\ members[i].off = unit.off
               /\ members[i].type.size = unit.size
               /\ members[i].bit + members[i].width <= bit_next
      BY <1>1, <1>3, <2>3, <3>2 DEF IsBitField, NotBitField
    <3> QED BY <1>2, <1>4, <2>3, <3>1, <3>2 DEF Placed
  <2> QED BY <1>4, <2>2, <2>3
<1>5. End(members[i]) <= offset'
  <2>1. End(members[i]) \in Nat
    BY <1>1 DEF End
  <2>2. End(members[i]) <= offset
    BY <1>2 DEF Placed
  <2> QED BY <1>3, <2>1, <2>2
<1>6. members[i].type.align <= max_align'
  <2>1. members[i].type.align <= max_align
    BY <1>2 DEF Placed
  <2> QED BY <1>1, <1>3, <2>1
<1> QED BY <1>2, <1>4, <1>5, <1>6 DEF PlacedNext, Placed

LEMMA InitIInv == Init => IInv
<1> SUFFICES ASSUME Init PROVE IInv
  OBVIOUS
<1>1. TypeOK
  <2>1. << >> \in Seq(Member)
    OBVIOUS
  <2>2. unit \in [off : Nat, size : Nat, align : Nat \ {0}]
    BY DEF Init
  <2> QED BY <2>1, <2>2 DEF Init, TypeOK
<1>2. Len(members) = 0
  BY DEF Init
<1> QED BY <1>1, <1>2 DEF Init, IInv, UnitInv, MaxAlignInv, MembersDisjoint

LEMMA PlainPreserves ==
  ASSUME IInv, NEW t \in Types, PlainMember(t)
  PROVE  IInv'
<1> DEFINE off == AlignUp(offset, t.align)
           m == [type |-> t, width |-> -1, off |-> off, bit |-> 0]
<1>1. /\ t.size \in Nat \ {0} /\ t.align \in Nat \ {0} /\ offset \in Nat
      /\ TypeOK /\ MaxAlignInv
  BY TypeFacts DEF IInv, TypeOK
<1>2. off \in Nat /\ off >= offset /\ off % t.align = 0
  BY <1>1, AlignUpFacts
<1> HIDE DEF off
<1>3. /\ kind = "struct" /\ ~sealed /\ AddMember(t, -1, off, 0)
      /\ offset' = off + t.size /\ bit_next' = 0 /\ unit' = unit
  BY DEF PlainMember, CanAdd, PlainOffset, NotBitField, CloseUnit, off
<1>4. max_align' = Larger(max_align, t.align) /\ kind' = kind
  BY <1>3 DEF AddMember
<1>5. max_align' \in Nat \ {0} /\ max_align' >= max_align /\ max_align' >= t.align
  BY <1>1, <1>4, LargerFacts
<1>6. offset' \in Nat /\ offset' >= offset
  BY <1>1, <1>2, <1>3
<1>7. \A i \in 1 .. Len(members) : PlacedNext(members[i])
  BY <1>3, <1>4, <1>5, <1>6, OldStayPlaced
<1>8. PlacedNext(m)
  BY <1>1, <1>2, <1>3, <1>5 DEF PlacedNext, IsBitField, NotBitField, End
<1>9. \A i \in 1 .. Len(members) : End(members[i]) <= off
  BY <1>1, <1>2, MembersTyped DEF IInv, Placed, End
<1>10. UnitInv' /\ unit' \in [off : Nat, size : Nat, align : Nat \ {0}]
  BY <1>1, <1>3 DEF UnitInv, TypeOK
<1> QED BY <1>2, <1>3, <1>6, <1>7, <1>8, <1>9, <1>10, AddPreserves

LEMMA NewUnitPreserves ==
  ASSUME IInv, NEW t \in BitTypes, NEW w \in 1 .. 8 * t.size, BitFieldNewUnit(t, w)
  PROVE  IInv'
<1> DEFINE off == AlignUp(offset, t.align)
           m == [type |-> t, width |-> w, off |-> off, bit |-> 0]
<1>1. /\ t \in Types
      /\ t.size \in Nat \ {0} /\ t.align \in Nat \ {0} /\ offset \in Nat
      /\ TypeOK /\ MaxAlignInv
  BY TypeFacts, StructConstants DEF IInv, TypeOK
<1>2. off \in Nat /\ off >= offset /\ off % t.align = 0
  BY <1>1, AlignUpFacts
<1>3. w \in Nat \ {0} /\ w <= 8 * t.size
  BY <1>1
<1> HIDE DEF off
<1>4. /\ kind = "struct" /\ ~sealed /\ AddMember(t, w, off, 0)
      /\ offset' = off + t.size /\ bit_next' = w
      /\ unit' = [off |-> off, size |-> t.size, align |-> t.align]
  BY DEF BitFieldNewUnit, CanAdd, off
<1>5. max_align' = Larger(max_align, t.align) /\ kind' = kind
  BY <1>4 DEF AddMember
<1>6. max_align' \in Nat \ {0} /\ max_align' >= max_align /\ max_align' >= t.align
  BY <1>1, <1>5, LargerFacts
<1>7. offset' \in Nat /\ offset' >= offset /\ unit'.off = off
  BY <1>1, <1>2, <1>4
<1>8. \A i \in 1 .. Len(members) : PlacedNext(members[i])
  BY <1>2, <1>4, <1>5, <1>6, <1>7, OldStayPlaced
<1>9. PlacedNext(m)
  BY <1>1, <1>2, <1>3, <1>4, <1>6 DEF PlacedNext, IsBitField, NotBitField, End
<1>10. \A i \in 1 .. Len(members) : End(members[i]) <= off
  BY <1>1, <1>2, MembersTyped DEF IInv, Placed, End
<1>11. UnitInv' /\ unit' \in [off : Nat, size : Nat, align : Nat \ {0}]
  BY <1>1, <1>2, <1>4 DEF UnitInv
<1> QED BY <1>1, <1>2, <1>3, <1>4, <1>7, <1>8, <1>9, <1>10, <1>11, AddPreserves

LEMMA SameUnitPreserves ==
  ASSUME IInv, NEW t \in BitTypes, NEW w \in 1 .. 8 * t.size, BitFieldSameUnit(t, w)
  PROVE  IInv'
<1> DEFINE m == [type |-> t, width |-> w, off |-> unit.off, bit |-> bit_next]
<1>1. /\ t \in Types
      /\ t.size \in Nat \ {0} /\ t.align \in Nat \ {0} /\ offset \in Nat
      /\ bit_next \in Nat /\ unit.off \in Nat
      /\ unit \in [off : Nat, size : Nat, align : Nat \ {0}]
      /\ TypeOK /\ MaxAlignInv
  BY TypeFacts, StructConstants DEF IInv, TypeOK
<1>2. w \in Nat \ {0}
  BY <1>1
<1>3. /\ kind = "struct" /\ ~sealed /\ AddMember(t, w, unit.off, bit_next)
      /\ offset' = offset /\ bit_next' = bit_next + w /\ unit' = unit
      /\ bit_next # 0 /\ ~(bit_next + w > 8 * t.size)
      /\ t.align = unit.align /\ t.size = unit.size
  BY DEF BitFieldSameUnit, CanAdd, NeedsUnit
<1>4. max_align' = Larger(max_align, t.align) /\ kind' = kind
  BY <1>3 DEF AddMember
<1>5. max_align' \in Nat \ {0} /\ max_align' >= max_align /\ max_align' >= t.align
  BY <1>1, <1>4, LargerFacts
<1>6. bit_next > 0 /\ bit_next' \in Nat /\ bit_next' >= bit_next
  BY <1>1, <1>2, <1>3
<1>7. \A i \in 1 .. Len(members) : PlacedNext(members[i])
  BY <1>1, <1>3, <1>4, <1>5, <1>6, OldStayPlaced
<1>8. unit.off + unit.size = offset /\ unit.off % unit.align = 0
  BY <1>3, <1>6 DEF IInv, UnitInv
<1>9. PlacedNext(m)
  BY <1>1, <1>2, <1>3, <1>5, <1>6, <1>8 DEF PlacedNext, IsBitField, NotBitField, End
<1>10. \A i \in 1 .. Len(members) :
         \/ End(members[i]) <= unit.off
         \/ SameUnit(members[i], m) /\ members[i].bit + members[i].width <= bit_next
  <2> SUFFICES ASSUME NEW i \in 1 .. Len(members), ~(End(members[i]) <= unit.off)
               PROVE  SameUnit(members[i], m) /\ members[i].bit + members[i].width <= bit_next
    OBVIOUS
  <2>1. /\ IsBitField(members[i]) /\ members[i].off = unit.off
        /\ members[i].type.size = unit.size
        /\ members[i].bit + members[i].width <= bit_next
    BY <1>3, <1>6 DEF IInv, Placed
  <2>2. m.off = unit.off /\ m.type.size = unit.size /\ IsBitField(m)
    BY <1>2, <1>3 DEF IsBitField, NotBitField
  <2> QED BY <2>1, <2>2 DEF SameUnit
<1>11. UnitInv'
  BY <1>3, <1>8 DEF UnitInv
<1> QED BY <1>1, <1>2, <1>3, <1>6, <1>7, <1>9, <1>10, <1>11, AddPreserves

LEMMA UnionPreserves ==
  ASSUME IInv, NEW t \in Types, NEW w \in Nat \union {-1},
         w # -1 => w <= 8 * t.size, UnionMember(t, w)
  PROVE  IInv'
<1> DEFINE m == [type |-> t, width |-> w, off |-> 0, bit |-> 0]
<1>1. /\ t.size \in Nat \ {0} /\ t.align \in Nat \ {0} /\ offset \in Nat
      /\ bit_next \in Nat
      /\ unit \in [off : Nat, size : Nat, align : Nat \ {0}]
      /\ TypeOK /\ MaxAlignInv
  BY TypeFacts DEF IInv, TypeOK
<1>2. /\ kind = "union" /\ ~sealed /\ AddMember(t, w, 0, 0)
      /\ offset' = Larger(offset, t.size) /\ bit_next' = bit_next /\ unit' = unit
  BY DEF UnionMember, CanAdd
<1>3. max_align' = Larger(max_align, t.align) /\ kind' = kind
  BY <1>2 DEF AddMember
<1>4. max_align' \in Nat \ {0} /\ max_align' >= max_align /\ max_align' >= t.align
  BY <1>1, <1>3, LargerFacts
<1>5. offset' \in Nat /\ offset' >= offset /\ offset' >= t.size
  BY <1>1, <1>2 DEF Larger
<1>6. \A i \in 1 .. Len(members) : PlacedNext(members[i])
  BY <1>2, <1>3, <1>4, <1>5, OldStayPlaced
<1>7. 0 % t.align = 0
  BY <1>1
<1>8. PlacedNext(m)
  BY <1>1, <1>2, <1>3, <1>4, <1>5, <1>7 DEF PlacedNext, IsBitField, NotBitField, End
<1>9. UnitInv'
  BY <1>2, <1>3 DEF UnitInv
<1> QED BY <1>1, <1>2, <1>5, <1>6, <1>8, <1>9, AddPreserves

LEMMA NextIInv == IInv /\ [Next]_vars => IInv'
<1> SUFFICES ASSUME IInv, [Next]_vars PROVE IInv'
  OBVIOUS
<1>1. ASSUME NEW t \in Types, PlainMember(t) PROVE IInv'
  BY <1>1, PlainPreserves
<1>2. ASSUME NEW t \in BitTypes, ZeroWidth(t) PROVE IInv'
  <2> DEFINE end == IF bit_next > 0 THEN unit.off + unit.size ELSE offset
  <2>1. /\ t \in Types /\ t.align \in Nat \ {0} /\ offset \in Nat /\ TypeOK
        /\ MaxAlignInv /\ kind = "struct"
    BY <1>2, TypeFacts, StructConstants DEF IInv, TypeOK, ZeroWidth, CanAdd
  <2>2. end = offset
    BY <2>1 DEF IInv, UnitInv
  <2>3. /\ offset' = AlignUp(offset, t.align) /\ bit_next' = 0
        /\ max_align' = Larger(max_align, t.align) /\ ~sealed
        /\ UNCHANGED <<kind, members, unit, sealed, size>>
    BY <1>2, <2>2 DEF ZeroWidth, CanAdd
  <2>4. offset' \in Nat /\ offset' >= offset
    BY <2>1, <2>3, AlignUpFacts
  <2>5. max_align' \in Nat \ {0} /\ max_align' >= max_align /\ MaxAlignInv'
    BY <2>1, <2>3, LargerFacts
  <2>6. \A i \in 1 .. Len(members) : PlacedNext(members[i])
    BY <2>3, <2>4, <2>5, OldStayPlaced
  <2>7. \A i \in 1 .. Len(members') : Placed(members[i])'
    BY <2>3, <2>6 DEF Placed, PlacedNext, End, IsBitField
  <2>8. TypeOK'
    BY <2>1, <2>3, <2>4, <2>5 DEF TypeOK
  <2>9. MembersDisjoint' /\ UnitInv'
    BY <2>3 DEF IInv, MembersDisjoint, UnitInv, End, SameUnit, IsBitField
  <2> QED BY <2>3, <2>5, <2>7, <2>8, <2>9 DEF IInv
<1>3. ASSUME NEW t \in BitTypes, NEW w \in 1 .. 8 * t.size,
             BitFieldNewUnit(t, w) \/ BitFieldSameUnit(t, w)
      PROVE  IInv'
  BY <1>3, NewUnitPreserves, SameUnitPreserves
<1>4. ASSUME NEW t \in Types, UnionMember(t, NotBitField) PROVE IInv'
  BY <1>4, UnionPreserves DEF NotBitField
<1>5. ASSUME NEW t \in BitTypes, NEW w \in 0 .. 8 * t.size, UnionMember(t, w)
      PROVE  IInv'
  <2>1. t \in Types /\ t.size \in Nat
    BY StructConstants
  <2>2. w \in Nat /\ w <= 8 * t.size
    BY <2>1
  <2> QED BY <1>5, <2>1, <2>2, UnionPreserves
<1>6. CASE Seal
  <2>1. /\ size' = AlignUp(offset, max_align) /\ sealed' = TRUE
        /\ UNCHANGED <<kind, members, offset, max_align, unit, bit_next>>
    BY <1>6 DEF Seal, SealedSize
  <2>2. size' \in Nat
    BY <2>1, AlignUpFacts DEF IInv, TypeOK
  <2>3. TypeOK'
    BY <2>1, <2>2 DEF IInv, TypeOK
  <2> QED BY <2>1, <2>3 DEF IInv, Placed, UnitInv, MaxAlignInv, MembersDisjoint,
                            End, SameUnit, IsBitField
<1>7. CASE UNCHANGED vars
  BY <1>7 DEF vars, IInv, TypeOK, Placed, UnitInv, MaxAlignInv, MembersDisjoint,
              End, SameUnit, IsBitField
<1> QED BY <1>1, <1>2, <1>3, <1>4, <1>5, <1>6, <1>7 DEF Next

LEMMA IInvSafe == IInv => FitsAndTiles /\ BitsInUnit
<1> SUFFICES ASSUME IInv PROVE FitsAndTiles /\ BitsInUnit
  OBVIOUS
<1>1. BitsInUnit
  BY DEF IInv, Placed, BitsInUnit
<1>2. ASSUME sealed, NEW i \in 1 .. Len(members)
      PROVE  /\ End(members[i]) <= size
             /\ size % members[i].type.align = 0
             /\ members[i].off % members[i].type.align = 0
  <2>1. /\ members[i].type \in Types /\ members[i].type.align \in Nat \ {0}
        /\ End(members[i]) \in Nat
    BY MembersTyped DEF IInv, End
  <2>2. offset \in Nat /\ max_align \in Nat \ {0} /\ size = AlignUp(offset, max_align)
    BY <1>2 DEF IInv, TypeOK
  <2>3. size \in Nat /\ size >= offset /\ size % max_align = 0
    BY <2>2, AlignUpFacts
  <2>4. Placed(members[i])
    BY DEF IInv
  <2>5. max_align % members[i].type.align = 0
    <3>1. CASE max_align = 1
      BY <2>1, <2>4, <3>1 DEF Placed
    <3>2. CASE \E t \in Types : t.align = max_align
      BY <2>1, <2>4, <3>2, StructConstants DEF Placed
    <3> QED BY <3>1, <3>2 DEF IInv, MaxAlignInv
  <2>6. size % members[i].type.align = 0
    BY <2>1, <2>2, <2>3, <2>5, MultipleTransitive
  <2> QED BY <2>1, <2>2, <2>3, <2>4, <2>6 DEF Placed
<1> QED BY <1>1, <1>2 DEF FitsAndTiles

\* For every member list of complete types: members are in order and disjoint,
\* bit-fields of a unit share no bit and stay inside it, and the padded size
\* holds every member and keeps arrays of the aggregate aligned.
THEOREM LayoutSafe ==
  Spec => [](TypeOK /\ MembersDisjoint /\ FitsAndTiles /\ BitsInUnit)
<1>1. Init => IInv
  BY InitIInv
<1>2. IInv /\ [Next]_vars => IInv'
  BY NextIInv
<1>3. IInv => TypeOK /\ MembersDisjoint /\ FitsAndTiles /\ BitsInUnit
  BY IInvSafe DEF IInv
<1> QED BY <1>1, <1>2, <1>3, PTL DEF Spec

\* The running offset, the alignment and the open unit of type_seal_struct stay
\* in range, whatever members were laid out before.
THEOREM LayoutTyped == Spec => []TypeOK
BY LayoutSafe, PTL

\* type_seal_struct pads an aggregate so that it holds all its members and each
\* of them is aligned in every element of an array of it (type.c:236-245).
THEOREM LayoutTiles == Spec => []FitsAndTiles
BY LayoutSafe, PTL

-----------------------------------------------------------------------------
(* Objects of the aggregate *)

\* A member's access in one form: its bits are Width(m) bits from First(m) on.
First(m) == IF HasWidth(m) THEN 8 * m.off + m.bit ELSE 8 * m.off
Width(m) == IF HasWidth(m) THEN m.width ELSE 8 * m.type.size
Bits(m) == First(m) .. First(m) + Width(m) - 1

\* What an access relies on: numbers in range, a bit-field inside a unit of at
\* most 8 bytes, and not of 63 bits (bit_mask).
Accessible(m) ==
  /\ m.off \in Nat /\ m.bit \in Nat /\ m.type.size \in Nat \ {0}
  /\ m.width = NotBitField \/ m.width \in Nat \ {0, 63}
  /\ IsBitField(m) => m.type.size <= 8 /\ m.bit + m.width <= 8 * m.type.size

\* Bit-fields that are stored to have a name and so a width, one that bit_mask
\* gets right, and an integer type; op= is not applied to them.
Masked(shapes) ==
  \A s \in shapes : s.width \notin {0, 63} /\ (s.width # NotBitField => s.type.size <= 8)
Storable ==
  /\ Masked(StoreShapes)
  /\ \A s \in CompoundShapes : s.width = NotBitField

FInv ==
  /\ IInv
  /\ object # "none" => sealed
  /\ object = "live" => ShapesIn(StoreShapes)
  /\ FieldsHold

LEMMA MaskFacts ==
  ASSUME NEW w \in Nat \ {0, 63}, w <= 64
  PROVE  bit_mask(w) = 0 .. w - 1
<1>1. CASE w = 64
  BY <1>1 DEF bit_mask, Word
<1>2. CASE w # 64
  BY <1>2 DEF bit_mask
<1> QED BY <1>1, <1>2

\* gen_bitfield_load's shift and mask select the bits of the field.
LEMMA ReadFacts ==
  ASSUME NEW mem, NEW m, Accessible(m)
  PROVE  \A b : b \in Read(mem, m) <=> b \in 0 .. Width(m) - 1 /\ First(m) + b \in mem
<1>1. CASE HasWidth(m)
  <2>1. /\ m.off \in Nat /\ m.bit \in Nat /\ m.type.size \in Nat \ {0}
        /\ m.width \in Nat \ {0, 63} /\ m.width <= 64 /\ m.type.size <= 8
        /\ m.bit + m.width <= 8 * m.type.size
    BY <1>1 DEF Accessible, IsBitField, NotBitField, HasWidth
  <2>2. bit_mask(m.width) = 0 .. m.width - 1
    BY <2>1, MaskFacts
  <2>3. \A b : b \in Read(mem, m) <=>
                 /\ b \in Word /\ b + m.bit \in load(mem, m)
                 /\ b \in 0 .. m.width - 1
    BY <1>1, <2>2 DEF Read, gen_bitfield_load, Shr
  <2>4. \A b \in 0 .. m.width - 1 :
          /\ b \in Word
          /\ b + m.bit \in 0 .. 8 * m.type.size - 1
          /\ 8 * m.off + (b + m.bit) = (8 * m.off + m.bit) + b
    BY <2>1 DEF Word
  <2>5. \A b \in 0 .. m.width - 1 :
          b + m.bit \in load(mem, m) <=> (8 * m.off + m.bit) + b \in mem
    BY <2>4 DEF load
  <2> QED BY <1>1, <2>3, <2>4, <2>5 DEF First, Width
<1>2. CASE ~HasWidth(m)
  BY <1>2 DEF Read, load, First, Width
<1> QED BY <1>1, <1>2

\* gen_bitfield_store's read-modify-write replaces the bits of the field.
LEMMA WriteFacts ==
  ASSUME NEW mem, NEW m, Accessible(m), NEW v
  PROVE  \A c \in Int :
           c \in Write(mem, m, v) <=>
             IF c \in Bits(m) THEN c - First(m) \in v ELSE c \in mem
<1> SUFFICES ASSUME NEW c \in Int
             PROVE  c \in Write(mem, m, v) <=>
                      IF c \in Bits(m) THEN c - First(m) \in v ELSE c \in mem
  OBVIOUS
<1>1. CASE HasWidth(m)
  <2> DEFINE d == c - 8 * m.off
             mask == bit_mask(m.width)
             next == Cleared(load(mem, m), m) \union Shl(v \intersect mask, m.bit)
  <2>1. /\ m.off \in Nat /\ m.bit \in Nat /\ m.type.size \in Nat \ {0}
        /\ m.width \in Nat \ {0, 63} /\ m.width <= 64 /\ m.type.size <= 8
        /\ m.bit + m.width <= 8 * m.type.size
    BY <1>1 DEF Accessible, IsBitField, NotBitField, HasWidth
  <2>2. mask = 0 .. m.width - 1
    BY <2>1, MaskFacts
  <2>3. Write(mem, m, v) = store(mem, m, next)
    BY <1>1 DEF Write, gen_bitfield_store
  <2>4. c \in Bits(m) <=> d - m.bit \in 0 .. m.width - 1
    BY <1>1, <2>1 DEF Bits, First, Width
  <2>5. c - First(m) = d - m.bit
    BY <1>1, <2>1 DEF First
  <2>6. CASE c \notin Covered(m)
    <3>1. c \notin Bits(m)
      BY <1>1, <2>1, <2>6 DEF Bits, First, Width, Covered
    <3> QED BY <2>3, <2>6, <3>1 DEF store
  <2>7. CASE c \in Covered(m)
    <3>1. d \in Word /\ d \in 0 .. 8 * m.type.size - 1
      BY <2>1, <2>7 DEF Covered, Word
    <3>2. c \in Write(mem, m, v) <=> d \in next
      BY <2>3, <2>7 DEF store
    <3>3. \A s : d \in Shl(s, m.bit) <=> d - m.bit \in s
      BY <3>1 DEF Shl
    <3>4. d \in load(mem, m) <=> c \in mem
      <4>1. 8 * m.off + d = c
        BY <2>1
      <4> QED BY <3>1, <4>1 DEF load
    <3>5. d \in Cleared(load(mem, m), m) <=> c \in mem /\ d - m.bit \notin mask
      BY <3>1, <3>3, <3>4 DEF Cleared, Not
    <3>6. d \in Shl(v \intersect mask, m.bit) <=> d - m.bit \in v /\ d - m.bit \in mask
      BY <3>3
    <3> QED BY <2>2, <2>4, <2>5, <3>2, <3>5, <3>6
  <2> QED BY <2>6, <2>7
<1>2. CASE ~HasWidth(m)
  <2>1. m.off \in Nat /\ m.type.size \in Nat
    BY DEF Accessible
  <2>2. Bits(m) = Covered(m) /\ First(m) = 8 * m.off
    BY <1>2, <2>1 DEF Bits, First, Width, Covered
  <2>3. Write(mem, m, v) = store(mem, m, v)
    BY <1>2 DEF Write
  <2> QED BY <2>2, <2>3 DEF store
<1> QED BY <1>1, <1>2

\* A member reads back what was stored, cut to its width.
LEMMA StoreReads ==
  ASSUME NEW mem, NEW m, Accessible(m), NEW v
  PROVE  Read(Write(mem, m, v), m) = Kept(m, v)
<1> DEFINE after == Write(mem, m, v)
<1>1. First(m) \in Nat /\ Width(m) \in Nat
  BY DEF Accessible, First, Width, HasWidth, NotBitField
<1>2. \A b : b \in Read(after, m) <=> b \in 0 .. Width(m) - 1 /\ First(m) + b \in after
  BY ReadFacts
<1>3. \A b \in 0 .. Width(m) - 1 : First(m) + b \in after <=> b \in v
  <2> TAKE b \in 0 .. Width(m) - 1
  <2>1. /\ First(m) + b \in Int /\ First(m) + b \in Bits(m)
        /\ (First(m) + b) - First(m) = b
    BY <1>1 DEF Bits
  <2> QED BY <2>1, WriteFacts
<1>4. Kept(m, v) = v \intersect (0 .. Width(m) - 1)
  BY DEF Kept, Low, Width
<1> HIDE DEF after
<1>5. \A b : b \in Read(after, m) <=> b \in Kept(m, v)
  BY <1>2, <1>3, <1>4
<1> QED BY <1>5 DEF after

\* A member that shares no bit with the one stored to reads what it did.
LEMMA StoreKeeps ==
  ASSUME NEW mem, NEW m, Accessible(m), NEW n, Accessible(n), NEW v,
         Bits(m) \intersect Bits(n) = {}
  PROVE  Read(Write(mem, m, v), n) = Read(mem, n)
<1> DEFINE after == Write(mem, m, v)
<1>1. First(n) \in Nat /\ Width(n) \in Nat
  BY DEF Accessible, First, Width, HasWidth, NotBitField
<1>2. \A b \in 0 .. Width(n) - 1 : First(n) + b \in after <=> First(n) + b \in mem
  <2> TAKE b \in 0 .. Width(n) - 1
  <2>1. First(n) + b \in Int /\ First(n) + b \in Bits(n)
    BY <1>1 DEF Bits
  <2>2. First(n) + b \notin Bits(m)
    BY <2>1
  <2> QED BY <2>1, <2>2, WriteFacts
<1>3. \A b : b \in Read(after, n) <=> b \in 0 .. Width(n) - 1 /\ First(n) + b \in after
  BY ReadFacts
<1>4. \A b : b \in Read(mem, n) <=> b \in 0 .. Width(n) - 1 /\ First(n) + b \in mem
  BY ReadFacts
<1> HIDE DEF after
<1>5. \A b : b \in Read(after, n) <=> b \in Read(mem, n)
  BY <1>2, <1>3, <1>4
<1> QED BY <1>5 DEF after

LEMMA MembersAccessible ==
  ASSUME IInv, NEW shapes, Masked(shapes), ShapesIn(shapes), NEW i \in DOMAIN members
  PROVE  Accessible(members[i])
<1>1. /\ i \in 1 .. Len(members)
      /\ members[i].off \in Nat /\ members[i].bit \in Nat
      /\ members[i].width \in Nat \union {-1}
      /\ members[i].type.size \in Nat \ {0}
  <2>1. members \in Seq(Member)
    BY DEF IInv, TypeOK
  <2>2. i \in 1 .. Len(members)
    BY <2>1
  <2> QED BY <2>2, MembersTyped DEF IInv
<1>2. Placed(members[i])
  BY <1>1 DEF IInv
<1>3. Shape(members[i]) \in shapes
  BY DEF ShapesIn
<1>4. /\ members[i].width \notin {0, 63}
      /\ members[i].width # NotBitField => members[i].type.size <= 8
  BY <1>3 DEF Masked, Shape
<1> QED BY <1>1, <1>2, <1>4 DEF Accessible, Placed, IsBitField, NotBitField

\* MembersDisjoint, to the bit.
LEMMA BitsDisjoint ==
  ASSUME IInv, NEW shapes, Masked(shapes), ShapesIn(shapes), kind = "struct",
         NEW i \in DOMAIN members, NEW j \in DOMAIN members, i # j
  PROVE  Bits(members[i]) \intersect Bits(members[j]) = {}
<1>1. ASSUME NEW k \in DOMAIN members, NEW l \in DOMAIN members, k < l
      PROVE  Bits(members[k]) \intersect Bits(members[l]) = {}
  <2> DEFINE m == members[k]
             n == members[l]
  <2>1. k \in 1 .. Len(members) /\ l \in 1 .. Len(members)
    <3>1. members \in Seq(Member)
      BY DEF IInv, TypeOK
    <3> QED BY <3>1
  <2>2. Accessible(m) /\ Accessible(n)
    BY MembersAccessible
  <2>3. \/ End(m) <= n.off
        \/ SameUnit(m, n) /\ m.bit + m.width <= n.bit
    BY <1>1, <2>1 DEF IInv, MembersDisjoint
  <2> HIDE DEF m, n
  <2>4. /\ First(m) \in Nat /\ Width(m) \in Nat /\ First(n) \in Nat
        /\ First(m) + Width(m) <= 8 * End(m) /\ First(n) >= 8 * n.off
        /\ End(m) \in Nat /\ n.off \in Nat
    BY <2>2 DEF Accessible, First, Width, End, HasWidth, IsBitField, NotBitField
  <2>5. First(m) + Width(m) <= First(n)
    <3>1. CASE End(m) <= n.off
      BY <2>4, <3>1
    <3>2. CASE SameUnit(m, n) /\ m.bit + m.width <= n.bit
      BY <2>2, <3>2 DEF SameUnit, Accessible, First, Width, HasWidth, IsBitField,
                        NotBitField
    <3> QED BY <2>3, <3>1, <3>2
  <2>6. Width(n) \in Nat
    BY <2>2 DEF Accessible, Width, HasWidth, NotBitField
  <2>7. Bits(m) \intersect Bits(n) = {}
    BY <2>4, <2>5, <2>6 DEF Bits
  <2> QED BY <2>7 DEF m, n
<1>2. i \in Nat /\ j \in Nat
  BY DEF IInv, TypeOK
<1> QED BY <1>1, <1>2

\* Any store of a value to a member keeps FieldsHold.
LEMMA StorePreserves ==
  ASSUME FInv, Storable, object = "live", NEW i \in DOMAIN members, NEW v,
         memory' = Write(memory, members[i], v), NowHolds(i, v),
         UNCHANGED <<vars, object>>
  PROVE  FInv'
<1>1. ShapesIn(StoreShapes) /\ IInv /\ Masked(StoreShapes)
  BY DEF FInv, Storable
<1>2. kind' = kind /\ members' = members /\ sealed' = sealed
  BY DEF vars
<1>3. ASSUME NEW j \in DOMAIN members PROVE Read(memory', members[j]) = holds'[j]
  <2>1. CASE j = i
    BY <1>1, <2>1, MembersAccessible, StoreReads DEF NowHolds
  <2>2. CASE j # i /\ kind = "struct"
    <3>1. holds'[j] = holds[j]
      BY <2>2 DEF NowHolds
    <3>2. Read(memory, members[j]) = holds[j]
      BY DEF FInv, FieldsHold
    <3>3. Bits(members[i]) \intersect Bits(members[j]) = {}
      BY <1>1, <2>2, BitsDisjoint
    <3>4. Read(memory', members[j]) = Read(memory, members[j])
      BY <1>1, <3>3, MembersAccessible, StoreKeeps
    <3> QED BY <3>1, <3>2, <3>4
  <2>3. CASE j # i /\ kind # "struct"
    BY <2>3 DEF NowHolds
  <2> QED BY <2>1, <2>2, <2>3
<1>4. FieldsHold'
  BY <1>2, <1>3 DEF FieldsHold
<1>5. IInv'
  BY <1>1, NextIInv DEF vars
<1>6. ShapesIn(StoreShapes)'
  BY <1>1, <1>2 DEF ShapesIn
<1>7. sealed'
  BY <1>2 DEF FInv
<1> QED BY <1>4, <1>5, <1>6, <1>7 DEF FInv

LEMMA NextFInv ==
  ASSUME Storable PROVE FInv /\ [FNext]_fvars => FInv'
<1> SUFFICES ASSUME FInv, [FNext]_fvars PROVE FInv'
  OBVIOUS
<1>1. CASE LayoutStep
  <2>1. [Next]_vars /\ object' = object
    BY <1>1 DEF LayoutStep, objectVars
  <2>2. IInv'
    BY <2>1, NextIInv DEF FInv
  <2>3. ~sealed
    BY <1>1 DEF LayoutStep, Next, PlainMember, ZeroWidth, BitFieldNewUnit,
                BitFieldSameUnit, UnionMember, CanAdd, Seal
  <2>4. object' = "none"
    BY <2>1, <2>3 DEF FInv
  <2> QED BY <2>2, <2>4 DEF FInv, FieldsHold
<1>2. CASE Declare
  <2>1. UNCHANGED vars /\ sealed /\ ShapesIn(StoreShapes) /\ object' = "live"
    BY <1>2 DEF Declare
  <2>2. FieldsHold'
    BY <1>2, <2>1 DEF Declare, FieldsHold, Seen, vars
  <2>3. IInv'
    BY <2>1, NextIInv DEF FInv
  <2>4. sealed' /\ ShapesIn(StoreShapes)'
    BY <2>1 DEF vars, ShapesIn
  <2> QED BY <2>2, <2>3, <2>4 DEF FInv
<1>3. ASSUME NEW i \in DOMAIN members, NEW v \in Values, Assign(i, v)
      PROVE  FInv'
  BY <1>3, StorePreserves DEF Assign
<1>4. ASSUME NEW i \in DOMAIN members, NEW v \in Values, CompoundAssign(i, v)
      PROVE  FInv'
  <2>1. /\ object = "live" /\ Shape(members[i]) \in CompoundShapes
        /\ memory' = store(memory, members[i], Xor(load(memory, members[i]), v))
        /\ NowHolds(i, Xor(holds[i], v)) /\ UNCHANGED <<vars, object>>
    BY <1>4 DEF CompoundAssign
  <2>2. ~HasWidth(members[i])
    BY <2>1 DEF Storable, Shape, HasWidth, NotBitField
  <2>3. holds[i] = load(memory, members[i])
    BY <2>1, <2>2 DEF FInv, FieldsHold, Read
  <2>4. memory' = Write(memory, members[i], Xor(holds[i], v))
    BY <2>1, <2>2, <2>3 DEF Write
  <2> QED BY <2>1, <2>4, StorePreserves
<1>5. CASE BeginLocal \/ BeginGlobal
  <2>1. UNCHANGED vars /\ sealed /\ object' \in {"local", "global"}
    BY <1>5 DEF BeginLocal, BeginGlobal
  <2>2. IInv' /\ sealed'
    BY <2>1, NextIInv DEF FInv, vars
  <2> QED BY <2>1, <2>2 DEF FInv, FieldsHold
<1>6. ASSUME NEW field \in 0 .. Len(members),
             LocalItem(field, {Len(items)}) \/ GlobalItem(field, {Len(items)})
      PROVE  FInv'
  <2>1. UNCHANGED vars /\ object' = object /\ object \in {"local", "global"}
    BY <1>6 DEF LocalItem, GlobalItem, TakeItem
  <2>2. IInv' /\ sealed'
    BY <2>1, NextIInv DEF FInv, vars
  <2> QED BY <2>1, <2>2 DEF FInv, FieldsHold
<1>7. CASE UNCHANGED fvars
  <2>1. UNCHANGED <<vars, object, memory, holds, members>>
    BY <1>7 DEF fvars, objectVars, vars
  <2>2. IInv'
    BY <2>1, NextIInv DEF FInv
  <2> QED BY <2>1, <2>2 DEF FInv, FieldsHold, ShapesIn, vars
<1> QED BY <1>1, <1>2, <1>3, <1>4, <1>5, <1>6, <1>7 DEF FNext

\* For every aggregate of complete types, every memory and every sequence of
\* assignments, each member of a struct reads back what was last stored to it:
\* no bit-field read-modify-write and no plain store reaches a neighbour.
THEOREM FieldsStay ==
  ASSUME Storable
  PROVE  FSpec => []FieldsHold
<1>1. FInit => FInv
  BY InitIInv DEF FInit, FInv, FieldsHold
<1>2. FInv /\ [FNext]_fvars => FInv'
  BY NextFInv
<1>3. FInv => FieldsHold
  BY DEF FInv
<1> QED BY <1>1, <1>2, <1>3, PTL DEF FSpec

-----------------------------------------------------------------------------
(* The items of an initializer *)

Items == [field : Nat, value : SUBSET Nat]

\* The recursion of Targets defines a function.
LEMMA TargetsExist ==
  ASSUME NEW list, NEW n \in Nat
  PROVE  \E s : s = [k \in 0 .. n |-> IF k = 0 THEN 0 ELSE NextTarget(list[k], s[k - 1])]
<1> DEFINE Step(s, k) == NextTarget(list[k], s[k - 1])
           P == {m \in 0 .. n : \E s : s = [k \in 0 .. m |-> IF k = 0 THEN 0 ELSE Step(s, k)]}
<1>1. 0 \in P
  <2> DEFINE s == [k \in 0 .. 0 |-> 0]
  <2>1. s = [k \in 0 .. 0 |-> IF k = 0 THEN 0 ELSE Step(s, k)]
    OBVIOUS
  <2> HIDE DEF s
  <2>2. 0 \in 0 .. n
    OBVIOUS
  <2>3. QED BY <2>1, <2>2
<1>2. ASSUME NEW d \in 1 .. n, d - 1 \in P
      PROVE  d \in P
  <2>1. PICK s : s = [k \in 0 .. d - 1 |-> IF k = 0 THEN 0 ELSE Step(s, k)]
    BY <1>2
  <2> DEFINE t == [k \in 0 .. d |-> IF k = d THEN Step(s, d) ELSE s[k]]
  <2>2. ASSUME NEW k \in 0 .. d
        PROVE  t[k] = IF k = 0 THEN 0 ELSE Step(t, k)
    <3>1. CASE k = 0
      BY <2>1, <3>1
    <3>2. CASE k # 0 /\ k = d
      <4>1. t[k - 1] = s[d - 1]
        BY <3>2
      <4>2. QED BY <3>2, <4>1
    <3>3. CASE k # 0 /\ k # d
      <4>1. k \in 0 .. d - 1 /\ k - 1 \in 0 .. d - 1 /\ k - 1 # d
        BY <3>3
      <4>2. t[k] = s[k] /\ t[k - 1] = s[k - 1]
        BY <3>3, <4>1
      <4>3. s[k] = Step(s, k)
        BY <2>1, <3>3, <4>1
      <4>4. QED BY <3>3, <4>2, <4>3
    <3>4. QED BY <3>1, <3>2, <3>3
  <2>3. t = [k \in 0 .. d |-> IF k = 0 THEN 0 ELSE Step(t, k)]
    BY <2>2
  <2> HIDE DEF t
  <2>4. d \in 0 .. n
    OBVIOUS
  <2>5. QED BY <2>3, <2>4
<1>3. \A k \in 0 .. n : k \in P
  <2> HIDE DEF P
  <2>1. QED BY <1>1, <1>2, UpTo
<1>4. QED BY <1>3

\* Each item's target, from the one before.
LEMMA TargetsFacts ==
  ASSUME NEW list, Len(list) \in Nat
  PROVE  /\ Targets(list)[0] = 0
         /\ \A k \in 1 .. Len(list) :
              Targets(list)[k] = NextTarget(list[k], Targets(list)[k - 1])
<1> DEFINE t == Targets(list)
           n == Len(list)
<1>1. t = CHOOSE s : s = [k \in 0 .. n |-> IF k = 0 THEN 0 ELSE NextTarget(list[k], s[k - 1])]
  BY DEF Targets
<1>2. t = [k \in 0 .. n |-> IF k = 0 THEN 0 ELSE NextTarget(list[k], t[k - 1])]
  BY <1>1, TargetsExist
<1>3. n \in Nat
  OBVIOUS
<1> HIDE DEF t, n
<1>4. /\ t[0] = 0
      /\ \A k \in 1 .. n : t[k] = NextTarget(list[k], t[k - 1])
  BY <1>2, <1>3
<1>5. QED BY <1>4 DEF t, n

LEMMA TargetsNat ==
  ASSUME NEW list \in Seq(Items)
  PROVE  \A k \in 0 .. Len(list) : Targets(list)[k] \in Nat
<1> DEFINE P == {k \in 0 .. Len(list) : Targets(list)[k] \in Nat}
<1>1. Len(list) \in Nat
  OBVIOUS
<1>2. 0 \in P
  BY <1>1, TargetsFacts
<1>3. ASSUME NEW k \in 1 .. Len(list), k - 1 \in P
      PROVE  k \in P
  <2>1. Targets(list)[k] = NextTarget(list[k], Targets(list)[k - 1])
    BY <1>1, TargetsFacts
  <2>2. list[k].field \in Nat
    <3>1. list[k] \in Items
      OBVIOUS
    <3>2. QED BY <3>1 DEF Items
  <2>3. QED BY <1>3, <2>1, <2>2 DEF NextTarget
<1>4. \A k \in 0 .. Len(list) : k \in P
  <2> HIDE DEF P
  <2>1. QED BY <1>1, <1>2, <1>3, UpTo
<1>5. QED BY <1>4

\* One item more leaves the targets of the others alone.
LEMMA TargetsGrow ==
  ASSUME NEW list \in Seq(Items), NEW item \in Items
  PROVE  /\ \A k \in 0 .. Len(list) : Targets(Append(list, item))[k] = Targets(list)[k]
         /\ Targets(Append(list, item))[Len(list) + 1]
              = NextTarget(item, Targets(list)[Len(list)])
<1> DEFINE longer == Append(list, item)
           n == Len(list)
           P == {k \in 0 .. n : Targets(longer)[k] = Targets(list)[k]}
<1>1. /\ n \in Nat /\ Len(longer) = n + 1 /\ longer[n + 1] = item
      /\ \A k \in 1 .. n : longer[k] = list[k]
  OBVIOUS
<1> HIDE DEF longer
<1>0. /\ Targets(longer)[0] = 0
      /\ \A k \in 1 .. n + 1 :
           Targets(longer)[k] = NextTarget(longer[k], Targets(longer)[k - 1])
  <2>1. Len(longer) \in Nat
    BY <1>1
  <2>2. \A k \in 1 .. Len(longer) :
           Targets(longer)[k] = NextTarget(longer[k], Targets(longer)[k - 1])
    BY <2>1, TargetsFacts
  <2>3. Targets(longer)[0] = 0
    BY <2>1, TargetsFacts
  <2>4. QED BY <1>1, <2>2, <2>3
<1>2. 0 \in P
  BY <1>1, <1>0, TargetsFacts
<1>3. ASSUME NEW k \in 1 .. n, k - 1 \in P
      PROVE  k \in P
  <2>1. Targets(list)[k] = NextTarget(list[k], Targets(list)[k - 1])
    BY <1>1, TargetsFacts
  <2>2. k \in 1 .. Len(longer) /\ longer[k] = list[k]
    BY <1>1
  <2>3. Targets(longer)[k] = NextTarget(longer[k], Targets(longer)[k - 1])
    BY <1>1, <1>0
  <2>4. QED BY <1>3, <2>1, <2>2, <2>3
<1>4. \A k \in 0 .. n : k \in P
  <2> HIDE DEF P, n
  <2>1. QED BY <1>1, <1>2, <1>3, UpTo
<1>5. n + 1 \in 1 .. Len(longer) /\ (n + 1) - 1 = n /\ n \in 0 .. n
  BY <1>1
<1>6. Targets(longer)[n + 1] = NextTarget(longer[n + 1], Targets(longer)[(n + 1) - 1])
  BY <1>1, <1>5, <1>0
<1>7. QED BY <1>1, <1>4, <1>5, <1>6 DEF longer

\* The last item counts for its target; what the others have is as before.
LEMMA InitialGrows ==
  ASSUME NEW list \in Seq(Items), NEW item \in Items, NEW target,
         target = Targets(Append(list, item))[Len(list) + 1]
  PROVE  /\ Initial(Append(list, item), target) = item.value
         /\ \A i : i # target => Initial(Append(list, item), i) = Initial(list, i)
<1> DEFINE longer == Append(list, item)
           n == Len(list)
<1>1. /\ n \in Nat /\ DOMAIN longer = 1 .. n + 1 /\ DOMAIN list = 1 .. n
      /\ longer[n + 1] = item /\ \A k \in 1 .. n : longer[k] = list[k]
  OBVIOUS
<1>2. \A k \in 1 .. n : Targets(longer)[k] = Targets(list)[k]
  BY <1>1, TargetsGrow
<1> HIDE DEF longer
<1>3. Initial(longer, target) = item.value
  <2> DEFINE for == ItemsFor(longer, target)
             last == CHOOSE k \in for : \A l \in for : l <= k
  <2>1. n + 1 \in for /\ for \subseteq 1 .. n + 1
    BY <1>1 DEF ItemsFor, longer
  <2>2. \A l \in for : l <= n + 1
    BY <2>1, <1>1
  <2> HIDE DEF for
  <2>3. last \in for /\ \A l \in for : l <= last
    BY <2>1, <2>2
  <2>4. last = n + 1
    <3>1. n + 1 <= last
      BY <2>1, <2>3
    <3>2. last \in 1 .. n + 1
      BY <2>1, <2>3
    <3>3. QED BY <1>1, <3>1, <3>2
  <2>5. Initial(longer, target) = longer[last].value
    BY <2>1 DEF Initial, for
  <2>6. QED BY <1>1, <2>4, <2>5
<1>4. ASSUME NEW i, i # target
      PROVE  Initial(longer, i) = Initial(list, i)
  <2>1. ItemsFor(longer, i) = ItemsFor(list, i)
    BY <1>1, <1>2, <1>4 DEF ItemsFor, longer
  <2> DEFINE for == ItemsFor(list, i)
             last == CHOOSE k \in for : \A l \in for : l <= k
  <2>2. CASE for = {}
    BY <2>1, <2>2 DEF Initial
  <2>3. CASE for # {}
    <3>1. for \subseteq 1 .. n
      BY <1>1 DEF ItemsFor
    <3>2. \E k \in for : \A l \in for : l <= k
      <4> HIDE DEF for
      <4> DEFINE below == {n - k : k \in for}
      <4>1. below \in SUBSET Nat /\ below # {}
        <5>1. ASSUME NEW k \in for
              PROVE  n - k \in Nat
          <6>1. k \in 1 .. n
            BY <3>1
          <6>2. QED BY <1>1, <6>1
        <5>2. QED BY <2>3, <5>1
      <4>2. PICK d \in below : \A y \in below : d <= y
        <5> HIDE DEF below
        <5>1. QED BY <4>1, SmallestNumber
      <4>3. PICK k \in for : d = n - k
        OBVIOUS
      <4>4. ASSUME NEW l \in for
            PROVE  l <= k
        <5>1. n - l \in below
          OBVIOUS
        <5>2. n - k <= n - l
          BY <4>2, <4>3, <5>1
        <5>3. QED BY <1>1, <3>1, <5>2
      <4>5. QED BY <4>4
    <3>3. last \in for
      <4> HIDE DEF for
      <4>1. QED BY <3>2
    <3>4. longer[last] = list[last]
      BY <1>1, <3>1, <3>3
    <3>5. Initial(longer, i) = longer[last].value
      BY <2>1, <2>3 DEF Initial
    <3>6. Initial(list, i) = list[last].value
      BY <2>3 DEF Initial
    <3>7. QED BY <3>4, <3>5, <3>6
  <2>4. QED BY <2>2, <2>3
<1>5. QED BY <1>3, <1>4 DEF longer

-----------------------------------------------------------------------------
(* Initialized objects *)

\* The initializers modelled are lists of integers for members that are no
\* bit-fields: section 5 of the README says what becomes of the others.
Initializable ==
  \A s \in InitShapes : s.width = NotBitField /\ s.type.size <= 8

\* Where the list stands, besides what the members hold.
ListInv ==
  /\ object = "none" => items = << >> /\ next_field = 1
  /\ object \in {"local", "global"} =>
       /\ ShapesIn(InitShapes)
       /\ items \in Seq(Items)
       /\ next_field = Targets(items)[Len(items)] + 1

InitializerInv ==
  /\ IInv
  /\ object # "none" => sealed
  /\ ListInv
  /\ InitializedAsC

\* The bytes of a global are those a store would leave.
LEMMA GlobalIsStore ==
  ASSUME NEW mem, NEW m, m.off \in Nat, m.type.size \in Nat, m.type.size <= 8, NEW v
  PROVE  write_int_le(mem, m, v) = store(mem, m, v)
<1>1. 8 * m.off .. 8 * m.off + (8 * m.type.size) - 1 = Covered(m)
  BY DEF Covered
<1>2. (IF m.type.size > 8 THEN 64 ELSE 8 * m.type.size) = 8 * m.type.size
  OBVIOUS
<1>3. write_int_le(mem, m, v) = {b \in mem : b \notin Covered(m)}
                                  \union {b \in Covered(m) : b - 8 * m.off \in v}
  BY <1>1, <1>2 DEF write_int_le
<1>4. QED BY <1>3 DEF store

\* Members with an initializer are read and written whole.
LEMMA InitMember ==
  ASSUME IInv, Initializable, ShapesIn(InitShapes), NEW i \in DOMAIN members
  PROVE  /\ Masked(InitShapes) /\ Accessible(members[i]) /\ ~HasWidth(members[i])
         /\ members[i].off \in Nat /\ members[i].type.size \in Nat
         /\ members[i].type.size <= 8
<1>1. Masked(InitShapes)
  BY DEF Initializable, Masked, NotBitField
<1>2. Accessible(members[i])
  BY <1>1, MembersAccessible
<1>3. Shape(members[i]) \in InitShapes
  BY DEF ShapesIn
<1>4. members[i].width = NotBitField /\ members[i].type.size <= 8
  BY <1>3 DEF Initializable, Shape
<1>5. QED BY <1>1, <1>2, <1>4 DEF Accessible, HasWidth, NotBitField

\* With no items yet every member is 0.
LEMMA BeginPreserves ==
  ASSUME Initializable, InitializerInv, BeginLocal \/ BeginGlobal
  PROVE  InitializerInv'
<1>1. /\ UNCHANGED <<vars, items, next_field>> /\ sealed /\ ShapesIn(InitShapes)
      /\ object = "none" /\ object' \in {"local", "global"} /\ items = << >> /\ next_field = 1
  BY DEF BeginLocal, BeginGlobal, InitializerInv, ListInv
<1>2. IInv' /\ IInv
  BY <1>1, NextIInv DEF InitializerInv
<1>3. members' = members /\ kind' = kind /\ sealed' = sealed
  BY <1>1 DEF vars
<1>4. Targets(items)[Len(items)] = 0
  <2>1. Len(items) = 0
    BY <1>1
  <2>2. QED BY <2>1, TargetsFacts
<1>5. ListInv'
  <2>1. items \in Seq(Items)
    BY <1>1
  <2>2. QED BY <1>1, <1>3, <1>4, <2>1 DEF ListInv, ShapesIn
<1>6. ASSUME NEW i \in DOMAIN members
      PROVE  Read(memory', members[i]) = Kept(members[i], Initial(items, i))
  <2>1. ~HasWidth(members[i])
    BY <1>1, <1>2, InitMember
  <2>2. Initial(items, i) = {}
    <3>1. ItemsFor(items, i) = {}
      BY <1>1 DEF ItemsFor
    <3>2. QED BY <3>1 DEF Initial
  <2>3. Kept(members[i], {}) = {}
    BY DEF Kept, Low
  <2>4. \A b \in Covered(members[i]) : b \notin memory'
    BY DEF BeginLocal, BeginGlobal, Zeroed
  <2>5. load(memory', members[i]) = {}
    <3>1. members[i].off \in Nat /\ members[i].type.size \in Nat
      BY <1>1, <1>2, InitMember
    <3>2. \A b \in 0 .. 8 * members[i].type.size - 1 : 8 * members[i].off + b \in Covered(members[i])
      BY <3>1 DEF Covered
    <3>3. QED BY <2>4, <3>2 DEF load
  <2>6. QED BY <2>1, <2>2, <2>3, <2>5 DEF Read
<1>7. InitializedAsC'
  BY <1>1, <1>3, <1>6 DEF InitializedAsC
<1>8. QED BY <1>1, <1>2, <1>3, <1>5, <1>7 DEF InitializerInv

\* One item: it reaches its target, and nothing else.
LEMMA ItemPreserves ==
  ASSUME Initializable, InitializerInv, NEW field \in 0 .. Len(members), NEW v \in SUBSET Nat,
         LocalItem(field, v) \/ GlobalItem(field, v)
  PROVE  InitializerInv'
<1> DEFINE d == Designated(field)
           item == [field |-> field, value |-> v]
<1>1. /\ object \in {"local", "global"} /\ object' = object /\ UNCHANGED vars
      /\ d <= Len(members) /\ next_field' = d + 1 /\ items' = Append(items, item)
      /\ memory' \in {store(memory, members[d], v), write_int_le(memory, members[d], v)}
  BY DEF LocalItem, GlobalItem, TakeItem, HasItem, Following
<1>2. /\ IInv /\ IInv' /\ sealed /\ ShapesIn(InitShapes) /\ items \in Seq(Items)
      /\ next_field = Targets(items)[Len(items)] + 1 /\ InitializedAsC
  BY <1>1, NextIInv DEF InitializerInv, ListInv
<1>3. members' = members /\ kind' = kind /\ sealed' = sealed
  BY <1>1 DEF vars
<1>4. DOMAIN members = 1 .. Len(members) /\ Len(members) \in Nat /\ kind \in {"struct", "union"}
  BY <1>2 DEF IInv, TypeOK
<1>5. item \in Items /\ Len(items) \in Nat
  BY <1>2, <1>4 DEF Items
<1>6. Targets(items)[Len(items)] \in Nat
  BY <1>2, <1>5, TargetsNat
<1>7. d \in DOMAIN members
  BY <1>1, <1>2, <1>4, <1>6 DEF Designated
<1>8. Targets(Append(items, item))[Len(items) + 1] = d
  <2>1. Targets(Append(items, item))[Len(items) + 1] = NextTarget(item, Targets(items)[Len(items)])
    BY <1>2, <1>5, TargetsGrow
  <2>2. QED BY <1>2, <2>1 DEF NextTarget, Designated
<1> HIDE DEF d, item
<1>9. memory' = Write(memory, members[d], v)
  <2>1. write_int_le(memory, members[d], v) = store(memory, members[d], v)
    BY <1>2, <1>7, InitMember, GlobalIsStore
  <2>2. ~HasWidth(members[d])
    BY <1>2, <1>7, InitMember
  <2>3. QED BY <1>1, <2>1, <2>2 DEF Write
<1>10. /\ items' \in Seq(Items) /\ Len(items') = Len(items) + 1
       /\ Targets(items')[Len(items')] = d
  BY <1>1, <1>2, <1>5, <1>8
<1>11. /\ Initial(items', d) = v
       /\ \A i : i # d => Initial(items', i) = Initial(items, i)
  <2>1. item.value = v
    BY DEF item
  <2>2. QED BY <1>1, <1>2, <1>5, <1>8, <2>1, InitialGrows
<1>12. ListInv'
  BY <1>1, <1>2, <1>3, <1>10 DEF ListInv, ShapesIn
<1>13. ASSUME NEW i \in DOMAIN members, ~ (kind = "union" /\ i # d)
       PROVE  Read(memory', members[i]) = Kept(members[i], Initial(items', i))
  <2>1. Accessible(members[d]) /\ Accessible(members[i]) /\ Masked(InitShapes)
    BY <1>2, <1>7, InitMember
  <2>2. CASE i = d
    <3>1. Read(memory', members[d]) = Kept(members[d], v)
      BY <1>9, <2>1, StoreReads
    <3>2. QED BY <1>11, <2>2, <3>1
  <2>3. CASE i # d
    <3>1. kind = "struct"
      BY <1>4, <1>13, <2>3
    <3>2. Bits(members[d]) \intersect Bits(members[i]) = {}
      BY <1>2, <1>7, <2>1, <2>3, <3>1, BitsDisjoint
    <3>3. Read(memory', members[i]) = Read(memory, members[i])
      BY <1>9, <2>1, <3>2, StoreKeeps
    <3>4. Read(memory, members[i]) = Kept(members[i], Initial(items, i))
      BY <1>1, <1>2, <3>1 DEF InitializedAsC
    <3>5. QED BY <1>11, <2>3, <3>3, <3>4
  <2>4. QED BY <2>2, <2>3
<1>14. InitializedAsC'
  BY <1>3, <1>10, <1>13 DEF InitializedAsC
<1>15. QED BY <1>1, <1>2, <1>3, <1>12, <1>14 DEF InitializerInv

LEMMA NextInitializerInv ==
  ASSUME Initializable PROVE InitializerInv /\ [FNext]_fvars => InitializerInv'
<1> SUFFICES ASSUME InitializerInv, [FNext]_fvars PROVE InitializerInv'
  OBVIOUS
<1>1. CASE LayoutStep
  <2>1. [Next]_vars /\ UNCHANGED <<object, items, next_field>>
    BY <1>1 DEF LayoutStep, objectVars
  <2>2. IInv'
    BY <2>1, NextIInv DEF InitializerInv
  <2>3. ~sealed
    BY <1>1 DEF LayoutStep, Next, PlainMember, ZeroWidth, BitFieldNewUnit,
                BitFieldSameUnit, UnionMember, CanAdd, Seal
  <2>4. object' = "none"
    BY <2>1, <2>3 DEF InitializerInv
  <2> QED BY <2>1, <2>2, <2>4 DEF InitializerInv, ListInv, InitializedAsC
<1>2. ASSUME UNCHANGED vars, sealed, object' = "live"
      PROVE  InitializerInv'
  <2>1. IInv'
    BY <1>2, NextIInv DEF InitializerInv
  <2>2. sealed'
    BY <1>2 DEF vars
  <2> QED BY <1>2, <2>1, <2>2 DEF InitializerInv, ListInv, InitializedAsC
<1>3. CASE Declare
  BY <1>3, <1>2 DEF Declare
<1>4. ASSUME NEW i \in DOMAIN members, NEW v \in Values, Assign(i, v) \/ CompoundAssign(i, v)
      PROVE  InitializerInv'
  <2>1. UNCHANGED vars /\ object' = "live" /\ object = "live"
    BY <1>4 DEF Assign, CompoundAssign
  <2>2. sealed
    BY <2>1 DEF InitializerInv
  <2> QED BY <2>1, <2>2, <1>2
<1>5. CASE BeginLocal \/ BeginGlobal
  BY <1>5, BeginPreserves
<1>6. ASSUME NEW field \in 0 .. Len(members),
             LocalItem(field, {Len(items)}) \/ GlobalItem(field, {Len(items)})
      PROVE  InitializerInv'
  <2>1. object \in {"local", "global"}
    BY <1>6 DEF LocalItem, GlobalItem
  <2>2. {Len(items)} \in SUBSET Nat
    BY <2>1 DEF InitializerInv, ListInv
  <2>3. QED BY <1>6, <2>2, ItemPreserves
<1>7. CASE UNCHANGED fvars
  <2>1. UNCHANGED <<vars, object, memory, items, next_field>>
    BY <1>7 DEF fvars, objectVars
  <2>2. UNCHANGED <<members, kind, sealed>>
    BY <2>1 DEF vars
  <2>3. IInv'
    BY <2>1, NextIInv DEF InitializerInv
  <2> QED BY <2>1, <2>2, <2>3 DEF InitializerInv, ListInv, InitializedAsC, ShapesIn
<1> QED BY <1>1, <1>3, <1>4, <1>5, <1>6, <1>7 DEF FNext

\* For every aggregate whose members are integers, every memory a local may
\* have held and every list of items, positional or designated, in any order
\* and with repetitions: the stores gen_aggregate_initializer emits and the
\* bytes fill_global_aggregate writes both leave in each member what C gives it.
THEOREM InitializersAsC ==
  ASSUME Initializable
  PROVE  FSpec => []InitializedAsC
<1>1. FInit => InitializerInv
  BY InitIInv DEF FInit, InitializerInv, ListInv, InitializedAsC
<1>2. InitializerInv /\ [FNext]_fvars => InitializerInv'
  BY NextInitializerInv
<1>3. InitializerInv => InitializedAsC
  BY DEF InitializerInv
<1>4. QED BY <1>1, <1>2, <1>3, PTL DEF FSpec

-----------------------------------------------------------------------------
(* The classes of the aggregate *)

\* The classes of the scalars among the first k that begin in eightbyte e.
ClassesSeen(leaves, k, e) ==
  {leaves[j].cls : j \in {i \in 1 .. k : leaves[i].cls # "END" /\ leaves[i].off \div 8 = e}}

\* A nested aggregate has ended among the first k.
EndSeen(leaves, k) == \E i \in 1 .. k : leaves[i].cls = "END"

\* What integers and SSE scalars make of an eightbyte, in whatever order.
Plain(s) == IF s = {} THEN "NONE" ELSE IF "INTEGER" \in s THEN "INTEGER" ELSE "SSE"

\* One more scalar is one more class at its eightbyte.
LEMMA SeenStep ==
  ASSUME NEW leaves, NEW k \in Nat \ {0}, NEW e
  PROVE  ClassesSeen(leaves, k, e) =
           IF leaves[k].cls # "END" /\ leaves[k].off \div 8 = e
           THEN ClassesSeen(leaves, k - 1, e) \union {leaves[k].cls}
           ELSE ClassesSeen(leaves, k - 1, e)
<1>1. 1 .. k = (1 .. k - 1) \union {k}
  OBVIOUS
<1>2. QED BY <1>1 DEF ClassesSeen

LEMMA EndStep ==
  ASSUME NEW leaves, NEW k \in Nat \ {0}
  PROVE  EndSeen(leaves, k) <=> EndSeen(leaves, k - 1) \/ leaves[k].cls = "END"
<1>1. 1 .. k = (1 .. k - 1) \union {k}
  OBVIOUS
<1>2. QED BY <1>1 DEF EndSeen

LEMMA SeenNothing ==
  ASSUME NEW leaves, NEW e
  PROVE  ClassesSeen(leaves, 0, e) = {}
  BY DEF ClassesSeen

LEMMA SeenClasses ==
  ASSUME NEW leaves \in Seq(Scalars), NEW k \in 0 .. Len(leaves), NEW e
  PROVE  ClassesSeen(leaves, k, e) \subseteq {"INTEGER", "SSE", "X87"}
<1>1. \A i \in 1 .. k : leaves[i] \in Scalars
  OBVIOUS
<1>2. \A i \in 1 .. k : leaves[i].cls \in {"INTEGER", "SSE", "X87", "END"}
  BY <1>1 DEF Scalars
<1>3. QED BY <1>2 DEF ClassesSeen

\* Where every eightbyte is INTEGER, SSE or NONE the post-merger does nothing.
LEMMA PlainPostMerger ==
  ASSUME NEW c, \A e \in DOMAIN c : c[e] \in {"NONE", "INTEGER", "SSE"}
  PROVE  PostMerger(c) = c
  BY DEF PostMerger

\* Without a long double the merging is independent of the order.
LEMMA PlainMerge ==
  ASSUME NEW leaves \in Seq(Scalars), NEW n \in Nat,
         \A i \in 1 .. Len(leaves) : leaves[i].cls # "X87"
  PROVE  \A e \in 0 .. n - 1 :
           ClassesAfter(leaves, n)[Len(leaves)][e] = Plain(ClassesSeen(leaves, Len(leaves), e))
<1> DEFINE w == ClassesAfter(leaves, n)
           l == Len(leaves)
           P == {k \in 0 .. l : /\ DOMAIN w[k] = 0 .. n - 1
                                /\ \A e \in 0 .. n - 1 :
                                     /\ w[k][e] = Plain(ClassesSeen(leaves, k, e))
                                     /\ "X87" \notin ClassesSeen(leaves, k, e)}
<1>1. l \in Nat
  OBVIOUS
<1> HIDE DEF w
<1>2. /\ w[0] = [e \in 0 .. n - 1 |-> "NONE"]
      /\ \A k \in 1 .. l : w[k] = classify_range(w[k - 1], leaves[k])
  BY ClassesSteps DEF w
<1>3. 0 \in P
  BY <1>1, <1>2, SeenNothing DEF Plain
<1>4. ASSUME NEW k \in 1 .. l, k - 1 \in P
      PROVE  k \in P
  <2> DEFINE leaf == leaves[k]
             eb == leaf.off \div 8
             before(e) == ClassesSeen(leaves, k - 1, e)
  <2>1. w[k] = classify_range(w[k - 1], leaf) /\ DOMAIN w[k - 1] = 0 .. n - 1
    BY <1>2, <1>4
  <2>2. leaf \in Scalars /\ leaf.cls \in {"INTEGER", "SSE", "END"}
    <3>1. leaf \in Scalars
      BY <1>1
    <3>2. leaf.cls # "X87"
      BY <1>1
    <3>3. QED BY <3>1, <3>2 DEF Scalars
  <2>3. DOMAIN w[k] = 0 .. n - 1
    BY <2>1 DEF classify_range, Share, PostMerger
  <2>4. w[k] = IF eb \in 0 .. n - 1 /\ leaf.cls # "END" THEN Share(w[k - 1], eb, leaf.cls)
               ELSE w[k - 1]
    <3>1. \A e \in DOMAIN w[k - 1] : w[k - 1][e] \in {"NONE", "INTEGER", "SSE"}
      BY <1>4, <2>1 DEF Plain
    <3>2. PostMerger(w[k - 1]) = w[k - 1]
      BY <3>1, PlainPostMerger
    <3>3. QED BY <2>1, <3>2, Zenon DEF classify_range
  <2>5. ASSUME NEW e \in 0 .. n - 1
        PROVE  /\ w[k][e] = Plain(ClassesSeen(leaves, k, e))
               /\ "X87" \notin ClassesSeen(leaves, k, e)
    <3>1. w[k - 1][e] = Plain(before(e)) /\ "X87" \notin before(e)
      BY <1>4
    <3>2. before(e) \subseteq {"INTEGER", "SSE"}
      <4>1. k - 1 \in 0 .. Len(leaves)
        BY <1>1
      <4>2. QED BY <3>1, <4>1, SeenClasses
    <3>3. CASE leaf.cls # "END" /\ eb = e
      <4>1. w[k][e] = merge_class(w[k - 1][e], leaf.cls)
        BY <2>1, <2>4, <3>3 DEF Share
      <4>2. ClassesSeen(leaves, k, e) = before(e) \union {leaf.cls}
        BY <3>3, <1>1, SeenStep
      <4> HIDE DEF before, leaf
      <4>3. QED BY <2>2, <3>1, <3>2, <3>3, <4>1, <4>2 DEF Plain, merge_class
    <3>4. CASE ~(leaf.cls # "END" /\ eb = e)
      <4>1. w[k][e] = w[k - 1][e]
        BY <2>1, <2>2, <2>4, <3>4 DEF Share
      <4>2. ClassesSeen(leaves, k, e) = before(e)
        <5>1. k \in Nat \ {0} /\ ~(leaves[k].cls # "END" /\ leaves[k].off \div 8 = e)
          BY <1>1, <3>4
        <5>2. QED BY <5>1, SeenStep
      <4>3. QED BY <3>1, <4>1, <4>2
    <3>5. QED BY <3>3, <3>4
  <2>6. QED BY <2>3, <2>5
<1>5. \A k \in 0 .. l : k \in P
  <2> HIDE DEF P, l
  <2>1. QED BY <1>1, <1>3, <1>4, UpTo
<1>6. QED BY <1>1, <1>5 DEF w

\* Two eightbytes with the classes s0 and s1 seen in them, and perhaps the end of
\* a nested aggregate.  With a long double among them: either all of it is on its
\* way to memory, for a reason that remains, or each half is what an integer
\* beside it, or none, makes of it.
TwoEightbytes(c, s0, s1, nested) ==
  /\ DOMAIN c = 0 .. 1
  /\ "X87" \notin s0 => c[0] = Plain(s0) /\ c[1] = Plain(s1)
  /\ "X87" \in s0 =>
       \/ /\ c[0] = "MEMORY" \/ c[1] = "MEMORY"
          /\ "SSE" \in s0 \union s1 \/ (nested /\ "INTEGER" \in s0 \union s1)
       \/ /\ (s0 = {"X87"} /\ c[0] = "X87") \/ ("INTEGER" \in s0 /\ c[0] = "INTEGER")
          /\ (s1 = {} /\ c[1] = "X87UP") \/ ("INTEGER" \in s1 /\ c[1] = "INTEGER")

\* A scalar of the first eightbyte; a long double has its second half in the other.
LEMMA ShareFirst ==
  ASSUME NEW c, NEW s0 \in SUBSET {"INTEGER", "SSE", "X87"}, NEW s1 \in SUBSET {"INTEGER", "SSE"},
         NEW nested \in BOOLEAN, TwoEightbytes(c, s0, s1, nested),
         NEW cls \in {"INTEGER", "SSE", "X87"}
  PROVE  TwoEightbytes(Share(c, 0, cls), s0 \union {cls}, s1, nested)
<1> DEFINE d == Share(c, 0, cls)
<1>1. /\ DOMAIN d = 0 .. 1
      /\ d[0] = merge_class(c[0], cls)
      /\ d[1] = IF cls = "X87" THEN merge_class(c[1], "X87UP") ELSE c[1]
  BY DEF TwoEightbytes, Share
<1> HIDE DEF d
<1>2. TwoEightbytes(d, s0 \union {cls}, s1, nested)
  <2>1. CASE cls = "X87"
    BY <1>1, <2>1 DEF TwoEightbytes, merge_class, Plain
  <2>2. CASE cls \in {"INTEGER", "SSE"}
    BY <1>1, <2>2 DEF TwoEightbytes, merge_class, Plain
  <2>3. QED BY <2>1, <2>2
<1>3. QED BY <1>2 DEF d

LEMMA ShareSecond ==
  ASSUME NEW c, NEW s0 \in SUBSET {"INTEGER", "SSE", "X87"}, NEW s1 \in SUBSET {"INTEGER", "SSE"},
         NEW nested \in BOOLEAN, TwoEightbytes(c, s0, s1, nested), NEW cls \in {"INTEGER", "SSE"}
  PROVE  TwoEightbytes(Share(c, 1, cls), s0, s1 \union {cls}, nested)
<1> DEFINE d == Share(c, 1, cls)
<1>1. DOMAIN d = 0 .. 1 /\ d[0] = c[0] /\ d[1] = merge_class(c[1], cls)
  BY DEF TwoEightbytes, Share
<1> HIDE DEF d
<1>2. QED BY <1>1 DEF TwoEightbytes, merge_class, Plain, d

\* The end of a nested aggregate: its post-merger takes an INTEGER beside an
\* X87UP to memory.
LEMMA EndNested ==
  ASSUME NEW c, NEW s0 \in SUBSET {"INTEGER", "SSE", "X87"}, NEW s1 \in SUBSET {"INTEGER", "SSE"},
         NEW nested \in BOOLEAN, TwoEightbytes(c, s0, s1, nested)
  PROVE  /\ TwoEightbytes(PostMerger(c), s0, s1, TRUE)
         /\ TwoEightbytes(c, s0, s1, TRUE)
<1>1. TwoEightbytes(c, s0, s1, TRUE)
  BY DEF TwoEightbytes
<1>2. CASE PostMerger(c) = c
  BY <1>1, <1>2
<1>3. CASE PostMerger(c) # c
  <2>1. PostMerger(c) = [e \in 0 .. 1 |-> "MEMORY"]
    BY <1>3 DEF PostMerger, TwoEightbytes
  <2>2. \E e \in 0 .. 1 : \/ c[e] = "MEMORY"
                          \/ c[e] = "X87UP" /\ (e = 0 \/ c[e - 1] # "X87")
    BY <1>3 DEF PostMerger, TwoEightbytes
  <2>3. \/ c[0] = "MEMORY" \/ c[1] = "MEMORY" \/ c[0] = "X87UP"
        \/ c[1] = "X87UP" /\ c[0] # "X87"
    BY <2>2
  <2>4. "X87" \in s0
    BY <2>3 DEF TwoEightbytes, Plain
  <2>5. "SSE" \in s0 \union s1 \/ "INTEGER" \in s0 \union s1
    BY <2>3, <2>4 DEF TwoEightbytes
  <2> DEFINE d == [e \in 0 .. 1 |-> "MEMORY"]
  <2>6. DOMAIN d = 0 .. 1 /\ d[0] = "MEMORY"
    OBVIOUS
  <2> HIDE DEF d
  <2>7. TwoEightbytes(d, s0, s1, TRUE)
    BY <2>4, <2>5, <2>6 DEF TwoEightbytes
  <2>8. QED BY <1>1, <2>1, <2>7 DEF d
<1>4. QED BY <1>2, <1>3

LEMMA MergeTwo ==
  ASSUME NEW leaves \in Seq(Scalars),
         \A i \in 1 .. Len(leaves) : leaves[i].cls = "X87" => leaves[i].off = 0
  PROVE  TwoEightbytes(ClassesAfter(leaves, 2)[Len(leaves)],
                       ClassesSeen(leaves, Len(leaves), 0), ClassesSeen(leaves, Len(leaves), 1),
                       EndSeen(leaves, Len(leaves)))
<1> DEFINE w == ClassesAfter(leaves, 2)
           l == Len(leaves)
           Good(k) == /\ TwoEightbytes(w[k], ClassesSeen(leaves, k, 0), ClassesSeen(leaves, k, 1),
                                       EndSeen(leaves, k))
                      /\ "X87" \notin ClassesSeen(leaves, k, 1)
           P == {k \in 0 .. l : Good(k)}
<1>1. l \in Nat
  OBVIOUS
<1> HIDE DEF w
<1>2. /\ w[0] = [e \in 0 .. 1 |-> "NONE"]
      /\ \A k \in 1 .. l : w[k] = classify_range(w[k - 1], leaves[k])
  <2>1. [e \in 0 .. 2 - 1 |-> "NONE"] = [e \in 0 .. 1 |-> "NONE"]
    OBVIOUS
  <2>2. /\ ClassesAfter(leaves, 2)[0] = [e \in 0 .. 2 - 1 |-> "NONE"]
        /\ \A k \in 1 .. Len(leaves) :
             ClassesAfter(leaves, 2)[k] = classify_range(ClassesAfter(leaves, 2)[k - 1], leaves[k])
    BY <1>1, ClassesSteps, Zenon
  <2>3. QED BY <2>1, <2>2 DEF w
<1>3. 0 \in P
  BY <1>1, <1>2, SeenNothing DEF Plain, TwoEightbytes
<1>4. ASSUME NEW k \in 1 .. l, k - 1 \in P
      PROVE  k \in P
  <2> DEFINE leaf == leaves[k]
             eb == leaf.off \div 8
             s0 == ClassesSeen(leaves, k - 1, 0)
             s1 == ClassesSeen(leaves, k - 1, 1)
             nested == EndSeen(leaves, k - 1)
             c == w[k - 1]
  <2>1. /\ leaf.off \in Nat /\ leaf.cls \in {"INTEGER", "SSE", "X87", "END"}
        /\ leaf.cls = "X87" => leaf.off = 0
    <3>1. leaf \in Scalars /\ (leaf.cls = "X87" => leaf.off = 0)
      BY <1>1
    <3>2. QED BY <3>1 DEF Scalars
  <2>2. eb \in Nat /\ (leaf.cls = "X87" => eb = 0)
    BY <2>1
  <2>3. /\ TwoEightbytes(c, s0, s1, nested) /\ nested \in BOOLEAN
        /\ s0 \in SUBSET {"INTEGER", "SSE", "X87"} /\ s1 \in SUBSET {"INTEGER", "SSE"}
    <3>1. k - 1 \in 0 .. Len(leaves)
      BY <1>1
    <3>2. Good(k - 1)
      BY <1>4
    <3>3. s0 \subseteq {"INTEGER", "SSE", "X87"} /\ s1 \subseteq {"INTEGER", "SSE", "X87"}
      BY <3>1, SeenClasses
    <3>4. nested \in BOOLEAN
      BY DEF EndSeen
    <3>5. QED BY <3>2, <3>3, <3>4
  <2>4. w[k] = IF eb \notin 0 .. 1 THEN c
               ELSE IF leaf.cls = "END" THEN PostMerger(c)
               ELSE Share(c, eb, leaf.cls)
    <3>1. w[k] = classify_range(c, leaf)
      BY <1>2
    <3>2. DOMAIN c = 0 .. 1
      BY <2>3 DEF TwoEightbytes
    <3>3. QED BY <3>1, <3>2 DEF classify_range
  <2>5. /\ ClassesSeen(leaves, k, 0) = IF leaf.cls # "END" /\ eb = 0 THEN s0 \union {leaf.cls} ELSE s0
        /\ ClassesSeen(leaves, k, 1) = IF leaf.cls # "END" /\ eb = 1 THEN s1 \union {leaf.cls} ELSE s1
        /\ EndSeen(leaves, k) <=> nested \/ leaf.cls = "END"
    BY <1>1, SeenStep, EndStep
  <2>6. EndSeen(leaves, k) \in BOOLEAN
    BY DEF EndSeen
  <2> HIDE DEF leaf, eb, s0, s1, nested, c
  <2>7. CASE leaf.cls = "END"
    <3>1. w[k] = c \/ w[k] = PostMerger(c)
      BY <2>4, <2>7
    <3>2. EndSeen(leaves, k) = TRUE
      BY <2>5, <2>6, <2>7
    <3>3. ClassesSeen(leaves, k, 0) = s0 /\ ClassesSeen(leaves, k, 1) = s1
      BY <2>5, <2>7
    <3>4. TwoEightbytes(w[k], s0, s1, TRUE)
      BY <2>3, <3>1, EndNested
    <3>5. Good(k)
      BY <2>3, <3>2, <3>3, <3>4
    <3>6. QED BY <1>1, <3>5
  <2>8. CASE leaf.cls # "END"
    <3>1. EndSeen(leaves, k) = nested
      BY <2>3, <2>5, <2>6, <2>8
    <3>2. CASE eb = 0
      <4>1. w[k] = Share(c, 0, leaf.cls)
        BY <2>4, <2>8, <3>2
      <4>2. ClassesSeen(leaves, k, 0) = s0 \union {leaf.cls} /\ ClassesSeen(leaves, k, 1) = s1
        BY <2>5, <2>8, <3>2
      <4>3. TwoEightbytes(w[k], s0 \union {leaf.cls}, s1, nested)
        <5>1. leaf.cls \in {"INTEGER", "SSE", "X87"}
          BY <2>1, <2>8
        <5>2. QED BY <2>3, <4>1, <5>1, ShareFirst, Zenon
      <4>4. Good(k)
        BY <2>3, <3>1, <4>2, <4>3
      <4>5. QED BY <1>1, <4>4
    <3>3. CASE eb = 1
      <4>1. w[k] = Share(c, 1, leaf.cls)
        BY <2>4, <2>8, <3>3
      <4>2. ClassesSeen(leaves, k, 0) = s0 /\ ClassesSeen(leaves, k, 1) = s1 \union {leaf.cls}
        BY <2>5, <2>8, <3>3
      <4>3. leaf.cls \in {"INTEGER", "SSE"}
        BY <2>1, <2>2, <2>8, <3>3
      <4>4. TwoEightbytes(w[k], s0, s1 \union {leaf.cls}, nested)
        BY <2>3, <4>1, <4>3, ShareSecond
      <4>5. Good(k)
        BY <2>3, <3>1, <4>2, <4>3, <4>4
      <4>6. QED BY <1>1, <4>5
    <3>4. CASE eb \notin {0, 1}
      <4>1. w[k] = c
        BY <2>2, <2>4, <3>4
      <4>2. ClassesSeen(leaves, k, 0) = s0 /\ ClassesSeen(leaves, k, 1) = s1
        BY <2>5, <3>4
      <4>3. Good(k)
        BY <2>3, <3>1, <4>1, <4>2
      <4>4. QED BY <1>1, <4>3
    <3>5. QED BY <3>2, <3>3, <3>4
  <2>9. QED BY <2>7, <2>8
<1>5. \A k \in 0 .. l : k \in P
  <2> HIDE DEF P, l
  <2>1. QED BY <1>1, <1>3, <1>4, UpTo
<1>6. QED BY <1>1, <1>5 DEF w

-----------------------------------------------------------------------------
(* What the classifier reaches of the members *)

Elements(s) == {s[j] : j \in DOMAIN s}

Longer(leaves, m) == leaves \o Shifted(m)

\* The recursion of LeavesAfter defines a function.
LEMMA LeavesExist ==
  ASSUME NEW ms, NEW start, NEW n \in Nat
  PROVE  \E s : s = [k \in 0 .. n |-> IF k = 0 THEN start ELSE Longer(s[k - 1], ms[k])]
<1> DEFINE P == {m \in 0 .. n : \E s : s = [k \in 0 .. m |-> IF k = 0 THEN start
                                                    ELSE Longer(s[k - 1], ms[k])]}
<1>1. 0 \in P
  <2> DEFINE s == [k \in 0 .. 0 |-> start]
  <2>1. s = [k \in 0 .. 0 |-> IF k = 0 THEN start ELSE Longer(s[k - 1], ms[k])]
    OBVIOUS
  <2> HIDE DEF s
  <2>2. 0 \in 0 .. n
    OBVIOUS
  <2>3. QED BY <2>1, <2>2
<1>2. ASSUME NEW d \in 1 .. n, d - 1 \in P
      PROVE  d \in P
  <2>1. PICK s : s = [k \in 0 .. d - 1 |-> IF k = 0 THEN start ELSE Longer(s[k - 1], ms[k])]
    BY <1>2
  <2> DEFINE t == [k \in 0 .. d |-> IF k = d THEN Longer(s[d - 1], ms[d]) ELSE s[k]]
  <2>2. ASSUME NEW k \in 0 .. d
        PROVE  t[k] = IF k = 0 THEN start ELSE Longer(t[k - 1], ms[k])
    <3>1. CASE k = 0
      BY <2>1, <3>1
    <3>2. CASE k # 0 /\ k = d
      <4>1. t[k - 1] = s[d - 1]
        BY <3>2
      <4>2. QED BY <3>2, <4>1
    <3>3. CASE k # 0 /\ k # d
      <4>1. k \in 0 .. d - 1 /\ k - 1 \in 0 .. d - 1 /\ k - 1 # d
        BY <3>3
      <4>2. t[k] = s[k] /\ t[k - 1] = s[k - 1]
        BY <3>3, <4>1
      <4>3. s[k] = Longer(s[k - 1], ms[k])
        BY <2>1, <3>3, <4>1
      <4>4. QED BY <3>3, <4>2, <4>3
    <3>4. QED BY <3>1, <3>2, <3>3
  <2>3. t = [k \in 0 .. d |-> IF k = 0 THEN start ELSE Longer(t[k - 1], ms[k])]
    BY <2>2
  <2> HIDE DEF t
  <2>4. d \in 0 .. n
    OBVIOUS
  <2>5. QED BY <2>3, <2>4
<1>3. \A k \in 0 .. n : k \in P
  <2> HIDE DEF P
  <2>1. QED BY <1>1, <1>2, UpTo
<1>4. QED BY <1>3

\* Each member in turn adds its scalars.
LEMMA LeavesSteps ==
  ASSUME Len(members) \in Nat, ~zero_width
  PROVE  /\ LeavesAfter[0] = << >>
         /\ \A k \in 1 .. Len(members) :
              LeavesAfter[k] = LeavesAfter[k - 1] \o Shifted(members[k])
<1> DEFINE w == LeavesAfter
           l == Len(members)
           start == IF zero_width THEN <<[off |-> 0, cls |-> "INTEGER"]>> ELSE << >>
<1>1. w = CHOOSE s : s = [k \in 0 .. l |-> IF k = 0 THEN start
                                           ELSE Longer(s[k - 1], members[k])]
  BY DEF LeavesAfter, Longer
<1>2. start = << >>
  OBVIOUS
<1>3. w = [k \in 0 .. l |-> IF k = 0 THEN start ELSE Longer(w[k - 1], members[k])]
  <2> HIDE DEF start
  <2>1. QED BY <1>1, LeavesExist
<1>4. l \in Nat
  OBVIOUS
<1> HIDE DEF w, l, start
<1>5. w[0] = start /\ \A k \in 1 .. l : w[k] = Longer(w[k - 1], members[k])
  BY <1>3, <1>4
<1>6. QED BY <1>2, <1>5 DEF w, l, Longer

LEMMA ShiftedScalar ==
  ASSUME NEW x \in Scalars, NEW d \in Nat
  PROVE  /\ [x EXCEPT !.off = @ + d] = [off |-> d + x.off, cls |-> x.cls]
         /\ [x EXCEPT !.off = @ + d] \in Scalars
  BY DEF Scalars

LEMMA ShiftedFacts ==
  ASSUME NEW m, m.off \in Nat, m.type.scalars \in Seq(Scalars)
  PROVE  Shifted(m) \in Seq(Scalars) /\ Elements(Shifted(m)) = ScalarsOf(m)
<1> DEFINE t == m.type.scalars
<1>1. DOMAIN t = 1 .. Len(t) /\ Len(t) \in Nat /\ \A j \in 1 .. Len(t) : t[j] \in Scalars
  OBVIOUS
<1>2. \A j \in DOMAIN t : /\ Shifted(m)[j] = [off |-> m.off + t[j].off, cls |-> t[j].cls]
                          /\ Shifted(m)[j] \in Scalars
  BY <1>1, ShiftedScalar DEF Shifted
<1>3. Shifted(m) = [j \in 1 .. Len(t) |-> [t[j] EXCEPT !.off = @ + m.off]]
  BY <1>1 DEF Shifted
<1>4. \A j \in 1 .. Len(t) : [t[j] EXCEPT !.off = @ + m.off] \in Scalars
  BY <1>1, ShiftedScalar
<1>5. Shifted(m) \in Seq(Scalars)
  BY <1>1, <1>3, <1>4, IsASeq
<1>6. DOMAIN Shifted(m) = DOMAIN t
  BY DEF Shifted
<1>7. Elements(Shifted(m)) = ScalarsOf(m)
  BY <1>2, <1>6 DEF Elements, ScalarsOf
<1>8. QED BY <1>5, <1>7

LEMMA ElementsOfBoth ==
  ASSUME NEW S, NEW s \in Seq(S), NEW t \in Seq(S)
  PROVE  s \o t \in Seq(S) /\ Elements(s \o t) = Elements(s) \union Elements(t)
<1>1. Len(s) \in Nat /\ Len(t) \in Nat
  OBVIOUS
<1>2. s \o t \in Seq(S) /\ DOMAIN (s \o t) = 1 .. Len(s) + Len(t)
  OBVIOUS
<1>3. /\ \A j \in 1 .. Len(s) : (s \o t)[j] = s[j]
      /\ \A j \in 1 .. Len(t) : (s \o t)[Len(s) + j] = t[j]
  OBVIOUS
<1>4. DOMAIN s = 1 .. Len(s) /\ DOMAIN t = 1 .. Len(t)
  OBVIOUS
<1>5. ASSUME NEW x \in Elements(s \o t)
      PROVE  x \in Elements(s) \union Elements(t)
  <2>1. PICK j \in 1 .. Len(s) + Len(t) : x = (s \o t)[j]
    BY <1>2 DEF Elements
  <2>2. CASE j <= Len(s)
    <3>1. j \in 1 .. Len(s)
      BY <1>1, <2>2
    <3>2. QED BY <1>3, <1>4, <2>1, <3>1 DEF Elements
  <2>3. CASE ~(j <= Len(s))
    <3>1. j - Len(s) \in 1 .. Len(t) /\ Len(s) + (j - Len(s)) = j
      BY <1>1, <2>3
    <3>2. x = t[j - Len(s)]
      BY <1>3, <2>1, <3>1
    <3>3. QED BY <1>4, <3>1, <3>2 DEF Elements
  <2>4. QED BY <2>2, <2>3
<1>6. ASSUME NEW x \in Elements(s) \union Elements(t)
      PROVE  x \in Elements(s \o t)
  <2>1. CASE x \in Elements(s)
    <3>1. PICK j \in 1 .. Len(s) : x = s[j]
      BY <1>4, <2>1 DEF Elements
    <3>2. j \in 1 .. Len(s) + Len(t) /\ x = (s \o t)[j]
      BY <1>1, <1>3, <3>1
    <3>3. QED BY <1>2, <3>2 DEF Elements
  <2>2. CASE x \in Elements(t)
    <3>1. PICK j \in 1 .. Len(t) : x = t[j]
      BY <1>4, <2>2 DEF Elements
    <3>2. Len(s) + j \in 1 .. Len(s) + Len(t) /\ x = (s \o t)[Len(s) + j]
      BY <1>1, <1>3, <3>1
    <3>3. QED BY <1>2, <3>2 DEF Elements
  <2>3. QED BY <2>1, <2>2
<1>7. QED BY <1>2, <1>5, <1>6

LEMMA MemberScalars ==
  ASSUME IInv, NEW i \in 1 .. Len(members)
  PROVE  /\ members[i].off \in Nat /\ members[i].type \in Types
         /\ members[i].type.scalars \in Seq(Scalars)
<1>1. members[i] \in Member
  BY DEF IInv, TypeOK
<1>2. members[i].type \in Types /\ members[i].off \in Nat
  BY <1>1 DEF Member
<1>3. QED BY <1>2, ClassConstants

\* After the last member: the scalars of all members, no matter in which order.
LEMMA LeavesFacts ==
  ASSUME IInv, ~zero_width
  PROVE  /\ LeavesAfter[Len(members)] \in Seq(Scalars)
         /\ Elements(LeavesAfter[Len(members)])
              = UNION {ScalarsOf(members[i]) : i \in DOMAIN members}
<1> DEFINE w == LeavesAfter
           l == Len(members)
           Good(k) == /\ w[k] \in Seq(Scalars)
                      /\ Elements(w[k]) = UNION {ScalarsOf(members[i]) : i \in 1 .. k}
           P == {k \in 0 .. l : Good(k)}
<1>1. l \in Nat /\ DOMAIN members = 1 .. l
  BY DEF IInv, TypeOK
<1>2. w[0] = << >> /\ \A k \in 1 .. l : w[k] = w[k - 1] \o Shifted(members[k])
  BY <1>1, LeavesSteps
<1> HIDE DEF w
<1>3. 0 \in P
  <2>1. << >> \in Seq(Scalars) /\ Elements(<< >>) = {}
    BY DEF Elements
  <2>2. UNION {ScalarsOf(members[i]) : i \in 1 .. 0} = {}
    OBVIOUS
  <2>3. Good(0)
    BY <1>2, <2>1, <2>2
  <2> HIDE DEF Good
  <2>4. QED BY <1>1, <2>3
<1>4. ASSUME NEW k \in 1 .. l, k - 1 \in P
      PROVE  k \in P
  <2> DEFINE more == Shifted(members[k])
  <2>1. more \in Seq(Scalars) /\ Elements(more) = ScalarsOf(members[k])
    BY MemberScalars, ShiftedFacts
  <2>2. Good(k - 1)
    BY <1>4
  <2>3. w[k] = w[k - 1] \o more
    BY <1>2
  <2> HIDE DEF more
  <2>4. w[k] \in Seq(Scalars) /\ Elements(w[k]) = Elements(w[k - 1]) \union Elements(more)
    BY <2>1, <2>2, <2>3, ElementsOfBoth
  <2>5. 1 .. k = (1 .. k - 1) \union {k}
    BY <1>1
  <2>6. UNION {ScalarsOf(members[i]) : i \in 1 .. k}
          = (UNION {ScalarsOf(members[i]) : i \in 1 .. k - 1}) \union ScalarsOf(members[k])
    BY <2>5
  <2>7. Good(k)
    BY <2>1, <2>2, <2>4, <2>6
  <2>8. QED BY <1>1, <2>7
<1>5. \A k \in 0 .. l : k \in P
  <2> HIDE DEF P, l
  <2>1. QED BY <1>1, <1>3, <1>4, UpTo
<1>6. Good(l)
  <2> HIDE DEF Good
  <2>1. QED BY <1>1, <1>5
<1>7. DOMAIN members = 1 .. Len(members)
  BY <1>1
<1>8. QED BY <1>6, <1>7 DEF w

-----------------------------------------------------------------------------
(* The classes of a sealed aggregate are the ABI's *)

Leaves == LeavesAfter[Len(members)]

ClassesAt(e) == {x.cls : x \in {y \in Contents : y.off \div 8 = e}}

HasEnd == \E i \in DOMAIN members : \E x \in ScalarsOf(members[i]) : x.cls = "END"

LEMMA SeenContents ==
  ASSUME IInv, ~zero_width
  PROVE  /\ Leaves \in Seq(Scalars) /\ Len(Leaves) \in Nat
         /\ \A x \in Contents : x \in Scalars /\ x.cls # "END"
         /\ \A i \in 1 .. Len(Leaves) : Leaves[i].cls # "END" => Leaves[i] \in Contents
         /\ \A e : ClassesSeen(Leaves, Len(Leaves), e) = ClassesAt(e)
         /\ EndSeen(Leaves, Len(Leaves)) <=> HasEnd
<1> DEFINE all == UNION {ScalarsOf(members[i]) : i \in DOMAIN members}
<1>1. Leaves \in Seq(Scalars) /\ Elements(Leaves) = all
  BY LeavesFacts DEF Leaves
<1>2. Len(Leaves) \in Nat /\ DOMAIN Leaves = 1 .. Len(Leaves)
  BY <1>1
<1>3. all = {Leaves[j] : j \in 1 .. Len(Leaves)}
  BY <1>1, <1>2 DEF Elements
<1>4. Contents = {x \in all : x.cls # "END"}
  BY DEF Contents
<1>5. HasEnd <=> \E x \in all : x.cls = "END"
  BY DEF HasEnd
<1> HIDE DEF all
<1>6. \A j \in 1 .. Len(Leaves) : Leaves[j] \in Scalars
  BY <1>1
<1>7. ASSUME NEW e
      PROVE  ClassesSeen(Leaves, Len(Leaves), e) = ClassesAt(e)
  BY <1>3, <1>4 DEF ClassesSeen, ClassesAt
<1>8. EndSeen(Leaves, Len(Leaves)) <=> HasEnd
  BY <1>3, <1>5 DEF EndSeen
<1>9. QED BY <1>1, <1>2, <1>3, <1>4, <1>6, <1>7, <1>8

\* The ABI's classes of an eightbyte are those of the scalars in it, and X87UP
\* behind a long double.
LEMMA ClassesInFacts ==
  ASSUME NEW e
  PROVE  ClassesIn(e) = ClassesAt(e)
           \union {"X87UP" : x \in {y \in Contents : y.cls = "X87" /\ y.off \div 8 = e - 1}}
  BY DEF ClassesIn, ClassesAt

\* A long double fills an aggregate of at most 16 bytes.
LEMMA LongDoubleFits ==
  ASSUME IInv, sealed, size <= 16, NEW x \in Contents, x.cls = "X87"
  PROVE  x.off = 0 /\ size = 16
<1>1. DOMAIN members = 1 .. Len(members)
  BY DEF IInv, TypeOK
<1>2. PICK i \in 1 .. Len(members) : x \in ScalarsOf(members[i])
  BY <1>1 DEF Contents
<1>3. PICK j \in DOMAIN members[i].type.scalars :
        x = [off |-> members[i].off + members[i].type.scalars[j].off,
             cls |-> members[i].type.scalars[j].cls]
  BY <1>2 DEF ScalarsOf
<1> DEFINE t == members[i].type
           y == t.scalars[j]
<1>4. members[i].off \in Nat /\ t \in Types /\ t.scalars \in Seq(Scalars)
  BY MemberScalars
<1>5. y \in Scalars
  BY <1>4
<1>6. y.off \in Nat
  BY <1>5 DEF Scalars
<1>7. x.off = members[i].off + y.off /\ x.cls = y.cls
  BY <1>3
<1>8. y.off + 16 <= t.size
  BY <1>4, <1>7, ClassConstants
<1>9. End(members[i]) <= size
  BY IInvSafe DEF FitsAndTiles
<1>10. t.size \in Nat /\ size \in Nat
  BY <1>4, TypeFacts DEF IInv, TypeOK
<1>11. members[i].off + t.size <= size
  BY <1>9 DEF End
<1>12. x.off \in Nat /\ x.off + 16 <= size
  <2> HIDE DEF t, y
  <2>1. QED BY <1>4, <1>6, <1>7, <1>8, <1>10, <1>11
<1>13. QED BY <1>10, <1>12

LEMMA MergedFacts ==
  ASSUME NEW e, ClassesIn(e) \subseteq {"INTEGER", "SSE", "X87", "X87UP"}
  PROVE  /\ ClassesIn(e) = {} => Merged(e) = "NONE"
         /\ "INTEGER" \in ClassesIn(e) => Merged(e) = "INTEGER"
         /\ \A c : ClassesIn(e) = {c} => Merged(e) = c
         /\ \A c, d \in ClassesIn(e) : c # d /\ "INTEGER" \notin ClassesIn(e) => Merged(e) = "MEMORY"
<1> DEFINE s == ClassesIn(e)
<1>1. Merged(e) = IF s = {} THEN "NONE"
                  ELSE IF "INTEGER" \in s THEN "INTEGER"
                  ELSE IF Cardinality(s) = 1 THEN CHOOSE c \in s : TRUE
                  ELSE "MEMORY"
  BY DEF Merged
<1>2. IsFiniteSet({"INTEGER", "SSE", "X87", "X87UP"})
  <2>1. IsFiniteSet({"INTEGER"})
    BY FS_Singleton
  <2>2. IsFiniteSet({"INTEGER"} \union {"SSE"})
    BY <2>1, FS_AddElement
  <2>3. IsFiniteSet(({"INTEGER"} \union {"SSE"}) \union {"X87"})
    BY <2>2, FS_AddElement
  <2>4. IsFiniteSet((({"INTEGER"} \union {"SSE"}) \union {"X87"}) \union {"X87UP"})
    BY <2>3, FS_AddElement
  <2>5. {"INTEGER", "SSE", "X87", "X87UP"}
          = (({"INTEGER"} \union {"SSE"}) \union {"X87"}) \union {"X87UP"}
    OBVIOUS
  <2>6. QED BY <2>4, <2>5
<1>3. IsFiniteSet(s)
  BY <1>2, FS_Subset
<1> HIDE DEF s
<1>4. Cardinality(s) = 1 <=> \E x : s = {x}
  BY <1>3, FS_Singleton
<1>5. s = {} => Merged(e) = "NONE"
  BY <1>1
<1>6. "INTEGER" \in s => Merged(e) = "INTEGER"
  BY <1>1
<1>7. ASSUME NEW c, s = {c}
      PROVE  Merged(e) = c
  <2>1. Cardinality(s) = 1
    BY <1>4, <1>7
  <2>2. (CHOOSE x \in s : TRUE) = c
    BY <1>7
  <2>3. QED BY <1>1, <1>7, <2>1, <2>2
<1>8. ASSUME NEW c \in s, NEW d \in s, c # d, "INTEGER" \notin s
      PROVE  Merged(e) = "MEMORY"
  <2>1. Cardinality(s) # 1
    BY <1>4, <1>8
  <2>2. QED BY <1>1, <1>8, <2>1
<1>9. QED BY <1>5, <1>6, <1>7, <1>8 DEF s

\* The verdict of the property.
Matches ==
  LET classes == abi_classify(Aggregate)
  IN  IF InMemory THEN abi_in_memory(classes)
      ELSE \A e \in 0 .. Eightbytes(size) - 1 : classes[e] = Merged(e)

\* The classes of an aggregate of 1 to 16 bytes.
LEMMA SmallClasses ==
  ASSUME size \in 1 .. 16
  PROVE  /\ Eightbytes(size) \in {1, 2}
         /\ abi_classify(Aggregate)
              = PostMerger(ClassesAfter(Leaves, Eightbytes(size))[Len(Leaves)])
<1>1. Eightbytes(size) \in {1, 2}
  BY DEF Eightbytes
<1>2. /\ Aggregate.size = size /\ Aggregate.agg = TRUE /\ Aggregate.leaves = Leaves
  BY DEF Aggregate, Leaves
<1>3. ~ (size <= 0) /\ ~ (Eightbytes(size) > 2)
  BY <1>1
<1>4. QED BY <1>1, <1>2, <1>3 DEF abi_classify, MAX_EIGHTBYTES

\* More than two eightbytes travel in memory.
LEMMA LargeMatches ==
  ASSUME size \in Nat, size > 16
  PROVE  Matches
<1>1. Aggregate.size = size
  BY DEF Aggregate
<1>2. ~ (size <= 0) /\ Eightbytes(size) > 2
  BY DEF Eightbytes
<1>3. abi_classify(Aggregate) = [e \in {0} |-> "MEMORY"]
  BY <1>1, <1>2 DEF abi_classify, MAX_EIGHTBYTES
<1>4. abi_in_memory(abi_classify(Aggregate))
  BY <1>3 DEF abi_in_memory
<1>5. InMemory
  BY DEF InMemory
<1>6. QED BY <1>4, <1>5 DEF Matches

\* An aggregate without bytes has no members and no classes.
LEMMA EmptyMatches ==
  ASSUME size = 0
  PROVE  Matches
<1>1. 0 .. Eightbytes(size) - 1 = {} /\ ~ (size > 16)
  BY DEF Eightbytes
<1>2. ~InMemory
  BY <1>1 DEF InMemory
<1>3. QED BY <1>1, <1>2 DEF Matches

\* Integers and SSE scalars: an eightbyte with an integer is INTEGER, one with
\* floating point only is SSE.
LEMMA PlainMatches ==
  ASSUME IInv, ~zero_width, size \in 1 .. 16, \A x \in Contents : x.cls # "X87"
  PROVE  Matches
<1> DEFINE n == Eightbytes(size)
           c == ClassesAfter(Leaves, n)[Len(Leaves)]
           s(e) == ClassesSeen(Leaves, Len(Leaves), e)
<1>1. /\ Leaves \in Seq(Scalars) /\ Len(Leaves) \in Nat
      /\ \A i \in 1 .. Len(Leaves) : Leaves[i].cls # "END" => Leaves[i] \in Contents
  BY SeenContents
<1>2. \A i \in 1 .. Len(Leaves) : Leaves[i].cls # "X87"
  BY <1>1
<1>3. n \in {1, 2} /\ abi_classify(Aggregate) = PostMerger(c)
  BY SmallClasses
<1>4. \A e \in 0 .. n - 1 : c[e] = Plain(s(e))
  BY <1>1, <1>2, <1>3, PlainMerge
<1>5. DOMAIN c = 0 .. n - 1
  BY <1>1, ClassesDomain
<1>6. ASSUME NEW e \in 0 .. n - 1
      PROVE  c[e] = Merged(e) /\ Merged(e) \in {"NONE", "INTEGER", "SSE"}
  <2>1. s(e) \subseteq {"INTEGER", "SSE"}
    <3>1. s(e) \subseteq {"INTEGER", "SSE", "X87"}
      BY <1>1, SeenClasses
    <3>2. "X87" \notin s(e)
      BY <1>2 DEF ClassesSeen
    <3>3. QED BY <3>1, <3>2
  <2>2. ClassesIn(e) = s(e)
    <3>1. s(e) = ClassesAt(e)
      BY SeenContents
    <3>2. {y \in Contents : y.cls = "X87" /\ y.off \div 8 = e - 1} = {}
      OBVIOUS
    <3>3. ClassesIn(e) = ClassesAt(e) \union {"X87UP" : x \in {}}
      BY <3>2, ClassesInFacts
    <3>4. QED BY <3>1, <3>3
  <2>3. c[e] = Plain(s(e))
    BY <1>4
  <2> HIDE DEF c, s
  <2>4. Merged(e) = Plain(s(e))
    <3>1. CASE s(e) = {}
      BY <2>1, <2>2, <3>1, MergedFacts DEF Plain
    <3>2. CASE "INTEGER" \in s(e)
      BY <2>1, <2>2, <3>2, MergedFacts DEF Plain
    <3>3. CASE s(e) # {} /\ "INTEGER" \notin s(e)
      <4>1. s(e) = {"SSE"}
        BY <2>1, <3>3
      <4>2. Merged(e) = "SSE"
        BY <2>2, <4>1, MergedFacts
      <4>3. QED BY <4>1, <4>2 DEF Plain
    <3>4. QED BY <3>1, <3>2, <3>3
  <2>5. Plain(s(e)) \in {"NONE", "INTEGER", "SSE"}
    BY DEF Plain
  <2>6. QED BY <2>3, <2>4, <2>5
<1> HIDE DEF c, s, n
<1>7. PostMerger(c) = c
  BY <1>5, <1>6, PlainPostMerger
<1>8. ~InMemory
  BY <1>3, <1>6 DEF InMemory, n
<1>9. QED BY <1>3, <1>6, <1>7, <1>8 DEF Matches, n

\* A long double, alone or beside other members of a union: each of its halves
\* stays, or an integer in the same bytes makes it INTEGER, or all goes to memory.
LEMMA LongDoubleMatches ==
  ASSUME IInv, sealed, ~zero_width, ~OrderDecides, size <= 16,
         NEW ld \in Contents, ld.cls = "X87"
  PROVE  Matches
<1> DEFINE c == ClassesAfter(Leaves, 2)[Len(Leaves)]
           s0 == ClassesAt(0)
           s1 == ClassesAt(1)
<1>1. \A x \in Contents : x.cls = "X87" => x.off = 0 /\ size = 16
  BY LongDoubleFits
<1>2. size = 16 /\ Eightbytes(size) = 2
  BY <1>1 DEF Eightbytes
<1>3. /\ Leaves \in Seq(Scalars) /\ Len(Leaves) \in Nat
      /\ \A x \in Contents : x \in Scalars /\ x.cls # "END"
      /\ \A i \in 1 .. Len(Leaves) : Leaves[i].cls # "END" => Leaves[i] \in Contents
      /\ \A e : ClassesSeen(Leaves, Len(Leaves), e) = ClassesAt(e)
      /\ EndSeen(Leaves, Len(Leaves)) <=> HasEnd
  BY SeenContents
<1>4. abi_classify(Aggregate) = PostMerger(c)
  BY <1>2, SmallClasses
<1>5. TwoEightbytes(c, s0, s1, HasEnd)
  <2>1. \A i \in 1 .. Len(Leaves) : Leaves[i].cls = "X87" => Leaves[i].off = 0
    BY <1>1, <1>3
  <2>2. TwoEightbytes(c, s0, s1, EndSeen(Leaves, Len(Leaves)))
    BY <1>3, <2>1, MergeTwo
  <2>3. EndSeen(Leaves, Len(Leaves)) = HasEnd
    BY <1>3 DEF EndSeen, HasEnd
  <2>4. QED BY <2>2, <2>3
<1>6. "X87" \in s0
  <2>1. ld.off \div 8 = 0
    BY <1>1
  <2>2. QED BY <2>1 DEF ClassesAt
<1>7. s0 \subseteq {"INTEGER", "SSE", "X87"} /\ s1 \subseteq {"INTEGER", "SSE"}
  <2>1. \A x \in Contents : x.cls \in {"INTEGER", "SSE", "X87"}
    BY <1>3 DEF Scalars
  <2>2. \A x \in Contents : x.cls = "X87" => x.off \div 8 # 1
    BY <1>1
  <2>3. QED BY <2>1, <2>2 DEF ClassesAt
<1>8. ClassesIn(0) = s0
  <2>1. {y \in Contents : y.cls = "X87" /\ y.off \div 8 = 0 - 1} = {}
    BY <1>1
  <2>2. ClassesIn(0) = s0 \union {"X87UP" : x \in {}}
    BY <2>1, ClassesInFacts
  <2>3. QED BY <2>2
<1>9. ClassesIn(1) = s1 \union {"X87UP"}
  <2>1. ld \in {y \in Contents : y.cls = "X87" /\ y.off \div 8 = 1 - 1}
    BY <1>1
  <2>2. QED BY <2>1, ClassesInFacts
<1>10. "INTEGER" \in s1 => "SSE" \notin s0 \union s1 /\ ~HasEnd
  BY <1>8, <1>9 DEF OrderDecides, HasEnd
<1>11. 0 .. Eightbytes(size) - 1 = {0, 1}
  BY <1>2
<1>12. InMemory <=> \/ Merged(0) \in {"MEMORY", "X87UP"} \/ Merged(1) = "MEMORY"
                    \/ Merged(1) = "X87UP" /\ Merged(0) # "X87"
  <2>1. Merged(0) # "X87UP"
    <3>1. CASE "INTEGER" \in s0
      BY <1>7, <1>8, <3>1, MergedFacts
    <3>2. CASE s0 = {"X87"}
      BY <1>7, <1>8, <3>2, MergedFacts
    <3>3. CASE "INTEGER" \notin s0 /\ s0 # {"X87"}
      <4>1. "SSE" \in s0
        BY <1>6, <1>7, <3>3
      <4>2. QED BY <1>6, <1>7, <1>8, <3>3, <4>1, MergedFacts
    <3>4. QED BY <3>1, <3>2, <3>3
  <2>2. QED BY <1>2, <1>11, <2>1 DEF InMemory
<1>13. /\ "INTEGER" \in s0 => Merged(0) = "INTEGER"
       /\ s0 = {"X87"} => Merged(0) = "X87"
       /\ "INTEGER" \notin s0 /\ "SSE" \in s0 => Merged(0) = "MEMORY"
  BY <1>6, <1>7, <1>8, MergedFacts
<1>14. /\ "INTEGER" \in s1 => Merged(1) = "INTEGER"
       /\ s1 = {} => Merged(1) = "X87UP"
       /\ "INTEGER" \notin s1 /\ "SSE" \in s1 => Merged(1) = "MEMORY"
  BY <1>7, <1>9, MergedFacts
<1> HIDE DEF c, s0, s1, HasEnd
<1>15. CASE c[0] = "MEMORY" \/ c[1] = "MEMORY"
  <2>1. "SSE" \in s0 \union s1 \/ (HasEnd /\ "INTEGER" \in s0 \union s1)
    BY <1>5, <1>6, <1>15 DEF TwoEightbytes
  <2>2. "INTEGER" \notin s1
    BY <1>10, <2>1
  <2>3. InMemory
    BY <1>7, <1>12, <1>13, <1>14, <2>1, <2>2
  <2>4. PostMerger(c) = [e \in 0 .. 1 |-> "MEMORY"]
    BY <1>5, <1>15 DEF PostMerger, TwoEightbytes
  <2>5. abi_in_memory(PostMerger(c))
    BY <2>4 DEF abi_in_memory
  <2>6. QED BY <1>4, <2>3, <2>5 DEF Matches
<1>16. CASE c[0] # "MEMORY" /\ c[1] # "MEMORY"
  <2>1. /\ DOMAIN c = 0 .. 1
        /\ (s0 = {"X87"} /\ c[0] = "X87") \/ ("INTEGER" \in s0 /\ c[0] = "INTEGER")
        /\ (s1 = {} /\ c[1] = "X87UP") \/ ("INTEGER" \in s1 /\ c[1] = "INTEGER")
    BY <1>5, <1>6, <1>16 DEF TwoEightbytes
  <2>2. c[0] = Merged(0) /\ c[1] = Merged(1)
    BY <1>13, <1>14, <2>1
  <2>3. CASE c[1] = "X87UP" /\ c[0] # "X87"
    <3>1. InMemory
      BY <1>12, <2>2, <2>3
    <3>2. PostMerger(c) = [e \in 0 .. 1 |-> "MEMORY"]
      BY <2>1, <2>3 DEF PostMerger
    <3>3. abi_in_memory(PostMerger(c))
      BY <3>2 DEF abi_in_memory
    <3>4. QED BY <1>4, <3>1, <3>3 DEF Matches
  <2>4. CASE ~(c[1] = "X87UP" /\ c[0] # "X87")
    <3>1. ~InMemory
      BY <1>12, <2>1, <2>2, <2>4
    <3>2. PostMerger(c) = c
      BY <2>1, <2>4 DEF PostMerger
    <3>3. QED BY <1>4, <1>11, <2>2, <3>1, <3>2 DEF Matches
  <2>5. QED BY <2>3, <2>4
<1>17. QED BY <1>15, <1>16

\* The layout part of every step of an object's life.
LEMMA LayoutOf == [FNext]_fvars => [Next]_vars
  BY DEF FNext, LayoutStep, Declare, Assign, CompoundAssign, BeginLocal, BeginGlobal,
         LocalItem, GlobalItem, TakeItem, fvars

\* For every struct and union of complete types, with every element of an array
\* at its own offset and every nested aggregate with its own post-merger: the
\* classes abi_classify merges over the offsets type_seal_struct chose are the
\* ABI's, which know no order, so code from another compiler finds the value
\* where it is.  Bit-fields of width 0, and a long double that shares its second
\* half with an integer while floating point or a nested aggregate is beside
\* them (OrderDecides), are not covered.
THEOREM ClassesMatchABI == FSpec => []MatchesABI
<1>1. FInit => IInv
  BY InitIInv DEF FInit
<1>2. IInv /\ [FNext]_fvars => IInv'
  BY NextIInv, LayoutOf
<1>3. IInv => MatchesABI
  <2> SUFFICES ASSUME IInv, sealed, ~zero_width, ~OrderDecides
               PROVE  Matches
    BY DEF MatchesABI, Matches
  <2>1. size \in Nat
    BY DEF IInv, TypeOK
  <2>2. CASE size > 16
    BY <2>1, <2>2, LargeMatches
  <2>3. CASE size = 0
    BY <2>3, EmptyMatches
  <2>4. CASE size \in 1 .. 16 /\ \A x \in Contents : x.cls # "X87"
    BY <2>4, PlainMatches
  <2>5. CASE size <= 16 /\ \E x \in Contents : x.cls = "X87"
    BY <2>5, LongDoubleMatches
  <2>6. QED BY <2>1, <2>2, <2>3, <2>4, <2>5
<1>4. QED BY <1>1, <1>2, <1>3, PTL DEF FSpec
=============================================================================
