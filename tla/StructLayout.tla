---------------------------- MODULE StructLayout -----------------------------
(***************************************************************************)
(* type_seal_struct and type_seal_union of src/src/type.c, one member per  *)
(* step.  Sema, the IR generator's field accesses, its bit-field           *)
(* read-modify-writes and the ABI classifier all trust these offsets: two  *)
(* members that share a byte are silent data corruption in the compiled    *)
(* program.                                                                *)
(*                                                                         *)
(* A member type is its (size, align); a bit-field's declared type is its  *)
(* storage unit.  Only complete member types are laid out here: for an     *)
(* incomplete one type_sizeof answers -1.                                  *)
(***************************************************************************)
EXTENDS Integers, Sequences, Align

CONSTANTS
  Types,      \* member types: [size, align]
  BitTypes,   \* the integer types among them, which may have a width
  MaxMembers  \* bound: members of one aggregate

\* Complete C types: a size is a multiple of its alignment, and alignments
\* are powers of two, so of two the smaller divides the larger.
ASSUME StructConstants ==
  /\ \A t \in Types : /\ t.size \in Nat \ {0} /\ t.align \in Nat \ {0}
                      /\ t.size % t.align = 0
  /\ BitTypes \subseteq Types
  /\ \A s, t \in Types : s.align <= t.align => t.align % s.align = 0
  /\ MaxMembers \in Nat

VARIABLES
  kind,       \* "struct" | "union"
  members,    \* <<[type, width, off, bit], ...>>; width = -1: not a bit-field
  offset,     \* next free byte (in a union: the largest size so far)
  max_align,
  unit,       \* current bit-field unit: [off, size, align]
  bit_next,   \* next free bit in the unit, 0 = no unit is open
  sealed,     \* the loop has ended
  size        \* ty->agg.size

vars == <<kind, members, offset, max_align, unit, bit_next, sealed, size>>

NotBitField == -1

Init ==
  /\ kind \in {"struct", "union"}
  /\ members = << >>
  /\ offset = 0
  /\ max_align = 1
  /\ unit = [off |-> 0, size |-> 0, align |-> 1]
  /\ bit_next = 0
  /\ sealed = FALSE
  /\ size = 0

Larger(a, b) == IF a > b THEN a ELSE b

CanAdd(k) == kind = k /\ ~sealed /\ Len(members) < MaxMembers

AddMember(t, width, off, bit) ==
  /\ members' = Append(members, [type |-> t, width |-> width, off |-> off, bit |-> bit])
  /\ max_align' = Larger(max_align, t.align)
  /\ UNCHANGED <<kind, sealed, size>>

PlainOffset(t) == AlignUp(offset, t.align)

\* A mutation: "no unit" is marked by -1 in one place and tested as 0 in another.
CloseUnitMinusOne == -1

\* A plain member closes the bit-field unit.
CloseUnit == 0

PlainMember(t) ==
  /\ CanAdd("struct")
  /\ AddMember(t, NotBitField, PlainOffset(t), 0)
  /\ offset' = PlainOffset(t) + t.size
  /\ bit_next' = CloseUnit
  /\ unit' = unit

\* An unnamed bit-field of width 0 closes the unit; it is not a member.
ZeroWidth(t) ==
  /\ CanAdd("struct")
  /\ LET end == IF bit_next > 0 THEN unit.off + unit.size ELSE offset
     IN  offset' = AlignUp(end, t.align)
  /\ bit_next' = 0
  /\ max_align' = Larger(max_align, t.align)
  /\ UNCHANGED <<kind, members, unit, sealed, size>>

\* A mutation: a unit of another type is continued.
NeedsUnitAnyType(t, w) ==
  bit_next = 0 \/ bit_next + w > 8 * t.size

\* A new unit is opened for the first bit-field, one that does not fit in
\* what is left of the unit, and one of a different size or alignment.
NeedsUnit(t, w) ==
  \/ bit_next = 0
  \/ bit_next + w > 8 * t.size
  \/ t.align # unit.align
  \/ t.size # unit.size

BitFieldNewUnit(t, w) ==
  /\ CanAdd("struct")
  /\ NeedsUnit(t, w)
  /\ LET off == AlignUp(offset, t.align)
     IN  /\ AddMember(t, w, off, 0)
         /\ unit' = [off |-> off, size |-> t.size, align |-> t.align]
         /\ offset' = off + t.size
  /\ bit_next' = w

BitFieldSameUnit(t, w) ==
  /\ CanAdd("struct")
  /\ ~NeedsUnit(t, w)
  /\ AddMember(t, w, unit.off, bit_next)
  /\ bit_next' = bit_next + w
  /\ UNCHANGED <<unit, offset>>

\* type_seal_union: every member at offset 0, bit 0.
UnionMember(t, width) ==
  /\ CanAdd("union")
  /\ AddMember(t, width, 0, 0)
  /\ offset' = Larger(offset, t.size)
  /\ UNCHANGED <<unit, bit_next>>

\* A mutation: the tail is not padded.
SealedSizeUnpadded == offset

\* The total size is padded to the alignment.
SealedSize == AlignUp(offset, max_align)

Seal ==
  /\ ~sealed
  /\ sealed' = TRUE
  /\ size' = SealedSize
  /\ UNCHANGED <<kind, members, offset, max_align, unit, bit_next>>

Next ==
  \/ \E t \in Types : PlainMember(t)
  \/ \E t \in BitTypes : ZeroWidth(t)
  \* The language constrains a width to its type; sema does not check it.
  \/ \E t \in BitTypes : \E w \in 1 .. 8 * t.size :
       BitFieldNewUnit(t, w) \/ BitFieldSameUnit(t, w)
  \/ \E t \in Types : UnionMember(t, NotBitField)
  \/ \E t \in BitTypes : \E w \in 0 .. 8 * t.size : UnionMember(t, w)
  \/ Seal

Spec == Init /\ [][Next]_vars

-----------------------------------------------------------------------------
(* Properties *)

Member == [type : Types, width : Nat \union {NotBitField}, off : Nat, bit : Nat]

\* The layout state is well typed.
TypeOK ==
  /\ kind \in {"struct", "union"}
  /\ members \in Seq(Member)
  /\ offset \in Nat /\ max_align \in Nat \ {0} /\ bit_next \in Nat
  /\ unit \in [off : Nat, size : Nat, align : Nat \ {0}]
  /\ sealed \in BOOLEAN /\ size \in Nat

IsBitField(m) == m.width # NotBitField

\* The bytes a member access touches: a bit-field access reads and writes
\* back its whole unit (irgen.c:291-339).
End(m) == m.off + m.type.size

SameUnit(m, n) ==
  IsBitField(m) /\ IsBitField(n) /\ m.off = n.off /\ m.type.size = n.type.size

\* The members of a struct lie in declaration order, and no two of them share
\* a byte, except bit-fields of one unit, which share no bit.  A store to one
\* member, the read-modify-write of a bit-field included, therefore never
\* changes another.
MembersDisjoint ==
  kind = "struct" =>
    \A i, j \in 1 .. Len(members) :
      i < j =>
        LET m == members[i]  n == members[j]
        IN  \/ End(m) <= n.off
            \/ SameUnit(m, n) /\ m.bit + m.width <= n.bit

\* Every member is inside the aggregate, and an array of the aggregate keeps
\* every member aligned: sizeof is a multiple of each member's alignment.
FitsAndTiles ==
  sealed =>
    \A i \in 1 .. Len(members) :
      /\ End(members[i]) <= size
      /\ size % members[i].type.align = 0
      /\ members[i].off % members[i].type.align = 0

\* A bit-field lies within its storage unit: a shift by bit_offset and a mask
\* of bit_width never reach beyond the loaded unit.
BitsInUnit ==
  \A i \in 1 .. Len(members) :
    IsBitField(members[i]) =>
      members[i].bit + members[i].width <= 8 * members[i].type.size
=============================================================================
