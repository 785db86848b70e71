----------------------------- MODULE FieldAccess -----------------------------
(***************************************************************************)
(* An object of a sealed aggregate, and what irgen.c makes of it: loads and *)
(* stores of its members, the read-modify-write of a bit-field, and its     *)
(* initializer list, for a local (code that stores) and for a global (bytes *)
(* in the data section).  Memory is the set of the bits that are 1, and a    *)
(* value the set of its bits, so that shifts, masks and complements are     *)
(* operations on sets.                                                      *)
(*                                                                          *)
(* Left out: the sign of a bit-field (a load never extends it), members that *)
(* are aggregates, and initializers that are not integer constants.          *)
(***************************************************************************)
EXTENDS StructLayout

CONSTANTS
  StoreShapes,  \* bound: the members [type, width] of objects that are stored to
  CompoundShapes,  \* those among them that op=, ++ and -- are applied to
  InitShapes,   \* bound: those of objects with an initializer
  Values,       \* values stored, sets of bits
  MaxItems      \* bound: items of an initializer

VARIABLES
  zero_width,  \* the struct has a bit-field of width 0
  object,      \* "none" | "local" | "global" (being initialized) | "live"
  memory,      \* the bits of the object that are 1
  next_field,  \* the member a positional item goes to
  items,       \* history: the items so far, [field, value]; field 0: positional
  holds        \* history: what C says each member of the live object holds

objectVars == <<object, memory, next_field, items, holds>>
fvars == <<vars, zero_width, objectVars>>

FInit ==
  /\ Init
  /\ zero_width = FALSE
  /\ object = "none" /\ memory = {} /\ next_field = 1
  /\ items = << >> /\ holds = << >>

-----------------------------------------------------------------------------
(* Words *)

Word == 0 .. 63
Shl(s, k) == {b \in Word : b - k \in s}
Shr(s, k) == {b \in Word : b + k \in s}
Not(s) == Word \ s
Low(s, n) == s \intersect (0 .. n - 1)

\* The bits of the object that a member's type covers.
Covered(m) == 8 * m.off .. 8 * m.off + 8 * m.type.size - 1

\* IR_LOAD and IR_STORE of a member's whole type.
load(mem, m) == {b \in 0 .. 8 * m.type.size - 1 : 8 * m.off + b \in mem}
store(mem, m, v) == (mem \ Covered(m)) \union {b \in Covered(m) : b - 8 * m.off \in v}

\* 63 bits take the whole word, as 64 do.
bit_mask(width) ==
  IF width <= 0 THEN {} ELSE IF width >= 63 THEN Word ELSE 0 .. width - 1

gen_bitfield_load(mem, m) == Shr(load(mem, m), m.bit) \intersect bit_mask(m.width)

\* A mutation: the neighbours in the unit are not kept.
ClearedAll(current, m) == {}

\* The unit without the bits of the field.
Cleared(current, m) == current \intersect Not(Shl(bit_mask(m.width), m.bit))

gen_bitfield_store(mem, m, v) ==
  store(mem, m, Cleared(load(mem, m), m)
                  \union Shl(v \intersect bit_mask(m.width), m.bit))

\* An access to a member (irgen.c:905, 1013, 1025): as a bit-field if it has a width.
HasWidth(m) == m.width > 0
Read(mem, m) == IF HasWidth(m) THEN gen_bitfield_load(mem, m) ELSE load(mem, m)
Write(mem, m, v) == IF HasWidth(m) THEN gen_bitfield_store(mem, m, v) ELSE store(mem, m, v)

\* What C lets a member keep of a value.
Kept(m, v) == IF HasWidth(m) THEN Low(v, m.width) ELSE Low(v, 8 * m.type.size)

-----------------------------------------------------------------------------
(* Objects *)

Shape(m) == [type |-> m.type, width |-> m.width]
ShapesIn(shapes) == \A i \in DOMAIN members : Shape(members[i]) \in shapes
Garbage == {{}, 0 .. 8 * size - 1}
Seen(mem) == [i \in DOMAIN members |-> Read(mem, members[i])]

\* A local object without an initializer.
Declare ==
  /\ sealed /\ object = "none" /\ ShapesIn(StoreShapes)
  /\ object' = "live"
  /\ memory' \in Garbage
  /\ holds' = Seen(memory')
  /\ UNCHANGED <<vars, zero_width, next_field, items>>

\* When a member is assigned the others of a struct keep their values; those of
\* a union become whatever the bits are.
NowHolds(i, v) ==
  holds' = [j \in DOMAIN members |->
              IF j = i THEN Kept(members[i], v)
              ELSE IF kind = "struct" THEN holds[j] ELSE Read(memory', members[j])]

Assign(i, v) ==
  /\ object = "live"
  /\ memory' = Write(memory, members[i], v)
  /\ NowHolds(i, v)
  /\ UNCHANGED <<vars, zero_width, object, next_field, items>>

\* op=, ++ and --, by the example of ^=: they load and store the member's whole
\* type, a bit-field or not.
Xor(s, v) == (s \ v) \union (v \ s)

CompoundAssign(i, v) ==
  /\ object = "live" /\ Shape(members[i]) \in CompoundShapes
  /\ memory' = store(memory, members[i], Xor(load(memory, members[i]), v))
  /\ NowHolds(i, Xor(holds[i], v))
  /\ UNCHANGED <<vars, zero_width, object, next_field, items>>

\* gen_zero_initializer stores 0 to one member after another.
Zeroed(mem) == mem \ UNION {Covered(members[i]) : i \in DOMAIN members}

\* A bit-field of width 0 is in the code's list of fields and would take an
\* item; such structs are left out.
BeginLocal ==
  /\ sealed /\ object = "none" /\ ShapesIn(InitShapes) /\ ~zero_width
  /\ object' = "local"
  /\ \E g \in Garbage : memory' = Zeroed(g)
  /\ UNCHANGED <<vars, zero_width, next_field, items, holds>>

\* irgen: the buffer of a global is zeroed.
BeginGlobal ==
  /\ sealed /\ object = "none" /\ ShapesIn(InitShapes) /\ ~zero_width
  /\ object' = "global"
  /\ memory' = {}
  /\ UNCHANGED <<vars, zero_width, next_field, items, holds>>

\* fill_global_scalar: at most 8 bytes, in little-endian order.
write_int_le(mem, m, v) ==
  LET n == IF m.type.size > 8 THEN 64 ELSE 8 * m.type.size
  IN  {b \in mem : b \notin 8 * m.off .. 8 * m.off + n - 1}
        \union {b \in 8 * m.off .. 8 * m.off + n - 1 : b - 8 * m.off \in v}

\* A mutation: a designator does not move the position of the list.
FollowingInOrder(i) == next_field + 1

\* The member after the one just initialized.
Following(i) == i + 1

\* One turn of the loop over the items: the designated member, or the next one.
Designated(field) == IF field = 0 THEN next_field ELSE field

HasItem(field) == Len(items) < MaxItems /\ Designated(field) <= Len(members)

TakeItem(field, v) ==
  /\ next_field' = Following(Designated(field))
  /\ items' = Append(items, [field |-> field, value |-> v])
  /\ UNCHANGED <<vars, zero_width, object, holds>>

\* gen_aggregate_initializer: a store, to a bit-field as to any member.
LocalItem(field, v) ==
  /\ object = "local" /\ HasItem(field)
  /\ memory' = store(memory, members[Designated(field)], v)
  /\ TakeItem(field, v)

\* fill_global_aggregate: bytes of the buffer.
GlobalItem(field, v) ==
  /\ object = "global" /\ HasItem(field)
  /\ memory' = write_int_le(memory, members[Designated(field)], v)
  /\ TakeItem(field, v)

LayoutStep ==
  /\ Next
  /\ zero_width' = (zero_width \/ (members' = members /\ ~sealed'))
  /\ UNCHANGED objectVars

FNext ==
  \/ LayoutStep
  \/ Declare
  \/ \E i \in DOMAIN members : \E v \in Values : Assign(i, v) \/ CompoundAssign(i, v)
  \/ BeginLocal \/ BeginGlobal
  \* each item has a value of its own
  \/ \E field \in 0 .. Len(members) :
       LocalItem(field, {Len(items)}) \/ GlobalItem(field, {Len(items)})

FSpec == FInit /\ [][FNext]_fvars

-----------------------------------------------------------------------------
(* Properties *)

\* C99 6.7.8: item k initializes the member it names, or the one after that of
\* item k - 1; of several items for a member the last counts; without one it
\* is 0.
NextTarget(item, before) == IF item.field # 0 THEN item.field ELSE before + 1
Targets(list) ==
  LET target[k \in 0 .. Len(list)] ==
        IF k = 0 THEN 0 ELSE NextTarget(list[k], target[k - 1])
  IN  target
ItemsFor(list, i) == {k \in DOMAIN list : Targets(list)[k] = i}
Initial(list, i) ==
  IF ItemsFor(list, i) = {} THEN {}
  ELSE list[CHOOSE k \in ItemsFor(list, i) : \A l \in ItemsFor(list, i) : l <= k].value

\* Through any sequence of assignments every member of a struct reads back what
\* was last stored to it, cut to its width, whatever was stored to its
\* neighbours: the read-modify-write of a bit-field brings back the other bits
\* of its unit, and a plain store never reaches a bit-field.  Of a union this
\* is true of the member assigned last.
FieldsHold ==
  object = "live" => \A i \in DOMAIN members : Read(memory, members[i]) = holds[i]

\* The code that initializes a local and the bytes that initialize a global
\* both give each member what C99 6.7.8 says, cut to its width, over whatever
\* was in memory, with designators in any order, members named twice and
\* members left out.  (Of a union: the member initialized last.)
InitializedAsC ==
  object \in {"local", "global"} =>
    \A i \in DOMAIN members :
      \/ kind = "union" /\ i # Targets(items)[Len(items)]
      \/ Read(memory, members[i]) = Kept(members[i], Initial(items, i))
=============================================================================
