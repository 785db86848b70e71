------------------------------ MODULE TypeTable -------------------------------
(***************************************************************************)
(* Types as the front end keeps them (include/tinyc/type.h, src/src/type.c): *)
(* nodes in the arena that refer to each other.  Pointer, array and          *)
(* function types are looked up before they are made, in a hash table whose  *)
(* key is what the constructor was called with; struct, union and enum types *)
(* and qualified copies are not in the table.                               *)
(*                                                                         *)
(* A reference to a type is a number: 0 is NULL, the n-th node of the arena  *)
(* is n, and the static scalar types, which nothing changes, are negative.   *)
(***************************************************************************)
EXTENDS Integers, Sequences

CONSTANTS
  Slots,      \* buckets of the table
  Hash(_, _)  \* ptr_hash: the bucket of a key, one of Slots

NULL == 0

ScalarNames == <<"void", "bool", "char", "schar", "uchar", "short", "ushort",
                 "int", "uint", "long", "ulong", "llong", "ullong",
                 "float", "double", "ldouble">>

\* The static object of a scalar type.
Scalar(name) == -(CHOOSE i \in DOMAIN ScalarNames : ScalarNames[i] = name)

\* sub: pointee, element or return type.  n: array bound, 2 * parameters +
\* variadic, or -1 while the type is incomplete.  params: parameters, members
\* or enumerators.  name: scalar type or tag.
Node(k, name, sub, qual, n, params) ==
  [k |-> k, name |-> name, sub |-> sub, qual |-> qual, n |-> n, params |-> params]

NoTypes == [nodes |-> << >>, buckets |-> [s \in Slots |-> << >>]]

At(h, t) == IF t < 0 THEN Node("scalar", ScalarNames[-t], NULL, 0, 0, << >>)
            ELSE h.nodes[t]

\* A call's result: the heap after it and the type it returns.
Made(h, t) == [heap |-> h, type |-> t]

Allocate(h, node) ==
  Made([h EXCEPT !.nodes = Append(@, node)], Len(h.nodes) + 1)

\* The interned nodes that equal the wanted one, found under its key.
Hits(h, slot, node) == {i \in DOMAIN h.buckets[slot] : h.nodes[h.buckets[slot][i]] = node}

\* A mutation: the bucket searched is not the one the node is put into.
InternElsewhere(h, extra, node) ==
  LET slot == Hash(node.sub, extra)
      hits == Hits(h, Hash(extra, node.sub), node)
      new  == Len(h.nodes) + 1
  IN IF hits # {}
       THEN Made(h, h.buckets[Hash(extra, node.sub)][CHOOSE i \in hits : \A j \in hits : i <= j])
     ELSE Made([nodes |-> Append(h.nodes, node),
                buckets |-> [h.buckets EXCEPT ![slot] = <<new>> \o @]], new)

\* type_pointer, type_array, type_array_unsized, type_func: the first such
\* node of the bucket, which is newest first, or a new one.
Intern(h, extra, node) ==
  LET slot == Hash(node.sub, extra)
      hits == Hits(h, slot, node)
      new  == Len(h.nodes) + 1
  IN IF hits # {} THEN Made(h, h.buckets[slot][CHOOSE i \in hits : \A j \in hits : i <= j])
     ELSE Made([nodes |-> Append(h.nodes, node),
                buckets |-> [h.buckets EXCEPT ![slot] = <<new>> \o @]], new)

type_pointer(h, pointee, qual) == Intern(h, qual, Node("ptr", "", pointee, qual, 0, << >>))
type_array(h, elem, count) == Intern(h, count, Node("array", "", elem, 0, count, << >>))
UnsizedKey == 65535
type_array_unsized(h, elem) == Intern(h, UnsizedKey, Node("unsized", "", elem, 0, -1, << >>))
type_func(h, ret, params, variadic) ==
  LET extra == 2 * Len(params) + (IF variadic THEN 1 ELSE 0)
  IN Intern(h, extra, Node("func", "", ret, 0, extra, params))

\* type_struct, type_union, type_enum: an incomplete type of its own.
NewTagged(h, k, tag) == Allocate(h, Node(k, tag, NULL, 0, -1, << >>))

\* Qualifiers are two bits: 1 is const, 2 is volatile.
With(qual, added) ==
  LET bit(b) == IF (qual \div b) % 2 = 1 \/ (added \div b) % 2 = 1 THEN b ELSE 0
  IN bit(1) + bit(2)

\* A copy with more qualifiers, in no bucket.
type_qualify(h, t, added) ==
  IF With(At(h, t).qual, added) = At(h, t).qual THEN Made(h, t)
  ELSE Allocate(h, [At(h, t) EXCEPT !.qual = With(@, added)])

\* A NULL left in a node is overwritten; the node stays in its bucket.
Patch(h, t, sub) == [nodes |-> [h.nodes EXCEPT ![t].sub = sub], buckets |-> h.buckets]

\* A struct or union (type_seal_*), or an enum, gets its members.
Complete(h, t, members) ==
  [nodes |-> [h.nodes EXCEPT ![t] = [@ EXCEPT !.n = 0, !.params = members]],
   buckets |-> h.buckets]
=============================================================================
