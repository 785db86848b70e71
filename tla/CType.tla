------------------------------- MODULE CType ---------------------------------
(***************************************************************************)
(* The scalar types of type.c, the typing rules of sema.c that need only    *)
(* types, and the 64-bit words the generated code computes with.            *)
(*                                                                         *)
(* A size in bytes (1, 2, 4, 8) stands for Bits[size] bits, so that TLC can *)
(* go through every value of a small machine: what matters is that int is   *)
(* narrower than a register and char narrower than int.                     *)
(***************************************************************************)
EXTENDS Integers

CONSTANT Bits   \* bits of an object of 1, 2, 4, 8 bytes

ASSUME BitsGrow ==
  /\ Bits \in [{1, 2, 4, 8} -> Nat \ {0}]
  /\ Bits[1] < Bits[2] /\ Bits[2] < Bits[4] /\ 2 * Bits[4] <= Bits[8]

Basic(k) == [kind |-> k]
TChar == Basic("char")
TInt == Basic("int")
TUInt == Basic("uint")
TLong == Basic("long")
TULong == Basic("ulong")
NoType == Basic("none")
type_pointer(t) == [kind |-> "pointer", pointee |-> t]
ArrayOf(t, n) == [kind |-> "array", elem |-> t, count |-> n]

SignedKinds == {"char", "schar", "short", "int", "long", "llong"}
UnsignedKinds == {"bool", "uchar", "ushort", "uint", "ulong", "ullong"}
FloatKinds == {"float", "double", "ldouble"}

ScalarSize(k) ==
  CASE k \in {"bool", "char", "schar", "uchar"} -> 1
    [] k \in {"short", "ushort"} -> 2
    [] k \in {"int", "uint", "float", "enum"} -> 4
    [] k \in {"long", "ulong", "llong", "ullong", "double", "pointer"} -> 8
    [] k = "ldouble" -> 16
    [] OTHER -> -1

type_sizeof(t) ==
  IF t.kind # "array" THEN ScalarSize(t.kind)
  ELSE IF t.count <= 0 THEN -1 ELSE t.count * ScalarSize(t.elem.kind)

type_is_integer(t) == t.kind \in SignedKinds \union UnsignedKinds \union {"enum"}
type_is_arithmetic(t) == type_is_integer(t) \/ t.kind \in FloatKinds
type_is_signed(t) == t.kind \in SignedKinds
type_is_unsigned_integer(t) == t.kind \in UnsignedKinds
IsPointer(t) == t.kind = "pointer"

-----------------------------------------------------------------------------
(* sema.c: promotions, usual arithmetic conversions, decay *)

integer_promote(t) ==
  IF t.kind \in {"bool", "char", "schar", "uchar", "short", "ushort"} THEN TInt
  ELSE t

Rank(t) ==
  CASE t.kind = "uint" -> 2
    [] t.kind = "long" -> 3 [] t.kind = "ulong" -> 4
    [] t.kind = "llong" -> 5 [] t.kind = "ullong" -> 6
    [] OTHER -> 1

usual_arithmetic(s, t) ==
  LET a == integer_promote(s)
      b == integer_promote(t)
  IN CASE "ldouble" \in {s.kind, t.kind} -> Basic("ldouble")
       [] "double" \in {s.kind, t.kind} -> Basic("double")
       [] "float" \in {s.kind, t.kind} -> Basic("float")
       [] OTHER -> IF Rank(a) >= Rank(b) THEN a ELSE b

decay(t) == IF t.kind = "array" THEN type_pointer(t.elem) ELSE t

-----------------------------------------------------------------------------
(* Words *)

W == Bits[8]
Word(x) == x % 2 ^ W

LowBits(x, n) == x % 2 ^ n
AsSigned(x, n) ==
  IF LowBits(x, n) >= 2 ^ (n - 1) THEN LowBits(x, n) - 2 ^ n ELSE LowBits(x, n)

\* The register after movs / movz from the low part of size bytes; a
\* movq for 8.
Extended(x, size, signed) ==
  IF size \notin {1, 2, 4} THEN Word(x)
  ELSE IF signed THEN Word(AsSigned(x, Bits[size])) ELSE LowBits(x, Bits[size])

\* The number an object or register of type t stands for.
ValueAs(x, t) ==
  IF type_is_signed(t) THEN AsSigned(x, Bits[type_sizeof(t)])
  ELSE LowBits(x, Bits[type_sizeof(t)])
=============================================================================
