--------------------------- MODULE MCStructLayout ----------------------------
(* Instance of AbiLayout, and so of StructLayout, for TLC: char, short, int,  *)
(* char[3], float, double, long double, float[3], long[2], the structs        *)
(* {float; int;} and {long;}, and bit-fields of char and short.              *)
EXTENDS AbiLayout

Scalar(o, c) == [off |-> o, cls |-> c]
T(s, a, scalars) == [size |-> s, align |-> a, scalars |-> scalars]
Arith(n, c) == T(n, n, <<Scalar(0, c)>>)

MCBitTypes == {Arith(1, "INTEGER"), Arith(2, "INTEGER")}
MCArrays ==
  {T(3, 1, <<Scalar(0, "INTEGER"), Scalar(1, "INTEGER"), Scalar(2, "INTEGER")>>),
   T(12, 4, <<Scalar(0, "SSE"), Scalar(4, "SSE"), Scalar(8, "SSE")>>),
   T(16, 8, <<Scalar(0, "INTEGER"), Scalar(8, "INTEGER")>>)}
MCNested ==
  {T(8, 4, <<Scalar(0, "SSE"), Scalar(4, "INTEGER"), Scalar(0, "END")>>),
   T(8, 8, <<Scalar(0, "INTEGER"), Scalar(0, "END")>>)}
MCTypes ==
  MCBitTypes \union MCArrays \union MCNested
    \union {Arith(4, "INTEGER"), Arith(4, "SSE"), Arith(8, "SSE"), Arith(16, "X87")}

Sh(n, w) == [type |-> Arith(n, "INTEGER"), width |-> w]
MCStoreShapes == {Sh(1, w) : w \in {-1, 1, 3, 5, 8}} \union {Sh(2, w) : w \in {-1, 7, 16}}
MCPlainShapes == {Sh(n, -1) : n \in {1, 2, 4}}
MCValues == {{}, 0 .. 63}
=============================================================================
