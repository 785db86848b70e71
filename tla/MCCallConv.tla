------------------------------ MODULE MCCallConv ------------------------------
(* Instance of CallConv with three integer and two SSE registers, so that     *)
(* four arguments exhaust either kind in every order.                        *)
EXTENDS CallConv

Leaf(off, cls) == [off |-> off, cls |-> cls]
Scalar(size, cls) == [size |-> size, agg |-> FALSE, leaves |-> <<Leaf(0, cls)>>]
Struct(size, leaves) == [size |-> size, agg |-> TRUE, leaves |-> leaves]

CInt == Scalar(4, "INTEGER")
CPtr == Scalar(8, "INTEGER")
CDouble == Scalar(8, "SSE")
CFunc == [size |-> -1, agg |-> FALSE, leaves |-> <<Leaf(0, "INTEGER")>>]
CVoid == [size |-> -1, agg |-> FALSE, leaves |-> << >>]
Point  == Struct(8, <<Leaf(0, "INTEGER"), Leaf(4, "INTEGER")>>)
Point3 == Struct(12, <<Leaf(0, "INTEGER"), Leaf(4, "INTEGER"), Leaf(8, "INTEGER")>>)
Mixed  == Struct(16, <<Leaf(0, "INTEGER"), Leaf(8, "SSE")>>)
DMixed == Struct(16, <<Leaf(0, "SSE"), Leaf(8, "INTEGER")>>)
Big    == Struct(24, <<Leaf(0, "INTEGER"), Leaf(8, "INTEGER"), Leaf(16, "INTEGER")>>)
Rgb    == Struct(3, <<Leaf(0, "INTEGER"), Leaf(1, "INTEGER"), Leaf(2, "INTEGER")>>)
Vec3   == Struct(12, <<Leaf(0, "SSE"), Leaf(4, "SSE"), Leaf(8, "SSE")>>)

Pass(ty) == [type |-> ty, param |-> ty, fconst |-> FALSE]

\* Operands and results for which the parts agree.
Sound == {Pass(ty) : ty \in {CInt, CDouble, Point3, Mixed, Big}}
Results == {CVoid, CInt, CDouble, Point3, DMixed, Big}

\* struct { char r, g, b; }, passed to a function that takes it.
OnlyRgb == {Pass(Rgb)}
OnlyInt == {CInt}

\* Further operands for which ArgumentsArrive, and results for which
\* ResultArrives, fails (README, "Departures"): give them to MCCallConv.cfg with
\* NInt = 6, NSse = 8.
\*   a function defined above the call and named as an argument: its node has
\*   the function type, the parameter is a pointer (MaxArgs = 7)
WithFunc == {Pass(CInt), [type |-> CFunc, param |-> CPtr, fconst |-> FALSE]}
\*   1.5 as the ninth double (MaxArgs = 9)
OnlyConstants == {[type |-> CDouble, param |-> CDouble, fconst |-> TRUE]}
\*   1 passed to a double
OnlyConversions == {[type |-> CInt, param |-> CDouble, fconst |-> FALSE]}
\*   struct { float x, y, z; } returned
OnlyVec3 == {Vec3}
=============================================================================
