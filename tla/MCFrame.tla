------------------------------- MODULE MCFrame -------------------------------
(* Instance of Frame for TLC: char, int, a 24-byte struct, long double, a     *)
(* VLA, an array whose bound is left to its initializer.                      *)
EXTENDS Frame

T(s, a, n) == [size |-> s, align |-> a, vla |-> FALSE, need |-> n]
Vla == [size |-> -1, align |-> 4, vla |-> TRUE, need |-> 32]
Complete == {T(1, 1, 1), T(4, 4, 4), T(24, 8, 24), T(16, 16, 16), Vla}

\* int a[] = {1, 2, 3} and long double a[] = {1}: type_sizeof answers -1.
Unbounded == Complete \union {T(-1, 4, 12), T(-1, 16, 16)}
=============================================================================
