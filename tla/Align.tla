-------------------------------- MODULE Align --------------------------------
(***************************************************************************)
(* Rounding up to an alignment, (n + a - 1) & ~(a - 1) in the code, as     *)
(* arena.c, type.c and regalloc.c write it.  For a power of two the mask is *)
(* the remainder modulo a.                                                 *)
(***************************************************************************)
EXTENDS Integers

AlignUp(n, a) == (n + a - 1) - ((n + a - 1) % a)
=============================================================================
