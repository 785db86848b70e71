------------------------------ MODULE Interner -------------------------------
(***************************************************************************)
(* What a string table promises its clients (lexer, parser, type printer,  *)
(* code generator): every string has one index for as long as the table    *)
(* lives, different strings have different indices, and an index gives the *)
(* string back.  No hashing, no arrays, no capacity.                       *)
(***************************************************************************)
EXTENDS Integers, Sequences

CONSTANT Strings

VARIABLES
  table,   \* the strings interned so far, in order
  result   \* answer of the last call, with its argument

vars == <<table, result>>

Init == table = << >> /\ result = <<"none">>

Known(s) == \E i \in 1 .. Len(table) : table[i] = s

\* A known string: its index, counted from 0.
InternKnown(s) ==
  \E i \in 1 .. Len(table) :
    /\ table[i] = s
    /\ result' = <<"index", i - 1, s>>
    /\ table' = table

\* A new string: the next index.
InternNew(s) ==
  /\ ~Known(s)
  /\ table' = Append(table, s)
  /\ result' = <<"index", Len(table), s>>

\* The string behind an index that was handed out ...
Get(i) ==
  /\ result' = <<"string", table[i + 1], i>>
  /\ table' = table

\* ... and nothing for any other index.
GetNothing ==
  /\ result' = <<"none">>
  /\ table' = table

\* The table is freed, or the process exits.
Free == table' = << >> /\ result' = <<"none">>

Next ==
  \/ \E s \in Strings : InternKnown(s) \/ InternNew(s)
  \/ \E i \in 0 .. Len(table) - 1 : Get(i)
  \/ GetNothing
  \/ Free

Spec == Init /\ [][Next]_vars
=============================================================================
