------------------------------ MODULE MCStrTab -------------------------------
(* Instance of StrTab for TLC: five strings, one a prefix of two others, all *)
(* but one with the same hash; capacity 1, 2, 4, 8.                          *)
EXTENDS StrTab

MCBytes == {"a", "NUL"}
MCStrings == {<< >>, <<"a">>, <<"NUL">>, <<"a", "NUL">>, <<"a", "a">>}
MCHash == [s \in MCStrings |-> IF s = <<"NUL">> THEN 7 ELSE 5]
=============================================================================
