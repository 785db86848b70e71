------------------------------ MODULE MCScopes --------------------------------
(* Two names that may stand for anything, three entities besides those of   *)
(* file scope, four levels of scope.                                        *)
EXTENDS Scopes, TLC

CONSTANTS T, v
MCNames == {T, v}
Sym == Permutations(MCNames)
=============================================================================
