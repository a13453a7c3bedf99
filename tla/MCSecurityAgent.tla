-------------------------- MODULE MCSecurityAgent --------------------------
(* Two files of two places, of which matches overlap or occur twice, and   *)
(* of which one thing at most cannot be done at first.                     *)
EXTENDS SecurityAgent

CONSTANTS f1, f2

BothFiles == {f1, f2}
FileSymmetry == Permutations(BothFiles)
Pairs == {<<"secret", "secret">>, <<"wrapped", "wrapped">>, <<"wrapped", "random">>,
          <<"quoted", "query">>, <<"quoted", "secret">>, <<"random", "query">>, <<>>}
AllButOne == {uses \in Modes : Cardinality(uses) >= 2}
=============================================================================
