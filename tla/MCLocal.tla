-------------------------------- MODULE MCLocal --------------------------------
EXTENDS LocalStore, TLC
CONSTANTS a, b, l, u1, u2
MCIdOf == (u1 :> a) @@ (u2 :> b)
Symmetry == Permutations(Content)
================================================================================
