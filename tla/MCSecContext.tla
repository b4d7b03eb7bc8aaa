---------------------------- MODULE MCSecContext ----------------------------
(***************************************************************************)
(* Model values and instances of SecContext for TLC.                       *)
(***************************************************************************)
EXTENDS SecContext, TLC

CONSTANTS i1, i2, i3, a1, a2, a3

AllRequests == [xrt : BOOLEAN, mutual : BOOLEAN]

Symmetry2 == Permutations({i1, i2}) \cup Permutations({a1, a2})
Symmetry3 == Permutations({i1, i2}) \cup Permutations({a1, a2, a3})
SymmetryChain == Permutations({i1, i2, i3}) \cup Permutations({a1, a2, a3})
=============================================================================
