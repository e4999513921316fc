----------------------------- MODULE MCRegistry ------------------------------
(* Small instances of Registry for TLC.                                    *)
EXTENDS Registry, TLC

CONSTANTS a, b

MCIds == {a, b}

Symmetry == Permutations(MCIds)

=============================================================================
