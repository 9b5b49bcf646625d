------------------------------ MODULE MCFiles -------------------------------
(* Two operations at a time for TLC; the slots are interchangeable.        *)
EXTENDS Files, TLC

CONSTANTS r1, r2

Interchangeable == Permutations(Slots)

=============================================================================
