----------------------------- MODULE MCSettings -----------------------------
(* Settings on a small instance; which provider, model, session, handler   *)
(* or slot is which does not matter.                                       *)
EXTENDS Settings, TLC

Symmetry == Permutations(Providers) \cup Permutations(Models) \cup Permutations(Sessions) \cup Permutations(Slots)

=============================================================================
