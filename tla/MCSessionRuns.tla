---------------------------- MODULE MCSessionRuns ----------------------------
(* Instances of SessionRuns for TLC. *)
EXTENDS SessionRuns, TLC

(* Workers and requests differ only in their names. *)
Symmetry == Permutations(Workers) \cup Permutations(Requests)

=============================================================================
