---------------------------- MODULE MCContainers ----------------------------
(* Two sessions and two containers for TLC; sessions, containers and slots *)
(* are interchangeable.                                                    *)
EXTENDS Containers, TLC

CONSTANTS s1, s2, c1, c2, r1, r2, none

Interchangeable ==
    Permutations(Sessions) \cup Permutations(ContainerIds) \cup Permutations(Slots)

=============================================================================
