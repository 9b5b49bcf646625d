----------------------------- MODULE MCClients ------------------------------
(* Two sessions and three requests for TLC.                                *)
EXTENDS Clients, TLC

CONSTANTS a, b, none, t1, t2, t3, noTask

(* The sessions are interchangeable: of two that start in different        *)
(* statuses it does not matter which is which.                             *)
AnyPage ==
    /\ Init
    /\ server[a] # "none" \/ server[b] = "none"
    /\ server[a] = "processing" => server[b] # "idle"

FairSpecAnyPage == AnyPage /\ [][Next]_vars /\ WF_vars(Progress)

=============================================================================
