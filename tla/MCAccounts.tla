----------------------------- MODULE MCAccounts -----------------------------
(* Instances of Accounts for TLC. *)
EXTENDS Accounts, TLC

CONSTANTS ann, r1, r2

OneUser == {ann}
TwoRequests == {r1, r2}

(* Nothing tells one request of the server from another. *)
AnyRequest == Permutations(TwoRequests)

=============================================================================
