----------------------------- MODULE MCEventLog -----------------------------
(* Two tools, one of which runs code, for TLC.                             *)
EXTENDS EventLog

CONSTANTS run_code, bash

(* Where appends overlap after something has interfered is not explored.   *)
(* A stop, or a session given up, is explored during the first prompt,     *)
(* with a client that shows the log from its beginning and, while the      *)
(* status is still processing, has yet to ask again.                       *)
Stopped == Happened("stop") \/ Happened("stuck")

Bound ==
    /\ overlapped => mishaps = <<>>
    /\ Stopped =>
          /\ prompts = 1 /\ client.oldest = 1 /\ client.at # "opening"
          /\ status = "processing" => client.at = "on"

=============================================================================
