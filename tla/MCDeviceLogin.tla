--------------------------- MODULE MCDeviceLogin ---------------------------
(* Instances of DeviceLogin for TLC. *)
EXTENDS DeviceLogin

CONSTANTS ann, bob, v1, v2, cli, web

TwoPeople == {ann, bob}
TwoVisits == {v1, v2}
TwoClients == {cli, web}

=============================================================================
