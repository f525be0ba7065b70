--------------------------- MODULE MCCredentials ---------------------------
(* Small instances of Credentials for TLC: two requests of one client.       *)
EXTENDS Credentials

CONSTANTS r1, r2
=============================================================================
