--------------------------- MODULE MCPushResultRing ---------------------------
(* PushResultRing for TLC.                                                    *)
EXTENDS PushResultRing
=============================================================================
