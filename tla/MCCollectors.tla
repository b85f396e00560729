---------------------------- MODULE MCCollectors ----------------------------
(* Instances of Collectors for TLC: a WebSocket collector and the          *)
(* long/short-ratio poller, with three of its endpoints.                   *)
EXTENDS Collectors

CONSTANTS depth, ls

MCEndpoints == [p \in Pollers |-> 3]
MCInterval == [p \in Pollers |-> 1]
MCRetryAfters == {0, 3}
=============================================================================
