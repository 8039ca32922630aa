--------------------------- MODULE MCHeartbeatBot ---------------------------
(***************************************************************************)
(* The bot as deployed, a tick being a minute: five minutes between beats, *)
(* an outage after thirty.                                                 *)
(***************************************************************************)
EXTENDS HeartbeatBot

=============================================================================
