---------------------------- MODULE ServerStartMC ----------------------------
(* TLC instance of ServerStart: both configurations, every bind outcome.    *)
EXTENDS ServerStart
BothConfigs == BOOLEAN
=============================================================================
