---------------------------- MODULE MCRateLimit ----------------------------
(***************************************************************************)
(* Finite instance of RateLimit: two messages in three ticks.              *)
(***************************************************************************)
EXTENDS RateLimit, TLC

CONSTANT cursor

MCRate   == cursor :> 2
MCPeriod == cursor :> 3
=============================================================================
