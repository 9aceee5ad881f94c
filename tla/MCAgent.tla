------------------------------ MODULE MCAgent ------------------------------
(* An instance of Agent for TLC: a client of the global agent and one with a *)
(* logger, hence an agent of its own.                                        *)
EXTENDS Agent, TLC

CONSTANTS shared, logging

MCAgentOption == shared :> "none" @@ logging :> "log"
=============================================================================
