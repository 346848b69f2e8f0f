--------------------------- MODULE MCAgentSession ---------------------------
(* AgentSession with a history kept short.                                  *)
EXTENDS AgentSession
=============================================================================
