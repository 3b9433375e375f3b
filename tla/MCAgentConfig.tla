--------------------------- MODULE MCAgentConfig ---------------------------
(* A small instance of AgentConfig: one book, two API requests. *)
EXTENDS AgentConfig

CONSTANTS b1, r1, r2
============================================================================
