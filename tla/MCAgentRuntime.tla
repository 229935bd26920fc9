--------------------------- MODULE MCAgentRuntime ---------------------------
(* The instance of AgentRuntime for TLC. *)
EXTENDS AgentRuntime

\* Every agent needs every server.
RequiresAll == [a \in Agents |-> Tools]
=============================================================================
