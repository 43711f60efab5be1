---------------------------- MODULE MCAgentHost ----------------------------
(* Model-checking instances of AgentHost: see the .cfg files. *)
EXTENDS AgentHost, TLC

Symmetric == Permutations(Session) \cup Permutations(Launch)
=============================================================================
