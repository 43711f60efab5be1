--------------------------- MODULE MCSessionDemux --------------------------
(* The model-checking instance of SessionDemux: two sessions share a        *)
(* transport and the local agent.                                           *)
EXTENDS SessionDemux
=============================================================================
