---------------------------- MODULE MCRemoteHome ----------------------------
(* Two desktops with binaries of two chunks; one gives up after its attempts, *)
(* the other never.                                                           *)
EXTENDS RemoteHome

CONSTANTS c1, c2

MCClient == {c1, c2}
MCPersistent == {c1}
=============================================================================
