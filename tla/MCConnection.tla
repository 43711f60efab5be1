---------------------------- MODULE MCConnection ---------------------------
(* The model-checking instance of Connection. Two transports: the first one *)
(* and its replacement; the properties under fairness admit no symmetry.    *)
EXTENDS Connection
=============================================================================
