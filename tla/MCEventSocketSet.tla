-------------------------- MODULE MCEventSocketSet --------------------------
(* EventSocketSet with small sets of sockets.                              *)
EXTENDS EventSocketSet, TLC

CONSTANTS s1, s2, l1, d1
=============================================================================
