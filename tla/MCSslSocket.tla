----------------------------- MODULE MCSslSocket -----------------------------
(* SslSocket with few descriptors.                                         *)
EXTENDS SslSocket
==============================================================================
