-------------------------- MODULE MCSslEventSocket --------------------------
(* SslEventSocket with small payloads; all its parameters are numbers.     *)
EXTENDS SslEventSocket
=============================================================================
