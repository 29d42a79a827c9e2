----------------------------- MODULE MCUdpSocket -----------------------------
(* UdpSocket with few hosts and descriptors.                               *)
EXTENDS UdpSocket

CONSTANT h1
==============================================================================
