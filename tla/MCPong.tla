------------------------------- MODULE MCPong -------------------------------
\* Pong with one client in detail and other programs that compete for seats.
EXTENDS Pong

CONSTANTS c1, o1, o2
=============================================================================
