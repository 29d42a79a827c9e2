--------------------------- MODULE MCStreamSocket ---------------------------
(* StreamSocket on small buffers and short streams.                        *)
EXTENDS StreamSocket
=============================================================================
