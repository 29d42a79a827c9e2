---------------------------- MODULE MCWriteQueue ----------------------------
(* WriteQueue on small instances: few producers, sizes and descriptors.    *)
EXTENDS WriteQueue
=============================================================================
