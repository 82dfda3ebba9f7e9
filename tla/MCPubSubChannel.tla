--------------------------- MODULE MCPubSubChannel ---------------------------
(* PubSubChannel with the messages and bounds of the cfg files.            *)
EXTENDS PubSubChannel, TLC

Symmetry == Permutations(Good)
=============================================================================
