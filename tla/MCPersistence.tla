---------------------------- MODULE MCPersistence ----------------------------
(* Persistence with the events, texts and bounds of the cfg file.          *)
EXTENDS Persistence, TLC

Symmetry == Permutations(Event) \cup Permutations(Plain)
=============================================================================
