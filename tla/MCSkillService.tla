---------------------------- MODULE MCSkillService ----------------------------
(* SkillService with the requests, readers and bounds of the cfg file.     *)
EXTENDS SkillService

Symmetry == Permutations(Request)
=============================================================================
