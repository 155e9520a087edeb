----------------------------- MODULE MCGptUpdate -----------------------------
(* Instances of GptUpdate for TLC.                                          *)
EXTENDS GptUpdate, TLC

Symmetry == Permutations(HasBackup) \cup Permutations(Luns \ HasBackup)
=============================================================================
