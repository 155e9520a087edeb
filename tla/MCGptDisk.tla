------------------------------ MODULE MCGptDisk ------------------------------
(* The handles are alike, and so are the contents of an entries array.      *)
EXTENDS GptDisk, TLC

Symmetry == Permutations(Handles) \cup Permutations(Contents)
=============================================================================
