------------------------------- MODULE MCVolume -------------------------------
(* Small instance of Volume: all blocks but the root's are interchangeable. *)
EXTENDS Volume, TLC

CONSTANTS b1, b2, b3, b4, b5, b6
MCBlocks == {b1, b2, b3, b4, b5, b6}
BlockSymmetry == Permutations(MCBlocks \ {RootBlock})
=============================================================================
