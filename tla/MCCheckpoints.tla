--------------------------- MODULE MCCheckpoints ---------------------------
(***************************************************************************)
(* A listed file and one that list_files does not show, with two texts.    *)
(***************************************************************************)
EXTENDS Checkpoints, TLC

MCFile   == {1, 2}
MCListed == {1}

CheckpointsSymmetry == Permutations(Text)
=============================================================================
