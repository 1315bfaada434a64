--------------------------- MODULE MCSandboxMerge ---------------------------
(***************************************************************************)
(* File 1 exists and has two regions anybody may edit; file 2 is created   *)
(* by whoever wants to.                                                    *)
(***************************************************************************)
EXTENDS SandboxMerge, TLC

MCFile     == {1, 2}
MCExisting == {1}
MCSymmetry == Permutations(Worker \ Direct) \cup Permutations(Region)
=============================================================================
