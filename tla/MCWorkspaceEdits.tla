-------------------------- MODULE MCWorkspaceEdits ---------------------------
(***************************************************************************)
(* Two agents and two files, one of which exists at first.                 *)
(***************************************************************************)
EXTENDS WorkspaceEdits, TLC

CONSTANT There

EditsSymmetry == Permutations(Agent) \cup Permutations(Text)

MCInit == Init /\ disk[There] # Absent
MCSpec == MCInit /\ [][Next]_vars
=============================================================================
