------------------------------- MODULE MCSwarm -------------------------------
(***************************************************************************)
(* Three threads, three agents: a parent, its subagent and one below that.  *)
(***************************************************************************)
EXTENDS Swarm, TLC

SwarmSymmetry == Permutations(Agent) \cup Permutations(Thread)
=============================================================================
