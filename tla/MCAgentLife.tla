----------------------------- MODULE MCAgentLife -----------------------------
(***************************************************************************)
(* AgentLife for TLC: two launchers of two releases and three agents, so   *)
(* that one is replaced while the other launcher is still at work, or two  *)
(* first starts make the token together and a third process reads it.      *)
(***************************************************************************)
EXTENDS AgentLife, TLC

Symmetry == Permutations(Launches) \cup Permutations(Agents)

=============================================================================
