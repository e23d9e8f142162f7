--------------------------- MODULE MCAgentRuntime ---------------------------
(* Instances of AgentRuntime for TLC.                                      *)
EXTENDS AgentRuntime, TLC

CONSTANTS j1, j2

\* j1 is claimed first; both have a plan, or only j1 has.
MCRank == j1 :> 1 @@ j2 :> 2
MCRankOne == j1 :> 1

WorkerSymmetry == Permutations(Workers)
=============================================================================
