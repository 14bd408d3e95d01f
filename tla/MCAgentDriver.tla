--------------------------- MODULE MCAgentDriver ---------------------------
(***************************************************************************)
(* Instances of AgentDriver for TLC.                                       *)
(***************************************************************************)
EXTENDS AgentDriver, TLC

Interchangeable == Permutations(Messages)

=============================================================================
