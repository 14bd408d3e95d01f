-------------------------- MODULE MCAgentLifecycle --------------------------
(***************************************************************************)
(* AgentLifecycle for TLC.  Which attempt calls which entry point makes no *)
(* difference, so of two attempts the first is never called at the later   *)
(* entry point.  Calls are under no fairness: to leave some of them out is *)
(* to take fewer behaviours, each with the fairness it had.                *)
(***************************************************************************)
EXTENDS AgentLifecycle

CONSTANTS a1, a2

Rank(a) ==
    CASE at[a].entry = "none" -> 0
      [] at[a].entry = "createAgent" -> 1
      [] at[a].entry = "resume" -> 2
      [] at[a].entry = "restore" -> 3

Called(a) == at[a].entry # "none"

InOrder == Called(a1) /\ Called(a2) => Rank(a1) <= Rank(a2)
=============================================================================
