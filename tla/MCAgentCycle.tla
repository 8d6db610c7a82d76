------------------------------ MODULE MCAgentCycle ------------------------------
(* A small instance of AgentCycle: hooks of one conversation are interchangeable. *)
EXTENDS AgentCycle, TLC

SameHooks == Permutations(Hooks)
===============================================================================
