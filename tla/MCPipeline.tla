------------------------------ MODULE MCPipeline ------------------------------
(* Small instances of Pipeline: two or three events of one task, in order. *)
EXTENDS Pipeline, TLC

CONSTANTS j1, j2

InOrder == j1 :> 1 @@ j2 :> 2

SameProcesses ==
  Permutations(Workers) \cup Permutations(Backlogs) \cup Permutations(Finishers)
===============================================================================
