----------------------------- MODULE MCGPTrees -----------------------------
(* Instances of GPTrees for TLC. *)
EXTENDS GPTrees, TLC

Parameters(P, min, max, limit, arities) ==
  [parentPopulationSize |-> P, INIT_TREE_DEPTH_MIN |-> min, INIT_TREE_DEPTH_MAX |-> max,
   TREE_DEPTH_MAX |-> limit, arities |-> arities]

MCPrograms ==
  { Parameters(2, 1, 3, 3, {2}),      \* a terminal and a tree of depth 2
    Parameters(2, 2, 4, 3, {2}),      \* depths 2 and 3
    Parameters(1, 2, 3, 2, {1, 2}),   \* with an operation of one argument
    Parameters(3, 1, 3, 2, {1}),      \* three individuals on two depths
    Parameters(2, 2, 5, 3, {2}),      \* more depths than individuals
    Parameters(2, 2, 2, 3, {2}) }     \* no depth
=============================================================================
