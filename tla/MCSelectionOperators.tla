------------------------ MODULE MCSelectionOperators ------------------------
(* Instances of SelectionOperators for TLC. *)
EXTENDS SelectionOperators, TLC

MCFitness == -1..1
MCPopulations == UNION {[1..n -> MCFitness] : n \in 1..3}

(* every operator, both directions, as selection and as reduction *)
MCCalls ==
  [name : Operators \ {"Tournament"}, minimizing : BOOLEAN, pressure : {100},
   reducing : BOOLEAN, obSize : {3}]
  \cup
  [name : {"Tournament"}, minimizing : BOOLEAN, pressure : {50, 100, 150, 200, 250},
   reducing : BOOLEAN, obSize : {2}]
MCSmallReductions == [name : Operators, minimizing : BOOLEAN, pressure : {250},
   reducing : {TRUE}, obSize : {1}]
MCAllCalls == MCCalls \cup MCSmallReductions

(* a pressure between 0.0 and 1.0, which a reduction makes 0 *)
MCFractionalCalls ==
  [name : {"Tournament"}, minimizing : BOOLEAN, pressure : {50},
   reducing : BOOLEAN, obSize : {1}]
=============================================================================
