--------------------------- MODULE MCIslandModel ---------------------------
(* Instances of IslandModel for TLC. *)
EXTENDS IslandModel, TLC

CONSTANTS a, b

MCIslands == {a, b}

(* a sends to b, whose ip file lists no island *)
MCOneWay == (a :> {b}) @@ (b :> {})

(* each lists the other *)
MCBothWays == (a :> {b}) @@ (b :> {a})

MCFitness == 1..2
MCPrinted == [f \in MCFitness |-> 1]
=============================================================================
