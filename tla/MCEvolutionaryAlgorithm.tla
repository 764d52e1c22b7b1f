---------------------- MODULE MCEvolutionaryAlgorithm ----------------------
(* Instances of EvolutionaryAlgorithm for TLC. *)
EXTENDS EvolutionaryAlgorithm, TLC

Line(P, O, survP, survO, E, strong, min) ==
  [popSize |-> P, nbOffspring |-> O, survivingParents |-> survP,
   survivingOffspring |-> survO, elite |-> E, eliteType |-> strong, minimizing |-> min,
   remoteIslandModel |-> FALSE, startFromFile |-> FALSE, nbGen |-> 3]

(* 100 stands for 100% of the population and 200 for two individuals *)
MCLines ==
  { Line(2, 2, 100, 100, 1, TRUE,  TRUE),
    [Line(3, 2, 67, 100, 1, TRUE, FALSE) EXCEPT !.nbGen = 2],  \* two parents survive
    Line(2, 3,  50, 200, 1, FALSE, TRUE),     \* one parent, two offspring survive
    Line(2, 2, 100,  50, 0, FALSE, FALSE),
    [Line(2, 2, 100, 100, 2, FALSE, TRUE) EXCEPT !.nbGen = 2],
    [Line(2, 1, 100, 100, 1, FALSE, TRUE) EXCEPT !.remoteIslandModel = TRUE],
    [Line(2, 2, 0, 200, 0, TRUE, FALSE) EXCEPT !.startFromFile = TRUE, !.nbGen = 2],
    Line(2, 1,  50,   0, 0, TRUE,  TRUE),     \* refused: the survivors are too few
    Line(3, 2,  33, 300, 2, TRUE,  TRUE),     \* refused: fewer survivors than elite
    Line(2, 1,  50, 100, 3, TRUE,  TRUE) }    \* accepted: 2 - 3 wraps around
MCFitness == 1..3
MCIndividuals == 1..6

(* The sizes that setDefaultParameters lets through and the loop cannot do:  *)
(* two parents of three survive although two elite are taken out first.      *)
MCUnfitLines == { Line(3, 3, 67, 100, 2, TRUE, TRUE), Line(2, 2, 100, 100, 1, TRUE, TRUE) }
=============================================================================
