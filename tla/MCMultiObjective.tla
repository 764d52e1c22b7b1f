-------------------------- MODULE MCMultiObjective --------------------------
(* Instances of MultiObjective for TLC. *)
EXTENDS MultiObjective, TLC

MCValues == 0..1

Program(template, P, O, E, strong, min, always, selection, replacement, nbGen) ==
  [template |-> template, parentPopulationSize |-> P, offspringPopulationSize |-> O,
   ELITE_SIZE |-> E, ELITISM |-> strong, minimizing |-> min, always |-> always,
   selection |-> selection, replacement |-> replacement, nbGen |-> nbGen]

MCLines ==
  { Program("CUDA_MO", 2, 2, 1, TRUE, TRUE, FALSE, "Random", "Deterministic", 1),
    Program("CUDA_MO", 2, 1, 0, FALSE, TRUE, FALSE, "Tournament", "Tournament", 2),
    Program("CUDA_MO", 3, 1, 2, TRUE, TRUE, TRUE, "Deterministic", "Random", 1),
    Program("CUDA_MO", 1, 2, 1, FALSE, FALSE, FALSE, "Random", "Deterministic", 2),
    Program("CUDA_MO", 1, 1, 2, FALSE, TRUE, TRUE, "Random", "Deterministic", 1),
    Program("CUDA_MO", 1, 1, 2, TRUE, TRUE, TRUE, "Random", "Random", 1),
    Program("STD_MO", 2, 1, 1, FALSE, TRUE, TRUE, "Random", "Deterministic", 2),
    Program("STD_MO", 1, 2, 1, FALSE, TRUE, FALSE, "Deterministic", "Random", 2),
    Program("STD_MO", 1, 3, 0, FALSE, FALSE, FALSE, "Deterministic", "Deterministic", 1) }

(* the first ranking of STD_MO *)
MCStdLines ==
  { Program("STD_MO", 3, 1, 0, FALSE, TRUE, TRUE, "Random", "Deterministic", 1) }

(* the elitism of STD_MO, weak, in the direction of its ranks *)
MCEliteLines ==
  { Program("STD_MO", 2, 1, 1, FALSE, TRUE, TRUE, "Random", "Deterministic", 1) }
=============================================================================
