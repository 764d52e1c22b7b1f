-------------------------- MODULE MCCudaEvaluation --------------------------
(* Instances of CudaEvaluation for TLC. *)
EXTENDS CudaEvaluation, TLC

(* blocks of at most L threads, P parents and O offspring *)
Machine(fst, lst, mps, L, P, O) ==
  [fstgpu |-> fst, lstgpu |-> lst, multiProcessors |-> mps,
   warpSize |-> 2, maxThreads |-> L, popSize |-> P, nbOffspring |-> O]

MCConfigs ==
  { Machine(0, 0, <<2, 1, 1>>, 3, 6, 7),  \* all three cards, unequal shares
    Machine(0, 0, <<1, 1>>, 3, 4, 3),     \* fewer offspring than parents
    Machine(1, 3, <<4, 1, 2>>, 3, 3, 4),  \* the last two of three cards
    Machine(0, 1, <<1, 1>>, 3, 2, 5),     \* one card, several turns of the launch's loop
    Machine(0, 0, <<1>>, 2, 5, 3),        \* the same, with blocks of whole warps
    Machine(0, 3, <<1, 1>>, 2, 2, 2),     \* refused: there are two cards
    Machine(1, 1, <<1, 1>>, 2, 2, 2),     \* no card at all
    Machine(0, 0, <<1, 1, 1>>, 2, 2, 3) } \* a card without a parent

(* four equal cards and five parents *)
MCSmallPopulation == { Machine(0, 0, <<1, 1, 1, 1>>, 2, 5, 4), Machine(0, 0, <<1, 1>>, 2, 2, 2) }
=============================================================================
