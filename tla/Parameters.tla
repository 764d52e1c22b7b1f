----------------------------- MODULE Parameters -----------------------------
(***************************************************************************)
(* The size parameters of a run, as ParametersImpl::setDefaultParameters   *)
(* of the generated program derives and validates them                     *)
(* (tpl/STD.tpl, libeasea/Parameters.cpp).                                 *)
(*                                                                         *)
(* The sizes are `unsigned int' in the class Parameters, so that the       *)
(* differences in the validation wrap around.  UintModulus is 2^32 in the  *)
(* program; TLC is given a smaller modulus, larger than every size of the  *)
(* instance.  The real number of --survivingParents is counted in          *)
(* hundredths: 100 stands for 1.0, 250 for 2.5.                            *)
(***************************************************************************)
EXTENDS Integers

CONSTANT UintModulus

ASSUME UintModulusAssumption == UintModulus \in Nat \ {0}

(* a - b on `unsigned int' operands *)
USub(a, b) == (a - b) % UintModulus

(* Parameters::setReductionSizes: below 1.0 the number is a share of the   *)
(* population (truncated), 1.0 is all of it, above 1.0 it is an absolute   *)
(* number of individuals, clamped to the population.                       *)
setReductionSizes(popSize, size) ==
  CASE size < 0                  -> 0
    [] size \in 0..99            -> (size * popSize) \div 100
    [] size = 100                -> popSize
    [] size > 100                -> IF size \div 100 > popSize
                                      THEN popSize ELSE size \div 100

(* What may be typed: the options of the command line (or of the .prm      *)
(* file) that decide the sizes of a run.                                   *)
CommandLine ==
  [popSize : Nat, nbOffspring : Nat, survivingParents : Int, survivingOffspring : Int,
   elite : Nat, eliteType : BOOLEAN, minimizing : BOOLEAN, remoteIslandModel : BOOLEAN,
   startFromFile : BOOLEAN, nbGen : Nat]

(* The fields of Parameters that setDefaultParameters computes from them.  *)
ParametersOf(c) ==
  LET P   == c.popSize
      O   == c.nbOffspring
      pRS == setReductionSizes(P, c.survivingParents)
      oRS == setReductionSizes(O, c.survivingOffspring)
  IN  [parentPopulationSize    |-> P,
       offspringPopulationSize |-> O,
       parentReductionSize     |-> pRS,
       offspringReductionSize  |-> oRS,
       parentReduction         |-> pRS < P,
       offspringReduction      |-> oRS < O,
       elitSize                |-> c.elite,
       strongElitism           |-> c.eliteType,
       minimizing              |-> c.minimizing,
       remoteIslandModel       |-> c.remoteIslandModel,
       startFromFile           |-> c.startFromFile,
       nbGen                   |-> c.nbGen]

(* mutant of Accepted: the survivors need not fill the population *)
AcceptedWithoutSum(p) ==
  /\ USub(p.parentPopulationSize, p.parentReductionSize)
       <= USub(p.parentPopulationSize, p.elitSize)
  /\ ~p.strongElitism =>
       USub(p.offspringPopulationSize, p.offspringReductionSize)
         <= USub(p.offspringPopulationSize, p.elitSize)

(* The three tests of setDefaultParameters; the program exits when one of  *)
(* them finds the sizes wrong.                                             *)
Accepted(p) ==
  /\ p.parentReductionSize + p.offspringReductionSize >= p.parentPopulationSize
  /\ USub(p.parentPopulationSize, p.parentReductionSize)
       <= USub(p.parentPopulationSize, p.elitSize)
  /\ ~p.strongElitism =>
       USub(p.offspringPopulationSize, p.offspringReductionSize)
         <= USub(p.offspringPopulationSize, p.elitSize)

(* What the generation loop needs of the sizes: the elite fits in the      *)
(* population, and a reduction that takes place after the elite has been   *)
(* set aside is never asked for more individuals than are left.            *)
SizesFit(p) ==
  /\ p.parentPopulationSize > 0
  /\ p.offspringPopulationSize > 0
  /\ p.elitSize <= p.parentPopulationSize
  /\ p.parentReduction => p.parentReductionSize + p.elitSize <= p.parentPopulationSize
  /\ p.offspringReduction /\ ~p.strongElitism =>
       p.offspringReductionSize + p.elitSize <= p.offspringPopulationSize
=============================================================================
