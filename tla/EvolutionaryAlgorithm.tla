----------------------- MODULE EvolutionaryAlgorithm -----------------------
(***************************************************************************)
(* The generation loop of a run: CEvolutionaryAlgorithm::runEvolutionary-  *)
(* Loop with the CPopulation operations it calls (libeasea/CEvolutionary-  *)
(* Algorithm.cpp, libeasea/CPopulation.cpp) and the individual of the      *)
(* generated program (tpl/STD.tpl).                                        *)
(*                                                                         *)
(* Individuals are heap objects named by their address; the arrays of the  *)
(* program hold addresses.  A sequence of the model holds the part of an   *)
(* array that is in use, actualParentPopulationSize being its length, and  *)
(* index k of the program is index k + 1 here.  The body of a loop over    *)
(* individuals that chooses one is an action; pc says where the thread is. *)
(*                                                                         *)
(* The selection operators are any choice of a valid index: their own      *)
(* behaviour is the subject of SelectionOperators.                         *)
(***************************************************************************)
EXTENDS Parameters, Sequences, Functions

CONSTANTS
  Individuals,   \* the addresses `new IndividualImpl' may return
  Fitness,       \* the fitness values a genome may have
  CommandLines,  \* the option settings a run may be started with
  None           \* an uninitialised pointer, number or row

ASSUME FitnessAssumption == Fitness \subseteq Int /\ None \notin Fitness
ASSUME IndividualsAssumption == None \notin Individuals
ASSUME CommandLinesAssumption == CommandLines \subseteq CommandLine

(* a row of the statistics: the columns GEN, EVAL and BEST *)
RowType == [gen : Nat, eval : Nat, best : Fitness]

ASSUME RowAssumption == None \notin RowType

VARIABLES
  params,               \* the Parameters object, fixed at the start
  pc,                   \* where the main thread is
  arrays,               \* the CIndividual** arrays, by name
  heap,                 \* the live individuals: address -> object
  Best,                 \* population->Best
  bBest,                \* the global bBest
  currentGeneration,
  currentEvaluationNb,
  row                   \* the last statistics row: GEN, EVAL, BEST

vars == <<params, pc, arrays, heap, Best, bBest, currentGeneration,
          currentEvaluationNb, row>>

ArrayName == {"parents", "offsprings", "elitPop", "nextGeneration", "globalPopulation"}

-----------------------------------------------------------------------------
(* Individuals *)

Individual == [genome : Fitness, fitness : Fitness \cup {None}, valid : BOOLEAN,
               isImmigrant : BOOLEAN]

(* IndividualImpl(): a random genome, not evaluated *)
NewIndividual(g) == [genome |-> g, fitness |-> None, valid |-> FALSE, isImmigrant |-> FALSE]

(* deserialize: the genome and the fitness that the line carries.  Both have been *)
(* printed with six digits, so that the one need not be the other's any more.     *)
Deserialized(g, f) == [genome |-> g, fitness |-> f, valid |-> TRUE, isImmigrant |-> FALSE]

(* evaluate: the cached fitness of a valid individual is kept *)
Evaluated(x) == IF x.valid THEN x ELSE [x EXCEPT !.fitness = x.genome, !.valid = TRUE]

(* the copy constructor *)
Clone(x) == [x EXCEPT !.isImmigrant = FALSE]

(* crossover: a copy of the first parent whose genome is recombined *)
Crossover(x, g) == [Clone(x) EXCEPT !.genome = g, !.valid = FALSE]

(* mutant of Mutate: the cached fitness survives the mutation *)
MutateKeepsValid(x, g) == [x EXCEPT !.genome = g]

Mutate(x, g) == [x EXCEPT !.genome = g, !.valid = FALSE]

(* What produceOffspringPopulation makes of the selected parent x: crossover or *)
(* a clone, with or without a mutation.                                         *)
Children(x) ==
  LET unmutated == {Clone(x)} \cup {Crossover(x, g) : g \in Fitness}
  IN  unmutated \cup {Mutate(y, g) : y \in unmutated, g \in Fitness}

-----------------------------------------------------------------------------
(* The heap and the arrays *)

Fresh == CHOOSE i \in Individuals \ DOMAIN heap : TRUE

Allocate(x) ==
  /\ Individuals \ DOMAIN heap # {}
  /\ heap' = [i \in DOMAIN heap \cup {Fresh} |-> IF i = Fresh THEN x ELSE heap[i]]

(* delete every individual of the array s *)
Delete(s) == heap' = Restrict(heap, DOMAIN heap \ Range(s))

(* mutant of SwapOut: the last individual is dropped, the chosen one stays *)
SwapOutDropsLast(s, k) == [j \in 1..(Len(s) - 1) |-> s[j]]

(* mutant of SwapOut: the last place becomes NULL but still counts *)
SwapOutKeepsSize(s, k) ==
  [j \in 1..Len(s) |-> IF j = Len(s) THEN None ELSE IF j = k THEN s[Len(s)] ELSE s[j]]

(* population[k] = population[size - 1], the array being one shorter after *)
SwapOut(s, k) == [j \in 1..(Len(s) - 1) |-> IF j = k THEN s[Len(s)] ELSE s[j]]

(* Individual k of the array from moves to the end of the array to *)
Move(from, k, to) ==
  arrays' = [arrays EXCEPT ![from] = SwapOut(@, k),
                           ![to]   = Append(@, arrays[from][k])]

(* mutant of Better: `minimizing' is not looked at *)
BetterIsGreater(f, g) == f > g

Better(f, g) == IF params.minimizing THEN f < g ELSE f > g

Fit(i) == heap[i].fitness

(* mutant of BestIn: the scan stops before the last individual *)
BestInButLast(s, k) ==
  /\ k \in 1..Len(s)
  /\ \A j \in 1..(Len(s) - 1) : ~Better(Fit(s[j]), Fit(s[k]))

(* k is where a scan of s for the best individual ends.  Of equal individuals *)
(* any may come first: the selection operators sort the arrays in place.      *)
BestIn(s, k) ==
  /\ k \in 1..Len(s)
  /\ \A j \in 1..Len(s) : ~Better(Fit(s[j]), Fit(s[k]))

(* the order qsort may leave s in: ascending, whatever `minimizing' is *)
Sorted(s) ==
  {t \in {[k \in 1..Len(s) |-> s[order[k]]] : order \in Bijection(1..Len(s), 1..Len(s))} :
     \A k \in 2..Len(s) : Fit(t[k - 1]) <= Fit(t[k])}

Goto(l) == pc' = l

(* the rest of one iteration reads or frees memory outside of an array *)
Overrun == Goto("overrun") /\ UNCHANGED <<params, arrays, heap, Best, bBest,
                             currentGeneration, currentEvaluationNb, row>>

-----------------------------------------------------------------------------
(* Before the loop *)

Init ==
  \E c \in CommandLines :
    /\ params = ParametersOf(c)
    /\ pc = IF Accepted(params) THEN "initialize" ELSE "exit"
    /\ arrays = [a \in ArrayName |-> <<>>]
    /\ heap = [i \in {} |-> None]
    /\ Best = None /\ bBest = None
    /\ currentGeneration = 0 /\ currentEvaluationNb = 0
    /\ row = None

(* initializeParentPopulation adds the individuals one after the other *)
AddIndividual ==
  /\ pc = "initialize"
  /\ Len(arrays["parents"]) < params.parentPopulationSize
  /\ \E g, f \in Fitness :
       Allocate(IF params.startFromFile THEN Deserialized(g, f) ELSE NewIndividual(g))
  /\ arrays' = [arrays EXCEPT !["parents"] = Append(@, Fresh)]
  /\ UNCHANGED <<params, pc, Best, bBest, currentGeneration, currentEvaluationNb, row>>

(* evaluatePopulation, over the array s *)
EvaluateAll(s) ==
  heap' = [i \in DOMAIN heap |-> IF i \in Range(s) THEN Evaluated(heap[i]) ELSE heap[i]]

EvaluateParents ==
  /\ pc = "initialize"
  /\ Len(arrays["parents"]) = params.parentPopulationSize
  /\ Goto("firstStats")
  /\ EvaluateAll(arrays["parents"])
  /\ currentEvaluationNb' = currentEvaluationNb + params.parentPopulationSize
  /\ UNCHANGED <<params, arrays, Best, bBest, currentGeneration, row>>

(* showPopulationStats on the array s: it finds the best individual and prints a row *)
ShowPopulationStats(s) ==
  \E k \in 1..Len(s) :
    /\ BestIn(s, k)
    /\ Best' = s[k]
    /\ row' = [gen |-> currentGeneration, eval |-> currentEvaluationNb, best |-> Fit(s[k])]

FirstStats ==
  /\ pc = "firstStats"
  /\ Goto("criteria")
  /\ ShowPopulationStats(arrays["parents"])
  /\ bBest' = Best'
  /\ currentGeneration' = currentGeneration + 1
  /\ UNCHANGED <<params, arrays, heap, currentEvaluationNb>>

-----------------------------------------------------------------------------
(* One generation *)

(* allCriteria: the generation limit, or else the user or the time limit *)
StoppingCriterionReached(demanded) == params.nbGen <= currentGeneration \/ demanded

CheckCriteria ==
  /\ pc = "criteria"
  /\ \E demanded \in BOOLEAN :
       Goto(IF StoppingCriterionReached(demanded) THEN "finish" ELSE "produce")
  /\ UNCHANGED <<params, arrays, heap, Best, bBest, currentGeneration,
                 currentEvaluationNb, row>>

(* the body of the loop of produceOffspringPopulation *)
ProduceOffspring ==
  /\ pc = "produce"
  /\ Len(arrays["offsprings"]) < params.offspringPopulationSize
  /\ \E k \in 1..params.parentPopulationSize :
       \E child \in Children(heap[arrays["parents"][k]]) : Allocate(child)
  /\ arrays' = [arrays EXCEPT !["offsprings"] = Append(@, Fresh)]
  /\ UNCHANGED <<params, pc, Best, bBest, currentGeneration, currentEvaluationNb, row>>

EvaluateOffspring ==
  /\ pc = "produce"
  /\ Len(arrays["offsprings"]) = params.offspringPopulationSize
  /\ Goto("elitism")
  /\ EvaluateAll(arrays["offsprings"])
  /\ currentEvaluationNb' = currentEvaluationNb + params.offspringPopulationSize
  /\ UNCHANGED <<params, arrays, Best, bBest, currentGeneration, row>>

ElitismApplies ==
  /\ params.elitSize > 0
  /\ params.parentPopulationSize >= params.elitSize

EliteWanted ==
  /\ pc = "elitism"
  /\ ElitismApplies
  /\ Len(arrays["elitPop"]) < params.elitSize

(* the body of the loop of strongElitism: the best parent joins the elite *)
StrongElitism ==
  /\ EliteWanted
  /\ params.strongElitism
  /\ \E k \in 1..Len(arrays["parents"]) :
       BestIn(arrays["parents"], k) /\ Move("parents", k, "elitPop")
  /\ UNCHANGED <<params, pc, heap, Best, bBest, currentGeneration,
                 currentEvaluationNb, row>>

(* the body of the loop of weakElitism: the best of all joins it, an offspring *)
(* when the best parent is not better                                          *)
WeakElitism ==
  LET par == arrays["parents"]
      off == arrays["offsprings"]
      ParentWins(k) == off = <<>> \/ \A j \in 1..Len(off) : Better(Fit(par[k]), Fit(off[j]))
  IN  /\ EliteWanted
      /\ ~params.strongElitism
      /\ \/ \E k \in 1..Len(par) :
              BestIn(par, k) /\ ParentWins(k) /\ Move("parents", k, "elitPop")
         \/ \E k \in 1..Len(off) :
              /\ BestIn(off, k)
              /\ \A j \in 1..Len(par) : BestIn(par, j) => ~ParentWins(j)
              /\ Move("offsprings", k, "elitPop")
      /\ UNCHANGED <<params, pc, heap, Best, bBest, currentGeneration,
                     currentEvaluationNb, row>>

ElitismDone ==
  /\ pc = "elitism"
  /\ ElitismApplies => Len(arrays["elitPop"]) = params.elitSize
  /\ Goto("reduceParents")
  /\ UNCHANGED <<params, arrays, heap, Best, bBest, currentGeneration,
                 currentEvaluationNb, row>>

(* the body of the loop of reducePopulation(from, ..., nextGeneration, obSize): *)
(* the individual that the operator selects moves to the next generation        *)
ReduceOne(from, obSize) ==
  /\ Len(arrays["nextGeneration"]) < obSize
  /\ IF arrays[from] = <<>>
       THEN Overrun
       ELSE /\ \E k \in 1..Len(arrays[from]) : Move(from, k, "nextGeneration")
            /\ UNCHANGED <<params, pc, heap, Best, bBest, currentGeneration,
                           currentEvaluationNb, row>>

(* how many of the next generation a reduction found there: the elite *)
EliteCopied(from) == IF from = "globalPopulation" THEN params.elitSize ELSE 0

(* the size that the array from had when its reduction began *)
ActualSize(from) ==
  (Len(arrays[from]) + Len(arrays["nextGeneration"])) - EliteCopied(from)

(* mutant of LeftOver: the elite is not counted *)
LeftOverButElite(from, obSize) == ActualSize(from) - obSize

(* the number of individuals that the end of a reduction to obSize frees *)
LeftOver(from, obSize) == (ActualSize(from) + EliteCopied(from)) - obSize

(* mutant of Replace: the array that was filled stays in use *)
ReplaceWithoutReset(from, to, obSize, l) ==
  /\ Goto(l)
  /\ Delete(SubSeq(arrays[from], 1, LeftOver(from, obSize)))
  /\ arrays' = [arrays EXCEPT ![from] = <<>>, ![to] = arrays["nextGeneration"]]
  /\ UNCHANGED <<params, Best, bBest, currentGeneration, currentEvaluationNb, row>>

(* the end of a reduction: the first so many individuals of the array from are *)
(* freed, and the next generation becomes the array to                         *)
Replace(from, to, obSize, l) ==
  /\ Len(arrays["nextGeneration"]) = obSize
  /\ Goto(l)
  /\ Delete(SubSeq(arrays[from], 1, LeftOver(from, obSize)))
  /\ arrays' = [arrays EXCEPT ![from] = <<>>, ![to] = arrays["nextGeneration"],
                              !["nextGeneration"] = <<>>]
  /\ UNCHANGED <<params, Best, bBest, currentGeneration, currentEvaluationNb, row>>

ReduceParentPopulation ==
  /\ pc = "reduceParents"
  /\ \/ /\ params.parentReduction
        /\ \/ ReduceOne("parents", params.parentReductionSize)
           \/ Replace("parents", "parents", params.parentReductionSize, "reduceOffspring")
     \/ /\ ~params.parentReduction
        /\ Goto("reduceOffspring")
        /\ UNCHANGED <<params, arrays, heap, Best, bBest, currentGeneration,
                       currentEvaluationNb, row>>

ReduceOffspringPopulation ==
  /\ pc = "reduceOffspring"
  /\ \/ /\ params.offspringReduction
        /\ \/ ReduceOne("offsprings", params.offspringReductionSize)
           \/ Replace("offsprings", "offsprings", params.offspringReductionSize, "reduceTotal")
     \/ /\ ~params.offspringReduction
        /\ Goto("reduceTotal")
        /\ UNCHANGED <<params, arrays, heap, Best, bBest, currentGeneration,
                       currentEvaluationNb, row>>

(* reduceTotalPopulation: the elite opens the next generation (elitSize pointers *)
(* are copied, whether or not elitism filled them), the rest of it is chosen     *)
(* among the parents and the offspring, and the others are freed.                *)
GatherPopulation ==
  /\ pc = "reduceTotal"
  /\ IF Len(arrays["elitPop"]) < params.elitSize
       THEN Overrun
       ELSE /\ Goto("replace")
            /\ arrays' = [arrays EXCEPT
                            !["nextGeneration"] = arrays["elitPop"],
                            !["elitPop"] = <<>>,
                            !["globalPopulation"] = arrays["parents"] \o arrays["offsprings"],
                            !["parents"] = <<>>,
                            !["offsprings"] = <<>>]
            /\ UNCHANGED <<params, heap, Best, bBest, currentGeneration,
                           currentEvaluationNb, row>>

ReduceTotalPopulation ==
  /\ pc = "replace"
  /\ \/ ReduceOne("globalPopulation", params.parentPopulationSize)
     \/ Replace("globalPopulation", "parents", params.parentPopulationSize, "sort")

(* mutant of SortAndStats: the global bBest keeps pointing to the best of the *)
(* generation before                                                          *)
SortAndStatsStaleBest ==
  /\ pc = "sort"
  /\ Goto("receive")
  /\ \E s \in Sorted(arrays["parents"]) :
       /\ arrays' = [arrays EXCEPT !["parents"] = s]
       /\ ShowPopulationStats(s)
  /\ UNCHANGED <<params, heap, bBest, currentGeneration, currentEvaluationNb>>

SortAndStats ==
  /\ pc = "sort"
  /\ Goto("receive")
  /\ \E s \in Sorted(arrays["parents"]) :
       /\ arrays' = [arrays EXCEPT !["parents"] = s]
       /\ ShowPopulationStats(s)
  /\ bBest' = Best'
  /\ UNCHANGED <<params, heap, currentGeneration, currentEvaluationNb>>

(* mutant of ReceiveIndividual: it does not ask for the island model *)
ReceiveIndividualAlways ==
  /\ pc = "receive"
  /\ \E k \in 1..Len(arrays["parents"]), g, f \in Fitness :
       heap' = [heap EXCEPT ![arrays["parents"][k]] =
                  [Deserialized(g, f) EXCEPT !.isImmigrant = TRUE]]
  /\ UNCHANGED <<params, pc, arrays, Best, bBest, currentGeneration,
                 currentEvaluationNb, row>>

(* the body of the loop of receiveIndividuals: the arriving individual is read *)
(* into the object of the individual it replaces                               *)
ReceiveIndividual ==
  /\ pc = "receive"
  /\ params.remoteIslandModel
  /\ \E k \in 1..Len(arrays["parents"]), g, f \in Fitness :
       heap' = [heap EXCEPT ![arrays["parents"][k]] =
                  [Deserialized(g, f) EXCEPT !.isImmigrant = TRUE]]
  /\ UNCHANGED <<params, pc, arrays, Best, bBest, currentGeneration,
                 currentEvaluationNb, row>>

EndGeneration ==
  /\ pc = "receive"
  /\ Goto("criteria")
  /\ currentGeneration' = currentGeneration + 1
  /\ UNCHANGED <<params, arrays, heap, Best, bBest, currentEvaluationNb, row>>

(* ~CPopulation: `delete pop' at the end of main *)
DeletePopulation ==
  /\ pc = "finish"
  /\ Goto("deleted")
  /\ Delete(arrays["offsprings"] \o arrays["parents"])
  /\ arrays' = [arrays EXCEPT !["offsprings"] = <<>>, !["parents"] = <<>>]
  /\ UNCHANGED <<params, Best, bBest, currentGeneration, currentEvaluationNb, row>>

Ended == pc \in {"exit", "deleted", "overrun"}

Next ==
  \/ AddIndividual \/ EvaluateParents \/ FirstStats
  \/ CheckCriteria
  \/ ProduceOffspring \/ EvaluateOffspring
  \/ StrongElitism \/ WeakElitism \/ ElitismDone
  \/ ReduceParentPopulation \/ ReduceOffspringPopulation
  \/ GatherPopulation \/ ReduceTotalPopulation
  \/ SortAndStats \/ ReceiveIndividual \/ EndGeneration
  \/ DeletePopulation
  \/ Ended /\ UNCHANGED vars

Spec == Init /\ [][Next]_vars

(* The loop is one thread: nothing keeps it from its next step for ever.  An  *)
(* island that keeps receiving is not held to leave its receiving loop.       *)
FairSpec == Spec /\ WF_vars(Next)
-----------------------------------------------------------------------------
(* Properties *)

(* Every variable of the loop has its type; the arrays hold addresses. *)
TypeOK ==
  /\ params \in {ParametersOf(c) : c \in CommandLines}
  /\ pc \in {"initialize", "firstStats", "criteria", "produce", "elitism",
             "reduceParents", "reduceOffspring", "reduceTotal", "replace", "sort",
             "receive", "finish"} \cup {"exit", "deleted", "overrun"}
  /\ arrays \in [ArrayName -> Seq(Individuals)]
  /\ DOMAIN heap \subseteq Individuals
  /\ heap \in [DOMAIN heap -> Individual]
  /\ Best \in Individuals \cup {None}
  /\ bBest \in Individuals \cup {None}
  /\ currentGeneration \in Nat
  /\ currentEvaluationNb \in Nat
  /\ row \in RowType \cup {None}

(* The arrays never share an individual, never hold one twice and never hold a  *)
(* freed one: whatever the two elitisms, the three reductions and the in-place  *)
(* immigration do with pointers, no `delete' of CPopulation frees twice.        *)
OwnedOnce ==
  /\ \A a \in ArrayName : IsInjective(arrays[a]) /\ Range(arrays[a]) \subseteq DOMAIN heap
  /\ \A a, b \in ArrayName : a # b => Range(arrays[a]) \cap Range(arrays[b]) = {}

(* Every live individual is still in an array, so that the next reduction or   *)
(* ~CPopulation frees it: a generation leaks nothing.                          *)
NoLeak == \A i \in DOMAIN heap : \E a \in ArrayName : i \in Range(arrays[a])

(* With sizes that fit, no reduction is asked for more individuals than the   *)
(* elitism and the reductions before it have left.                            *)
NoOverrun == SizesFit(params) => pc # "overrun"

BetweenGenerations == pc \in {"criteria", "receive", "finish"}

(* reduceTotalPopulation gives back exactly parentPopulationSize parents, and  *)
(* nothing is left in the working arrays for the next generation.              *)
PopulationRestored ==
  BetweenGenerations =>
    /\ Len(arrays["parents"]) = params.parentPopulationSize
    /\ \A a \in ArrayName \ {"parents"} : arrays[a] = <<>>

(* The global bBest, that sendIndividual and the user's functions dereference, *)
(* points to a member of the population whenever they can run, although every  *)
(* generation may free the individual it pointed to.                           *)
BestIsAlive ==
  pc \in {"criteria", "produce", "receive", "finish"} =>
    bBest \in Range(arrays["parents"])

(* whether individuals may come from elsewhere, with a fitness of their own *)
Imports == params.startFromFile \/ params.remoteIslandModel

(* Nothing reads a fitness that is not that of the genome: in every comparison *)
(* of elitism, of a selection or of the statistics the individuals are valid,  *)
(* and the fitness of a valid individual is the one of its genome, unless it   *)
(* came with one.                                                              *)
ComparedFitnessIsCurrent ==
  /\ \A i \in DOMAIN heap :
       heap[i].valid => heap[i].fitness \in IF Imports THEN Fitness ELSE {heap[i].genome}
  /\ pc \notin {"initialize", "produce"} => \A i \in DOMAIN heap : heap[i].valid
  /\ pc = "produce" => \A i \in Range(arrays["parents"]) : heap[i].valid

(* Elitism sets the best aside: no parent it leaves to the reductions (weak     *)
(* elitism: no offspring either) is better than a member of the elite.          *)
EliteIsTheBest ==
  \A a \in {"parents"} \cup (IF params.strongElitism THEN {} ELSE {"offsprings"}) :
    \A i \in Range(arrays[a]), e \in Range(arrays["elitPop"]) : ~Better(Fit(i), Fit(e))

(* The statistics of the run are those GenerationReport promises; with elitism *)
(* and no immigration the best fitness never gets worse.                       *)
Report == INSTANCE GenerationReport WITH
            Settings <- {ParametersOf(c) : c \in CommandLines},
            over <- pc \in {"exit", "finish", "deleted", "overrun"}
ImplementsReport == Report!Spec

(* A run without immigration ends: it is refused, or it frees its population   *)
(* after the last generation.                                                  *)
Termination ==
  (SizesFit(params) /\ ~params.remoteIslandModel) ~> (pc \in {"exit", "deleted"})

(* What the tests of setDefaultParameters are meant to exclude: a run that they *)
(* accept reads no memory outside of its arrays.                                *)
AcceptedSizesNeverOverrun == pc # "overrun"
=============================================================================
