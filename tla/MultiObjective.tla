--------------------------- MODULE MultiObjective ---------------------------
(***************************************************************************)
(* The program of the multi-objective templates tpl/STD_MO.tpl and         *)
(* tpl/CUDA_MO.tpl.  Both have their own loop, population and selection    *)
(* operators.  An individual has two objectives, f1 and f2, to be          *)
(* minimised; evaluateMoPopulation ranks the parents and the offspring by  *)
(* them, round after round, and the rank becomes the fitness that the      *)
(* operators compare.  The templates differ in how the ranks are given     *)
(* and in when the objectives are computed.                                *)
(*                                                                         *)
(* As in EvolutionaryAlgorithm, an array is the sequence of the addresses  *)
(* in use, and the body of a loop that chooses an individual is an action. *)
(* The template and what the compiler puts into it are one record, `line'. *)
(***************************************************************************)
EXTENDS Integers, Sequences, FiniteSets, Functions

CONSTANTS
  Address,      \* the addresses `new Individual' may return
  Values,       \* the values an objective may have
  Lines         \* the programs: a template and its parameters

Objectives == Values \X Values

Template == {"STD_MO", "CUDA_MO"}

(* The template and the parameters of the .ez file.  always says that the   *)
(* probability of a crossover is 1.                                         *)
Line ==
  [template : Template, parentPopulationSize : Nat \ {0}, offspringPopulationSize : Nat \ {0},
   ELITE_SIZE : Nat, ELITISM : BOOLEAN, minimizing : BOOLEAN, always : BOOLEAN,
   selection : {"Tournament", "Deterministic", "Random"},
   replacement : {"Tournament", "Deterministic", "Random"}, nbGen : Nat]

ASSUME ValuesAssumption == Values \subseteq Nat /\ Values # {}
ASSUME LinesAssumption == Lines \subseteq Line

VARIABLES
  line,        \* the program, fixed at the start
  pc,          \* where its thread is
  arrays,      \* the Individual** arrays, by name
  heap,        \* the memory of the individuals
  allocated,   \* the addresses of the live ones
  ranking,     \* the array that is being ranked
  left,        \* the indices of ranking that have no rank yet
  rank,        \* the rank of this round
  generation   \* currentGeneration

vars == <<line, pc, arrays, heap, allocated, ranking, left, rank, generation>>

ArrayName == {"parents", "offsprings", "nextGeneration", "globalPopulation"}

Individual == [genome : Objectives, f : Objectives, fitness : Nat, valid : BOOLEAN]

Parents == arrays["parents"]
Offsprings == arrays["offsprings"]

-----------------------------------------------------------------------------
(* Individuals.  A genome is the pair of objectives it evaluates to. *)

Unset == [genome |-> CHOOSE o \in Objectives : TRUE, f |-> CHOOSE o \in Objectives : TRUE,
          fitness |-> 0, valid |-> FALSE]

(* the constructor, and the evaluation that follows it *)
NewIndividual(g) == [Unset EXCEPT !.genome = g, !.f = g, !.valid = TRUE]

(* the copy constructor: it copies valid and fitness, and leaves f1 and f2 as *)
(* the memory was                                                             *)
Clones(x) == {[x EXCEPT !.f = o] : o \in Objectives}

(* crossover, or mutate: another genome, to be evaluated before f is read *)
Recombined(x, g) == [x EXCEPT !.genome = g, !.valid = FALSE]

(* what produceOffspringPopulation makes of a selected parent *)
Children(x) ==
  {Recombined(x, g) : g \in Objectives} \cup (IF line.always THEN {} ELSE Clones(x))

(* mutant of Evaluated: the card skips what is valid, too *)
EvaluatedIfInvalid(x) == IF x.valid THEN x ELSE [x EXCEPT !.f = x.genome, !.valid = TRUE]

(* Individual::evaluate skips a valid individual; the card evaluates them all *)
Evaluated(x) ==
  IF line.template = "STD_MO" /\ x.valid THEN x
                                         ELSE [x EXCEPT !.f = x.genome, !.valid = TRUE]

-----------------------------------------------------------------------------
(* Dominance and ranks *)

(* mutant of Dominates: better in one objective is enough *)
DominatesInOne(p, q) == p[1] < q[1] \/ p[2] < q[2]

(* check_dominance answers 1: nowhere worse, and somewhere better *)
Dominates(p, q) == p[1] <= q[1] /\ p[2] <= q[2] /\ p # q

F(i) == heap[ranking[i]].f

(* the indices for which no dom[i][j] is negative *)
NonDominated == {i \in left : \A j \in left : ~Dominates(F(j), F(i))}

(* the first n indices of those left *)
FirstLeft(n) == {i \in left : Cardinality({j \in left : j < i}) < n}

(* mutant of Front: each index is compared with those before it only *)
FrontComparedBackwards ==
  IF line.template = "CUDA_MO"
    THEN {i \in left : \A j \in left : j < i => ~Dominates(F(j), F(i))}
    ELSE FirstLeft(Cardinality(NonDominated))

(* The individuals that get the rank of this round.  In CUDA_MO they are those *)
(* that nobody left dominates.  In STD_MO, Individual_list_get answers the head *)
(* of the list whatever the index: as many are ranked, from the front of it.   *)
Front ==
  IF line.template = "CUDA_MO" THEN NonDominated
                               ELSE FirstLeft(Cardinality(NonDominated))

-----------------------------------------------------------------------------
(* Arrays and selection *)

Fit(a) == heap[a].fitness

(* population[k] = population[size - 1], the array being one shorter after *)
SwapOut(s, k) == [j \in 1..(Len(s) - 1) |-> IF j = k THEN s[Len(s)] ELSE s[j]]

Move(from, k, to) ==
  arrays' = [arrays EXCEPT ![from] = SwapOut(@, k), ![to] = Append(@, arrays[from][k])]

Better(f, g) == IF line.minimizing THEN f < g ELSE f > g

(* mutant of Arranged: the best comes first, the last one being taken still *)
ArrangedBestFirst(operator, s) ==
  IF operator = "Deterministic"
    THEN {t \in {[k \in DOMAIN s |-> s[order[k]]] : order \in Bijection(DOMAIN s, DOMAIN s)} :
            \A j, k \in DOMAIN s : j < k => ~Better(Fit(t[k]), Fit(t[j]))}
    ELSE {s}

(* initialize: Deterministic sorts the array it is given, the best last *)
Arranged(operator, s) ==
  IF operator = "Deterministic"
    THEN {t \in {[k \in DOMAIN s |-> s[order[k]]] : order \in Bijection(DOMAIN s, DOMAIN s)} :
            \A j, k \in DOMAIN s : j < k => ~Better(Fit(t[j]), Fit(t[k]))}
    ELSE {s}

(* selectNext: any individual may win a tournament or be drawn *)
Selectable(operator, s) == IF operator = "Deterministic" THEN {Len(s)} ELSE DOMAIN s

(* FLT_MAX: more than any rank *)
HighestFitness == Cardinality(Address) + 1

(* getExtremum.  MinRandom answers the lowest number, too. *)
Extremum ==
  IF line.minimizing /\ line.replacement # "Random" THEN HighestFitness
                                                    ELSE -HighestFitness

(* the comparison of elitism, under #if MINIMAXI *)
Beats(f, best) == IF line.minimizing THEN best < f ELSE best > f

(* elitism may end with the index k: it is the first of those that nobody      *)
(* beats, or 1 when nobody beats the extremum                                  *)
Saved(s, k) ==
  IF \E j \in DOMAIN s : Beats(Fit(s[j]), Extremum)
    THEN \A j \in DOMAIN s :
           /\ ~Beats(Fit(s[j]), Fit(s[k]))
           /\ j < k => Fit(s[j]) # Fit(s[k])
    ELSE k = 1

Goto(l) == pc' = l

Delete(S) ==
  /\ allocated' = allocated \ S
  /\ heap' = [a \in Address |-> IF a \in S THEN Unset ELSE heap[a]]

-----------------------------------------------------------------------------
Init ==
  /\ line \in Lines
  /\ pc = "initialize"
  /\ arrays = [n \in ArrayName |-> <<>>]
  /\ heap = [a \in Address |-> Unset]
  /\ allocated = {}
  /\ ranking = <<>> /\ left = {} /\ rank = 1
  /\ generation = 0

Fresh == CHOOSE a \in Address \ allocated : TRUE

(* the n-th turn of a loop that appends what `new Individual' returned *)
Construct(x, to) ==
  /\ Address \ allocated # {}
  /\ allocated' = allocated \cup {Fresh}
  /\ heap' = [heap EXCEPT ![Fresh] = x]
  /\ arrays' = [arrays EXCEPT ![to] = Append(@, Fresh)]

(* initializeParentPopulation, with the evaluation of the parents *)
AddIndividual ==
  /\ pc = "initialize"
  /\ Len(Parents) < line.parentPopulationSize
  /\ \E g \in Objectives : Construct(NewIndividual(g), "parents")
  /\ UNCHANGED <<line, pc, ranking, left, rank, generation>>

(* mutant of Rank: the first rank is 0 *)
RankFromZero ==
  /\ Goto("rank")
  /\ ranking' = Parents \o Offsprings
  /\ left' = 1..(Len(Parents) + Len(Offsprings))
  /\ rank' = 0

(* the list, or vector, that evaluateMoPopulation starts from *)
Rank ==
  /\ Goto("rank")
  /\ ranking' = Parents \o Offsprings
  /\ left' = 1..(Len(Parents) + Len(Offsprings))
  /\ rank' = 1

EvaluateParents ==
  /\ pc = "initialize"
  /\ Len(Parents) = line.parentPopulationSize
  /\ Rank
  /\ UNCHANGED <<line, arrays, heap, allocated, generation>>

(* mutant of RankFront: the individual is ranked and stays in the list *)
RankFrontKeepsList ==
  /\ pc = "rank"
  /\ left # {}
  /\ heap' = [a \in Address |-> IF \E i \in Front : ranking[i] = a
                                  THEN [heap[a] EXCEPT !.fitness = 1] ELSE heap[a]]
  /\ UNCHANGED <<line, pc, arrays, allocated, ranking, left, rank, generation>>

(* the body of the while loop of evaluateMoPopulation *)
RankFront ==
  /\ pc = "rank"
  /\ left # {}
  /\ heap' = [a \in Address |-> IF \E i \in Front : ranking[i] = a
                                  THEN [heap[a] EXCEPT !.fitness = rank] ELSE heap[a]]
  /\ left' = left \ Front
  /\ rank' = rank + 1
  /\ UNCHANGED <<line, pc, arrays, allocated, ranking, generation>>

(* the end of evaluateMoPopulation: it is called before the loop, without *)
(* offspring, and in it                                                   *)
Ranked ==
  /\ pc = "rank"
  /\ left = {}
  /\ Goto(IF Offsprings = <<>> THEN "criteria" ELSE "elitism")
  /\ ranking' = <<>> /\ rank' = 1
  /\ UNCHANGED <<line, arrays, heap, allocated, left, generation>>

(* allCriteria, and the initialize of produceOffspringPopulation *)
CheckCriteria ==
  /\ pc = "criteria"
  /\ \/ /\ line.nbGen <= generation
        /\ Goto("finish")
        /\ UNCHANGED arrays
     \/ /\ line.nbGen > generation
        /\ Goto("produce")
        /\ \E s \in Arranged(line.selection, Parents) : arrays' = [arrays EXCEPT !["parents"] = s]
  /\ UNCHANGED <<line, heap, allocated, ranking, left, rank, generation>>

ProduceOffspring ==
  /\ pc = "produce"
  /\ Len(Offsprings) < line.offspringPopulationSize
  /\ \E k \in Selectable(line.selection, Parents) :
       \E x \in Children(heap[Parents[k]]) : Construct(x, "offsprings")
  /\ UNCHANGED <<line, pc, ranking, left, rank, generation>>

(* the evaluation of the offspring; the ranking begins after it *)
EvaluateOffspring ==
  /\ pc = "produce"
  /\ Len(Offsprings) = line.offspringPopulationSize
  /\ heap' = [a \in Address |-> IF a \in Range(Offsprings) THEN Evaluated(heap[a]) ELSE heap[a]]
  /\ Rank
  /\ UNCHANGED <<line, arrays, allocated, generation>>

(* the body of the loop of elitism *)
SaveElite(from) ==
  /\ Len(arrays["nextGeneration"]) < line.ELITE_SIZE
  /\ Len(arrays["nextGeneration"]) < line.parentPopulationSize
  /\ \E k \in DOMAIN arrays[from] :
       Saved(arrays[from], k) /\ Move(from, k, "nextGeneration")
  /\ UNCHANGED <<line, pc, heap, allocated, ranking, left, rank, generation>>

EliteSaved == Len(arrays["nextGeneration"]) = line.ELITE_SIZE

(* the loop of elitism on the parents, under #if ELITISM==true *)
StrongElitism == pc = "elitism" /\ line.ELITISM /\ SaveElite("parents")

(* reduceTotalPopulation merges the two arrays and initializes the operator *)
Gather ==
  /\ pc = "elitism"
  /\ line.ELITISM => EliteSaved
  /\ Goto("gathered")
  /\ \E s \in Arranged(line.replacement, Parents \o Offsprings) :
       arrays' = [arrays EXCEPT !["globalPopulation"] = s,
                                !["parents"] = <<>>, !["offsprings"] = <<>>]
  /\ UNCHANGED <<line, heap, allocated, ranking, left, rank, generation>>

(* the loop of elitism on all of them, under #if ELITISM==false *)
WeakElitism == pc = "gathered" /\ ~line.ELITISM /\ SaveElite("globalPopulation")

(* where the loop of elitism is: before reduceTotalPopulation merges, or after *)
ElitismPc == IF line.ELITISM THEN "elitism" ELSE "gathered"

(* The loop of an elite larger than the population: nothing compares the two,   *)
(* and the next turn writes behind the array of the next generation.            *)
EliteOverrun ==
  /\ pc = ElitismPc
  /\ Len(arrays["nextGeneration"]) = line.parentPopulationSize
  /\ line.parentPopulationSize < line.ELITE_SIZE
  /\ Goto("wild")
  /\ UNCHANGED <<line, arrays, heap, allocated, ranking, left, rank, generation>>

(* reducePopulation initializes the operator once more *)
InitializeReduction ==
  /\ pc = "gathered"
  /\ EliteSaved
  /\ Goto("reduce")
  /\ \E s \in Arranged(line.replacement, arrays["globalPopulation"]) :
       arrays' = [arrays EXCEPT !["globalPopulation"] = s]
  /\ UNCHANGED <<line, heap, allocated, ranking, left, rank, generation>>

(* the body of the loop of reducePopulation *)
ReduceOne ==
  /\ pc = "reduce"
  /\ Len(arrays["nextGeneration"]) < line.parentPopulationSize
  /\ \E k \in Selectable(line.replacement, arrays["globalPopulation"]) :
       Move("globalPopulation", k, "nextGeneration")
  /\ UNCHANGED <<line, pc, heap, allocated, ranking, left, rank, generation>>

(* mutant of Replace: as many are deleted as there are parents *)
ReplaceDeletesParents ==
  /\ pc = "reduce"
  /\ Len(arrays["nextGeneration"]) = line.parentPopulationSize
  /\ Goto("criteria")
  /\ Delete({arrays["globalPopulation"][k] :
               k \in DOMAIN arrays["globalPopulation"] \cap 1..line.parentPopulationSize})
  /\ arrays' = [arrays EXCEPT !["parents"] = arrays["nextGeneration"],
                              !["nextGeneration"] = <<>>, !["globalPopulation"] = <<>>]
  /\ generation' = generation + 1
  /\ UNCHANGED <<line, ranking, left, rank>>

(* The end of reduceTotalPopulation, and of the generation: it deletes        *)
(* offspringPopulationSize individuals of what is left.                       *)
Replace ==
  /\ pc = "reduce"
  /\ Len(arrays["nextGeneration"]) = line.parentPopulationSize
  /\ Goto("criteria")
  /\ Delete({arrays["globalPopulation"][k] : k \in 1..line.offspringPopulationSize})
  /\ arrays' = [arrays EXCEPT !["parents"] = arrays["nextGeneration"],
                              !["nextGeneration"] = <<>>, !["globalPopulation"] = <<>>]
  /\ generation' = generation + 1
  /\ UNCHANGED <<line, ranking, left, rank>>

(* getRandomIntMax(n) answers n when rand() answers RAND_MAX: a tournament    *)
(* reads behind the individuals it chooses from                               *)
Overdraw ==
  /\ \/ pc = "produce" /\ line.selection = "Tournament"
        /\ Len(Offsprings) < line.offspringPopulationSize
     \/ pc = "reduce" /\ line.replacement = "Tournament"
        /\ Len(arrays["nextGeneration"]) < line.parentPopulationSize
  /\ Goto("wild")
  /\ UNCHANGED <<line, arrays, heap, allocated, ranking, left, rank, generation>>

(* ~Population; the sort before it only serves what is printed *)
DeletePopulation ==
  /\ pc = "finish"
  /\ Goto("done")
  /\ Delete(Range(Offsprings) \cup Range(Parents))
  /\ arrays' = [arrays EXCEPT !["parents"] = <<>>, !["offsprings"] = <<>>]
  /\ UNCHANGED <<line, ranking, left, rank, generation>>

Ended == pc \in {"done", "wild"}

Next ==
  \/ AddIndividual \/ EvaluateParents
  \/ RankFront \/ Ranked
  \/ CheckCriteria
  \/ ProduceOffspring \/ EvaluateOffspring
  \/ StrongElitism \/ Gather \/ WeakElitism \/ EliteOverrun
  \/ InitializeReduction \/ ReduceOne \/ Replace
  \/ Overdraw \/ DeletePopulation
  \/ Ended /\ UNCHANGED vars

Spec == Init /\ [][Next]_vars

(* The program is one thread that nothing blocks. *)
FairSpec == Spec /\ WF_vars(Next)
-----------------------------------------------------------------------------
(* Properties *)

(* Every variable of the program has its type. *)
TypeOK ==
  /\ line \in Lines
  /\ pc \in {"initialize", "rank", "criteria", "produce", "elitism", "gathered", "reduce",
            "finish", "done", "wild"}
  /\ arrays \in [ArrayName -> Seq(Address)]
  /\ heap \in [Address -> Individual]
  /\ allocated \subseteq Address
  /\ ranking \in Seq(Address)
  /\ left \subseteq DOMAIN ranking
  /\ rank \in Nat \ {0}
  /\ generation \in Nat

(* Every live individual is in one array, once, and what an array holds is    *)
(* live: the number that reduceTotalPopulation deletes, which it does not     *)
(* derive from what is left, is right under both kinds of elitism.            *)
OwnedOnce ==
  LET Places == UNION {{n} \X DOMAIN arrays[n] : n \in ArrayName}
  IN  /\ \A p, q \in Places : arrays[p[1]][p[2]] = arrays[q[1]][q[2]] => p = q
      /\ allocated = {arrays[p[1]][p[2]] : p \in Places}

(* the individuals of S that dominate a *)
Dominators(a, S) == {b \in S : Dominates(heap[b].f, heap[a].f)}

(* The ranks of S are those of its Pareto fronts: nobody has a rank as good as *)
(* one who dominates it, and one who is not first is dominated by one of the   *)
(* rank before its own.                                                        *)
ParetoRanked(S) ==
  \A a \in S :
    /\ \A b \in Dominators(a, S) : Fit(b) < Fit(a)
    /\ Fit(a) = 1 \/ \E b \in Dominators(a, S) : Fit(b) = Fit(a) - 1

(* When evaluateMoPopulation of CUDA_MO returns, it has ranked the parents and *)
(* the offspring by Pareto fronts, though it only compares those left over.    *)
RanksArePareto ==
  line.template = "CUDA_MO" /\ pc = "rank" /\ left = {} => ParetoRanked(Range(ranking))

(* In STD_MO the test "i is dominated by j" decides who is called              *)
(* non_dominated_individual and is put on the pareto_front of this round.      *)
StdRanksArePareto ==
  line.template = "STD_MO" /\ pc = "rank" /\ left = {} => ParetoRanked(Range(ranking))

(* What is compared when individuals are ranked are the objectives of their    *)
(* own genome: in CUDA_MO always, in STD_MO if no child is a mere copy.  The   *)
(* copy constructor leaves f1 and f2 unset, but hands on `valid'.              *)
ComparedObjectivesAreCurrent ==
  pc = "rank" /\ (line.template = "CUDA_MO" \/ line.always) =>
    \A i \in left : F(i) = heap[ranking[i]].genome

(* A Deterministic replacement keeps the best ranks: besides the elite, nobody *)
(* is kept while a better one is left to be deleted.                           *)
DeterministicKeepsBestRanks ==
  pc = "reduce" /\ line.replacement = "Deterministic" =>
    \A k \in (line.ELITE_SIZE + 1)..Len(arrays["nextGeneration"]) :
      \A j \in DOMAIN arrays["globalPopulation"] :
        ~Better(Fit(arrays["globalPopulation"][j]), Fit(arrays["nextGeneration"][k]))

(* "Here we save elit individuals to the replacement": nobody whom elitism      *)
(* leaves in its array is better than one it has saved.                         *)
EliteIsTheBest ==
  LET from == IF line.ELITISM THEN "parents" ELSE "globalPopulation"
  IN  pc = ElitismPc =>
        \A b \in Range(arrays["nextGeneration"]), a \in Range(arrays[from]) :
          ~Better(Fit(a), Fit(b))

(* The program ends: every round of the ranking takes somebody from the list,  *)
(* whichever the template, and generations are counted.                        *)
Termination == <>(pc \in {"done", "wild"})
=============================================================================
