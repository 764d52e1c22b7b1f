-------------------- MODULE EvolutionaryAlgorithm_proofs --------------------
(***************************************************************************)
(* Proofs about the generation loop, for every population size, elite,     *)
(* kind of elitism and reduction.                                          *)
(***************************************************************************)
EXTENDS EvolutionaryAlgorithm, ArrayTheorems

-----------------------------------------------------------------------------
(* The sizes *)

(* A reduction size never exceeds the population it is a part of. *)
LEMMA ReductionSizeInRange ==
  ASSUME NEW popSize \in Nat, NEW size \in Int
  PROVE  setReductionSizes(popSize, size) \in 0..popSize
<1>1. CASE size < 0
  BY <1>1 DEF setReductionSizes
<1>2. CASE size \in 0..99
  <2> DEFINE share == (size * popSize) \div 100
  <2>1. 0 <= size * popSize /\ size * popSize <= 100 * popSize /\ size * popSize \in Int
    BY <1>2
  <2>2. \A x \in Int : 0 <= x /\ x <= 100 * popSize => (x \div 100) \in 0..popSize
    OBVIOUS
  <2>3. share \in 0..popSize
    BY <2>1, <2>2
  <2>. QED
    BY <1>2, <2>3 DEF setReductionSizes
<1>3. CASE size = 100
  BY <1>3 DEF setReductionSizes
<1>4. CASE size > 100
  BY <1>4 DEF setReductionSizes
<1>. QED
  BY <1>1, <1>2, <1>3, <1>4

(* What the parameters of a run are, whatever command line they come from. *)
ParametersType(p) ==
  /\ p.parentPopulationSize \in Nat
  /\ p.offspringPopulationSize \in Nat
  /\ p.parentReductionSize \in 0..p.parentPopulationSize
  /\ p.offspringReductionSize \in 0..p.offspringPopulationSize
  /\ p.parentReduction = (p.parentReductionSize < p.parentPopulationSize)
  /\ p.offspringReduction = (p.offspringReductionSize < p.offspringPopulationSize)
  /\ p.elitSize \in Nat
  /\ p.strongElitism \in BOOLEAN
  /\ p.minimizing \in BOOLEAN
  /\ p.remoteIslandModel \in BOOLEAN
  /\ p.startFromFile \in BOOLEAN
  /\ p.nbGen \in Nat

LEMMA ParametersTyped ==
  ASSUME NEW c \in CommandLines
  PROVE  ParametersType(ParametersOf(c))
<1>1. c \in CommandLine
  BY CommandLinesAssumption
<1>2. /\ setReductionSizes(c.popSize, c.survivingParents) \in 0..c.popSize
      /\ setReductionSizes(c.nbOffspring, c.survivingOffspring) \in 0..c.nbOffspring
  BY <1>1, ReductionSizeInRange DEF CommandLine
<1>. QED
  BY <1>1, <1>2 DEF ParametersType, ParametersOf, CommandLine

-----------------------------------------------------------------------------
(* The inductive invariant *)

(* how many individuals elitism sets aside *)
EliteCount == IF ElitismApplies THEN params.elitSize ELSE 0

(* How many individuals each array holds, wherever the thread is.  Elitism    *)
(* takes EliteCount individuals out of the two populations; a reduction only  *)
(* moves them; Accepted makes up for what the reductions leave behind.        *)

Size(a) == Len(arrays[a])

NothingChosen == Size("nextGeneration") = 0 /\ Size("globalPopulation") = 0

InitializeLengths ==
  /\ Size("parents") <= params.parentPopulationSize
  /\ Size("offsprings") = 0 /\ Size("elitPop") = 0 /\ NothingChosen

RestLengths ==
  /\ Size("parents") = params.parentPopulationSize
  /\ Size("offsprings") = 0 /\ Size("elitPop") = 0 /\ NothingChosen

ProduceLengths ==
  /\ Size("parents") = params.parentPopulationSize
  /\ Size("offsprings") <= params.offspringPopulationSize
  /\ Size("elitPop") = 0 /\ NothingChosen

ElitismLengths ==
  /\ NothingChosen
  /\ Size("elitPop") <= EliteCount
  /\ Size("parents") <= params.parentPopulationSize
  /\ Size("offsprings") <= params.offspringPopulationSize
  /\ Size("parents") + Size("offsprings") + Size("elitPop")
       = params.parentPopulationSize + params.offspringPopulationSize
  /\ params.strongElitism => Size("offsprings") = params.offspringPopulationSize

ReduceParentsLengths ==
  /\ Size("globalPopulation") = 0
  /\ Size("elitPop") = EliteCount
  /\ Size("parents") + Size("nextGeneration") <= params.parentPopulationSize
  /\ Size("offsprings") <= params.offspringPopulationSize
  /\ Size("parents") + Size("nextGeneration") + Size("offsprings") + EliteCount
       = params.parentPopulationSize + params.offspringPopulationSize
  /\ params.strongElitism => Size("offsprings") = params.offspringPopulationSize
  /\ ~params.parentReduction => Size("nextGeneration") = 0

ReduceOffspringLengths ==
  /\ Size("globalPopulation") = 0
  /\ Size("elitPop") = EliteCount
  /\ Size("offsprings") + Size("nextGeneration") <= params.offspringPopulationSize
  /\ Size("offsprings") + Size("nextGeneration") + EliteCount
       >= params.offspringPopulationSize
  /\ params.strongElitism =>
       Size("offsprings") + Size("nextGeneration") = params.offspringPopulationSize
  /\ params.parentReduction => Size("parents") = params.parentReductionSize
  /\ ~params.parentReduction =>
       Size("parents") + EliteCount >= params.parentPopulationSize
  /\ ~params.offspringReduction => Size("nextGeneration") = 0

ReduceTotalLengths ==
  /\ NothingChosen
  /\ Size("elitPop") = EliteCount
  /\ Size("parents") + Size("offsprings") + EliteCount >= params.parentPopulationSize

ReplaceLengths ==
  /\ Size("parents") = 0 /\ Size("offsprings") = 0 /\ Size("elitPop") = 0
  /\ Size("nextGeneration") + Size("globalPopulation") >= params.parentPopulationSize

Lengths ==
  /\ pc = "initialize" => InitializeLengths
  /\ pc \in {"firstStats", "criteria", "sort", "receive", "finish"} => RestLengths
  /\ pc = "produce" => ProduceLengths
  /\ pc = "elitism" => ElitismLengths
  /\ pc = "reduceParents" => ReduceParentsLengths
  /\ pc = "reduceOffspring" => ReduceOffspringLengths
  /\ pc = "reduceTotal" => ReduceTotalLengths
  /\ pc = "replace" => ReplaceLengths

(* a run that is not refused has passed the tests of setDefaultParameters *)
Started == pc # "exit" => Accepted(params)

Inv ==
  /\ TypeOK
  /\ OwnedBy(ArrayName, arrays, DOMAIN heap)
  /\ Lengths
  /\ Started
  /\ NoOverrun
  /\ ComparedFitnessIsCurrent
  /\ BestIsAlive

-----------------------------------------------------------------------------
(* What the operations on the arrays do to the ownership of the individuals *)

(* Ownership depends on the sets of addresses only. *)
LEMMA OwnedByRange ==
  ASSUME NEW A, NEW B, NEW D, OwnedBy(ArrayName, A, D),
         \A a \in ArrayName : IsInjective(B[a]) /\ Range(B[a]) = Range(A[a])
  PROVE  OwnedBy(ArrayName, B, D)
  BY DEF OwnedBy

(* A reduction frees what is left of an array, and the survivors move into an *)
(* array that is, or becomes, empty.                                          *)
LEMMA ReplaceOwned ==
  ASSUME arrays \in [ArrayName -> Seq(Individuals)], NEW D, OwnedBy(ArrayName, arrays, D),
         NEW from \in ArrayName, NEW to \in ArrayName,
         from # "nextGeneration", to # "nextGeneration",
         from = to \/ arrays[to] = <<>>,
         arrays' = [arrays EXCEPT ![from] = <<>>, ![to] = arrays["nextGeneration"],
                       !["nextGeneration"] = <<>>]
  PROVE  /\ arrays' \in [ArrayName -> Seq(Individuals)]
         /\ OwnedBy(ArrayName, arrays', D \ Range(arrays[from]))
         /\ arrays'[to] = arrays["nextGeneration"]
         /\ arrays'["nextGeneration"] = <<>>
         /\ from # to => arrays'[from] = <<>>
         /\ \A a \in ArrayName \ {from, to, "nextGeneration"} : arrays'[a] = arrays[a]
<1>1. /\ arrays'[to] = arrays["nextGeneration"]
      /\ arrays'["nextGeneration"] = <<>>
      /\ from # to => arrays'[from] = <<>>
      /\ \A a \in ArrayName \ {from, to, "nextGeneration"} : arrays'[a] = arrays[a]
  BY DEF ArrayName
<1>2. arrays' \in [ArrayName -> Seq(Individuals)]
  BY DEF ArrayName
<1>3. "nextGeneration" \in ArrayName
  BY DEF ArrayName
<1>4. OwnedBy(ArrayName, arrays', D \ Range(arrays[from]))
  BY <1>1, <1>3, EmptyRange DEF OwnedBy
<1>. QED
  BY <1>1, <1>2, <1>4

(* reduceTotalPopulation gathers the two populations into one array. *)
LEMMA GatherOwned ==
  ASSUME arrays \in [ArrayName -> Seq(Individuals)], NEW D, OwnedBy(ArrayName, arrays, D),
         arrays["nextGeneration"] = <<>>, arrays["globalPopulation"] = <<>>,
         arrays' = [arrays EXCEPT !["nextGeneration"] = arrays["elitPop"],
                       !["elitPop"] = <<>>,
                       !["globalPopulation"] = arrays["parents"] \o arrays["offsprings"],
                       !["parents"] = <<>>,
                       !["offsprings"] = <<>>]
  PROVE  /\ arrays' \in [ArrayName -> Seq(Individuals)]
         /\ OwnedBy(ArrayName, arrays', D)
         /\ arrays'["parents"] = <<>> /\ arrays'["offsprings"] = <<>> /\ arrays'["elitPop"] = <<>>
         /\ arrays'["nextGeneration"] = arrays["elitPop"]
         /\ Len(arrays'["globalPopulation"]) = Len(arrays["parents"]) + Len(arrays["offsprings"])
<1> DEFINE u == arrays["parents"] \o arrays["offsprings"]
<1>1. /\ arrays["parents"] \in Seq(Individuals) /\ arrays["offsprings"] \in Seq(Individuals)
      /\ IsInjective(arrays["parents"]) /\ IsInjective(arrays["offsprings"])
      /\ Range(arrays["parents"]) \cap Range(arrays["offsprings"]) = {}
  BY DEF OwnedBy, ArrayName
<1>2. /\ u \in Seq(Individuals)
      /\ Len(u) = Len(arrays["parents"]) + Len(arrays["offsprings"])
      /\ Range(u) = Range(arrays["parents"]) \cup Range(arrays["offsprings"])
      /\ IsInjective(u)
  <2>1. ASSUME NEW s \in Seq(Individuals), NEW t \in Seq(Individuals),
               IsInjective(s), IsInjective(t), Range(s) \cap Range(t) = {}
        PROVE  /\ s \o t \in Seq(Individuals)
               /\ Len(s \o t) = Len(s) + Len(t)
               /\ Range(s \o t) = Range(s) \cup Range(t)
               /\ IsInjective(s \o t)
    BY <2>1, ConcatRange
  <2>. QED
    BY <1>1, <2>1
<1>3. /\ arrays'["parents"] = <<>> /\ arrays'["offsprings"] = <<>> /\ arrays'["elitPop"] = <<>>
      /\ arrays'["nextGeneration"] = arrays["elitPop"]
      /\ arrays'["globalPopulation"] = u
  BY DEF ArrayName
<1>4. arrays' \in [ArrayName -> Seq(Individuals)]
  <2>1. arrays["elitPop"] \in Seq(Individuals) /\ <<>> \in Seq(Individuals)
    BY EmptyRange DEF ArrayName
  <2>2. arrays["parents"] \o arrays["offsprings"] \in Seq(Individuals)
    BY <1>2
  <2>. QED
    BY <2>1, <2>2
<1> HIDE DEF u
<1>5. \A a \in ArrayName :
        \/ a \in {"parents", "offsprings", "elitPop"}
        \/ a = "nextGeneration" \/ a = "globalPopulation"
  BY DEF ArrayName
<1>6. /\ Range(arrays'["parents"]) = {} /\ Range(arrays'["offsprings"]) = {} /\ Range(arrays'["elitPop"]) = {}
      /\ Range(arrays'["nextGeneration"]) = Range(arrays["elitPop"])
      /\ Range(arrays'["globalPopulation"]) = Range(arrays["parents"]) \cup Range(arrays["offsprings"])
      /\ Range(arrays["nextGeneration"]) = {} /\ Range(arrays["globalPopulation"]) = {}
  BY <1>2, <1>3, EmptyRange
<1>7. \A a \in ArrayName : IsInjective(arrays'[a]) /\ Range(arrays'[a]) \subseteq D
  BY <1>2, <1>3, <1>5, <1>6, EmptyRange DEF OwnedBy, ArrayName
<1>8. \A a, b \in ArrayName : a # b => Range(arrays'[a]) \cap Range(arrays'[b]) = {}
  <2>1. Range(arrays'["nextGeneration"]) \cap Range(arrays'["globalPopulation"]) = {}
    BY <1>6 DEF OwnedBy, ArrayName
  <2>. QED
    BY <1>5, <1>6, <2>1
<1>9. \A i \in D : \E a \in ArrayName : i \in Range(arrays'[a])
  <2> TAKE i \in D
  <2>1. PICK a \in ArrayName : i \in Range(arrays[a])
    BY DEF OwnedBy
  <2>2. CASE a \in {"parents", "offsprings"}
    <3>1. i \in Range(arrays'["globalPopulation"]) /\ "globalPopulation" \in ArrayName
      BY <1>6, <2>1, <2>2 DEF ArrayName
    <3>. QED
      BY <3>1
  <2>3. CASE a = "elitPop"
    <3>1. i \in Range(arrays'["nextGeneration"]) /\ "nextGeneration" \in ArrayName
      BY <1>6, <2>1, <2>3 DEF ArrayName
    <3>. QED
      BY <3>1
  <2>. QED
    BY <1>5, <1>6, <2>1, <2>2, <2>3
<1>10. OwnedBy(ArrayName, arrays', D)
  BY <1>7, <1>8, <1>9 DEF OwnedBy
<1>. QED
  BY <1>2, <1>3, <1>4, <1>10

(* ~CPopulation frees the individuals of two arrays. *)
LEMMA ClearOwned ==
  ASSUME arrays \in [ArrayName -> Seq(Individuals)], NEW D, OwnedBy(ArrayName, arrays, D),
         arrays' = [arrays EXCEPT !["offsprings"] = <<>>, !["parents"] = <<>>]
  PROVE  /\ arrays' \in [ArrayName -> Seq(Individuals)]
         /\ OwnedBy(ArrayName, arrays', D \ Range(arrays["offsprings"] \o arrays["parents"]))
<1>1. /\ arrays'["parents"] = <<>> /\ arrays'["offsprings"] = <<>>
      /\ \A a \in ArrayName \ {"parents", "offsprings"} : arrays'[a] = arrays[a]
  BY DEF ArrayName
<1>2. arrays' \in [ArrayName -> Seq(Individuals)]
  BY EmptyRange
<1>3. Range(arrays["offsprings"] \o arrays["parents"]) = Range(arrays["offsprings"]) \cup Range(arrays["parents"])
  BY ConcatRange DEF ArrayName
<1>4. /\ "parents" \in ArrayName /\ "offsprings" \in ArrayName
      /\ Range(arrays'["parents"]) = {} /\ Range(arrays'["offsprings"]) = {}
      /\ IsInjective(arrays'["parents"]) /\ IsInjective(arrays'["offsprings"])
  BY <1>1, EmptyRange DEF ArrayName
<1>5. OwnedBy(ArrayName, arrays', D \ Range(arrays["offsprings"] \o arrays["parents"]))
  BY <1>1, <1>3, <1>4 DEF OwnedBy
<1>. QED
  BY <1>2, <1>5

-----------------------------------------------------------------------------
(* The individuals and the heap *)

HeapTyped(h) == DOMAIN h \subseteq Individuals /\ h \in [DOMAIN h -> Individual]

(* a valid individual has the fitness of its genome, where none are imported *)
Current(x) == x.valid => x.fitness \in IF Imports THEN Fitness ELSE {x.genome}

(* Every way to make an individual gives one whose cached fitness, if any, is *)
(* that of its genome.                                                        *)
LEMMA NewIndividualCurrent ==
  ASSUME NEW g \in Fitness, NEW f \in Fitness
  PROVE  /\ NewIndividual(g) \in Individual /\ Current(NewIndividual(g))
         /\ Deserialized(g, f) \in Individual /\ (Imports => Current(Deserialized(g, f)))
         /\ [Deserialized(g, f) EXCEPT !.isImmigrant = TRUE] \in Individual
         /\ Imports => Current([Deserialized(g, f) EXCEPT !.isImmigrant = TRUE])
         /\ [Deserialized(g, f) EXCEPT !.isImmigrant = TRUE].valid
  BY DEF NewIndividual, Deserialized, Individual, Current

LEMMA EvaluatedCurrent ==
  ASSUME NEW x \in Individual, Current(x)
  PROVE  /\ Evaluated(x) \in Individual /\ Current(Evaluated(x))
         /\ Evaluated(x).valid
  BY DEF Evaluated, Individual, Current

LEMMA ChildrenCurrent ==
  ASSUME NEW x \in Individual, Current(x), NEW y \in Children(x)
  PROVE  y \in Individual /\ Current(y)
<1>1. Clone(x) \in Individual /\ Current(Clone(x))
  BY DEF Clone, Individual, Current
<1>2. \A g \in Fitness : Crossover(x, g) \in Individual /\ Current(Crossover(x, g))
  BY <1>1 DEF Crossover, Individual, Current
<1>3. \A z \in Individual, g \in Fitness : Mutate(z, g) \in Individual /\ Current(Mutate(z, g))
  BY DEF Mutate, Individual, Current
<1>. QED
  BY <1>1, <1>2, <1>3 DEF Children

LEMMA AllocateHeap ==
  ASSUME HeapTyped(heap), NEW x \in Individual, Allocate(x)
  PROVE  /\ Fresh \in Individuals /\ Fresh \notin DOMAIN heap
         /\ DOMAIN heap' = DOMAIN heap \cup {Fresh}
         /\ HeapTyped(heap')
         /\ heap'[Fresh] = x
         /\ \A i \in DOMAIN heap : heap'[i] = heap[i]
<1>1. Fresh \in Individuals \ DOMAIN heap
  BY DEF Fresh, Allocate
<1>. QED
  BY <1>1 DEF Allocate, HeapTyped

LEMMA DeleteHeap ==
  ASSUME HeapTyped(heap), NEW s, Delete(s)
  PROVE  /\ DOMAIN heap' = DOMAIN heap \ Range(s)
         /\ HeapTyped(heap')
         /\ \A i \in DOMAIN heap' : heap'[i] = heap[i]
  BY DEF Delete, Restrict, HeapTyped

LEMMA EvaluateAllHeap ==
  ASSUME HeapTyped(heap), \A i \in DOMAIN heap : Current(heap[i]),
         NEW s, EvaluateAll(s)
  PROVE  /\ DOMAIN heap' = DOMAIN heap
         /\ HeapTyped(heap')
         /\ \A i \in DOMAIN heap : Current(heap'[i])
         /\ \A i \in DOMAIN heap : (i \in Range(s) => heap'[i].valid)
                                    /\ (heap[i].valid => heap'[i].valid)
<1>1. DOMAIN heap' = DOMAIN heap
  BY DEF EvaluateAll
<1>2. \A i \in DOMAIN heap : heap'[i] = IF i \in Range(s) THEN Evaluated(heap[i]) ELSE heap[i]
  BY DEF EvaluateAll
<1>3. \A i \in DOMAIN heap : heap[i] \in Individual
  BY DEF HeapTyped
<1>4. \A i \in DOMAIN heap :
        heap'[i] \in Individual /\ Current(heap'[i])
        /\ (i \in Range(s) => heap'[i].valid) /\ (heap[i].valid => heap'[i].valid)
  BY <1>2, <1>3, EvaluatedCurrent
<1>5. heap' \in [DOMAIN heap -> Individual]
  BY <1>4 DEF EvaluateAll
<1>. QED
  BY <1>1, <1>4, <1>5 DEF HeapTyped

-----------------------------------------------------------------------------
(* What the invariant says of a state, in the form the steps use *)

LEMMA InvFacts ==
  ASSUME Inv
  PROVE  /\ ParametersType(params)
         /\ arrays \in [ArrayName -> Seq(Individuals)]
         /\ \A a \in ArrayName :
              Len(arrays[a]) \in Nat /\ (Len(arrays[a]) = 0 <=> arrays[a] = <<>>)
         /\ OwnedBy(ArrayName, arrays, DOMAIN heap)
         /\ HeapTyped(heap)
         /\ \A i \in DOMAIN heap : Current(heap[i])
         /\ EliteCount \in 0..params.parentPopulationSize
         /\ EliteCount <= params.elitSize
<1>1. ParametersType(params)
  BY ParametersTyped DEF Inv, TypeOK
<1>2. arrays \in [ArrayName -> Seq(Individuals)]
  BY DEF Inv, TypeOK
<1>3. \A a \in ArrayName :
        Len(arrays[a]) \in Nat /\ (Len(arrays[a]) = 0 <=> arrays[a] = <<>>)
  BY <1>2, ZeroLength
<1>4. EliteCount \in 0..params.parentPopulationSize /\ EliteCount <= params.elitSize
  BY <1>1 DEF EliteCount, ElitismApplies, ParametersType
<1>. QED
  BY <1>1, <1>2, <1>3, <1>4
     DEF Inv, TypeOK, HeapTyped, Current, ComparedFitnessIsCurrent

(* The sizes are natural numbers: what the arithmetic of Lengths needs. *)
LEMMA SizesTyped ==
  ASSUME Inv
  PROVE  /\ Size("parents") \in Nat
         /\ Size("offsprings") \in Nat
         /\ Size("elitPop") \in Nat
         /\ Size("nextGeneration") \in Nat
         /\ Size("globalPopulation") \in Nat
         /\ params.parentPopulationSize \in Nat
         /\ params.offspringPopulationSize \in Nat
         /\ params.parentReductionSize \in 0..params.parentPopulationSize
         /\ params.offspringReductionSize \in 0..params.offspringPopulationSize
         /\ params.elitSize \in Nat
         /\ EliteCount \in 0..params.parentPopulationSize
         /\ EliteCount <= params.elitSize
  BY InvFacts DEF ArrayName, ParametersType, Size

Labels == {"initialize", "firstStats", "criteria", "produce", "elitism",
           "reduceParents", "reduceOffspring", "reduceTotal", "replace", "sort",
           "receive", "finish"} \cup {"exit", "deleted", "overrun"}

(* A step of a started run keeps the invariant when it keeps these parts of it. *)
LEMMA InvPreserved ==
  ASSUME Inv, pc # "exit", params' = params, pc' \in Labels,
         arrays' \in [ArrayName -> Seq(Individuals)], HeapTyped(heap'),
         Best' \in Individuals \cup {None}, bBest' \in Individuals \cup {None},
         currentGeneration' \in Nat, currentEvaluationNb' \in Nat,
         row' \in RowType \cup {None},
         OwnedBy(ArrayName, arrays', DOMAIN heap'), Lengths',
         pc' = "overrun" => ~SizesFit(params),
         ComparedFitnessIsCurrent', BestIsAlive'
  PROVE  Inv'
<1>1. TypeOK'
  BY DEF Inv, TypeOK, HeapTyped, Labels
<1>2. Started' /\ NoOverrun'
  BY DEF Inv, Started, NoOverrun, Accepted, SizesFit
<1>. QED
  BY <1>1, <1>2 DEF Inv

-----------------------------------------------------------------------------
(* Each step keeps the invariant *)

LEMMA AddIndividualInv ==
  ASSUME Inv, AddIndividual
  PROVE  Inv'
<1>1. pc = "initialize" /\ pc' = pc /\ params' = params
  BY DEF AddIndividual
<1>2. PICK x \in Individual : Allocate(x) /\ Current(x)
  BY NewIndividualCurrent DEF AddIndividual, Imports
<1>3. /\ Fresh \in Individuals /\ Fresh \notin DOMAIN heap
      /\ DOMAIN heap' = DOMAIN heap \cup {Fresh}
      /\ HeapTyped(heap')
      /\ heap'[Fresh] = x
      /\ \A i \in DOMAIN heap : heap'[i] = heap[i]
  BY <1>2, AllocateHeap, InvFacts
<1>4. /\ arrays' \in [ArrayName -> Seq(Individuals)]
      /\ OwnedBy(ArrayName, arrays', DOMAIN heap')
      /\ Len(arrays'["parents"]) = Len(arrays["parents"]) + 1
      /\ \A a \in ArrayName \ {"parents"} : arrays'[a] = arrays[a]
  <2>1. arrays' = Added(arrays, "parents", Fresh)
    BY DEF AddIndividual, Added
  <2>2. "parents" \in ArrayName
    BY DEF ArrayName
  <2>3. arrays \in [ArrayName -> Seq(Individuals)] /\ OwnedBy(ArrayName, arrays, DOMAIN heap)
    BY InvFacts
  <2>4. OwnedBy(ArrayName, arrays', DOMAIN heap \cup {Fresh})
    BY <1>3, <2>1, <2>2, <2>3, AppendOwned
  <2>. QED
    BY <1>3, <2>1, <2>2, <2>3, <2>4, AppendOwned
<1>5. Lengths'
  <2>1. InitializeLengths
    BY <1>1 DEF Inv, Lengths
  <2>2. InitializeLengths'
    BY <1>1, <1>4, <2>1, InvFacts
       DEF InitializeLengths, NothingChosen, Size, AddIndividual, ArrayName, ParametersType
  <2>. QED
    BY <1>1, <2>2 DEF Lengths
<1>6. ComparedFitnessIsCurrent'
  BY <1>1, <1>2, <1>3, InvFacts DEF ComparedFitnessIsCurrent, Current, Imports
<1>7. BestIsAlive'
  BY <1>1 DEF BestIsAlive
<1>. QED
  BY <1>1, <1>3, <1>4, <1>5, <1>6, <1>7, InvPreserved
     DEF AddIndividual, Inv, TypeOK, Labels

LEMMA EvaluateParentsInv ==
  ASSUME Inv, EvaluateParents
  PROVE  Inv'
<1>1. pc = "initialize" /\ pc' = "firstStats" /\ params' = params /\ arrays' = arrays
  BY DEF EvaluateParents, Goto
<1>2. /\ DOMAIN heap' = DOMAIN heap
      /\ HeapTyped(heap')
      /\ \A i \in DOMAIN heap : Current(heap'[i])
      /\ \A i \in DOMAIN heap : (i \in Range(arrays["parents"]) => heap'[i].valid)
  BY EvaluateAllHeap, InvFacts DEF EvaluateParents
<1>3. /\ Len(arrays["parents"]) = params.parentPopulationSize
      /\ \A a \in ArrayName \ {"parents"} : arrays[a] = <<>>
  BY <1>1, InvFacts
     DEF EvaluateParents, Lengths, InitializeLengths, NothingChosen, Size, Inv, ArrayName
<1>4. Lengths'
  BY <1>1, <1>3, EmptyRange DEF Lengths, RestLengths, NothingChosen, Size, ArrayName
<1>5. \A i \in DOMAIN heap : i \in Range(arrays["parents"])
  BY <1>3, InvFacts, EmptyRange DEF OwnedBy
<1>6. ComparedFitnessIsCurrent'
  BY <1>1, <1>2, <1>5 DEF ComparedFitnessIsCurrent, Current, Imports
<1>7. BestIsAlive'
  BY <1>1 DEF BestIsAlive
<1>8. currentEvaluationNb' \in Nat
  BY InvFacts DEF EvaluateParents, Inv, TypeOK, ParametersType
<1>. QED
  BY <1>1, <1>2, <1>4, <1>6, <1>7, <1>8, InvPreserved
     DEF EvaluateParents, Inv, TypeOK, Labels

(* The statistics of an array of evaluated individuals: a best one is found. *)
LEMMA StatsTyped ==
  ASSUME HeapTyped(heap), NEW s \in Seq(Individuals), Range(s) \subseteq DOMAIN heap,
         \A i \in Range(s) : heap[i].valid /\ Current(heap[i]),
         currentGeneration \in Nat, currentEvaluationNb \in Nat,
         ShowPopulationStats(s)
  PROVE  Best' \in Range(s) /\ row' \in RowType
<1>1. PICK k \in 1..Len(s) :
        /\ Best' = s[k]
        /\ row' = [gen |-> currentGeneration, eval |-> currentEvaluationNb, best |-> Fit(s[k])]
  BY DEF ShowPopulationStats
<1>2. s[k] \in Range(s)
  BY RangeOfArray
<1>3. Fit(s[k]) \in Fitness
  BY <1>2 DEF Fit, HeapTyped, Individual, Current
<1>. QED
  BY <1>1, <1>2, <1>3 DEF RowType

LEMMA FirstStatsInv ==
  ASSUME Inv, FirstStats
  PROVE  Inv'
<1>1. /\ pc = "firstStats" /\ pc' = "criteria"
      /\ params' = params /\ arrays' = arrays /\ heap' = heap
  BY DEF FirstStats, Goto
<1>2. /\ arrays["parents"] \in Seq(Individuals)
      /\ Range(arrays["parents"]) \subseteq DOMAIN heap
      /\ \A i \in Range(arrays["parents"]) : heap[i].valid /\ Current(heap[i])
  BY <1>1, InvFacts DEF OwnedBy, ArrayName, Inv, ComparedFitnessIsCurrent
<1>3. Best' \in Range(arrays["parents"]) /\ row' \in RowType /\ bBest' = Best'
  BY <1>2, InvFacts, StatsTyped DEF FirstStats, Inv, TypeOK
<1>4. Best' \in Individuals
  BY <1>2, <1>3, RangeOfArray
<1>5. Lengths'
  BY <1>1 DEF Lengths, RestLengths, NothingChosen, Size, Inv
<1>6. ComparedFitnessIsCurrent'
  BY <1>1 DEF ComparedFitnessIsCurrent, Imports, Inv
<1>7. BestIsAlive'
  BY <1>1, <1>3 DEF BestIsAlive
<1>8. currentGeneration' \in Nat /\ currentEvaluationNb' \in Nat
  BY DEF FirstStats, Inv, TypeOK
<1>. QED
  BY <1>1, <1>3, <1>4, <1>5, <1>6, <1>7, <1>8, InvFacts, InvPreserved DEF Labels

LEMMA CheckCriteriaInv ==
  ASSUME Inv, CheckCriteria
  PROVE  Inv'
<1>1. /\ pc = "criteria" /\ pc' \in {"finish", "produce"}
      /\ params' = params /\ arrays' = arrays /\ heap' = heap /\ bBest' = bBest
  BY DEF CheckCriteria, Goto
<1>2. Lengths'
  <2>1. RestLengths /\ params.offspringPopulationSize \in Nat
    BY <1>1, InvFacts DEF Inv, Lengths, ParametersType
  <2>2. RestLengths' /\ ProduceLengths'
    BY <1>1, <2>1 DEF RestLengths, ProduceLengths, NothingChosen, Size
  <2>. QED
    BY <1>1, <2>2 DEF Lengths
<1>3. ComparedFitnessIsCurrent'
  BY <1>1, InvFacts DEF ComparedFitnessIsCurrent, Imports, Inv, OwnedBy, ArrayName
<1>4. BestIsAlive'
  BY <1>1 DEF BestIsAlive, Inv
<1>. QED
  BY <1>1, <1>2, <1>3, <1>4, InvFacts, InvPreserved DEF CheckCriteria, Inv, TypeOK, Labels

LEMMA ProduceOffspringInv ==
  ASSUME Inv, ProduceOffspring
  PROVE  Inv'
<1>1. pc = "produce" /\ pc' = pc /\ params' = params /\ bBest' = bBest
  BY DEF ProduceOffspring
<1>2. PICK k \in 1..params.parentPopulationSize :
        \E child \in Children(heap[arrays["parents"][k]]) : Allocate(child)
  BY DEF ProduceOffspring
<1>3. arrays["parents"][k] \in DOMAIN heap
  <2>1. Len(arrays["parents"]) = params.parentPopulationSize
    BY <1>1 DEF Inv, Lengths, ProduceLengths, Size
  <2>2. arrays["parents"][k] \in Range(arrays["parents"])
    BY <2>1, InvFacts, RangeOfArray DEF ArrayName
  <2>. QED
    BY <2>2, InvFacts DEF OwnedBy, ArrayName
<1>4. PICK x \in Individual : Allocate(x) /\ Current(x)
  <2>1. heap[arrays["parents"][k]] \in Individual /\ Current(heap[arrays["parents"][k]])
    BY <1>3, InvFacts DEF HeapTyped
  <2>. QED
    BY <1>2, <2>1, ChildrenCurrent
<1>5. /\ Fresh \in Individuals /\ Fresh \notin DOMAIN heap
      /\ DOMAIN heap' = DOMAIN heap \cup {Fresh}
      /\ HeapTyped(heap')
      /\ heap'[Fresh] = x
      /\ \A i \in DOMAIN heap : heap'[i] = heap[i]
  BY <1>4, AllocateHeap, InvFacts
<1>6. /\ arrays' \in [ArrayName -> Seq(Individuals)]
      /\ OwnedBy(ArrayName, arrays', DOMAIN heap')
      /\ Len(arrays'["offsprings"]) = Len(arrays["offsprings"]) + 1
      /\ \A a \in ArrayName \ {"offsprings"} : arrays'[a] = arrays[a]
  <2>1. arrays' = Added(arrays, "offsprings", Fresh)
    BY DEF ProduceOffspring, Added
  <2>2. "offsprings" \in ArrayName
    BY DEF ArrayName
  <2>3. arrays \in [ArrayName -> Seq(Individuals)] /\ OwnedBy(ArrayName, arrays, DOMAIN heap)
    BY InvFacts
  <2>4. OwnedBy(ArrayName, arrays', DOMAIN heap \cup {Fresh})
    BY <1>5, <2>1, <2>2, <2>3, AppendOwned
  <2>. QED
    BY <1>5, <2>1, <2>2, <2>3, <2>4, AppendOwned
<1>7. Lengths'
  <2>1. ProduceLengths /\ Len(arrays["offsprings"]) < params.offspringPopulationSize
    BY <1>1 DEF Inv, Lengths, ProduceOffspring
  <2>2. ProduceLengths'
    BY <1>1, <1>6, <2>1, InvFacts
       DEF ProduceLengths, NothingChosen, Size, ArrayName, ParametersType
  <2>. QED
    BY <1>1, <2>2 DEF Lengths
<1>8. arrays'["parents"] = arrays["parents"] /\ Range(arrays["parents"]) \subseteq DOMAIN heap
  BY <1>6, InvFacts DEF ArrayName, OwnedBy
<1>9. ComparedFitnessIsCurrent'
  BY <1>1, <1>4, <1>5, <1>8, InvFacts DEF ComparedFitnessIsCurrent, Current, Imports, Inv
<1>10. BestIsAlive'
  BY <1>1, <1>8 DEF BestIsAlive, Inv
<1>. QED
  BY <1>1, <1>5, <1>6, <1>7, <1>9, <1>10, InvPreserved
     DEF ProduceOffspring, Inv, TypeOK, Labels

LEMMA EvaluateOffspringInv ==
  ASSUME Inv, EvaluateOffspring
  PROVE  Inv'
<1>1. pc = "produce" /\ pc' = "elitism" /\ params' = params /\ arrays' = arrays
  BY DEF EvaluateOffspring, Goto
<1>2. /\ DOMAIN heap' = DOMAIN heap
      /\ HeapTyped(heap')
      /\ \A i \in DOMAIN heap : Current(heap'[i])
      /\ \A i \in DOMAIN heap : (i \in Range(arrays["offsprings"]) => heap'[i].valid)
                                 /\ (heap[i].valid => heap'[i].valid)
  BY EvaluateAllHeap, InvFacts DEF EvaluateOffspring
<1>3. /\ Len(arrays["parents"]) = params.parentPopulationSize
      /\ Len(arrays["offsprings"]) = params.offspringPopulationSize
      /\ \A a \in ArrayName \ {"parents", "offsprings"} : arrays[a] = <<>>
  BY <1>1, InvFacts
     DEF EvaluateOffspring, Lengths, ProduceLengths, NothingChosen, Size, Inv, ArrayName
<1>4. Lengths'
  <2>1. EliteCount' = EliteCount
    BY <1>1 DEF EliteCount, ElitismApplies
  <2>. QED
    BY <1>1, <1>3, <2>1, EmptyRange, InvFacts
       DEF Lengths, ElitismLengths, NothingChosen, Size, ArrayName, ParametersType
<1>5. \A i \in DOMAIN heap : i \in Range(arrays["parents"]) \cup Range(arrays["offsprings"])
  BY <1>3, InvFacts, EmptyRange DEF OwnedBy
<1>6. ComparedFitnessIsCurrent'
  BY <1>1, <1>2, <1>5 DEF ComparedFitnessIsCurrent, Current, Imports, Inv
<1>7. BestIsAlive'
  BY <1>1 DEF BestIsAlive
<1>8. currentEvaluationNb' \in Nat
  BY InvFacts DEF EvaluateOffspring, Inv, TypeOK, ParametersType
<1>. QED
  BY <1>1, <1>2, <1>4, <1>6, <1>7, <1>8, InvFacts, InvPreserved
     DEF EvaluateOffspring, Inv, TypeOK, Labels

(* Where everything is evaluated, a step that makes no individual and keeps   *)
(* the others as they are keeps every fitness current.                        *)
LEMMA StillCurrent ==
  ASSUME Inv, pc \notin {"initialize", "produce"}, pc' \notin {"initialize", "produce"},
         params' = params,
         DOMAIN heap' \subseteq DOMAIN heap, \A i \in DOMAIN heap' : heap'[i] = heap[i]
  PROVE  ComparedFitnessIsCurrent'
  BY DEF Inv, ComparedFitnessIsCurrent, Imports

(* A move from one array to another, in any of the loops that choose.         *)
LEMMA MoveFacts ==
  ASSUME Inv, NEW from \in ArrayName, NEW to \in ArrayName, from # to,
         NEW k \in 1..Len(arrays[from]), Move(from, k, to)
  PROVE  /\ arrays' \in [ArrayName -> Seq(Individuals)]
         /\ OwnedBy(ArrayName, arrays', DOMAIN heap)
         /\ Len(arrays'[from]) = Len(arrays[from]) - 1
         /\ Len(arrays'[to]) = Len(arrays[to]) + 1
         /\ \A a \in ArrayName \ {from, to} : arrays'[a] = arrays[a]
<1>1. arrays \in [ArrayName -> Seq(Individuals)] /\ OwnedBy(ArrayName, arrays, DOMAIN heap)
  BY InvFacts
<1>2. arrays' = Moved(arrays, from, k, to)
  BY DEF Move, SwapOut, Without, Moved
<1>. QED
  BY <1>1, <1>2, MoveOwned

(* One more in the elite is one less in a population. *)
LEMMA OneMoreElite ==
  ASSUME Inv, ElitismLengths, Size("elitPop") < EliteCount,
         \/ /\ Size("parents")' = Size("parents") - 1
            /\ Size("offsprings")' = Size("offsprings")
         \/ /\ Size("offsprings")' = Size("offsprings") - 1
            /\ Size("parents")' = Size("parents")
            /\ ~params.strongElitism,
         Size("elitPop")' = Size("elitPop") + 1,
         Size("nextGeneration")' = Size("nextGeneration"),
         Size("globalPopulation")' = Size("globalPopulation"),
         params' = params, EliteCount' = EliteCount
  PROVE  ElitismLengths'
<1>1. /\ NothingChosen'
      /\ Size("elitPop")' <= EliteCount
      /\ Size("parents")' <= params.parentPopulationSize
      /\ Size("offsprings")' <= params.offspringPopulationSize
      /\ params.strongElitism => Size("offsprings")' = params.offspringPopulationSize
  BY SizesTyped DEF ElitismLengths, NothingChosen
<1>2. Size("parents")' + Size("offsprings")' + Size("elitPop")'
        = params.parentPopulationSize + params.offspringPopulationSize
  BY SizesTyped DEF ElitismLengths
<1>. QED
  BY <1>1, <1>2 DEF ElitismLengths

LEMMA StrongElitismInv ==
  ASSUME Inv, StrongElitism
  PROVE  Inv'
<1>1. /\ pc = "elitism" /\ pc' = pc /\ params' = params /\ heap' = heap
      /\ EliteCount = params.elitSize /\ Len(arrays["elitPop"]) < params.elitSize
      /\ params.strongElitism
  BY DEF StrongElitism, EliteWanted, EliteCount
<1>2. PICK k \in 1..Len(arrays["parents"]) : Move("parents", k, "elitPop")
  BY DEF StrongElitism
<1>3. /\ arrays' \in [ArrayName -> Seq(Individuals)]
      /\ OwnedBy(ArrayName, arrays', DOMAIN heap)
      /\ Len(arrays'["parents"]) = Len(arrays["parents"]) - 1
      /\ Len(arrays'["elitPop"]) = Len(arrays["elitPop"]) + 1
      /\ \A a \in ArrayName \ {"parents", "elitPop"} : arrays'[a] = arrays[a]
  BY <1>2, MoveFacts DEF ArrayName
<1>4. EliteCount' = EliteCount
  BY <1>1 DEF EliteCount, ElitismApplies
<1>5. Lengths'
  <2>1. ElitismLengths
    BY <1>1 DEF Inv, Lengths
  <2>2. /\ Size("parents")' = Size("parents") - 1
        /\ Size("elitPop")' = Size("elitPop") + 1
        /\ Size("offsprings")' = Size("offsprings")
        /\ Size("nextGeneration")' = Size("nextGeneration")
        /\ Size("globalPopulation")' = Size("globalPopulation")
        /\ Size("elitPop") < EliteCount
        /\ params' = params
    BY <1>1, <1>3 DEF ArrayName, Size
  <2>3. ElitismLengths'
    BY <1>1, <1>4, <2>1, <2>2, OneMoreElite
  <2>. QED
    BY <1>1, <2>3 DEF Lengths
<1>6. ComparedFitnessIsCurrent'
  BY <1>1, StillCurrent
<1>7. BestIsAlive'
  BY <1>1 DEF BestIsAlive
<1>. QED
  BY <1>1, <1>3, <1>5, <1>6, <1>7, InvFacts, InvPreserved
     DEF StrongElitism, Inv, TypeOK, Labels

LEMMA WeakElitismInv ==
  ASSUME Inv, WeakElitism
  PROVE  Inv'
<1>1. /\ pc = "elitism" /\ pc' = pc /\ params' = params /\ heap' = heap
      /\ EliteCount = params.elitSize /\ Len(arrays["elitPop"]) < params.elitSize
      /\ ~params.strongElitism
  BY DEF WeakElitism, EliteWanted, EliteCount
<1>2. PICK a \in {"parents", "offsprings"} :
        \E k \in 1..Len(arrays[a]) : Move(a, k, "elitPop")
  BY DEF WeakElitism
<1>3. /\ arrays' \in [ArrayName -> Seq(Individuals)]
      /\ OwnedBy(ArrayName, arrays', DOMAIN heap)
      /\ Len(arrays'[a]) = Len(arrays[a]) - 1
      /\ Len(arrays'["elitPop"]) = Len(arrays["elitPop"]) + 1
      /\ \A b \in ArrayName \ {a, "elitPop"} : arrays'[b] = arrays[b]
  BY <1>2, MoveFacts DEF ArrayName
<1>4. EliteCount' = EliteCount
  BY <1>1 DEF EliteCount, ElitismApplies
<1>5. Lengths'
  <2>1. ElitismLengths
    BY <1>1 DEF Inv, Lengths
  <2>2. /\ \/ Size("offsprings")' = Size("offsprings") - 1 /\ Size("parents")' = Size("parents")
           \/ Size("parents")' = Size("parents") - 1 /\ Size("offsprings")' = Size("offsprings")
        /\ Size("elitPop")' = Size("elitPop") + 1
        /\ Size("nextGeneration")' = Size("nextGeneration")
        /\ Size("globalPopulation")' = Size("globalPopulation")
        /\ Size("elitPop") < EliteCount
        /\ params' = params
    BY <1>1, <1>3 DEF ArrayName, Size
  <2>3. ElitismLengths'
    BY <1>1, <1>4, <2>1, <2>2, OneMoreElite
  <2>. QED
    BY <1>1, <2>3 DEF Lengths
<1>6. ComparedFitnessIsCurrent'
  BY <1>1, StillCurrent
<1>7. BestIsAlive'
  BY <1>1 DEF BestIsAlive
<1>. QED
  BY <1>1, <1>3, <1>5, <1>6, <1>7, InvFacts, InvPreserved
     DEF WeakElitism, Inv, TypeOK, Labels

LEMMA ElitismDoneInv ==
  ASSUME Inv, ElitismDone
  PROVE  Inv'
<1>1. /\ pc = "elitism" /\ pc' = "reduceParents"
      /\ params' = params /\ arrays' = arrays /\ heap' = heap
  BY DEF ElitismDone, Goto
<1>2. EliteCount' = EliteCount
  BY <1>1 DEF EliteCount, ElitismApplies
<1>3. Len(arrays["elitPop"]) = EliteCount
  BY <1>1, InvFacts
     DEF ElitismDone, EliteCount, Inv, Lengths, ElitismLengths, Size, ArrayName
<1>4. Lengths'
  <2>1. ElitismLengths
    BY <1>1 DEF Inv, Lengths
  <2>2. ReduceParentsLengths'
    BY <1>1, <1>2, <1>3, <2>1, InvFacts
       DEF ElitismLengths, ReduceParentsLengths, NothingChosen, Size, ArrayName,
           ParametersType
  <2>. QED
    BY <1>1, <2>2 DEF Lengths
<1>5. ComparedFitnessIsCurrent'
  BY <1>1, StillCurrent
<1>6. BestIsAlive'
  BY <1>1 DEF BestIsAlive
<1>. QED
  BY <1>1, <1>4, <1>5, <1>6, InvFacts, InvPreserved DEF ElitismDone, Inv, TypeOK, Labels

(* One choice of a reduction: the array from is not empty, or the sizes do not fit. *)
LEMMA ReduceOneInv ==
  ASSUME Inv, pc \in {"reduceParents", "reduceOffspring", "replace"},
         NEW from \in {"parents", "offsprings", "globalPopulation"}, NEW obSize \in Nat,
         ReduceOne(from, obSize),
         arrays[from] = <<>> => ~SizesFit(params),
         arrays[from] # <<>> /\ Len(arrays'[from]) = Len(arrays[from]) - 1
           /\ Len(arrays'["nextGeneration"]) = Len(arrays["nextGeneration"]) + 1
           /\ (\A a \in ArrayName \ {from, "nextGeneration"} : arrays'[a] = arrays[a])
           /\ params' = params /\ pc' = pc
           => Lengths'
  PROVE  Inv'
<1>1. CASE arrays[from] = <<>>
  <2>1. /\ pc' = "overrun" /\ params' = params /\ arrays' = arrays /\ heap' = heap
        /\ Best' = Best /\ bBest' = bBest /\ row' = row
        /\ currentGeneration' = currentGeneration
        /\ currentEvaluationNb' = currentEvaluationNb
    BY <1>1 DEF ReduceOne, Overrun, Goto
  <2>2. Lengths'
    BY <2>1 DEF Lengths
  <2>3. ComparedFitnessIsCurrent'
    BY <2>1, StillCurrent
  <2>4. BestIsAlive'
    BY <2>1 DEF BestIsAlive
  <2>. QED
    BY <1>1, <2>1, <2>2, <2>3, <2>4, InvFacts, InvPreserved DEF Inv, TypeOK, Labels
<1>2. CASE arrays[from] # <<>>
  <2>1. /\ pc' = pc /\ params' = params /\ heap' = heap
        /\ Best' = Best /\ bBest' = bBest /\ row' = row
        /\ currentGeneration' = currentGeneration
        /\ currentEvaluationNb' = currentEvaluationNb
    BY <1>2 DEF ReduceOne
  <2>2. PICK k \in 1..Len(arrays[from]) : Move(from, k, "nextGeneration")
    BY <1>2 DEF ReduceOne
  <2>3. /\ arrays' \in [ArrayName -> Seq(Individuals)]
        /\ OwnedBy(ArrayName, arrays', DOMAIN heap)
        /\ Len(arrays'[from]) = Len(arrays[from]) - 1
        /\ Len(arrays'["nextGeneration"]) = Len(arrays["nextGeneration"]) + 1
        /\ \A a \in ArrayName \ {from, "nextGeneration"} : arrays'[a] = arrays[a]
    <3>1. /\ from \in ArrayName /\ "nextGeneration" \in ArrayName
          /\ from # "nextGeneration"
      BY DEF ArrayName
    <3>. QED
      BY <2>2, <3>1, MoveFacts
  <2>4. Lengths'
    BY <1>2, <2>1, <2>3
  <2>5. ComparedFitnessIsCurrent'
    BY <2>1, StillCurrent
  <2>6. BestIsAlive'
    BY <2>1 DEF BestIsAlive
  <2>. QED
    BY <2>1, <2>3, <2>4, <2>5, <2>6, InvFacts, InvPreserved DEF Inv, TypeOK, Labels
<1>. QED
  BY <1>1, <1>2

LEMMA WholeSubSeq ==
  ASSUME NEW S, NEW s \in Seq(S)
  PROVE  SubSeq(s, 1, Len(s)) = s
  OBVIOUS

(* The end of a reduction frees by a count, and it is the number of those that *)
(* were not chosen.                                                            *)
LEMMA LeftOverIsAll ==
  ASSUME Inv, NEW from \in ArrayName, NEW obSize,
         Len(arrays["nextGeneration"]) = obSize
  PROVE  SubSeq(arrays[from], 1, LeftOver(from, obSize)) = arrays[from]
<1>1. arrays[from] \in Seq(Individuals) /\ Len(arrays[from]) \in Nat
  BY InvFacts
<1>2. Len(arrays["nextGeneration"]) \in Nat
  BY InvFacts DEF ArrayName
<1>3. EliteCopied(from) \in Nat
  BY SizesTyped DEF EliteCopied
<1>4. LeftOver(from, obSize) = Len(arrays[from])
  BY <1>1, <1>2, <1>3 DEF LeftOver, ActualSize
<1>. QED
  BY <1>1, <1>4, WholeSubSeq

(* The end of a reduction. *)
LEMMA ReplaceInv ==
  ASSUME Inv, pc \in {"reduceParents", "reduceOffspring", "replace"},
         NEW from \in ArrayName, NEW to \in ArrayName,
         from # "nextGeneration", to # "nextGeneration",
         from = to \/ arrays[to] = <<>>,
         NEW obSize,
         NEW l \in {"reduceOffspring", "reduceTotal", "sort"}, Replace(from, to, obSize, l),
         arrays'[to] = arrays["nextGeneration"]
           /\ arrays'["nextGeneration"] = <<>>
           /\ (from # to => arrays'[from] = <<>>)
           /\ (\A a \in ArrayName \ {from, to, "nextGeneration"} : arrays'[a] = arrays[a])
           /\ params' = params /\ pc' = l
           => Lengths'
  PROVE  Inv'
<1>1. /\ pc' = l /\ params' = params
      /\ Best' = Best /\ bBest' = bBest /\ row' = row
      /\ currentGeneration' = currentGeneration
      /\ currentEvaluationNb' = currentEvaluationNb
  BY DEF Replace, Goto
<1>2. /\ DOMAIN heap' = DOMAIN heap \ Range(arrays[from])
      /\ HeapTyped(heap')
      /\ \A i \in DOMAIN heap' : heap'[i] = heap[i]
  <2>1. Delete(arrays[from])
    BY LeftOverIsAll DEF Replace
  <2>. QED
    BY <2>1, InvFacts, DeleteHeap
<1>3. /\ arrays' \in [ArrayName -> Seq(Individuals)]
      /\ OwnedBy(ArrayName, arrays', DOMAIN heap \ Range(arrays[from]))
      /\ arrays'[to] = arrays["nextGeneration"]
      /\ arrays'["nextGeneration"] = <<>>
      /\ from # to => arrays'[from] = <<>>
      /\ \A a \in ArrayName \ {from, to, "nextGeneration"} : arrays'[a] = arrays[a]
  <2>1. arrays' = [arrays EXCEPT ![from] = <<>>, ![to] = arrays["nextGeneration"],
                                 !["nextGeneration"] = <<>>]
    BY DEF Replace
  <2>2. arrays \in [ArrayName -> Seq(Individuals)] /\ OwnedBy(ArrayName, arrays, DOMAIN heap)
    BY InvFacts
  <2>. QED
    BY <2>1, <2>2, ReplaceOwned
<1>4. Lengths'
  BY <1>1, <1>3
<1>5. ComparedFitnessIsCurrent'
  BY <1>1, <1>2, StillCurrent
<1>6. BestIsAlive'
  BY <1>1 DEF BestIsAlive
<1>. QED
  BY <1>1, <1>2, <1>3, <1>4, <1>5, <1>6, InvPreserved DEF Inv, TypeOK, Labels

LEMMA ReduceParentPopulationInv ==
  ASSUME Inv, ReduceParentPopulation
  PROVE  Inv'
<1>1. /\ pc = "reduceParents" /\ ReduceParentsLengths /\ Accepted(params)
      /\ EliteCount \in 0..params.parentPopulationSize /\ EliteCount <= params.elitSize
  BY InvFacts DEF ReduceParentPopulation, Inv, Lengths, Started
<1>a. params' = params => EliteCount' = EliteCount
  BY DEF EliteCount, ElitismApplies
<1>2. CASE params.parentReduction /\ ReduceOne("parents", params.parentReductionSize)
  <2>1. arrays["parents"] = <<>> => ~SizesFit(params)
    <3>1. Size("nextGeneration") < params.parentReductionSize
      BY <1>2 DEF ReduceOne, Size
    <3>2. arrays["parents"] = <<>> => Size("parents") = 0
      BY EmptyRange DEF Size
    <3>. QED
      BY <1>1, <1>2, <3>1, <3>2, SizesTyped DEF ReduceParentsLengths, SizesFit
  <2>2. ASSUME Len(arrays'["parents"]) = Len(arrays["parents"]) - 1,
               Len(arrays'["nextGeneration"]) = Len(arrays["nextGeneration"]) + 1,
               \A a \in ArrayName \ {"parents", "nextGeneration"} : arrays'[a] = arrays[a],
               params' = params, pc' = pc
        PROVE  Lengths'
    <3>1. /\ Size("parents")' = Size("parents") - 1
          /\ Size("nextGeneration")' = Size("nextGeneration") + 1
          /\ Size("offsprings")' = Size("offsprings")
          /\ Size("elitPop")' = Size("elitPop")
          /\ Size("globalPopulation")' = Size("globalPopulation")
          /\ params' = params /\ params.parentReduction
      BY <1>2, <2>2 DEF ArrayName, Size
    <3>a. EliteCount' = EliteCount /\ ReduceParentsLengths
      BY <1>1, <1>a, <2>2
    <3>2. ReduceParentsLengths'
      BY <3>1, <3>a, SizesTyped DEF ReduceParentsLengths
    <3>. QED
      BY <1>1, <2>2, <3>2 DEF Lengths
  <2>. QED
    BY <1>1, <1>2, <2>1, <2>2, SizesTyped, ReduceOneInv
<1>3. CASE /\ params.parentReduction
           /\ Replace("parents", "parents", params.parentReductionSize, "reduceOffspring")
  <2>1. ASSUME arrays'["parents"] = arrays["nextGeneration"],
               arrays'["nextGeneration"] = <<>>,
               \A a \in ArrayName \ {"parents", "nextGeneration"} : arrays'[a] = arrays[a],
               params' = params, pc' = "reduceOffspring"
        PROVE  Lengths'
    <3>1. /\ Size("parents")' = params.parentReductionSize
          /\ Size("nextGeneration")' = 0
          /\ Size("offsprings")' = Size("offsprings")
          /\ Size("elitPop")' = Size("elitPop")
          /\ Size("globalPopulation")' = Size("globalPopulation")
      BY <1>3, <2>1, EmptyRange DEF Replace, ArrayName, Size
    <3>2. Size("nextGeneration") = params.parentReductionSize
      BY <1>3 DEF Replace, Size
    <3>3. ReduceOffspringLengths'
      BY <1>1, <1>3, <1>a, <2>1, <3>1, <3>2, SizesTyped
         DEF ReduceParentsLengths, ReduceOffspringLengths
    <3>. QED
      BY <2>1, <3>3 DEF Lengths
  <2>2. "parents" \in ArrayName
    BY DEF ArrayName
  <2>. QED
    BY <1>1, <1>3, <2>1, <2>2, ReplaceInv
<1>4. CASE /\ ~params.parentReduction
           /\ Goto("reduceOffspring")
           /\ UNCHANGED <<params, arrays, heap, Best, bBest, currentGeneration,
                          currentEvaluationNb, row>>
  <2>1. pc' = "reduceOffspring" /\ params' = params /\ arrays' = arrays /\ heap' = heap
    BY <1>4 DEF Goto
  <2>a. \A b : Size(b)' = Size(b)
    BY <2>1 DEF Size
  <2>2. ReduceOffspringLengths'
    BY <1>1, <1>4, <1>a, <2>1, <2>a, SizesTyped
       DEF ReduceParentsLengths, ReduceOffspringLengths
  <2>3. Lengths'
    BY <2>1, <2>2 DEF Lengths
  <2>4. ComparedFitnessIsCurrent' /\ BestIsAlive'
    BY <1>1, <2>1, StillCurrent DEF BestIsAlive
  <2>. QED
    BY <1>1, <1>4, <2>1, <2>3, <2>4, InvFacts, InvPreserved DEF Inv, TypeOK, Labels
<1>. QED
  BY <1>2, <1>3, <1>4 DEF ReduceParentPopulation

LEMMA ReduceOffspringPopulationInv ==
  ASSUME Inv, ReduceOffspringPopulation
  PROVE  Inv'
<1>1. pc = "reduceOffspring" /\ ReduceOffspringLengths /\ Accepted(params)
  BY DEF ReduceOffspringPopulation, Inv, Lengths, Started
<1>2. params' = params => EliteCount' = EliteCount
  BY DEF EliteCount, ElitismApplies
<1>3. CASE params.offspringReduction /\ ReduceOne("offsprings", params.offspringReductionSize)
  <2>1. arrays["offsprings"] = <<>> => ~SizesFit(params)
    <3>1. Size("nextGeneration") < params.offspringReductionSize
      BY <1>3 DEF ReduceOne, Size
    <3>2. arrays["offsprings"] = <<>> => Size("offsprings") = 0
      BY EmptyRange DEF Size
    <3>. QED
      BY <1>1, <1>3, <3>1, <3>2, SizesTyped DEF ReduceOffspringLengths, SizesFit
  <2>2. ASSUME Len(arrays'["offsprings"]) = Len(arrays["offsprings"]) - 1,
               Len(arrays'["nextGeneration"]) = Len(arrays["nextGeneration"]) + 1,
               \A a \in ArrayName \ {"offsprings", "nextGeneration"} : arrays'[a] = arrays[a],
               params' = params, pc' = pc
        PROVE  Lengths'
    <3>1. /\ Size("offsprings")' = Size("offsprings") - 1
          /\ Size("nextGeneration")' = Size("nextGeneration") + 1
          /\ Size("parents")' = Size("parents")
          /\ Size("elitPop")' = Size("elitPop")
          /\ Size("globalPopulation")' = Size("globalPopulation")
          /\ params' = params /\ params.offspringReduction
      BY <1>3, <2>2 DEF ArrayName, Size
    <3>2. EliteCount' = EliteCount /\ ReduceOffspringLengths
      BY <1>1, <1>2, <2>2
    <3>3. ReduceOffspringLengths'
      BY <3>1, <3>2, SizesTyped DEF ReduceOffspringLengths
    <3>. QED
      BY <1>1, <2>2, <3>3 DEF Lengths
  <2>. QED
    BY <1>1, <1>3, <2>1, <2>2, SizesTyped, ReduceOneInv
<1>4. CASE /\ params.offspringReduction
           /\ Replace("offsprings", "offsprings", params.offspringReductionSize,
                      "reduceTotal")
  <2>1. ASSUME arrays'["offsprings"] = arrays["nextGeneration"],
               arrays'["nextGeneration"] = <<>>,
               \A a \in ArrayName \ {"offsprings", "nextGeneration"} : arrays'[a] = arrays[a],
               params' = params, pc' = "reduceTotal"
        PROVE  Lengths'
    <3>1. /\ Size("offsprings")' = params.offspringReductionSize
          /\ Size("nextGeneration")' = 0
          /\ Size("parents")' = Size("parents")
          /\ Size("elitPop")' = Size("elitPop")
          /\ Size("globalPopulation")' = Size("globalPopulation")
          /\ params' = params
      BY <1>4, <2>1, EmptyRange DEF Replace, ArrayName, Size
    <3>2. params.parentReductionSize + params.offspringReductionSize
            >= params.parentPopulationSize
      BY <1>1 DEF Accepted
    <3>3. EliteCount' = EliteCount /\ ReduceOffspringLengths
      BY <1>1, <1>2, <2>1
    <3>4. ReduceTotalLengths'
      BY <3>1, <3>2, <3>3, SizesTyped
         DEF ReduceOffspringLengths, ReduceTotalLengths, NothingChosen
    <3>. QED
      BY <2>1, <3>4 DEF Lengths
  <2>2. "offsprings" \in ArrayName
    BY DEF ArrayName
  <2>. QED
    BY <1>1, <1>4, <2>1, <2>2, ReplaceInv
<1>5. CASE /\ ~params.offspringReduction
           /\ Goto("reduceTotal")
           /\ UNCHANGED <<params, arrays, heap, Best, bBest, currentGeneration,
                          currentEvaluationNb, row>>
  <2>1. pc' = "reduceTotal" /\ params' = params /\ arrays' = arrays /\ heap' = heap
    BY <1>5 DEF Goto
  <2>2. \A b : Size(b)' = Size(b)
    BY <2>1 DEF Size
  <2>3. /\ params.parentReductionSize + params.offspringReductionSize
             >= params.parentPopulationSize
        /\ params.offspringReductionSize = params.offspringPopulationSize
    <3>1. ~(params.offspringReductionSize < params.offspringPopulationSize)
      BY <1>5, InvFacts DEF ParametersType
    <3>2. params.offspringReductionSize = params.offspringPopulationSize
      BY <3>1, SizesTyped
    <3>. QED
      BY <1>1, <3>2 DEF Accepted
  <2>4. ReduceTotalLengths'
    BY <1>1, <1>2, <1>5, <2>1, <2>2, <2>3, SizesTyped
       DEF ReduceOffspringLengths, ReduceTotalLengths, NothingChosen
  <2>5. Lengths'
    BY <2>1, <2>4 DEF Lengths
  <2>6. ComparedFitnessIsCurrent' /\ BestIsAlive'
    BY <1>1, <2>1, StillCurrent DEF BestIsAlive
  <2>. QED
    BY <1>1, <1>5, <2>1, <2>5, <2>6, InvFacts, InvPreserved DEF Inv, TypeOK, Labels
<1>. QED
  BY <1>3, <1>4, <1>5 DEF ReduceOffspringPopulation

LEMMA GatherPopulationInv ==
  ASSUME Inv, GatherPopulation
  PROVE  Inv'
<1>1. pc = "reduceTotal" /\ ReduceTotalLengths
  BY DEF GatherPopulation, Inv, Lengths
<1>2. /\ params' = params /\ heap' = heap
      /\ Best' = Best /\ bBest' = bBest /\ row' = row
      /\ currentGeneration' = currentGeneration
      /\ currentEvaluationNb' = currentEvaluationNb
  BY DEF GatherPopulation, Overrun
<1>3. CASE Size("elitPop") < params.elitSize
  <2>1. pc' = "overrun" /\ arrays' = arrays
    BY <1>3 DEF GatherPopulation, Overrun, Goto, Size
  <2>2. ~SizesFit(params)
    <3>1. Size("elitPop") = EliteCount
      BY <1>1 DEF ReduceTotalLengths
    <3>. QED
      BY <1>3, <3>1, SizesTyped DEF EliteCount, ElitismApplies, SizesFit
  <2>3. Lengths' /\ BestIsAlive' /\ ComparedFitnessIsCurrent'
    BY <1>1, <1>2, <2>1, StillCurrent DEF Lengths, BestIsAlive
  <2>. QED
    BY <1>1, <1>2, <2>1, <2>2, <2>3, InvFacts, InvPreserved DEF Inv, TypeOK, Labels
<1>4. CASE ~(Size("elitPop") < params.elitSize)
  <2>1. /\ pc' = "replace"
        /\ arrays' = [arrays EXCEPT
                        !["nextGeneration"] = arrays["elitPop"],
                        !["elitPop"] = <<>>,
                        !["globalPopulation"] = arrays["parents"] \o arrays["offsprings"],
                        !["parents"] = <<>>,
                        !["offsprings"] = <<>>]
    BY <1>4 DEF GatherPopulation, Goto, Size
  <2>2. arrays["nextGeneration"] = <<>> /\ arrays["globalPopulation"] = <<>>
    BY <1>1, InvFacts DEF ReduceTotalLengths, NothingChosen, Size, ArrayName
  <2>3. /\ arrays' \in [ArrayName -> Seq(Individuals)]
        /\ OwnedBy(ArrayName, arrays', DOMAIN heap)
        /\ arrays'["parents"] = <<>> /\ arrays'["offsprings"] = <<>>
        /\ arrays'["elitPop"] = <<>>
        /\ arrays'["nextGeneration"] = arrays["elitPop"]
        /\ Len(arrays'["globalPopulation"]) = Len(arrays["parents"]) + Len(arrays["offsprings"])
    <3>1. arrays \in [ArrayName -> Seq(Individuals)] /\ OwnedBy(ArrayName, arrays, DOMAIN heap)
      BY InvFacts
    <3>. QED
      BY <2>1, <2>2, <3>1, GatherOwned
  <2>4. /\ Size("parents")' = 0 /\ Size("offsprings")' = 0 /\ Size("elitPop")' = 0
        /\ Size("nextGeneration")' = Size("elitPop")
        /\ Size("globalPopulation")' = Size("parents") + Size("offsprings")
    BY <2>3, EmptyRange DEF Size
  <2>5. ReplaceLengths'
    BY <1>1, <1>2, <2>4, SizesTyped DEF ReduceTotalLengths, ReplaceLengths
  <2>6. Lengths' /\ BestIsAlive' /\ ComparedFitnessIsCurrent'
    BY <1>1, <1>2, <2>1, <2>5, StillCurrent DEF Lengths, BestIsAlive
  <2>. QED
    BY <1>1, <1>2, <2>1, <2>3, <2>6, InvFacts, InvPreserved DEF Inv, TypeOK, Labels
<1>. QED
  BY <1>3, <1>4

LEMMA ReduceTotalPopulationInv ==
  ASSUME Inv, ReduceTotalPopulation
  PROVE  Inv'
<1>1. pc = "replace" /\ ReplaceLengths
  BY DEF ReduceTotalPopulation, Inv, Lengths
<1>2. CASE ReduceOne("globalPopulation", params.parentPopulationSize)
  <2>1. arrays["globalPopulation"] # <<>>
    <3>1. Size("nextGeneration") < params.parentPopulationSize
      BY <1>2 DEF ReduceOne, Size
    <3>2. arrays["globalPopulation"] = <<>> => Size("globalPopulation") = 0
      BY EmptyRange DEF Size
    <3>. QED
      BY <1>1, <3>1, <3>2, SizesTyped DEF ReplaceLengths
  <2>2. ASSUME Len(arrays'["globalPopulation"]) = Len(arrays["globalPopulation"]) - 1,
               Len(arrays'["nextGeneration"]) = Len(arrays["nextGeneration"]) + 1,
               \A a \in ArrayName \ {"globalPopulation", "nextGeneration"} :
                 arrays'[a] = arrays[a],
               params' = params, pc' = pc
        PROVE  Lengths'
    <3>1. /\ Size("globalPopulation")' = Size("globalPopulation") - 1
          /\ Size("nextGeneration")' = Size("nextGeneration") + 1
          /\ Size("parents")' = Size("parents")
          /\ Size("offsprings")' = Size("offsprings")
          /\ Size("elitPop")' = Size("elitPop")
          /\ params' = params
      BY <2>2 DEF ArrayName, Size
    <3>2. ReplaceLengths'
      BY <1>1, <3>1, SizesTyped DEF ReplaceLengths
    <3>. QED
      BY <1>1, <2>2, <3>2 DEF Lengths
  <2>. QED
    BY <1>1, <1>2, <2>1, <2>2, SizesTyped, ReduceOneInv
<1>3. CASE Replace("globalPopulation", "parents", params.parentPopulationSize, "sort")
  <2>1. ASSUME arrays'["parents"] = arrays["nextGeneration"],
               arrays'["nextGeneration"] = <<>>,
               arrays'["globalPopulation"] = <<>>,
               \A a \in ArrayName \ {"globalPopulation", "parents", "nextGeneration"} :
                 arrays'[a] = arrays[a],
               params' = params, pc' = "sort"
        PROVE  Lengths'
    <3>1. /\ Size("parents")' = params.parentPopulationSize
          /\ Size("nextGeneration")' = 0
          /\ Size("globalPopulation")' = 0
          /\ Size("offsprings")' = Size("offsprings")
          /\ Size("elitPop")' = Size("elitPop")
      BY <1>3, <2>1, EmptyRange DEF Replace, ArrayName, Size
    <3>2. RestLengths'
      BY <1>1, <2>1, <3>1 DEF ReplaceLengths, RestLengths, NothingChosen
    <3>. QED
      BY <2>1, <3>2 DEF Lengths
  <2>2. "parents" \in ArrayName /\ "globalPopulation" \in ArrayName
    BY DEF ArrayName
  <2>3. arrays["parents"] = <<>>
    BY <1>1, <2>2, InvFacts DEF ReplaceLengths, Size
  <2>. QED
    BY <1>1, <1>3, <2>1, <2>2, <2>3, ReplaceInv
<1>. QED
  BY <1>2, <1>3 DEF ReduceTotalPopulation

LEMMA SortAndStatsInv ==
  ASSUME Inv, SortAndStats
  PROVE  Inv'
<1>1. /\ pc = "sort" /\ pc' = "receive" /\ params' = params /\ heap' = heap
      /\ bBest' = Best' /\ currentGeneration' = currentGeneration
      /\ currentEvaluationNb' = currentEvaluationNb
  BY DEF SortAndStats, Goto
<1>2. PICK s \in Sorted(arrays["parents"]) :
        arrays' = [arrays EXCEPT !["parents"] = s] /\ ShowPopulationStats(s)
  BY DEF SortAndStats
<1>3. /\ "parents" \in ArrayName
      /\ arrays["parents"] \in Seq(Individuals) /\ IsInjective(arrays["parents"])
      /\ Range(arrays["parents"]) \subseteq DOMAIN heap
      /\ \A i \in DOMAIN heap : heap[i].valid /\ Current(heap[i])
  BY <1>1, InvFacts DEF OwnedBy, ArrayName, Inv, ComparedFitnessIsCurrent
<1>4. /\ s \in Seq(Individuals) /\ Len(s) = Len(arrays["parents"])
      /\ IsInjective(s) /\ Range(s) = Range(arrays["parents"])
  BY <1>3, PermutedRange DEF Sorted
<1>5. /\ arrays' \in [ArrayName -> Seq(Individuals)]
      /\ arrays'["parents"] = s
      /\ \A a \in ArrayName \ {"parents"} : arrays'[a] = arrays[a]
  BY <1>2, <1>3, <1>4, InvFacts
<1>6. OwnedBy(ArrayName, arrays', DOMAIN heap)
  <2>1. \A a \in ArrayName :
          IsInjective(arrays'[a]) /\ Range(arrays'[a]) = Range(arrays[a])
    BY <1>4, <1>5, InvFacts DEF OwnedBy
  <2>. QED
    BY <2>1, InvFacts, OwnedByRange
<1>7. Best' \in Range(s) /\ row' \in RowType
  BY <1>2, <1>3, <1>4, InvFacts, StatsTyped DEF Inv, TypeOK
<1>8. Best' \in Individuals
  BY <1>4, <1>7, RangeOfArray
<1>9. Lengths'
  <2>1. RestLengths
    BY <1>1 DEF Inv, Lengths
  <2>2. RestLengths'
    BY <1>1, <1>4, <1>5, <2>1 DEF RestLengths, NothingChosen, Size, ArrayName
  <2>. QED
    BY <1>1, <2>2 DEF Lengths
<1>10. ComparedFitnessIsCurrent'
  BY <1>1, StillCurrent
<1>11. BestIsAlive'
  BY <1>1, <1>5, <1>7 DEF BestIsAlive
<1>. QED
  BY <1>1, <1>5, <1>6, <1>7, <1>8, <1>9, <1>10, <1>11, InvFacts, InvPreserved
     DEF Inv, TypeOK, Labels

LEMMA ReceiveIndividualInv ==
  ASSUME Inv, ReceiveIndividual
  PROVE  Inv'
<1>1. /\ pc = "receive" /\ pc' = pc /\ params' = params /\ arrays' = arrays
      /\ bBest' = bBest
  BY DEF ReceiveIndividual
<1>2. PICK k \in 1..Len(arrays["parents"]), g \in Fitness, f \in Fitness :
        heap' = [heap EXCEPT ![arrays["parents"][k]] =
                   [Deserialized(g, f) EXCEPT !.isImmigrant = TRUE]]
  BY DEF ReceiveIndividual
<1> DEFINE x == [Deserialized(g, f) EXCEPT !.isImmigrant = TRUE]
           j == arrays["parents"][k]
<1>3. x \in Individual /\ Current(x) /\ x.valid
  BY NewIndividualCurrent DEF ReceiveIndividual, Imports
<1>4. heap' = [heap EXCEPT ![j] = x]
  BY <1>2
<1> HIDE DEF x, j
<1>5. /\ DOMAIN heap' = DOMAIN heap
      /\ HeapTyped(heap')
      /\ \A i \in DOMAIN heap : heap'[i] = IF i = j THEN x ELSE heap[i]
  BY <1>3, <1>4, InvFacts DEF HeapTyped
<1>6. ComparedFitnessIsCurrent'
  BY <1>1, <1>3, <1>5 DEF ComparedFitnessIsCurrent, Current, Imports, Inv
<1>7. Lengths' /\ BestIsAlive'
  <2>1. RestLengths /\ bBest \in Range(arrays["parents"])
    BY <1>1 DEF Inv, Lengths, BestIsAlive
  <2>. QED
    BY <1>1, <2>1 DEF Lengths, RestLengths, NothingChosen, Size, BestIsAlive
<1>. QED
  BY <1>1, <1>5, <1>6, <1>7, InvFacts, InvPreserved DEF ReceiveIndividual, Inv, TypeOK, Labels

LEMMA EndGenerationInv ==
  ASSUME Inv, EndGeneration
  PROVE  Inv'
<1>1. /\ pc = "receive" /\ pc' = "criteria" /\ params' = params /\ arrays' = arrays
      /\ heap' = heap /\ bBest' = bBest /\ currentGeneration' \in Nat
  BY DEF EndGeneration, Goto, Inv, TypeOK
<1>2. Lengths' /\ BestIsAlive' /\ ComparedFitnessIsCurrent'
  <2>1. RestLengths /\ bBest \in Range(arrays["parents"])
    BY <1>1 DEF Inv, Lengths, BestIsAlive
  <2>. QED
    BY <1>1, <2>1, StillCurrent DEF Lengths, RestLengths, NothingChosen, Size, BestIsAlive
<1>. QED
  BY <1>1, <1>2, InvFacts, InvPreserved DEF EndGeneration, Inv, TypeOK, Labels

LEMMA DeletePopulationInv ==
  ASSUME Inv, DeletePopulation
  PROVE  Inv'
<1>1. /\ pc = "finish" /\ pc' = "deleted" /\ params' = params
      /\ Delete(arrays["offsprings"] \o arrays["parents"])
      /\ arrays' = [arrays EXCEPT !["offsprings"] = <<>>, !["parents"] = <<>>]
  BY DEF DeletePopulation, Goto
<1>2. /\ DOMAIN heap' = DOMAIN heap \ Range(arrays["offsprings"] \o arrays["parents"])
      /\ HeapTyped(heap')
      /\ \A i \in DOMAIN heap' : heap'[i] = heap[i]
  BY <1>1, InvFacts, DeleteHeap
<1>3. /\ arrays' \in [ArrayName -> Seq(Individuals)]
      /\ OwnedBy(ArrayName, arrays', DOMAIN heap \ Range(arrays["offsprings"] \o arrays["parents"]))
  BY <1>1, InvFacts, ClearOwned
<1>4. ComparedFitnessIsCurrent'
  BY <1>1, <1>2, StillCurrent
<1>5. Lengths' /\ BestIsAlive'
  BY <1>1 DEF Lengths, BestIsAlive
<1>. QED
  BY <1>1, <1>2, <1>3, <1>4, <1>5, InvPreserved DEF DeletePopulation, Inv, TypeOK, Labels

-----------------------------------------------------------------------------
(* The theorems *)

LEMMA InitInv ==
  ASSUME Init
  PROVE  Inv
<1>1. PICK c \in CommandLines : params = ParametersOf(c)
  BY DEF Init
<1>2. /\ arrays = [a \in ArrayName |-> <<>>] /\ heap = [i \in {} |-> None]
      /\ Best = None /\ bBest = None /\ row = None
      /\ currentGeneration = 0 /\ currentEvaluationNb = 0
      /\ pc = IF Accepted(params) THEN "initialize" ELSE "exit"
  BY DEF Init
<1>3. arrays \in [ArrayName -> Seq(Individuals)] /\ HeapTyped(heap) /\ DOMAIN heap = {}
  BY <1>2, EmptyRange DEF HeapTyped
<1>4. TypeOK
  BY <1>1, <1>2, <1>3 DEF TypeOK, HeapTyped
<1>5. OwnedBy(ArrayName, arrays, DOMAIN heap)
  BY <1>2, <1>3, EmptyRange DEF OwnedBy
<1>6. Lengths
  <2>1. ParametersType(params)
    BY <1>1, ParametersTyped
  <2>2. InitializeLengths
    BY <1>2, <2>1, EmptyRange
       DEF InitializeLengths, NothingChosen, Size, ArrayName, ParametersType
  <2>. QED
    BY <1>2, <2>2 DEF Lengths
<1>7. Started /\ NoOverrun /\ BestIsAlive
  BY <1>2 DEF Started, NoOverrun, BestIsAlive
<1>8. ComparedFitnessIsCurrent
  BY <1>2, <1>3 DEF ComparedFitnessIsCurrent
<1>. QED
  BY <1>4, <1>5, <1>6, <1>7, <1>8 DEF Inv

LEMMA StutteringInv ==
  ASSUME Inv, UNCHANGED vars
  PROVE  Inv'
<1>1. /\ params' = params /\ pc' = pc /\ arrays' = arrays /\ heap' = heap
      /\ Best' = Best /\ bBest' = bBest /\ row' = row
      /\ currentGeneration' = currentGeneration
      /\ currentEvaluationNb' = currentEvaluationNb
  BY DEF vars
<1>2. TypeOK' /\ Started' /\ NoOverrun' /\ BestIsAlive'
  BY <1>1 DEF Inv, TypeOK, Started, NoOverrun, Accepted, SizesFit, BestIsAlive
<1>3. OwnedBy(ArrayName, arrays', DOMAIN heap')
  BY <1>1 DEF Inv
<1>4. ComparedFitnessIsCurrent'
  BY <1>1 DEF Inv, ComparedFitnessIsCurrent, Imports
<1>5. Lengths'
  <2>1. EliteCount' = EliteCount /\ \A a : Size(a)' = Size(a)
    BY <1>1 DEF EliteCount, ElitismApplies, Size
  <2>. QED
    BY <1>1, <2>1 DEF Inv, Lengths, InitializeLengths, RestLengths, ProduceLengths,
       ElitismLengths, ReduceParentsLengths, ReduceOffspringLengths, ReduceTotalLengths,
       ReplaceLengths, NothingChosen
<1>. QED
  BY <1>2, <1>3, <1>4, <1>5 DEF Inv

(* The invariant is inductive. *)
LEMMA InvInductive == Inv /\ [Next]_vars => Inv'
<1> SUFFICES ASSUME Inv, [Next]_vars
             PROVE  Inv'
  OBVIOUS
<1>1. CASE AddIndividual \/ EvaluateParents \/ FirstStats \/ CheckCriteria
  BY <1>1, AddIndividualInv, EvaluateParentsInv, FirstStatsInv, CheckCriteriaInv
<1>2. CASE ProduceOffspring \/ EvaluateOffspring
  BY <1>2, ProduceOffspringInv, EvaluateOffspringInv
<1>3. CASE StrongElitism \/ WeakElitism \/ ElitismDone
  BY <1>3, StrongElitismInv, WeakElitismInv, ElitismDoneInv
<1>4. CASE ReduceParentPopulation \/ ReduceOffspringPopulation
  BY <1>4, ReduceParentPopulationInv, ReduceOffspringPopulationInv
<1>5. CASE GatherPopulation \/ ReduceTotalPopulation
  BY <1>5, GatherPopulationInv, ReduceTotalPopulationInv
<1>6. CASE SortAndStats \/ ReceiveIndividual \/ EndGeneration \/ DeletePopulation
  BY <1>6, SortAndStatsInv, ReceiveIndividualInv, EndGenerationInv, DeletePopulationInv
<1>7. CASE UNCHANGED vars
  BY <1>7, StutteringInv
<1>. QED
  BY <1>1, <1>2, <1>3, <1>4, <1>5, <1>6, <1>7 DEF Next

LEMMA Invariance == Spec => []Inv
<1>1. Init => Inv
  BY InitInv
<1>. QED
  BY <1>1, InvInductive, PTL DEF Spec

(* Whatever the sizes, the kind of elitism and the reductions, every variable *)
(* of the loop has its type.                                                  *)
THEOREM TypeCorrect == Spec => []TypeOK
<1>1. Inv => TypeOK
  BY DEF Inv
<1>. QED
  BY <1>1, Invariance, PTL

(* No individual is ever freed twice or used after it is freed, and none is   *)
(* lost: this holds for every command line that is accepted, also where the   *)
(* sizes do not fit, up to the access outside of an array.                    *)
THEOREM Ownership == Spec => [](OwnedOnce /\ NoLeak)
<1>1. Inv => OwnedOnce /\ NoLeak
  BY DEF Inv, OwnedBy, OwnedOnce, NoLeak
<1>. QED
  BY <1>1, Invariance, PTL

(* What is alive is in an array: the reductions free all that they drop. *)
THEOREM NothingLost == Spec => []NoLeak
<1>1. Inv => NoLeak
  BY DEF Inv, OwnedBy, NoLeak
<1>. QED
  BY <1>1, Invariance, PTL

(* With sizes that fit, every reduction finds the individuals it is asked for. *)
THEOREM SizesAreEnough == Spec => []NoOverrun
<1>1. Inv => NoOverrun
  BY DEF Inv
<1>. QED
  BY <1>1, Invariance, PTL

(* Every generation restores the population and empties the working arrays. *)
THEOREM GenerationRestores == Spec => []PopulationRestored
<1>1. Inv => PopulationRestored
  <2> SUFFICES ASSUME Inv, BetweenGenerations
               PROVE  /\ Len(arrays["parents"]) = params.parentPopulationSize
                      /\ \A a \in ArrayName \ {"parents"} : arrays[a] = <<>>
    BY DEF PopulationRestored
  <2>1. RestLengths
    BY DEF Inv, Lengths, BetweenGenerations
  <2>. QED
    BY <2>1, InvFacts DEF RestLengths, NothingChosen, Size, ArrayName
<1>. QED
  BY <1>1, Invariance, PTL

(* The global bBest never dangles where sendIndividual or a user's function   *)
(* reads it.                                                                  *)
THEOREM BestAlive == Spec => []BestIsAlive
<1>1. Inv => BestIsAlive
  BY DEF Inv
<1>. QED
  BY <1>1, Invariance, PTL

(* No selection, elitism or statistics reads a fitness that is not that of    *)
(* the genome.                                                                *)
THEOREM FitnessCurrent == Spec => []ComparedFitnessIsCurrent
<1>1. Inv => ComparedFitnessIsCurrent
  BY DEF Inv
<1>. QED
  BY <1>1, Invariance, PTL
=============================================================================
