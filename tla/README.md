# TLA+ models of EASEA

EASEA translates a description of an optimisation problem (`.ez`) into a C++
program: the user's code is put into a template (`src/tpl/*.tpl`) and linked with
a runtime library (`src/libeasea`). These modules are about the program that
comes out of it: the generation loop, its selection operators, the exchange of
individuals between processes, the evaluation on several GPUs, the
multi-objective templates with their own loop, and the trees of genetic
programming.

## The system

| Part | Source | State | Operations | Hard to get right |
|---|---|---|---|---|
| Parameters | `tpl/STD.tpl` (`setDefaultParameters`), `libeasea/Parameters.cpp` | the sizes of a run | derive and validate the sizes | differences of unsigned sizes |
| Generation loop and population | `libeasea/CEvolutionaryAlgorithm.cpp`, `libeasea/CPopulation.cpp`, the individual of `tpl/STD.tpl` | arrays of pointers to individuals, `Best`, `bBest`, counters | initialise, evaluate, produce, elitism, three reductions, sort, statistics | who owns an individual and frees it; sizes; dangling `bBest`; cached fitness |
| Selection operators | `libeasea/CSelectionOperator.cpp`, `libeasea/CRandomGenerator.cpp` | the array and the pressure they were given | `initialize`, `selectNext` | the array shrinks and is swapped under the operator; ranges of random numbers |
| Island model | `CEvolutionaryAlgorithm::sendIndividual`, `receiveIndividuals`, `libeasea/CComUDPLayer.cpp` | a queue, a mutex, a receive buffer | send, receive, server thread | two threads, an unreliable network, in-place immigration |
| CUDA evaluation | `tpl/CUDA.tpl` | two semaphores per card, shares, memory of the cards | dispatch, wake up, copy, launch, free | hand-made synchronisation, counting on both sides |
| Stopping criteria | `libeasea/CStoppingCriterion.cpp` | limit, flag set by Ctrl-C, elapsed time | `reached` | |
| Multi-objective templates | `tpl/STD_MO.tpl`, `tpl/CUDA_MO.tpl` | a loop and arrays of their own, two objectives and a rank per individual, the list of those not ranked yet | rank the parents and the offspring, produce, elitism, reduce the total | a list that shrinks under an index; objectives that a copy does not take along; deletion by a count; an elite chosen by the operator's extremum |
| Genetic programming | `libeasea/CGPNode.cpp`, `tpl/GP.tpl`, `tpl/CUDA_GP.tpl` | trees | construct, choose a node, mutate, cross | subtrees handed on by pointer; depths computed in four ways; a stack of fixed size |
| Memetic templates | `tpl/*_MEM.tpl` | | local optimisation | they do not compile |
| CMA-ES | `libeasea/CCmaes*.cpp`, `tpl/CMAES*.tpl` | matrices | | floating point |
| Options, statistics, plotting, compiler | `COptionParser.cpp`, `CStats.cpp`, `CGrapher.cpp`, `easeagrapher/`, `compiler/` | | | |

The loop calls the population, the population calls the operators. The population
holds the only references to the individuals, except for `Best` and `bBest`, which
point into it and which the sending of individuals and user functions dereference.
The UDP server thread shares a vector with the loop, under a mutex that the loop
does not take to read the size. The CUDA template replaces the evaluation of the
two arrays by one that wakes a thread per card. The multi-objective templates do
not use the library's loop, population or operators: they bring their own. The
trees are the genomes of a program with the library's loop.

What makes each part correct is stated as the properties of its module; the list
of hazards in `PROJECT.json` says at which lines they could go wrong.

## The modules

**`Parameters`** computes the `Parameters` object from the command line and
says which sizes are accepted (`Accepted`, with the wrap-around of `unsigned`) and
which fit (`SizesFit`). `--survivingParents` is a real number in the program, in
hundredths here.

**`EvolutionaryAlgorithm`** is the loop. Individuals are addresses in `heap`, and
the arrays (`parents`, `offsprings`, `elitPop`, `nextGeneration`,
`globalPopulation`) are sequences of addresses; the length of a sequence is the
`actual...Size` of the program. Each round of a C++ loop that chooses an individual
is a step (`StrongElitism`, `WeakElitism`, `ReduceOne`, `ProduceOffspring`,
`ReceiveIndividual`), so that a count that is wrong at any round shows. The end of a
reduction frees as many individuals as the code counts (`LeftOver`), from the front
of the array, whatever is still in it. The genome
of an individual is the fitness it evaluates to; a deserialised individual has a
fitness of its own. A step that would read outside of an array goes to `overrun`.
**`GenerationReport`** is what the statistics promise; `EvolutionaryAlgorithm`
implements it.

**`SelectionOperators`** is `initialize` and `selectNext` of every operator, under
its two callers, the selection of parents and `reducePopulation`.
**`Selection`** is what the callers rely on; `SelectionOperators` implements it,
an array being mapped to the bag of its fitness values. `EvolutionaryAlgorithm`
lets any valid index be chosen: it uses the promise, not the operators.

**`IslandModel`** has a set of islands with two threads each and a network. The
steps are the calls at which the threads can meet: the look at the size, lock,
`back()`, `pop_back()`, unlock; `recvfrom`, lock, `push_back`, unlock. A
datagram that arrives is numbered, so that its way can be followed. The end of
`main` is a step of its own (`ReturnFromMain`): no program deletes its algorithm, so
the destructor that would cancel the server thread never runs, and the thread ends
with the process, wherever it is.

**`CudaEvaluation`** has the main thread and one thread per card, with the two
semaphores of each card. The fitness of individual *k* of evaluation *r* is the
pair of the two numbers, so that a result in the wrong place or of an earlier
evaluation is told apart. `Spread` is the loop that sizes the launch of a kernel;
an individual behind the last thread of the launch gets no fitness.

**`MultiObjective`** is the program of `STD_MO.tpl` and `CUDA_MO.tpl`, which
differ in how the ranks are given and in when the objectives are computed
(`line.template`). A round of `evaluateMoPopulation` is a step (`RankFront`), as is
each round of elitism and reduction. A genome is the pair of objectives it
evaluates to, so that objectives that are not the individual's own are told apart
(`heap[a].f` against `heap[a].genome`). An array access that needs
`rand() == RAND_MAX` goes to the state `wild`, as does an elite larger than the
population, which nothing in these templates refuses (`EliteOverrun`).

**`GPTrees`** is a population of trees under `RAMPED_H_H`, `simple_mutator` and
`simpleCrossOver`. A tree maps the paths of its nodes to the arity of their
operation; a path may hang under a terminal, where the program has a child
pointer that it does not follow.

**`ArrayTheorems`** holds the lemmas that several proof modules use: arrays of
addresses and what moves do to them, who owns an individual (`MoveOwned`,
`AppendOwned`), sums of the first places of an array (`SumStep`), and the
induction over natural numbers in the form of a set (`SetInduction`).

The `MC...` modules give the constants their values for TLC, the
`..._proofs` modules hold theorems. Definitions whose name has a suffix and whose
comment says "mutant of" are plausible mistakes in the code; each property of a
passing run is violated by one of them.

## The runs

| Run | Shows | Bounds |
|---|---|---|
| `EvolutionaryAlgorithm.cfg` | type; `OwnedOnce`, `NoLeak`: no individual is in two arrays, freed twice or never; `NoOverrun`: sizes that fit are enough; `PopulationRestored`; `BestIsAlive`; `ComparedFitnessIsCurrent`; `EliteIsTheBest`; `ImplementsReport`; `Termination` | ten command lines: both elitisms, an elite of none, one or all, each reduction on and off, both directions, immigration, start from a file, refused sizes and sizes accepted through wrap-around; two or three parents, up to three offspring, three fitness values, one or two generations after the first |
| `EvolutionaryAlgorithmSizes.cfg` | *violation*: sizes that are accepted and overrun | one line, and one that fits |
| `SelectionOperators.cfg` | `IndexInRange`, `TournamentReturnsBestDrawn`, `DeterministicKeepsBest`, `RouletteSkipsZero`, `ImplementsSelection` | all arrays of one to three individuals over the fitness values -1, 0, 1; pressures 0.5, 1, 1.5, 2, 2.5 |
| `SelectionOperatorsFraction.cfg` | *violation*: a tournament with a pressure below 1.0 | the same arrays, as selection and as reduction |
| `IslandModel.cfg` | `NeverPopsEmpty`, `QueueIsExclusive`, `EachArrivalOnce`, `LaterMigrantsIntact`, `EveryIslandStops` | two islands, one sending to the other, three generations, three arrivals, duplicates included |
| `IslandModelBest.cfg` | *violation*: what is sent is not the best | both send, one arrival each, two individuals |
| `CudaEvaluation.cfg` | `ThreadsSleep`, `FitnessIsItsOwn`, `CopiesFitDeviceMemory`, `DeviceMemoryFreed`, `Termination` | eight machines with no card to three cards, unequal shares, more and fewer offspring than parents; warps of two threads and blocks of at most two or three, so that the loop of the launch takes one to three turns and rounds in both directions; three evaluations |
| `CudaEvaluationShares.cfg` | *violation*: the share of the last card is negative | five individuals on four equal cards |
| `MultiObjective.cfg` | type; `OwnedOnce`; `RanksArePareto`: the rounds of `CUDA_MO` give the ranks of the fronts; `ComparedObjectivesAreCurrent`; `DeterministicKeepsBestRanks`; `Termination` | nine programs: both templates, both elitisms, an elite larger than the population, each operator for selection and replacement, both directions; four individuals alive at once, objectives 0 and 1, one or two generations |
| `MultiObjectiveRanks.cfg` | *violation*: the ranks of `STD_MO` are not those of the fronts | three parents |
| `MultiObjectiveElite.cfg` | *violation*: whom elitism saves is not the best | two parents, one offspring, a weak elite of one, a Deterministic replacement, minimizing |
| `GPTrees.cfg` | `TreesAreComplete`: every argument is there; `HiddenUnderLeaves`: where subtrees get that no function visits; `InitialDepthsInRange`: how far the ramp of depths goes, also when its division is rounded; `StackBoundedByDepth`; `DepthIsBounded`: how far each operation may pass the limit | six programs with operations of one, two or both arities, depths up to four, up to three trees, any two mutations or crossovers |

Why these bounds are enough for what they ask: a second generation starts
from the arrays that the first one left, and a third shows that nothing
accumulates; three members are the fewest for which a swap with the last one moves
something that is neither first nor last; the third datagram is the first
that is read into a buffer cleared twice, and it can meet two in the queue; the
third evaluation is the first for which a card allocates no memory; with two
objectives of two values there are fronts of several individuals, equal ones,
and chains of three ranks; the second operation on the trees is the first that
meets what a mutation has left under a terminal.

`UintModulus` is 1024 for TLC: larger than every size, so that wrapping is told
from not wrapping as with 2^32. `nbGen` bounds the generations, `MaxGenerations`,
`MaxArrivals` and `MaxRounds` the islands, the network and the evaluations,
`MaxOperations` the mutations and crossovers of the trees.

**Fairness.** The loop of the library and that of the multi-objective templates are
one thread that is never blocked: `WF_vars(Next)`. Both
threads of an island, and the main thread and the thread of each card, are
scheduled: one weak fairness condition for each. None is assumed of the network. It
is assumed of whole threads, not of their steps: nothing is said about which
branch is taken. An island stops only because `MaxArrivals` bounds what arrives;
with arrivals for ever, `while (size() != 0)` need not end. In
`EvolutionaryAlgorithm`, where arrivals are not bounded, `Termination` is about
runs without immigration.

## The violations

1. `setDefaultParameters` accepts sizes with which the elite and the surviving
   parents together are more than the parents (`STD.tpl:262`): popSize 3, two
   surviving parents, elite 2, strong elitism. The second turn of the reduction then
   chooses among no individuals and reads at an index below its array.
2. A tournament with a pressure below 1.0 answers index 0 when the first of its
   two individuals is not the better one (`CSelectionOperator.cpp:172`), where the
   manual promises one of the two. Every pressure below 1.0 of a reduction
   gets there, as `reducePopulation` takes it as an `int`, 0.
3. An immigrant may overwrite the individual `bBest` points to, and is then sent
   as "my best individual" (`CEvolutionaryAlgorithm.cpp:528`).
4. The shares of the cards are rounded up one by one; the last card may be left
   with a negative one (`CUDA.tpl:138`).
5. `STD_MO` counts the non-dominated individuals of its list and then ranks as many
   from its head: `Individual_list_get` ignores the index it is given
   (`STD_MO.tpl:847`), so that the individual called
   `non_dominated_individual` (`STD_MO.tpl:928`) may be a dominated one. `CUDA_MO`
   ranks the individuals it has found.
6. `elitism` of the multi-objective templates, which is to "save elit individuals"
   (`STD_MO.tpl:1132`), starts from the extremum that nobody beats in its direction
   and keeps index 0 (`STD_MO.tpl:1156`): after the sort of a Deterministic
   replacement the worst of all.

## What is proved

For every value of the constants, under the named assumptions of the modules
(fitness values are numbers and `None` is not one of them, nor is it a row of the
statistics; the modulus is positive; the command lines, programs and machines have
their types; an island is not its own client). All safety properties, action properties
and refinements of the passing runs are proved; liveness is not.

**`EvolutionaryAlgorithm_proofs`**: `TypeCorrect`, `Ownership` (`OwnedOnce`),
`NothingLost` (`NoLeak`), `SizesAreEnough` (`NoOverrun`), `GenerationRestores`
(`PopulationRestored`), `BestAlive` (`BestIsAlive`), `FitnessCurrent`
(`ComparedFitnessIsCurrent`). The inductive invariant is the type, ownership,
and for each value of `pc` what the lengths of the five arrays are (`Lengths`).
Ownership is not inductive without the type, and the lengths are what ownership
cannot give: that a reduction finds enough individuals follows from
`SizesFit` and from what elitism and the reductions before it have left, counted
exactly at each place of the loop; `BestIsAlive` needs the population to be
non-empty there. One lemma per action and conjunct.

**`GenerationReport_proofs`**: `EliteSetAside` (`EliteIsTheBest`) and
`ReportImplemented` (`ImplementsReport`), a step simulation with the refinement
mapping of `EvolutionaryAlgorithm`. What it takes is where the best individual is
at each place of the loop: nothing in the arrays that elitism has passed over beats
the elite (`EliteBest`), somebody who is as good as the last row of the statistics
is kept through elitism, reductions and replacement (`Kept`), and the counters agree
with the last row (`Counts`).

**`SelectionOperators_proofs`**: `TypeCorrect`, `IndicesInRange`, `TournamentsAreFair`
(`TournamentReturnsBestDrawn`), `DeterministicTakesBest` (`DeterministicKeepsBest`),
`WheelSkipsZero` (`RouletteSkipsZero`), `SelectionImplemented`
(`ImplementsSelection`). The invariant says that enough individuals are left
(`Enough`), what a tournament knows of those it has drawn (`Drawing`), and that the
end of a sorted array is still the best of it after any number of swaps
(`BestLast`). The weights of the wheel are sums: a total of the wheel and the
place a draw falls on come by `SetInduction`. The refinement maps an array to the
bag of its fitness values; a swap with the last place is a bijection of the
remaining places, which the count of each value follows.

**`IslandModel_proofs`**: `IslandsTyped` (`TypeOK`), `QueueExclusive`
(`QueueIsExclusive`), `QueueNotEmpty` (`NeverPopsEmpty`), `MigrantsOnce`
(`EachArrivalOnce`), `LaterMigrants` (`LaterMigrantsIntact`). The invariant says for
each island which thread the mutex belongs to (`MutexIsHeld`), what the unlocked
look at the size leaves behind (`SizeStillHolds`: the queue has something in it,
or a push is under way, which must end before the mutex is free), and what the
threads carry from step to step (`Carried`). `NeverPopsEmpty` alone is not
inductive: between the look and the lock nothing it says holds. An action touches
one island; `UntouchedInv` is about all others. For the way of a datagram the
invariant is extended: the numbers that have arrived are divided among the
stations (parents, queue, the server thread's hands, socket), each with one owner
(`OnTheWay`), and the socket holds the last numbers as they were sent, behind a
buffer that is dirty before the first read only (`Intact`).

**`CudaEvaluation_proofs`**: `TypeCorrect`, `ThreadsRest` (`ThreadsSleep`), `OwnFitness`
(`FitnessIsItsOwn`), `CopiesFit` (`CopiesFitDeviceMemory`), `MemoryFreed`
(`DeviceMemoryFreed`). The invariant gives each card one token during a wake-up: in
its first semaphore, in the hands of its thread, or in its second semaphore
(`HasToken`, `Tokens`); `next` tells which cards have theirs. From the token follows
how often the thread has been through its preliminary process, counted against
`round` (`Memory`), and which results of the evaluation are there (`Results`).
`SharesCover` is the arithmetic of `dispatchPopulation`: when every share is
positive, the shares lie inside the population and cover it, by an induction over
the cards. That is why `FitnessIsItsOwn` asks for shares that fit. `SpreadCovers` is
that of `cudaPreliminaryProcess`: its loop ends, at the latest with as many turns as
there are individuals, and the launch has a thread for each. It needs a warp to fit
in a block (`ConfigsAssumption`).

**`MultiObjective_proofs`**: `TypeCorrect`, `Ownership` (`OwnedOnce`), `ParetoRanks`
(`RanksArePareto`), `ObjectivesAreCurrent` (`ComparedObjectivesAreCurrent`),
`BestRanksKept` (`DeterministicKeepsBestRanks`). Ranking is a peeling: those
ranked so far have the ranks of the fronts among themselves, whoever is left is
dominated by one of the last front and dominates nobody ranked. That an individual
which is not on the front is dominated by one which is takes a dominator with
the least sum of objectives. For ownership the lengths of the arrays are counted
through both elitisms, as the code deletes by a count of its own; for the
replacement, the array is still sorted after a swap with its end.

**`GPTrees_proofs`**: `Complete` (`TreesAreComplete`), `Hidden` (`HiddenUnderLeaves`),
`InitialDepths` (`InitialDepthsInRange`), `StackBounded` (`StackBoundedByDepth`),
`DepthBounded` (`DepthIsBounded`), all from `Invariance` (`[]Inv`).
`TreesAreComplete` speaks of the nodes that are visited; to cut, copy and number
nodes one must also know that a tree is finite and what hangs where nobody looks.
`Tree` says all of it, of each node and its neighbours only: the arguments
are there, and what else hangs at a node is the first child pointer of a terminal.
`Subtree`, `Grafted` and `Operation` keep it (`SubtreeIsTree`, `GraftedIsTree`,
`OperationIsTree`), and what they do to the nodes that are visited and to the depth
follows by induction along paths (`PathInduction`). The rest of `Inv`: the
nodes chosen for an operation are nodes of their trees (`ChosenInv`), a graft was
accepted or the crossover given up (`AcceptedInv`), the trees made so far have the
depths asked for (`CreatedInv`); the rounded quotient of the ramp is bounded in
`QuotientBelow`. Three arguments carry most of the proof:
* `construction_method` is a recursive function on the depth. That a function
  solves its equation is shown by growing one from depth to depth (`BuildsExist`,
  `BuildsAgree`); then each tree it gives is a `Tree` no deeper than asked for, and
  a full one exactly so deep (`ConstructionMethod`).
* `pickNthNode` numbers the nodes from the root, first arguments first. `Before` is a
  total order (`BeforeTransitive`, `BeforeTotal`), so that every number from 0 to the
  size less one has a node (`PickNthNode`) and the `CHOOSE` of the model is
  the node the code finds.
* The stack: popping a node pushes as many as its arity, so the sum in `StackPointer`
  counts the children of the nodes popped that were not popped themselves
  (`GainsOfNodes`). Each is the node on top or the right neighbour of a node on
  the way to it (`Pending`), so there is at most one per level.

Model-checked only: liveness (`Termination` of three modules, `EveryIslandStops`);
the prover does not reason about fairness. The induction theorems of the library
take an operator as a parameter and cannot be used with these provers;
`SetInduction` and `PathInduction` have a set instead, which is enough for sums,
paths and the recursive functions that the models define.

## What is left out

* User code: genomes, operators, evaluators, bound checking and the hooks around a
  generation. A mutation or a crossover gives any genome; bound checking nothing.
* Formatting, files, plotting, timing, averages; the population that is saved or
  printed at the end.
* `qsort` is taken to sort. Its comparison function never answers -1; whether an
  implementation sorts with it is not modelled.
* Real arithmetic is exact: weights of the roulette, shares of the cards.
  A draw of the roulette is one of finitely many places on the wheel.
* The draws of a pseudo-random generator are any values of their range.
* `parse_file`, address parsing and the limit on the size of what is sent.
* The kernel itself, which evaluates an individual per thread; a share that is not
  positive ends the program, as the failing allocation or launch does. The warps
  and the largest block are those of one model of card per machine. The launch of
  `CUDA_MO` (`repartition`), whose literals concern populations beyond 7200.
* What a tree of genetic programming computes and how it is printed; how likely a
  node is to be chosen; the overflow of the stack of `pickNthNode`, which needs a tree
  more than `MAX_ARITY` times as deep as `TREE_DEPTH_MAX`. Grafts and root mutations
  may get there in time: no property excludes it.
* What a program does when `Random` is used on one individual
  (`CSelectionOperator.cpp:112`): the range of the draw wraps around, and the model
  ends the run in a state `wild`, which `IndexInRange` leaves out. Likewise the
  objectives that `STD_MO` gives to a copy (`STD_MO.tpl:131`): the model has them,
  and `ComparedObjectivesAreCurrent` is about all other individuals.
* What the server thread of an island does between the end of `main` and that of
  its process.
* `reduceParentPopulation` and `reduceOffspringPopulation` of the multi-objective
  templates, which nothing calls: the variables that ask for them stay 0. What a
  program does after it has read behind an array (`wild`).
* The memetic templates: at this commit no program comes out of them.
  `STD_MEM.tpl:386` and `CMAES_CUDA.tpl:499` construct `CPopulation` with seven
  arguments where the library has eight (`CPopulation.h:64`), and `CUDA_MEM.tpl:233`
  sets `isImmgrant`, which an individual does not have.
* CMA-ES (floating-point linear algebra), the lexer and parser of the compiler,
  vendored Boost, `old/`, `examples/`, the Windows variants.

## Plan

Done: `Parameters`, `EvolutionaryAlgorithm`, `SelectionOperators`, `IslandModel`,
`CudaEvaluation`, `MultiObjective`, `GPTrees` and their runs; both refinements;
theorems for all safety and action properties of the passing runs.

Next, modules:
1. The stopping criteria with the signal handler as a module of its own, composed
   with the loop.
2. The memetic evaluation, once its templates fit the library again.
3. The start conditions of the compiler's lexer: which parts of a template are
   copied, and in which order the user's sections are read.

Next, proofs:
1. The safety half of `Termination`: a variant of the loop that every step of a
   generation lowers.
2. That `pickNthNode` gives each node one number, not only each number a node.
