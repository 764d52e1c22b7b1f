------------------------- MODULE SelectionOperators -------------------------
(***************************************************************************)
(* The selection operators of libeasea/CSelectionOperator.cpp, driven the  *)
(* two ways CPopulation drives them: produceOffspringPopulation asks for   *)
(* parents again and again, reducePopulation takes every individual it is  *)
(* given out of the array.                                                 *)
(*                                                                         *)
(* An individual is its fitness.  Index k of the program is index k + 1    *)
(* here.  A selection pressure is counted in hundredths, as in Parameters. *)
(* qsort is taken to sort, and the arithmetic on the weights to be exact. *)
(***************************************************************************)
EXTENDS Integers, Sequences, FiniteSets, Functions

CONSTANTS
  Fitness,      \* the fitness values an individual may have
  Calls,        \* the uses of an operator, see Call
  Populations   \* the arrays it is used on

Operators == {"Tournament", "Deterministic", "Random", "Roulette"}

(* A use of an operator: its name and pressure as given on the command line, *)
(* whether for a reduction, and how many individuals are asked for.          *)
Call == [name : Operators, minimizing : BOOLEAN, pressure : Int,
         reducing : BOOLEAN, obSize : Nat]

ASSUME FitnessAssumption == Fitness \subseteq Int
ASSUME CallsAssumption == Calls \subseteq Call
ASSUME PopulationsAssumption == Populations \subseteq Seq(Fitness) \ {<<>>}

VARIABLES
  call,         \* the use made of the operator
  pc,           \* "initialize", "select", "selected" or "wild"
  population,   \* the array, what a reduction took out of it left off
  drawn,        \* the indices that the running selectNext has drawn
  draws,        \* how many times it has drawn
  index,        \* the index it found best so far, then its result
  selected      \* what the caller has been given

vars == <<call, pc, population, drawn, draws, index, selected>>

-----------------------------------------------------------------------------
(* getSelectionOperator: the operator that stands behind a name *)
Operator ==
  IF call.name = "Roulette" /\ call.minimizing THEN "Tournament" ELSE call.name

(* currentSelectionPressure: a reduction hands its pressure on as an int *)
Pressure == IF call.reducing THEN (call.pressure \div 100) * 100 ELSE call.pressure

Better(f, g) == IF call.minimizing THEN f < g ELSE f > g

(* `for( size_t i = 0 ; i<currentSelectionPressure ; i++ )' *)
Draws == (Pressure + 99) \div 100

Reorderings(s) ==
  {[k \in DOMAIN s |-> s[order[k]]] : order \in Bijection(DOMAIN s, DOMAIN s)}

(* mutant of Precedes: Deterministic sorts ascending, whatever `minimizing' is *)
PrecedesAscending(f, g) == IF Operator = "Deterministic" THEN f < g ELSE f > g

(* the order of sortPopulation and sortRPopulation, as the operators choose it: *)
(* Deterministic puts the best last, Roulette the greatest first                *)
Precedes(f, g) == IF Operator = "Deterministic" THEN Better(g, f) ELSE f > g

(* what initialize may make of the array *)
Arranged(s) ==
  IF Operator \in {"Deterministic", "Roulette"}
    THEN {t \in Reorderings(s) : \A j, k \in DOMAIN s : j < k => ~Precedes(t[k], t[j])}
    ELSE {s}

(* the sum of the first k fitness values of s *)
Weight(s, k) == LET sum[j \in 0..k] == IF j = 0 THEN 0 ELSE sum[j - 1] + s[j] IN sum[k]

(* mutant of Spun: the comparison with the cumulated weight is not strict *)
SpunInclusive(s, q) ==
  LET Total == Weight(s, Len(s))
      Hit   == {k \in DOMAIN s : IF Total < 0 THEN q <= -Weight(s, k) ELSE q <= Weight(s, k)}
  IN  IF Total = 0 \/ Hit = {} THEN 1 ELSE CHOOSE k \in Hit : \A j \in Hit : k <= j

(* Where the wheel stops for a draw of q out of the total weight: the first  *)
(* index whose cumulated share exceeds the draw.  Dividing by a negative     *)
(* total turns the sign of a share, dividing by 0 leaves no share above.     *)
Spun(s, q) ==
  LET Total == Weight(s, Len(s))
      Hit   == {k \in DOMAIN s : IF Total < 0 THEN q < -Weight(s, k) ELSE q < Weight(s, k)}
  IN  IF Total = 0 \/ Hit = {} THEN 1 ELSE CHOOSE k \in Hit : \A j \in Hit : k <= j

AbsoluteTotal(s) == LET T == Weight(s, Len(s)) IN IF T < 0 THEN -T ELSE T

-----------------------------------------------------------------------------
Init ==
  /\ call \in Calls
  /\ population \in Populations
  /\ call.reducing => call.obSize <= Len(population)
  /\ pc = "initialize"
  /\ drawn = {} /\ draws = 0 /\ index = 1
  /\ selected = <<>>

Initialize ==
  /\ pc = "initialize"
  /\ pc' = "select"
  /\ population' \in Arranged(population)
  /\ UNCHANGED <<call, drawn, draws, index, selected>>

Selecting(op) == pc = "select" /\ Len(selected) < call.obSize /\ Operator = op

Return(k) ==
  /\ pc' = "selected"
  /\ index' = k
  /\ UNCHANGED <<call, population, drawn, draws, selected>>

(* mutant of DrawCompetitor: the best fitness is not updated with the index *)
DrawCompetitorAgainstFirst ==
  /\ Selecting("Tournament")
  /\ Pressure >= 200
  /\ draws < Draws
  /\ \E k \in DOMAIN population :
       /\ index' = IF drawn = {} \/ Better(population[k], population[CHOOSE d \in drawn : TRUE])
                     THEN k ELSE index
       /\ drawn' = drawn \cup {k}
  /\ draws' = draws + 1
  /\ UNCHANGED <<call, pc, population, selected>>

(* mutant of DrawCompetitor: the upper bound of the draw is not excluded *)
DrawCompetitorInclusive ==
  /\ Selecting("Tournament")
  /\ Pressure >= 200
  /\ draws < Draws
  /\ \E k \in 1..(Len(population) + 1) :
       /\ index' = IF drawn = {} \/ Better(population[k], population[index])
                     THEN k ELSE index
       /\ drawn' = drawn \cup {k}
  /\ draws' = draws + 1
  /\ UNCHANGED <<call, pc, population, selected>>

(* The body of the loop of MinTournament and MaxTournament::selectNext.  The    *)
(* fitness to beat starts at FLT_MAX, or -FLT_MAX, which every fitness beats    *)
(* but that one itself: the first individual drawn is the best so far.          *)
DrawCompetitor ==
  /\ Selecting("Tournament")
  /\ Pressure >= 200
  /\ draws < Draws
  /\ \E k \in DOMAIN population :
       /\ index' = IF drawn = {} \/ Better(population[k], population[index])
                     THEN k ELSE index
       /\ drawn' = drawn \cup {k}
  /\ draws' = draws + 1
  /\ UNCHANGED <<call, pc, population, selected>>

TournamentWon ==
  /\ Selecting("Tournament")
  /\ Pressure >= 200
  /\ draws = Draws
  /\ Return(index)

(* tossCoin: `rVal <= bias', rVal in 0.0 .. 1.0 *)
Toss(heads) == heads \/ Pressure < 100

(* the second branch of selectNext: index 0 is the answer when the individual *)
(* drawn first is not the better one                                          *)
TournamentOfTwo ==
  /\ Selecting("Tournament")
  /\ Pressure \in 1..100
  /\ \E i1, i2 \in DOMAIN population, heads \in BOOLEAN :
       /\ Toss(heads)
       /\ index' = IF Better(population[i1], population[i2])
                     THEN IF heads THEN i1 ELSE i2
                     ELSE 1
       /\ drawn' = {i1, i2}
  /\ pc' = "selected"
  /\ UNCHANGED <<call, population, draws, selected>>

(* the pressures that selectNext "doesn't handle" *)
TournamentUnhandled ==
  /\ Selecting("Tournament")
  /\ Pressure < 200
  /\ Pressure \notin 1..100
  /\ Return(1)

(* mutant of DeterministicSelect: it goes by the size that initialize was given *)
DeterministicSelectOldSize ==
  /\ Selecting("Deterministic")
  /\ Return(Len(population) + (IF call.reducing THEN Len(selected) ELSE 0))

DeterministicSelect == Selecting("Deterministic") /\ Return(Len(population))

(* random(0, n - 1) excludes its upper bound; with one individual the range is *)
(* 0 .. -1 on unsigned numbers, and any 32-bit number may come back            *)
RandomSelect ==
  /\ Selecting("Random")
  /\ \/ \E k \in 1..(Len(population) - 1) : Return(k)
     \/ /\ Len(population) = 1
        /\ pc' = "wild"
        /\ UNCHANGED <<call, population, drawn, draws, index, selected>>

RouletteSelect ==
  /\ Selecting("Roulette")
  /\ \E q \in {0} \cup 0..(AbsoluteTotal(population) - 1) : Return(Spun(population, q))

(* population[k] = population[size - 1], one individual fewer after *)
SwapOut(s, k) == [j \in 1..(Len(s) - 1) |-> IF j = k THEN s[Len(s)] ELSE s[j]]

(* mutant of Use: the last individual leaves the array, not the selected one *)
UseDropsLast ==
  /\ pc = "selected"
  /\ pc' = "select"
  /\ selected' = Append(selected, population[index])
  /\ population' = IF call.reducing THEN SubSeq(population, 1, Len(population) - 1)
                                    ELSE population
  /\ drawn' = {} /\ draws' = 0 /\ index' = 1
  /\ UNCHANGED call

(* the caller's use of the index: reducePopulation swaps the individual out *)
Use ==
  /\ pc = "selected"
  /\ pc' = "select"
  /\ selected' = Append(selected, population[index])
  /\ population' = IF call.reducing THEN SwapOut(population, index) ELSE population
  /\ drawn' = {} /\ draws' = 0 /\ index' = 1
  /\ UNCHANGED call

Done == pc = "wild" \/ (pc = "select" /\ Len(selected) = call.obSize)

Next ==
  \/ Initialize
  \/ DrawCompetitor \/ TournamentWon \/ TournamentOfTwo \/ TournamentUnhandled
  \/ DeterministicSelect \/ RandomSelect \/ RouletteSelect
  \/ Use
  \/ Done /\ UNCHANGED vars

Spec == Init /\ [][Next]_vars
-----------------------------------------------------------------------------
(* Properties *)

(* Every variable of a use has its type. *)
TypeOK ==
  /\ call \in Calls
  /\ pc \in {"initialize", "select", "selected", "wild"}
  /\ population \in Seq(Fitness)
  /\ drawn \subseteq 1..Len(population)
  /\ draws \in Nat
  /\ index \in Nat
  /\ selected \in Seq(Fitness)

(* Every index that selectNext returns is inside what is left of the array,   *)
(* however often reducePopulation has shortened it under the operator; the    *)
(* one operator that can do otherwise is Random, on its last individual.      *)
IndexInRange ==
  /\ pc = "selected" => index \in DOMAIN population
  /\ pc = "wild" => Operator = "Random" /\ Len(population) = 1

(* A tournament of n >= 2 returns one of its n competitors, and none of them  *)
(* is better, in either direction of optimisation.                            *)
TournamentReturnsBestDrawn ==
  pc = "selected" /\ Operator = "Tournament" /\ Pressure >= 200 =>
    /\ index \in drawn
    /\ \A d \in drawn : ~Better(population[d], population[index])

(* A Deterministic reduction keeps the best: the array stays sorted under the *)
(* swaps, so that nothing left behind is better than what has been taken.     *)
DeterministicKeepsBest ==
  Operator = "Deterministic" /\ call.reducing =>
    \A k \in DOMAIN selected, j \in DOMAIN population :
      ~Better(population[j], selected[k])

(* The wheel never stops at an individual without weight while another one    *)
(* has some, also in a reduction, where the array is no longer sorted.        *)
RouletteSkipsZero ==
  /\ pc = "selected" /\ Operator = "Roulette"
  /\ \A k \in DOMAIN population : population[k] >= 0
  /\ \E k \in DOMAIN population : population[k] > 0
  => population[index] > 0

PoolOf(s) == [f \in Range(s) |-> Cardinality({k \in DOMAIN s : s[k] = f})]

(* The operators and their callers do what the generation loop relies on:     *)
(* each answer is a member of the pool, and a reduction loses and doubles     *)
(* nobody, whatever was sorted and swapped in between.                        *)
AbstractSelection == INSTANCE Selection WITH
                       reducing <- call.reducing, pool <- PoolOf(population)
ImplementsSelection == AbstractSelection!Spec

(* "the best individual of 2 will be selection with the probability p": two    *)
(* are drawn, and the answer is as good as one of them, whichever the coin     *)
(* chooses, in a selection and in a reduction.                                 *)
TournamentOfTwoReturnsADrawn ==
  pc = "selected" /\ Operator = "Tournament" /\ call.pressure \in 1..99 =>
    \E d \in drawn : population[d] = population[index]
=============================================================================
