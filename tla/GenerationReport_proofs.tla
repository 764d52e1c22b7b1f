---------------------- MODULE GenerationReport_proofs ----------------------
(***************************************************************************)
(* What the generation loop does with its best individuals, for every      *)
(* population size, elite, kind of elitism and reduction: elitism sets the *)
(* best aside, and the statistics of the run are those of GenerationReport. *)
(***************************************************************************)
EXTENDS EvolutionaryAlgorithm_proofs

-----------------------------------------------------------------------------
(* Comparing individuals *)

Comparing == pc \notin {"initialize", "produce"}

(* Where individuals are compared, their fitness is a number. *)
LEMMA FitnessIsNumber ==
  ASSUME Inv, Comparing
  PROVE  /\ \A i \in DOMAIN heap : Fit(i) \in Int /\ Fit(i) \in Fitness
         /\ params.minimizing \in BOOLEAN
         /\ \A a \in ArrayName : Range(arrays[a]) \subseteq DOMAIN heap
<1>1. ASSUME NEW i \in DOMAIN heap
      PROVE  heap[i].fitness \in Fitness
  <2>1. heap[i] \in Individual /\ heap[i].valid
    BY DEF Inv, TypeOK, ComparedFitnessIsCurrent, Comparing
  <2>2. heap[i].fitness \in IF Imports THEN Fitness ELSE {heap[i].genome}
    BY <2>1 DEF Inv, ComparedFitnessIsCurrent
  <2>. QED
    BY <2>1, <2>2 DEF Individual
<1>2. \A i \in DOMAIN heap : heap[i].fitness \in Int
  BY <1>1, FitnessAssumption
<1>3. params.minimizing \in BOOLEAN
  BY InvFacts DEF ParametersType
<1>4. \A a \in ArrayName : Range(arrays[a]) \subseteq DOMAIN heap
  BY DEF Inv, OwnedBy
<1>. QED
  BY <1>1, <1>2, <1>3, <1>4 DEF Fit

(* A scan of an array that is not empty ends somewhere. *)
LEMMA BestExists ==
  ASSUME NEW s, NEW n \in Nat, n = Len(s), n > 0,
         \A j \in 1..n : Fit(s[j]) \in Int
  PROVE  \E k \in 1..n : BestIn(s, k)
<1> DEFINE T == {m \in Nat : m \in 1..n =>
                   \E k \in 1..m : \A j \in 1..m : ~Better(Fit(s[j]), Fit(s[k]))}
<1>1. 0 \in T
  OBVIOUS
<1>2. ASSUME NEW m \in Nat, m \in T
      PROVE  m + 1 \in T
  <2> SUFFICES ASSUME m + 1 \in 1..n
               PROVE  \E k \in 1..(m + 1) : \A j \in 1..(m + 1) : ~Better(Fit(s[j]), Fit(s[k]))
    OBVIOUS
  <2>1. CASE m = 0
    <3>1. \A j \in 1..(m + 1) : j = 1 /\ Fit(s[1]) \in Int
      BY <2>1
    <3>. QED
      BY <2>1, <3>1 DEF Better
  <2>2. CASE m > 0
    <3>1. PICK k \in 1..m : \A j \in 1..m : ~Better(Fit(s[j]), Fit(s[k]))
      BY <1>2, <2>2
    <3>2. CASE Better(Fit(s[m + 1]), Fit(s[k]))
      <4>1. ASSUME NEW j \in 1..(m + 1)
            PROVE  ~Better(Fit(s[j]), Fit(s[m + 1]))
        <5>1. Fit(s[j]) \in Int /\ Fit(s[k]) \in Int /\ Fit(s[m + 1]) \in Int
          OBVIOUS
        <5>2. CASE j = m + 1
          BY <5>1, <5>2 DEF Better
        <5>3. CASE j \in 1..m
          <6>1. ~Better(Fit(s[j]), Fit(s[k]))
            BY <3>1, <5>3
          <6>. QED
            BY <3>2, <5>1, <6>1 DEF Better
        <5>. QED
          BY <5>2, <5>3
      <4>. QED
        BY <4>1
    <3>3. CASE ~Better(Fit(s[m + 1]), Fit(s[k]))
      <4>1. \A j \in 1..(m + 1) : j \in 1..m \/ j = m + 1
        OBVIOUS
      <4>. QED
        BY <3>1, <3>3, <4>1
    <3>. QED
      BY <3>2, <3>3
  <2>. QED
    BY <2>1, <2>2
<1>3. n \in T
  <2> HIDE DEF T
  <2>1. \A m \in Nat : m \in T
    BY <1>1, <1>2, SetInduction
  <2>. QED
    BY <2>1
<1>. QED
  BY <1>3 DEF BestIn

-----------------------------------------------------------------------------
(* Elitism *)

(* A move takes one individual from one array to another. *)
LEMMA MoveRanges ==
  ASSUME Inv, NEW from \in ArrayName, NEW to \in ArrayName, from # to,
         NEW k \in 1..Len(arrays[from]), Move(from, k, to)
  PROVE  /\ arrays[from][k] \in Range(arrays[from])
         /\ Range(arrays'[from]) = Range(arrays[from]) \ {arrays[from][k]}
         /\ Range(arrays'[to]) = Range(arrays[to]) \cup {arrays[from][k]}
         /\ \A a \in ArrayName \ {from, to} : arrays'[a] = arrays[a]
<1>1. /\ arrays \in [ArrayName -> Seq(Individuals)]
      /\ OwnedBy(ArrayName, arrays, DOMAIN heap)
  BY InvFacts
<1>2. /\ arrays[from] \in Seq(Individuals) /\ IsInjective(arrays[from])
      /\ arrays[to] \in Seq(Individuals) /\ IsInjective(arrays[to])
      /\ Range(arrays[from]) \cap Range(arrays[to]) = {}
  BY <1>1 DEF OwnedBy
<1>3. /\ arrays'[from] = Without(arrays[from], k)
      /\ arrays'[to] = Append(arrays[to], arrays[from][k])
      /\ \A a \in ArrayName \ {from, to} : arrays'[a] = arrays[a]
  BY <1>1 DEF Move, SwapOut, Without
<1>4. arrays[from][k] \in Range(arrays[from]) /\ arrays[from][k] \in Individuals
  BY <1>2, RangeOfArray
<1>5. arrays[from][k] \notin Range(arrays[to])
  BY <1>2, <1>4
<1>. QED
  BY <1>2, <1>3, <1>4, <1>5, SwapOutRange, AppendRange

(* the arrays that elitism chooses from *)
Candidates == {"parents"} \cup (IF params.strongElitism THEN {} ELSE {"offsprings"})

(* Both loops of elitism move one individual, and none of those it could have *)
(* been chosen from is better.                                                *)
LEMMA ElitismMovesBest ==
  ASSUME Inv, StrongElitism \/ WeakElitism
  PROVE  \E from \in Candidates : \E k \in 1..Len(arrays[from]) :
           /\ Move(from, k, "elitPop")
           /\ \A a \in Candidates : \A i \in Range(arrays[a]) :
                ~Better(Fit(i), Fit(arrays[from][k]))
<1>1. pc = "elitism" /\ Comparing
  BY DEF StrongElitism, WeakElitism, EliteWanted, Comparing
<1>2. /\ \A i \in DOMAIN heap : Fit(i) \in Int
      /\ \A a \in ArrayName : Range(arrays[a]) \subseteq DOMAIN heap
  BY <1>1, FitnessIsNumber
<1>3. PICK par : par = arrays["parents"]
  OBVIOUS
<1>4. PICK off : off = arrays["offsprings"]
  OBVIOUS
<1>5. PICK m \in Nat : m = Len(par)
  BY <1>3, InvFacts DEF ArrayName
<1>6. PICK n \in Nat : n = Len(off) /\ (n = 0 <=> off = <<>>)
  BY <1>4, InvFacts DEF ArrayName
<1>7. /\ Range(par) = {par[j] : j \in 1..m} /\ Range(off) = {off[j] : j \in 1..n}
      /\ \A j \in 1..m : Fit(par[j]) \in Int
      /\ \A j \in 1..n : Fit(off[j]) \in Int
  <2>1. par \in Seq(Individuals) /\ off \in Seq(Individuals)
    BY <1>3, <1>4, InvFacts DEF ArrayName
  <2>2. Range(par) = {par[j] : j \in 1..m} /\ Range(off) = {off[j] : j \in 1..n}
    BY <1>5, <1>6, <2>1, RangeOfArray
  <2>3. Range(par) \subseteq DOMAIN heap /\ Range(off) \subseteq DOMAIN heap
    BY <1>2, <1>3, <1>4 DEF ArrayName
  <2>. QED
    BY <1>2, <2>2, <2>3
<1>8. CASE StrongElitism
  <2>1. params.strongElitism
    BY <1>8 DEF StrongElitism
  <2>2. PICK k \in 1..m : BestIn(par, k) /\ Move("parents", k, "elitPop")
    BY <1>3, <1>5, <1>8 DEF StrongElitism
  <2>3. \A i \in Range(par) : ~Better(Fit(i), Fit(par[k]))
    BY <1>5, <1>7, <2>2 DEF BestIn
  <2>4. Candidates = {"parents"}
    BY <2>1 DEF Candidates
  <2>. QED
    BY <1>3, <1>5, <2>2, <2>3, <2>4
<1>9. CASE WeakElitism
  <2>1. Candidates = {"parents", "offsprings"}
    BY <1>9 DEF WeakElitism, Candidates
  <2>2. PICK wins : wins = [k \in 1..m |->
                               off = <<>> \/ \A j \in 1..n : Better(Fit(par[k]), Fit(off[j]))]
    OBVIOUS
  <2>3. \/ \E k \in 1..m : BestIn(par, k) /\ wins[k] /\ Move("parents", k, "elitPop")
        \/ \E k \in 1..n : /\ BestIn(off, k)
                           /\ \A j \in 1..m : BestIn(par, j) => ~wins[j]
                           /\ Move("offsprings", k, "elitPop")
    BY <1>3, <1>4, <1>5, <1>6, <1>9, <2>2 DEF WeakElitism
  <2>4. ASSUME NEW k \in 1..m, BestIn(par, k), wins[k], Move("parents", k, "elitPop")
        PROVE  \A a \in Candidates : \A i \in Range(arrays[a]) : ~Better(Fit(i), Fit(par[k]))
    <3>1. \A j \in 1..m : ~Better(Fit(par[j]), Fit(par[k]))
      BY <1>5, <2>4 DEF BestIn
    <3>2. ASSUME NEW j \in 1..n
          PROVE  ~Better(Fit(off[j]), Fit(par[k]))
      <4>1. Better(Fit(par[k]), Fit(off[j]))
        <5>1. off # <<>>
          BY <1>6
        <5>2. off = <<>> \/ \A l \in 1..n : Better(Fit(par[k]), Fit(off[l]))
          BY <2>2, <2>4
        <5>. QED
          BY <5>1, <5>2
      <4>2. Fit(par[k]) \in Int /\ Fit(off[j]) \in Int
        BY <1>7
      <4>. QED
        BY <4>1, <4>2 DEF Better
    <3>. QED
      BY <1>3, <1>4, <1>7, <2>1, <3>1, <3>2
  <2>5. ASSUME NEW k \in 1..n, BestIn(off, k), \A j \in 1..m : BestIn(par, j) => ~wins[j]
        PROVE  \A a \in Candidates : \A i \in Range(arrays[a]) : ~Better(Fit(i), Fit(off[k]))
    <3>1. \A j \in 1..n : ~Better(Fit(off[j]), Fit(off[k]))
      BY <1>6, <2>5 DEF BestIn
    <3>2. ASSUME NEW i \in 1..m
          PROVE  ~Better(Fit(par[i]), Fit(off[k]))
      <4>1. PICK j \in 1..m : BestIn(par, j)
        <5>1. m > 0
          OBVIOUS
        <5>. QED
          BY <1>5, <1>7, <5>1, BestExists
      <4>2. PICK l \in 1..n : ~Better(Fit(par[j]), Fit(off[l]))
        BY <2>2, <2>5, <4>1
      <4>3. ~Better(Fit(off[l]), Fit(off[k])) /\ ~Better(Fit(par[i]), Fit(par[j]))
        BY <1>5, <3>1, <4>1 DEF BestIn
      <4>4. /\ Fit(par[i]) \in Int /\ Fit(par[j]) \in Int /\ Fit(off[k]) \in Int
            /\ Fit(off[l]) \in Int
        BY <1>7
      <4>. QED
        BY <4>2, <4>3, <4>4 DEF Better
    <3>. QED
      BY <1>3, <1>4, <1>7, <2>1, <3>1, <3>2
  <2>6. CASE \E k \in 1..m : BestIn(par, k) /\ wins[k] /\ Move("parents", k, "elitPop")
    <3>1. PICK k \in 1..m : BestIn(par, k) /\ wins[k] /\ Move("parents", k, "elitPop")
      BY <2>6
    <3>2. \A a \in Candidates : \A i \in Range(arrays[a]) : ~Better(Fit(i), Fit(par[k]))
      BY <2>4, <3>1
    <3>. QED
      BY <1>3, <1>5, <2>1, <3>1, <3>2
  <2>7. CASE \E k \in 1..n : /\ BestIn(off, k)
                             /\ \A j \in 1..m : BestIn(par, j) => ~wins[j]
                             /\ Move("offsprings", k, "elitPop")
    <3>1. PICK k \in 1..n : /\ BestIn(off, k)
                            /\ \A j \in 1..m : BestIn(par, j) => ~wins[j]
                            /\ Move("offsprings", k, "elitPop")
      BY <2>7
    <3>2. \A a \in Candidates : \A i \in Range(arrays[a]) : ~Better(Fit(i), Fit(off[k]))
      BY <2>5, <3>1
    <3>. QED
      BY <1>4, <1>6, <2>1, <3>1, <3>2
  <2>. QED
    BY <2>3, <2>6, <2>7
<1>. QED
  BY <1>8, <1>9

-----------------------------------------------------------------------------
(* The elite is the best *)

(* The arrays whose members elitism has passed over: the candidates, and the  *)
(* array a reduction is moving them to.                                       *)
PassedOver ==
  Candidates \cup
  (IF pc = "reduceParents" \/ (pc = "reduceOffspring" /\ ~params.strongElitism)
     THEN {"nextGeneration"} ELSE {})

Rest == UNION {Range(arrays[a]) : a \in PassedOver}

EliteBest == \A i \in Rest, e \in Range(arrays["elitPop"]) : ~Better(Fit(i), Fit(e))

HasElite == pc \in {"elitism", "reduceParents", "reduceOffspring", "reduceTotal"}

(* Elsewhere there is no elite. *)
LEMMA NoElite ==
  ASSUME Inv, ~HasElite, pc \notin {"exit", "deleted", "overrun"}
  PROVE  arrays["elitPop"] = <<>> /\ Range(arrays["elitPop"]) = {}
<1>1. Size("elitPop") = 0
  BY DEF Inv, TypeOK, Lengths, HasElite, InitializeLengths, RestLengths, ProduceLengths,
         ReplaceLengths
<1>2. arrays["elitPop"] = <<>>
  BY <1>1, InvFacts DEF Size, ArrayName
<1>. QED
  BY <1>2, EmptyRange

(* The elite stays the best while it loses nobody and the rest gains nobody. *)
LEMMA EliteBestKept ==
  ASSUME EliteBest, params' = params,
         arrays'["elitPop"] = arrays["elitPop"], Rest' \subseteq Rest,
         \A i \in Rest' \cup Range(arrays["elitPop"]) : heap'[i] = heap[i]
  PROVE  EliteBest'
<1> SUFFICES ASSUME NEW i \in Rest', NEW e \in Range(arrays["elitPop"])
             PROVE  ~Better(heap'[i].fitness, heap'[e].fitness)
  BY DEF EliteBest, Better, Fit
<1>1. ~Better(Fit(i), Fit(e))
  BY DEF EliteBest
<1>2. heap'[i] = heap[i] /\ heap'[e] = heap[e]
  OBVIOUS
<1>. QED
  BY <1>1, <1>2 DEF Fit

LEMMA EliteBestWithoutElite ==
  ASSUME Range(arrays'["elitPop"]) = {}
  PROVE  EliteBest'
BY DEF EliteBest

LEMMA ElitismKeepsBest ==
  ASSUME Inv, EliteBest, StrongElitism \/ WeakElitism
  PROVE  EliteBest'
<1>1. /\ pc = "elitism" /\ pc' = pc /\ params' = params /\ heap' = heap
  BY DEF StrongElitism, WeakElitism, EliteWanted
<1>2. PICK from \in Candidates : \E k \in 1..Len(arrays[from]) :
        /\ Move(from, k, "elitPop")
        /\ \A a \in Candidates : \A i \in Range(arrays[a]) :
             ~Better(Fit(i), Fit(arrays[from][k]))
  BY ElitismMovesBest
<1>3. PICK k \in 1..Len(arrays[from]) :
        /\ Move(from, k, "elitPop")
        /\ \A a \in Candidates : \A i \in Range(arrays[a]) :
             ~Better(Fit(i), Fit(arrays[from][k]))
  BY <1>2
<1>4. from \in {"parents", "offsprings"} /\ Candidates \subseteq {"parents", "offsprings"}
  BY DEF Candidates
<1>5. PICK x : x = arrays[from][k]
  OBVIOUS
<1>6. /\ Range(arrays'[from]) = Range(arrays[from]) \ {x}
      /\ Range(arrays'["elitPop"]) = Range(arrays["elitPop"]) \cup {x}
      /\ \A a \in ArrayName \ {from, "elitPop"} : arrays'[a] = arrays[a]
  BY <1>3, <1>4, <1>5, MoveRanges DEF ArrayName
<1>7. PassedOver = Candidates /\ PassedOver' = Candidates
  BY <1>1 DEF PassedOver, Candidates
<1>8. \A a \in Candidates : Range(arrays'[a]) \subseteq Range(arrays[a])
  BY <1>4, <1>6 DEF ArrayName
<1>9. Rest' \subseteq Rest
  BY <1>7, <1>8 DEF Rest
<1>10. \A i \in Rest : ~Better(Fit(i), Fit(x))
  BY <1>3, <1>5, <1>7 DEF Rest
<1>11. ASSUME NEW i \in Rest', NEW e \in Range(arrays'["elitPop"])
       PROVE  ~Better(Fit(i), Fit(e))
  BY <1>6, <1>9, <1>10 DEF EliteBest
<1>. QED
  BY <1>1, <1>11 DEF EliteBest, Better, Fit

(* The body of a reduction's loop takes nobody from outside its two arrays. *)
LEMMA ReduceOneFacts ==
  ASSUME Inv, NEW from \in ArrayName, from # "nextGeneration", NEW obSize,
         ReduceOne(from, obSize)
  PROVE  /\ params' = params /\ heap' = heap /\ row' = row
         /\ currentGeneration' = currentGeneration
         /\ currentEvaluationNb' = currentEvaluationNb
         /\ \A a \in ArrayName \ {from, "nextGeneration"} : arrays'[a] = arrays[a]
         /\ \/ pc' = "overrun" /\ arrays' = arrays
            \/ /\ pc' = pc
               /\ Range(arrays'[from]) \subseteq Range(arrays[from])
               /\ Range(arrays["nextGeneration"]) \subseteq Range(arrays'["nextGeneration"])
               /\ Range(arrays'["nextGeneration"]) \subseteq
                    Range(arrays["nextGeneration"]) \cup Range(arrays[from])
<1>1. CASE arrays[from] = <<>>
  BY <1>1 DEF ReduceOne, Overrun, Goto
<1>2. CASE arrays[from] # <<>>
  <2>1. PICK k \in 1..Len(arrays[from]) : Move(from, k, "nextGeneration")
    BY <1>2 DEF ReduceOne
  <2>2. /\ params' = params /\ heap' = heap /\ row' = row /\ pc' = pc
        /\ currentGeneration' = currentGeneration
        /\ currentEvaluationNb' = currentEvaluationNb
    BY <1>2 DEF ReduceOne
  <2>3. /\ arrays[from][k] \in Range(arrays[from])
        /\ Range(arrays'[from]) = Range(arrays[from]) \ {arrays[from][k]}
        /\ Range(arrays'["nextGeneration"])
             = Range(arrays["nextGeneration"]) \cup {arrays[from][k]}
        /\ \A a \in ArrayName \ {from, "nextGeneration"} : arrays'[a] = arrays[a]
    BY <2>1, MoveRanges DEF ArrayName
  <2>. QED
    BY <2>2, <2>3
<1>. QED
  BY <1>1, <1>2

(* The end of a reduction changes no individual that it keeps. *)
LEMMA ReplaceFacts ==
  ASSUME Inv, NEW from \in ArrayName, NEW to \in ArrayName, NEW obSize, NEW l,
         Replace(from, to, obSize, l),
         from # "nextGeneration", to # "nextGeneration"
  PROVE  /\ params' = params /\ row' = row /\ pc' = l
         /\ currentGeneration' = currentGeneration
         /\ currentEvaluationNb' = currentEvaluationNb
         /\ \A i \in DOMAIN heap' : heap'[i] = heap[i]
         /\ Range(arrays'[to]) = Range(arrays["nextGeneration"])
         /\ Range(arrays'["nextGeneration"]) = {}
         /\ \A a \in ArrayName \ {from, to, "nextGeneration"} : arrays'[a] = arrays[a]
<1>1. /\ params' = params /\ row' = row /\ pc' = l
      /\ currentGeneration' = currentGeneration
      /\ currentEvaluationNb' = currentEvaluationNb
      /\ Delete(arrays[from])
  BY LeftOverIsAll DEF Replace, Goto
<1>2. \A i \in DOMAIN heap' : heap'[i] = heap[i]
  BY <1>1, InvFacts, DeleteHeap
<1>3. /\ arrays'[to] = arrays["nextGeneration"] /\ arrays'["nextGeneration"] = <<>>
      /\ \A a \in ArrayName \ {from, to, "nextGeneration"} : arrays'[a] = arrays[a]
  <2>1. arrays \in [ArrayName -> Seq(Individuals)]
    BY InvFacts
  <2>. QED
    BY <2>1 DEF Replace, ArrayName
<1>. QED
  BY <1>1, <1>2, <1>3, EmptyRange

(* The two reductions before the last leave the elite alone, and what they    *)
(* keep has been passed over by elitism.                                      *)
LEMMA ReductionFacts ==
  ASSUME Inv, ReduceParentPopulation \/ ReduceOffspringPopulation
  PROVE  /\ params' = params /\ row' = row
         /\ currentGeneration' = currentGeneration
         /\ currentEvaluationNb' = currentEvaluationNb
         /\ arrays'["elitPop"] = arrays["elitPop"]
         /\ \A i \in DOMAIN heap' : heap'[i] = heap[i]
         /\ pc' \in {"reduceParents", "reduceOffspring", "reduceTotal", "overrun"}
         /\ Rest' \subseteq Rest
<1>1. params' = params => Candidates' = Candidates
  BY DEF Candidates
<1>2. Candidates = IF params.strongElitism THEN {"parents"} ELSE {"parents", "offsprings"}
  BY DEF Candidates
<1>3. CASE ReduceParentPopulation
  <2>1. pc = "reduceParents" /\ PassedOver = Candidates \cup {"nextGeneration"}
    BY <1>3 DEF ReduceParentPopulation, PassedOver
  <2>2. CASE ReduceOne("parents", params.parentReductionSize)
    <3>1. /\ params' = params /\ heap' = heap /\ row' = row
          /\ currentGeneration' = currentGeneration
          /\ currentEvaluationNb' = currentEvaluationNb
          /\ \A a \in ArrayName \ {"parents", "nextGeneration"} : arrays'[a] = arrays[a]
          /\ \/ pc' = "overrun" /\ arrays' = arrays
             \/ /\ pc' = pc
                /\ Range(arrays'["parents"]) \subseteq Range(arrays["parents"])
                /\ Range(arrays'["nextGeneration"]) \subseteq
                     Range(arrays["nextGeneration"]) \cup Range(arrays["parents"])
      BY <2>2, ReduceOneFacts DEF ArrayName
    <3>2. PassedOver' \subseteq PassedOver
      BY <1>1, <2>1, <3>1 DEF PassedOver
    <3>3. \A a \in PassedOver : Range(arrays'[a]) \subseteq Rest
      BY <1>2, <2>1, <3>1 DEF Rest, ArrayName
    <3>. QED
      BY <2>1, <3>1, <3>2, <3>3 DEF Rest, ArrayName
  <2>3. CASE Replace("parents", "parents", params.parentReductionSize, "reduceOffspring")
    <3>1. /\ params' = params /\ row' = row /\ pc' = "reduceOffspring"
          /\ currentGeneration' = currentGeneration
          /\ currentEvaluationNb' = currentEvaluationNb
          /\ \A i \in DOMAIN heap' : heap'[i] = heap[i]
          /\ Range(arrays'["parents"]) = Range(arrays["nextGeneration"])
          /\ Range(arrays'["nextGeneration"]) = {}
          /\ \A a \in ArrayName \ {"parents", "nextGeneration"} : arrays'[a] = arrays[a]
      BY <2>3, ReplaceFacts DEF ArrayName
    <3>2. PassedOver' \subseteq PassedOver
      BY <1>1, <2>1, <3>1 DEF PassedOver
    <3>3. \A a \in PassedOver : Range(arrays'[a]) \subseteq Rest
      BY <1>2, <2>1, <3>1 DEF Rest, ArrayName
    <3>. QED
      BY <3>1, <3>2, <3>3 DEF Rest, ArrayName
  <2>4. CASE ~params.parentReduction /\ Goto("reduceOffspring")
             /\ UNCHANGED <<params, arrays, heap, Best, bBest, currentGeneration,
                            currentEvaluationNb, row>>
    <3>1. PassedOver' \subseteq PassedOver
      BY <1>1, <2>1, <2>4 DEF PassedOver, Goto
    <3>. QED
      BY <2>4, <3>1 DEF Rest, Goto
  <2>. QED
    BY <1>3, <2>2, <2>3, <2>4 DEF ReduceParentPopulation
<1>4. CASE ReduceOffspringPopulation
  <2>1. /\ pc = "reduceOffspring"
        /\ PassedOver = Candidates \cup (IF params.strongElitism THEN {} ELSE {"nextGeneration"})
    BY <1>4 DEF ReduceOffspringPopulation, PassedOver
  <2>2. CASE ReduceOne("offsprings", params.offspringReductionSize)
    <3>1. /\ params' = params /\ heap' = heap /\ row' = row
          /\ currentGeneration' = currentGeneration
          /\ currentEvaluationNb' = currentEvaluationNb
          /\ \A a \in ArrayName \ {"offsprings", "nextGeneration"} : arrays'[a] = arrays[a]
          /\ \/ pc' = "overrun" /\ arrays' = arrays
             \/ /\ pc' = pc
                /\ Range(arrays'["offsprings"]) \subseteq Range(arrays["offsprings"])
                /\ Range(arrays'["nextGeneration"]) \subseteq
                     Range(arrays["nextGeneration"]) \cup Range(arrays["offsprings"])
      BY <2>2, ReduceOneFacts DEF ArrayName
    <3>2. PassedOver' \subseteq PassedOver
      BY <1>1, <2>1, <3>1 DEF PassedOver
    <3>3. \A a \in PassedOver : Range(arrays'[a]) \subseteq Rest
      BY <1>2, <2>1, <3>1 DEF Rest, ArrayName
    <3>. QED
      BY <2>1, <3>1, <3>2, <3>3 DEF Rest, ArrayName
  <2>3. CASE Replace("offsprings", "offsprings", params.offspringReductionSize, "reduceTotal")
    <3>1. /\ params' = params /\ row' = row /\ pc' = "reduceTotal"
          /\ currentGeneration' = currentGeneration
          /\ currentEvaluationNb' = currentEvaluationNb
          /\ \A i \in DOMAIN heap' : heap'[i] = heap[i]
          /\ Range(arrays'["offsprings"]) = Range(arrays["nextGeneration"])
          /\ Range(arrays'["nextGeneration"]) = {}
          /\ \A a \in ArrayName \ {"offsprings", "nextGeneration"} : arrays'[a] = arrays[a]
      BY <2>3, ReplaceFacts DEF ArrayName
    <3>2. PassedOver' = Candidates
      BY <1>1, <3>1 DEF PassedOver
    <3>3. \A a \in Candidates : Range(arrays'[a]) \subseteq Rest
      BY <1>2, <2>1, <3>1 DEF Rest, ArrayName
    <3>. QED
      BY <3>1, <3>2, <3>3 DEF Rest, ArrayName
  <2>4. CASE ~params.offspringReduction /\ Goto("reduceTotal")
             /\ UNCHANGED <<params, arrays, heap, Best, bBest, currentGeneration,
                            currentEvaluationNb, row>>
    <3>1. PassedOver' \subseteq PassedOver
      BY <1>1, <2>1, <2>4 DEF PassedOver, Goto
    <3>. QED
      BY <2>4, <3>1 DEF Rest, Goto
  <2>. QED
    BY <1>4, <2>2, <2>3, <2>4 DEF ReduceOffspringPopulation
<1>. QED
  BY <1>3, <1>4

LEMMA GatherFacts ==
  ASSUME Inv, GatherPopulation
  PROVE  /\ params' = params /\ row' = row /\ heap' = heap
         /\ currentGeneration' = currentGeneration
         /\ currentEvaluationNb' = currentEvaluationNb
         /\ \/ pc' = "overrun" /\ arrays' = arrays
            \/ /\ pc' = "replace" /\ arrays'["elitPop"] = <<>>
               /\ arrays'["nextGeneration"] = arrays["elitPop"]
<1>1. arrays \in [ArrayName -> Seq(Individuals)]
  BY InvFacts
<1>. QED
  BY <1>1 DEF GatherPopulation, Overrun, Goto, ArrayName

(* Every other step has no elite before it and none after it. *)
LEMMA OtherSteps ==
  ASSUME Inv,
         \/ AddIndividual \/ EvaluateParents \/ FirstStats \/ CheckCriteria
         \/ ProduceOffspring \/ EvaluateOffspring
         \/ ReduceTotalPopulation \/ SortAndStats \/ ReceiveIndividual \/ EndGeneration
         \/ DeletePopulation
  PROVE  /\ arrays'["elitPop"] = <<>> /\ ~HasElite
         /\ pc' \notin {"reduceParents", "reduceOffspring", "reduceTotal"}
         /\ params' = params
<1>1. arrays \in [ArrayName -> Seq(Individuals)]
  BY InvFacts
<1>2. /\ arrays'["elitPop"] = arrays["elitPop"] /\ ~HasElite
      /\ pc \notin {"exit", "deleted", "overrun"}
      /\ pc' \notin {"reduceParents", "reduceOffspring", "reduceTotal"}
      /\ params' = params
  <2>1. CASE AddIndividual \/ EvaluateParents \/ FirstStats \/ CheckCriteria
    BY <1>1, <2>1 DEF AddIndividual, EvaluateParents, FirstStats, CheckCriteria, Goto, ArrayName,
                      HasElite
  <2>2. CASE ProduceOffspring \/ EvaluateOffspring
    BY <1>1, <2>2 DEF ProduceOffspring, EvaluateOffspring, Goto, ArrayName, HasElite
  <2>3. CASE ReduceTotalPopulation
    <3>1. pc = "replace"
      BY <2>3 DEF ReduceTotalPopulation
    <3>2. CASE ReduceOne("globalPopulation", params.parentPopulationSize)
      <4>1. /\ params' = params /\ arrays'["elitPop"] = arrays["elitPop"]
            /\ pc' = pc \/ pc' = "overrun"
        BY <3>2, ReduceOneFacts DEF ArrayName
      <4>. QED
        BY <3>1, <4>1 DEF HasElite
    <3>3. CASE Replace("globalPopulation", "parents", params.parentPopulationSize, "sort")
      <4>1. params' = params /\ arrays'["elitPop"] = arrays["elitPop"] /\ pc' = "sort"
        BY <3>3, ReplaceFacts DEF ArrayName
      <4>. QED
        BY <3>1, <4>1 DEF HasElite
    <3>. QED
      BY <2>3, <3>2, <3>3 DEF ReduceTotalPopulation
  <2>4. CASE SortAndStats \/ ReceiveIndividual \/ EndGeneration \/ DeletePopulation
    BY <1>1, <2>4 DEF SortAndStats, ReceiveIndividual, EndGeneration, DeletePopulation, Goto,
                      ArrayName, HasElite
  <2>. QED
    BY <2>1, <2>2, <2>3, <2>4
<1>. QED
  BY <1>2, NoElite

LEMMA EliteBestInductive ==
  ASSUME Inv, Inv', EliteBest, [Next]_vars
  PROVE  EliteBest'
<1>1. CASE StrongElitism \/ WeakElitism
  BY <1>1, ElitismKeepsBest
<1>2. CASE ElitismDone
  <2>1. /\ pc = "elitism" /\ pc' = "reduceParents" /\ params' = params /\ arrays' = arrays
        /\ heap' = heap
    BY <1>2 DEF ElitismDone, Goto
  <2>2. Range(arrays["nextGeneration"]) = {}
    <3>1. Size("nextGeneration") = 0
      BY <2>1 DEF Inv, Lengths, ElitismLengths, NothingChosen
    <3>. QED
      BY <3>1, InvFacts, EmptyRange DEF Size, ArrayName
  <2>3. PassedOver' = PassedOver \cup {"nextGeneration"}
    BY <2>1 DEF PassedOver, Candidates
  <2>4. Rest' \subseteq Rest
    BY <2>1, <2>2, <2>3 DEF Rest
  <2>. QED
    BY <2>1, <2>4, EliteBestKept
<1>3. CASE ReduceParentPopulation \/ ReduceOffspringPopulation
  <2>1. /\ params' = params /\ arrays'["elitPop"] = arrays["elitPop"]
        /\ \A i \in DOMAIN heap' : heap'[i] = heap[i]
        /\ Rest' \subseteq Rest
    BY <1>3, ReductionFacts
  <2>2. \A a \in ArrayName : Range(arrays'[a]) \subseteq DOMAIN heap'
    BY DEF Inv, OwnedBy
  <2>3. Rest' \subseteq DOMAIN heap' /\ Range(arrays["elitPop"]) \subseteq DOMAIN heap'
    BY <2>1, <2>2 DEF Rest, PassedOver, Candidates, ArrayName
  <2>. QED
    BY <2>1, <2>3, EliteBestKept
<1>4. CASE GatherPopulation
  <2>1. CASE pc' = "overrun" /\ arrays' = arrays
    <3>1. params' = params /\ heap' = heap
      BY <1>4, GatherFacts
    <3>2. Rest' \subseteq Rest
      BY <2>1, <3>1 DEF Rest, PassedOver, Candidates
    <3>. QED
      BY <2>1, <3>1, <3>2, EliteBestKept
  <2>2. CASE arrays'["elitPop"] = <<>>
    BY <2>2, EmptyRange, EliteBestWithoutElite
  <2>. QED
    BY <1>4, <2>1, <2>2, GatherFacts
<1>5. CASE \/ AddIndividual \/ EvaluateParents \/ FirstStats \/ CheckCriteria
           \/ ProduceOffspring \/ EvaluateOffspring
           \/ ReduceTotalPopulation \/ SortAndStats \/ ReceiveIndividual \/ EndGeneration
           \/ DeletePopulation
  BY <1>5, OtherSteps, EmptyRange, EliteBestWithoutElite
<1>6. CASE UNCHANGED vars
  BY <1>6 DEF vars, EliteBest, Rest, PassedOver, Candidates, Better, Fit
<1>. QED
  BY <1>1, <1>2, <1>3, <1>4, <1>5, <1>6 DEF Next

LEMMA EliteBestInvariant == Spec => []EliteBest
<1>1. Init => EliteBest
  BY EmptyRange DEF Init, EliteBest, ArrayName
<1>2. Inv /\ Inv' /\ EliteBest /\ [Next]_vars => EliteBest'
  BY EliteBestInductive
<1>. QED
  BY <1>1, <1>2, Invariance, PTL DEF Spec

(* No parent that elitism leaves to the reductions (weak elitism: no offspring *)
(* either) is better than a member of the elite, until the elite has opened    *)
(* the next generation.                                                        *)
THEOREM EliteSetAside == Spec => []EliteIsTheBest
<1>1. EliteBest => EliteIsTheBest
  BY DEF EliteBest, EliteIsTheBest, Rest, PassedOver, Candidates
<1>. QED
  BY <1>1, EliteBestInvariant, PTL

-----------------------------------------------------------------------------
(* The generations and the evaluations *)

Generation == {"produce", "elitism", "reduceParents", "reduceOffspring", "reduceTotal",
               "replace", "sort"}

(* The counters and the last row, wherever the thread is. *)
Counts ==
  /\ pc \in {"initialize", "firstStats"} =>
       /\ row = None /\ currentGeneration = 0
       /\ currentEvaluationNb = IF pc = "initialize" THEN 0 ELSE params.parentPopulationSize
  /\ pc \in {"criteria", "receive"} \cup Generation => row \in RowType
  /\ pc \in {"criteria"} \cup Generation => currentGeneration = row.gen + 1
  /\ pc = "receive" => currentGeneration = row.gen
  /\ pc \in {"criteria", "receive", "produce"} => currentEvaluationNb = row.eval
  /\ pc \in Generation \ {"produce"} =>
       currentEvaluationNb = row.eval + params.offspringPopulationSize
  /\ pc \in Generation => currentGeneration < params.nbGen

(* What a step that is not one of the loop's statistics does to them. *)
LEMMA CountsKept ==
  ASSUME Counts, params' = params, row' = row, currentGeneration' = currentGeneration,
         currentEvaluationNb' = currentEvaluationNb,
         \/ pc' = pc
         \/ pc' = "overrun"
         \/ pc \in Generation \ {"produce"} /\ pc' \in Generation \ {"produce"}
  PROVE  Counts'
BY DEF Counts, Generation

(* A row of the statistics is the fitness of an individual none is better than. *)
LEMMA RowTyped ==
  ASSUME Inv, FirstStats \/ SortAndStats
  PROVE  /\ row' \in RowType /\ heap' = heap
         /\ Range(arrays'["parents"]) = Range(arrays["parents"])
         /\ \E i \in Range(arrays["parents"]) :
              /\ row'.best = Fit(i)
              /\ \A j \in Range(arrays["parents"]) : ~Better(Fit(j), row'.best)
<1>1. Comparing /\ currentGeneration \in Nat /\ currentEvaluationNb \in Nat
  BY DEF FirstStats, SortAndStats, Comparing, Inv, TypeOK
<1>2. arrays["parents"] \in Seq(Individuals) /\ IsInjective(arrays["parents"])
  BY InvFacts DEF OwnedBy, ArrayName
<1>3. PICK s \in Seq(Individuals) :
        /\ ShowPopulationStats(s) /\ Range(s) = Range(arrays["parents"])
        /\ arrays'["parents"] = s
  <2>1. CASE FirstStats
    BY <1>2, <2>1 DEF FirstStats
  <2>2. CASE SortAndStats
    <3>1. PICK s \in Sorted(arrays["parents"]) :
            ShowPopulationStats(s) /\ arrays' = [arrays EXCEPT !["parents"] = s]
      BY <2>2 DEF SortAndStats
    <3>2. \E order \in Bijection(1..Len(arrays["parents"]), 1..Len(arrays["parents"])) :
            s = [k \in 1..Len(arrays["parents"]) |-> arrays["parents"][order[k]]]
      BY <3>1 DEF Sorted
    <3>3. s \in Seq(Individuals) /\ Range(s) = Range(arrays["parents"])
      BY <1>2, <3>2, PermutedRange
    <3>4. arrays'["parents"] = s
      BY <3>1, InvFacts DEF ArrayName
    <3>. QED
      BY <3>1, <3>3, <3>4
  <2>. QED
    BY <2>1, <2>2
<1>4. PICK k \in 1..Len(s) :
        /\ BestIn(s, k)
        /\ row' = [gen |-> currentGeneration, eval |-> currentEvaluationNb, best |-> Fit(s[k])]
  BY <1>3 DEF ShowPopulationStats
<1>5. Range(s) = {s[j] : j \in 1..Len(s)}
  BY <1>3, RangeOfArray
<1>6. s[k] \in Range(arrays["parents"]) /\ row'.best = Fit(s[k])
  BY <1>3, <1>4, <1>5
<1>7. Fit(s[k]) \in Fitness
  BY <1>1, <1>6, FitnessIsNumber DEF ArrayName
<1>8. \A j \in Range(arrays["parents"]) : ~Better(Fit(j), Fit(s[k]))
  BY <1>3, <1>4, <1>5 DEF BestIn
<1>9. heap' = heap
  BY DEF FirstStats, SortAndStats
<1>. QED
  BY <1>1, <1>3, <1>4, <1>6, <1>7, <1>8, <1>9 DEF RowType

LEMMA CountsInductive ==
  ASSUME Inv, Inv', Counts, [Next]_vars
  PROVE  Counts'
<1>1. /\ params.parentPopulationSize \in Nat /\ params.offspringPopulationSize \in Nat
      /\ params.nbGen \in Nat /\ currentGeneration \in Nat /\ currentEvaluationNb \in Nat
  BY InvFacts DEF ParametersType, Inv, TypeOK
<1>2. CASE AddIndividual \/ ProduceOffspring \/ StrongElitism \/ WeakElitism \/ ElitismDone
           \/ ReceiveIndividual \/ UNCHANGED vars
  BY <1>2, CountsKept DEF AddIndividual, ProduceOffspring, StrongElitism, WeakElitism,
     EliteWanted, ElitismDone, ReceiveIndividual, Goto, Generation, vars
<1>3. CASE ReduceParentPopulation \/ ReduceOffspringPopulation
  <2>1. pc \in {"reduceParents", "reduceOffspring"}
    BY <1>3 DEF ReduceParentPopulation, ReduceOffspringPopulation
  <2>. QED
    BY <1>3, <2>1, ReductionFacts, CountsKept DEF Generation
<1>4. CASE GatherPopulation
  <2>1. pc = "reduceTotal"
    BY <1>4 DEF GatherPopulation
  <2>. QED
    BY <1>4, <2>1, GatherFacts, CountsKept DEF Generation
<1>5. CASE ReduceTotalPopulation
  <2>1. pc = "replace"
    BY <1>5 DEF ReduceTotalPopulation
  <2>2. CASE ReduceOne("globalPopulation", params.parentPopulationSize)
    <3>1. /\ params' = params /\ row' = row /\ currentGeneration' = currentGeneration
          /\ currentEvaluationNb' = currentEvaluationNb /\ (pc' = pc \/ pc' = "overrun")
      BY <2>2, ReduceOneFacts DEF ArrayName
    <3>. QED
      BY <2>1, <3>1, CountsKept
  <2>3. CASE Replace("globalPopulation", "parents", params.parentPopulationSize, "sort")
    <3>1. /\ params' = params /\ row' = row /\ currentGeneration' = currentGeneration
          /\ currentEvaluationNb' = currentEvaluationNb /\ pc' = "sort"
      BY <2>3, ReplaceFacts DEF ArrayName
    <3>. QED
      BY <2>1, <3>1, CountsKept DEF Generation
  <2>. QED
    BY <1>5, <2>2, <2>3 DEF ReduceTotalPopulation
<1>6. CASE EvaluateParents
  <2>1. /\ pc = "initialize" /\ pc' = "firstStats" /\ params' = params /\ row' = row
        /\ currentGeneration' = currentGeneration
        /\ currentEvaluationNb' = currentEvaluationNb + params.parentPopulationSize
    BY <1>6 DEF EvaluateParents, Goto
  <2>. QED
    BY <1>1, <2>1 DEF Counts, Generation
<1>7. CASE EvaluateOffspring
  <2>1. /\ pc = "produce" /\ pc' = "elitism" /\ params' = params /\ row' = row
        /\ currentGeneration' = currentGeneration
        /\ currentEvaluationNb' = currentEvaluationNb + params.offspringPopulationSize
    BY <1>7 DEF EvaluateOffspring, Goto
  <2>. QED
    BY <1>1, <2>1 DEF Counts, Generation
<1>8. CASE FirstStats
  <2>1. /\ pc = "firstStats" /\ pc' = "criteria" /\ params' = params
        /\ currentGeneration' = currentGeneration + 1
        /\ currentEvaluationNb' = currentEvaluationNb
        /\ row'.gen = currentGeneration /\ row'.eval = currentEvaluationNb
    BY <1>8 DEF FirstStats, ShowPopulationStats, Goto
  <2>2. row' \in RowType
    BY <1>8, RowTyped
  <2>. QED
    BY <1>1, <2>1, <2>2 DEF Counts, Generation
<1>9. CASE SortAndStats
  <2>1. /\ pc = "sort" /\ pc' = "receive" /\ params' = params
        /\ currentGeneration' = currentGeneration
        /\ currentEvaluationNb' = currentEvaluationNb
        /\ row'.gen = currentGeneration /\ row'.eval = currentEvaluationNb
    BY <1>9 DEF SortAndStats, ShowPopulationStats, Goto
  <2>2. row' \in RowType
    BY <1>9, RowTyped
  <2>. QED
    BY <1>1, <2>1, <2>2 DEF Counts, Generation
<1>10. CASE CheckCriteria
  <2>1. /\ pc = "criteria" /\ params' = params /\ row' = row
        /\ currentGeneration' = currentGeneration
        /\ currentEvaluationNb' = currentEvaluationNb
        /\ \/ pc' = "finish"
           \/ pc' = "produce" /\ ~(params.nbGen <= currentGeneration)
    BY <1>10 DEF CheckCriteria, StoppingCriterionReached, Goto
  <2>. QED
    BY <1>1, <2>1 DEF Counts, Generation
<1>11. CASE EndGeneration
  <2>1. /\ pc = "receive" /\ pc' = "criteria" /\ params' = params /\ row' = row
        /\ currentGeneration' = currentGeneration + 1
        /\ currentEvaluationNb' = currentEvaluationNb
    BY <1>11 DEF EndGeneration, Goto
  <2>. QED
    BY <1>1, <2>1 DEF Counts, Generation
<1>12. CASE DeletePopulation
  BY <1>12 DEF DeletePopulation, Goto, Counts, Generation
<1>. QED
  BY <1>2, <1>3, <1>4, <1>5, <1>6, <1>7, <1>8, <1>9, <1>10, <1>11, <1>12 DEF Next

-----------------------------------------------------------------------------
(* The best is kept *)

(* Elitism takes place, and nobody arrives from elsewhere. *)
Keeping == params.elitSize \in 1..params.parentPopulationSize /\ ~params.remoteIslandModel

(* The last row's best fitness, or a better one, is in the array a. *)
HasKept(a) == \E i \in Range(arrays[a]) : ~Better(row.best, Fit(i))

Kept ==
  Keeping =>
    /\ pc \in {"criteria", "produce", "sort", "receive"} => HasKept("parents")
    /\ pc = "elitism" =>
         IF arrays["elitPop"] = <<>> THEN HasKept("parents") ELSE HasKept("elitPop")
    /\ pc \in {"reduceParents", "reduceOffspring", "reduceTotal"} => HasKept("elitPop")
    /\ pc = "replace" => HasKept("nextGeneration")

(* It is still there when the array a has become b, or is part of it. *)
LEMMA HasKeptMoves ==
  ASSUME NEW a, NEW b, HasKept(a), params' = params, row' = row,
         Range(arrays[a]) \subseteq Range(arrays'[b]),
         \A i \in Range(arrays[a]) : heap'[i] = heap[i]
  PROVE  HasKept(b)'
<1>1. PICK i \in Range(arrays[a]) : ~Better(row.best, Fit(i))
  BY DEF HasKept
<1>2. i \in Range(arrays'[b]) /\ heap'[i] = heap[i]
  OBVIOUS
<1>. QED
  BY <1>1, <1>2 DEF HasKept, Better, Fit

LEMMA ElitismKept ==
  ASSUME Inv, Counts, Kept, Keeping, StrongElitism \/ WeakElitism
  PROVE  pc = "elitism" /\ pc' = "elitism" /\ arrays'["elitPop"] # <<>> /\ HasKept("elitPop")'
<1>1. /\ pc = "elitism" /\ pc' = "elitism" /\ params' = params /\ heap' = heap /\ row' = row
  BY DEF StrongElitism, WeakElitism, EliteWanted
<1>2. PICK from \in Candidates : \E k \in 1..Len(arrays[from]) :
        /\ Move(from, k, "elitPop")
        /\ \A a \in Candidates : \A i \in Range(arrays[a]) :
             ~Better(Fit(i), Fit(arrays[from][k]))
  BY ElitismMovesBest
<1>3. PICK k \in 1..Len(arrays[from]) :
        /\ Move(from, k, "elitPop")
        /\ \A a \in Candidates : \A i \in Range(arrays[a]) :
             ~Better(Fit(i), Fit(arrays[from][k]))
  BY <1>2
<1>4. from \in {"parents", "offsprings"} /\ "parents" \in Candidates
  BY DEF Candidates
<1>5. PICK x : x = arrays[from][k]
  OBVIOUS
<1>6. /\ x \in Range(arrays[from])
      /\ Range(arrays'["elitPop"]) = Range(arrays["elitPop"]) \cup {x}
  BY <1>3, <1>4, <1>5, MoveRanges DEF ArrayName
<1>7. arrays'["elitPop"] # <<>>
  BY <1>6, EmptyRange
<1>8. CASE arrays["elitPop"] = <<>>
  <2>1. PICK i \in Range(arrays["parents"]) : ~Better(row.best, Fit(i))
    BY <1>1, <1>8 DEF Kept, HasKept
  <2>2. ~Better(Fit(i), Fit(x))
    BY <1>3, <1>4, <1>5
  <2>3. Fit(i) \in Int /\ Fit(x) \in Int
    BY <1>1, <1>4, <1>6, FitnessIsNumber DEF Comparing, ArrayName
  <2>4. row.best \in Int
    <3>1. row \in RowType
      BY <1>1 DEF Counts, Generation
    <3>. QED
      BY <3>1, FitnessAssumption DEF RowType
  <2>5. ~Better(row.best, Fit(x))
    BY <2>1, <2>2, <2>3, <2>4 DEF Better
  <2>6. x \in Range(arrays'["elitPop"])
    BY <1>6
  <2>7. HasKept("elitPop")'
    BY <1>1, <2>5, <2>6 DEF HasKept, Better, Fit
  <2>. QED
    BY <1>1, <1>7, <2>7
<1>9. CASE arrays["elitPop"] # <<>>
  <2>1. HasKept("elitPop")
    BY <1>1, <1>9 DEF Kept
  <2>2. HasKept("elitPop")'
    BY <1>1, <1>6, <2>1, HasKeptMoves
  <2>. QED
    BY <1>1, <1>7, <2>2
<1>. QED
  BY <1>8, <1>9

LEMMA KeptInductive ==
  ASSUME Inv, Inv', Counts, Kept, [Next]_vars
  PROVE  Kept'
<1> SUFFICES ASSUME Keeping'
             PROVE  Kept'
  BY DEF Kept
<1>1. arrays \in [ArrayName -> Seq(Individuals)]
      /\ (\A a \in ArrayName : Range(arrays[a]) \subseteq DOMAIN heap)
      /\ (\A a \in ArrayName : Range(arrays'[a]) \subseteq DOMAIN heap')
  BY InvFacts DEF Inv, OwnedBy
<1>2. params' = params => Keeping
  BY DEF Keeping
<1>3. CASE AddIndividual \/ EvaluateParents \/ DeletePopulation
  BY <1>3 DEF AddIndividual, EvaluateParents, DeletePopulation, Goto, Kept
<1>4. CASE FirstStats \/ SortAndStats
  <2>1. pc' \in {"criteria", "receive"} /\ params' = params
    BY <1>4 DEF FirstStats, SortAndStats, Goto
  <2>2. /\ heap' = heap /\ Range(arrays'["parents"]) = Range(arrays["parents"])
    BY <1>4, RowTyped
  <2>3. PICK i \in Range(arrays["parents"]) : row'.best = Fit(i)
    BY <1>4, RowTyped
  <2>4. Fit(i) \in Int
    <3>1. Comparing
      BY <1>4 DEF FirstStats, SortAndStats, Comparing
    <3>. QED
      BY <1>1, <3>1, FitnessIsNumber DEF ArrayName
  <2>5. HasKept("parents")'
    BY <2>1, <2>2, <2>3, <2>4 DEF HasKept, Better, Fit
  <2>. QED
    BY <2>1, <2>5 DEF Kept
<1>5. CASE CheckCriteria \/ EndGeneration
  <2>1. /\ pc \in {"criteria", "receive"} /\ pc' \in {"criteria", "produce", "finish"}
        /\ params' = params /\ arrays' = arrays /\ heap' = heap /\ row' = row
    BY <1>5 DEF CheckCriteria, EndGeneration, Goto
  <2>2. HasKept("parents")
    BY <1>2, <2>1 DEF Kept
  <2>3. HasKept("parents")'
    BY <2>1, <2>2, HasKeptMoves
  <2>. QED
    BY <2>1, <2>3 DEF Kept
<1>6. CASE ProduceOffspring
  <2>1. /\ pc = "produce" /\ pc' = pc /\ params' = params /\ row' = row
        /\ arrays'["parents"] = arrays["parents"]
    BY <1>1, <1>6 DEF ProduceOffspring, ArrayName
  <2>2. PICK x : Allocate(x)
    BY <1>6 DEF ProduceOffspring
  <2>3. \A i \in DOMAIN heap : heap'[i] = heap[i]
    <3>1. Fresh \in Individuals \ DOMAIN heap
      BY <2>2 DEF Allocate, Fresh
    <3>2. heap' = [i \in DOMAIN heap \cup {Fresh} |-> IF i = Fresh THEN x ELSE heap[i]]
      BY <2>2 DEF Allocate
    <3>. QED
      BY <3>1, <3>2
  <2>4. HasKept("parents")
    BY <1>2, <2>1 DEF Kept
  <2>5. HasKept("parents")'
    BY <1>1, <2>1, <2>3, <2>4, HasKeptMoves DEF ArrayName
  <2>. QED
    BY <2>1, <2>5 DEF Kept
<1>7. CASE EvaluateOffspring
  <2>1. /\ pc = "produce" /\ pc' = "elitism" /\ params' = params /\ row' = row
        /\ arrays' = arrays
    BY <1>7 DEF EvaluateOffspring, Goto
  <2>2. \A i \in Range(arrays["parents"]) : heap'[i] = heap[i]
    <3>1. \A i \in Range(arrays["parents"]) : heap[i].valid /\ i \in DOMAIN heap
      BY <1>1, <2>1 DEF Inv, ComparedFitnessIsCurrent, ArrayName
    <3>2. \A i \in DOMAIN heap :
            heap'[i] = IF i \in Range(arrays["offsprings"]) THEN Evaluated(heap[i]) ELSE heap[i]
      BY <1>7 DEF EvaluateOffspring, EvaluateAll
    <3>. QED
      BY <3>1, <3>2 DEF Evaluated
  <2>3. arrays'["elitPop"] = <<>>
    BY <1>7, OtherSteps
  <2>4. HasKept("parents")
    BY <1>2, <2>1 DEF Kept
  <2>5. HasKept("parents")'
    BY <2>1, <2>2, <2>4, HasKeptMoves
  <2>. QED
    BY <2>1, <2>3, <2>5 DEF Kept
<1>8. CASE StrongElitism \/ WeakElitism
  <2>1. params' = params
    BY <1>8 DEF StrongElitism, WeakElitism
  <2>. QED
    BY <1>2, <1>8, <2>1, ElitismKept DEF Kept
<1>9. CASE ElitismDone
  <2>1. /\ pc = "elitism" /\ pc' = "reduceParents" /\ params' = params /\ row' = row
        /\ arrays' = arrays /\ heap' = heap
        /\ ElitismApplies => Len(arrays["elitPop"]) = params.elitSize
    BY <1>9 DEF ElitismDone, Goto
  <2>2. params.elitSize > 0 /\ Len(arrays["elitPop"]) = params.elitSize
    <3>1. params.elitSize \in 1..params.parentPopulationSize
          /\ params.parentPopulationSize \in Nat
      BY <1>2, <2>1, InvFacts DEF Keeping, ParametersType
    <3>. QED
      BY <2>1, <3>1 DEF ElitismApplies
  <2>3. arrays["elitPop"] # <<>>
    BY <2>2, EmptyRange
  <2>4. HasKept("elitPop")
    BY <1>2, <2>1, <2>3 DEF Kept
  <2>5. HasKept("elitPop")'
    BY <2>1, <2>4, HasKeptMoves
  <2>. QED
    BY <2>1, <2>5 DEF Kept
<1>10. CASE ReduceParentPopulation \/ ReduceOffspringPopulation
  <2>1. pc \in {"reduceParents", "reduceOffspring"}
    BY <1>10 DEF ReduceParentPopulation, ReduceOffspringPopulation
  <2>2. /\ params' = params /\ row' = row /\ arrays'["elitPop"] = arrays["elitPop"]
        /\ \A i \in DOMAIN heap' : heap'[i] = heap[i]
        /\ pc' \in {"reduceParents", "reduceOffspring", "reduceTotal", "overrun"}
    BY <1>10, ReductionFacts
  <2>3. HasKept("elitPop")
    BY <1>2, <2>1, <2>2 DEF Kept
  <2>4. HasKept("elitPop")'
    BY <1>1, <2>2, <2>3, HasKeptMoves DEF ArrayName
  <2>. QED
    BY <2>2, <2>4 DEF Kept
<1>11. CASE GatherPopulation
  <2>1. /\ params' = params /\ row' = row /\ heap' = heap
        /\ \/ pc' = "overrun"
           \/ pc' = "replace" /\ arrays'["nextGeneration"] = arrays["elitPop"]
    BY <1>11, GatherFacts
  <2>2. HasKept("elitPop")
    BY <1>2, <1>11, <2>1 DEF Kept, GatherPopulation
  <2>3. pc' = "replace" => HasKept("nextGeneration")'
    BY <2>1, <2>2, HasKeptMoves
  <2>. QED
    BY <2>1, <2>3 DEF Kept
<1>12. CASE ReduceTotalPopulation
  <2>1. pc = "replace"
    BY <1>12 DEF ReduceTotalPopulation
  <2>2. CASE ReduceOne("globalPopulation", params.parentPopulationSize)
    <3>1. /\ params' = params /\ heap' = heap /\ row' = row
          /\ \/ pc' = "overrun"
             \/ /\ pc' = pc
                /\ Range(arrays["nextGeneration"]) \subseteq Range(arrays'["nextGeneration"])
      BY <2>2, ReduceOneFacts DEF ArrayName
    <3>2. HasKept("nextGeneration")
      BY <1>2, <2>1, <3>1 DEF Kept
    <3>3. pc' = pc => HasKept("nextGeneration")'
      BY <2>1, <3>1, <3>2, HasKeptMoves
    <3>. QED
      BY <2>1, <3>1, <3>3 DEF Kept
  <2>3. CASE Replace("globalPopulation", "parents", params.parentPopulationSize, "sort")
    <3>1. /\ params' = params /\ row' = row /\ pc' = "sort"
          /\ \A i \in DOMAIN heap' : heap'[i] = heap[i]
          /\ Range(arrays'["parents"]) = Range(arrays["nextGeneration"])
      BY <2>3, ReplaceFacts DEF ArrayName
    <3>2. HasKept("nextGeneration")
      BY <1>2, <2>1, <3>1 DEF Kept
    <3>3. HasKept("parents")'
      BY <1>1, <3>1, <3>2, HasKeptMoves DEF ArrayName
    <3>. QED
      BY <3>1, <3>3 DEF Kept
  <2>. QED
    BY <1>12, <2>2, <2>3 DEF ReduceTotalPopulation
<1>13. CASE ReceiveIndividual
  BY <1>2, <1>13 DEF ReceiveIndividual, Keeping
<1>14. CASE UNCHANGED vars
  BY <1>2, <1>14 DEF vars, Kept, HasKept, Better, Fit
<1>. QED
  BY <1>3, <1>4, <1>5, <1>6, <1>7, <1>8, <1>9, <1>10, <1>11, <1>12, <1>13, <1>14 DEF Next

-----------------------------------------------------------------------------
(* The refinement *)

Over == pc \in {"exit", "finish", "deleted", "overrun"}

(* A step that prints no row is none of the report, or ends it. *)
LEMMA SilentStep ==
  ASSUME params' = params, row' = row, Over => Over'
  PROVE  [Report!Next]_(Report!vars)
<1>1. CASE Over \/ ~Over'
  <2>1. UNCHANGED <<params, row, pc \in {"exit", "finish", "deleted", "overrun"}>>
    BY <1>1 DEF Over
  <2>. QED
    BY <2>1 DEF Report!vars
<1>2. CASE ~Over /\ Over'
  <2>1. Report!Stop
    BY <1>2 DEF Over, Report!Stop
  <2>. QED
    BY <2>1 DEF Report!Next
<1>. QED
  BY <1>1, <1>2

LEMMA FirstStatsReported ==
  ASSUME Inv, Counts, FirstStats
  PROVE  Report!Next
<1>1. /\ pc = "firstStats" /\ pc' = "criteria" /\ params' = params
      /\ row' = [gen |-> currentGeneration, eval |-> currentEvaluationNb, best |-> row'.best]
  BY DEF FirstStats, ShowPopulationStats, Goto
<1>2. /\ row = None /\ currentGeneration = 0
      /\ currentEvaluationNb = params.parentPopulationSize
  BY <1>1 DEF Counts
<1>3. row'.best \in Fitness
  BY RowTyped DEF RowType
<1>4. Report!FirstRow
  BY <1>1, <1>2, <1>3 DEF Report!FirstRow
<1>. QED
  BY <1>4 DEF Report!Next

LEMMA SortAndStatsReported ==
  ASSUME Inv, Counts, Kept, SortAndStats
  PROVE  Report!Next
<1>1. /\ pc = "sort" /\ pc' = "receive" /\ params' = params
      /\ row' = [gen |-> currentGeneration, eval |-> currentEvaluationNb, best |-> row'.best]
  BY DEF SortAndStats, ShowPopulationStats, Goto
<1>2. /\ row \in RowType /\ row # None
      /\ currentGeneration = row.gen + 1 /\ currentGeneration < params.nbGen
      /\ currentEvaluationNb = row.eval + params.offspringPopulationSize
  BY <1>1, RowAssumption DEF Counts, Generation
<1>3. row'.best \in Fitness
  BY RowTyped DEF RowType
<1>4. ASSUME Report!KeepsBest
      PROVE  ~Report!Worse(row'.best, row.best)
  <2>1. PICK i \in Range(arrays["parents"]) : ~Better(row.best, Fit(i))
    BY <1>1, <1>4 DEF Report!KeepsBest, Kept, Keeping, HasKept
  <2>2. ~Better(Fit(i), row'.best)
    BY <2>1, RowTyped
  <2>3. Fit(i) \in Int
    BY <1>1, FitnessIsNumber DEF Comparing, ArrayName
  <2>4. row.best \in Int /\ row'.best \in Int
    BY <1>2, <1>3, FitnessAssumption DEF RowType
  <2>. QED
    BY <2>1, <2>2, <2>3, <2>4 DEF Report!Worse, Better
<1>5. Report!NextRow
  BY <1>1, <1>2, <1>3, <1>4 DEF Report!NextRow
<1>. QED
  BY <1>5 DEF Report!Next

LEMMA StepReported ==
  ASSUME Inv, Counts, Kept, [Next]_vars
  PROVE  [Report!Next]_(Report!vars)
<1>1. CASE FirstStats
  BY <1>1, FirstStatsReported
<1>2. CASE SortAndStats
  BY <1>2, SortAndStatsReported
<1>3. CASE AddIndividual \/ EvaluateParents \/ CheckCriteria \/ ProduceOffspring
           \/ EvaluateOffspring \/ StrongElitism \/ WeakElitism \/ ElitismDone
           \/ ReceiveIndividual \/ EndGeneration \/ DeletePopulation \/ UNCHANGED vars
  <2>1. params' = params /\ row' = row /\ (Over => Over')
    BY <1>3 DEF AddIndividual, EvaluateParents, CheckCriteria, ProduceOffspring,
       EvaluateOffspring, StrongElitism, WeakElitism, EliteWanted, ElitismDone,
       ReceiveIndividual, EndGeneration, DeletePopulation, Goto, vars, Over
  <2>. QED
    BY <2>1, SilentStep
<1>4. CASE ReduceParentPopulation \/ ReduceOffspringPopulation
  <2>1. ~Over
    BY <1>4 DEF ReduceParentPopulation, ReduceOffspringPopulation, Over
  <2>. QED
    BY <1>4, <2>1, ReductionFacts, SilentStep
<1>5. CASE GatherPopulation
  <2>1. ~Over
    BY <1>5 DEF GatherPopulation, Over
  <2>. QED
    BY <1>5, <2>1, GatherFacts, SilentStep
<1>6. CASE ReduceTotalPopulation
  <2>1. ~Over
    BY <1>6 DEF ReduceTotalPopulation, Over
  <2>2. params' = params /\ row' = row
    BY <1>6, ReduceOneFacts, ReplaceFacts DEF ReduceTotalPopulation, ArrayName
  <2>. QED
    BY <2>1, <2>2, SilentStep
<1>. QED
  BY <1>1, <1>2, <1>3, <1>4, <1>5, <1>6 DEF Next

(* The rows of every run are those that GenerationReport promises: one for     *)
(* generation 0 and one for each that follows, fewer than nbGen after it, with *)
(* the evaluations counted; and with an elite that fits, of either kind, and   *)
(* no immigration the best fitness never gets worse.                           *)
THEOREM ReportImplemented == Spec => ImplementsReport
<1>1. Init => Counts /\ Kept /\ Report!Init
  <2> SUFFICES ASSUME Init
               PROVE  Counts /\ Kept /\ Report!Init
    OBVIOUS
  <2>1. /\ pc \in {"initialize", "exit"} /\ row = None
        /\ currentGeneration = 0 /\ currentEvaluationNb = 0
        /\ params \in {ParametersOf(c) : c \in CommandLines}
    BY DEF Init
  <2>2. Counts
    BY <2>1 DEF Counts, Generation
  <2>3. Kept
    BY <2>1 DEF Kept
  <2>4. Report!Init
    BY <2>1 DEF Report!Init
  <2>. QED
    BY <2>2, <2>3, <2>4
<1>2. Inv /\ Inv' /\ Counts /\ Kept /\ [Next]_vars => Counts' /\ Kept'
  BY CountsInductive, KeptInductive
<1>3. Inv /\ Counts /\ Kept /\ [Next]_vars => [Report!Next]_(Report!vars)
  BY StepReported
<1>. QED
  BY <1>1, <1>2, <1>3, Invariance, PTL DEF Spec, ImplementsReport, Report!Spec
=============================================================================
