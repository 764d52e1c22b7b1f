------------------------ MODULE MultiObjective_proofs ------------------------
(***************************************************************************)
(* Proofs about the multi-objective templates, for every set of objective  *)
(* values, every size of the populations and of the elite and every        *)
(* operator: who owns an individual, and that the rounds of CUDA_MO's      *)
(* evaluateMoPopulation peel off the Pareto fronts.                        *)
(***************************************************************************)
EXTENDS MultiObjective, ArrayTheorems

-----------------------------------------------------------------------------
(* Dominance *)

(* Dominance is a strict order, and it goes with a smaller sum. *)
LEMMA DominanceOrder ==
  ASSUME NEW p \in Objectives, NEW q \in Objectives
  PROVE  /\ ~Dominates(p, p)
         /\ \A r \in Objectives : Dominates(r, p) /\ Dominates(p, q) => Dominates(r, q)
         /\ Dominates(p, q) => p[1] + p[2] < q[1] + q[2]
         /\ p[1] + p[2] \in Nat
<1>1. \A r \in Objectives : r[1] \in Nat /\ r[2] \in Nat /\ r = <<r[1], r[2]>>
  <2> TAKE r \in Objectives
  <2>1. PICK a \in Values, b \in Values : r = <<a, b>>
    BY DEF Objectives
  <2>2. r[1] = a /\ r[2] = b
    BY <2>1
  <2>. QED
    BY <2>1, <2>2, ValuesAssumption
<1>2. \A r \in Objectives : r[1] = p[1] /\ r[2] = p[2] => r = p
  BY <1>1, Zenon
<1>3. Dominates(p, q) => p[1] # q[1] \/ p[2] # q[2]
  BY <1>1 DEF Dominates
<1>4. ASSUME NEW r \in Objectives, Dominates(r, p), Dominates(p, q)
      PROVE  Dominates(r, q)
  <2>1. r[1] <= p[1] /\ r[2] <= p[2] /\ p[1] <= q[1] /\ p[2] <= q[2]
    BY <1>4 DEF Dominates
  <2>2. r[1] <= q[1] /\ r[2] <= q[2]
    BY <1>1, <2>1
  <2>3. r # q
    <3>1. SUFFICES ASSUME r = q PROVE FALSE
      OBVIOUS
    <3>2. r[1] = p[1] /\ r[2] = p[2]
      BY <1>1, <2>1, <3>1
    <3>. QED
      BY <1>2, <1>4, <3>2 DEF Dominates
  <2>. QED
    BY <2>2, <2>3 DEF Dominates
<1>5. Dominates(p, q) => p[1] + p[2] < q[1] + q[2]
  BY <1>1, <1>3 DEF Dominates
<1>. QED
  BY <1>1, <1>4, <1>5 DEF Dominates

(* Whoever is dominated in a set is dominated by one that is not. *)
LEMMA DominatorOnTheFront ==
  ASSUME NEW I, NEW f \in [I -> Objectives], NEW S \in SUBSET I, NEW i \in S,
         \E j \in S : Dominates(f[j], f[i])
  PROVE  \E j \in S : /\ Dominates(f[j], f[i])
                      /\ \A k \in S : ~Dominates(f[k], f[j])
<1> DEFINE above == {j \in S : Dominates(f[j], f[i])}
           sum(j) == f[j][1] + f[j][2]
           T == {sum(j) : j \in above}
<1>1. \A j \in S : sum(j) \in Nat
  BY DominanceOrder
<1>2. T \subseteq Nat /\ T # {}
  BY <1>1
<1>3. PICK n \in T : \A k \in T : n <= k
  BY <1>2, LeastNatural
<1>4. PICK j \in above : n = sum(j)
  BY <1>3
<1>5. ASSUME NEW k \in S, Dominates(f[k], f[j])
      PROVE  FALSE
  <2>1. f[k] \in Objectives /\ f[j] \in Objectives /\ f[i] \in Objectives
    OBVIOUS
  <2>2. Dominates(f[k], f[i])
    BY <1>4, <1>5, <2>1, DominanceOrder
  <2>3. sum(k) \in T /\ n <= sum(k)
    BY <1>3, <2>2
  <2>4. sum(k) < sum(j)
    BY <1>5, <2>1, DominanceOrder
  <2>. QED
    BY <1>1, <1>4, <2>3, <2>4
<1>. QED
  BY <1>4, <1>5

-----------------------------------------------------------------------------
(* The rounds of the ranking *)

(* Before round r: the ranks g that those of I who are not in S have got are   *)
(* those of the fronts peeled off so far, and who is left in S is dominated by *)
(* one of the last front and dominates nobody who has a rank.                  *)
PeeledOff(I, S, f, g, r) ==
  /\ \A i \in I \ S : g[i] \in 1..(r - 1)
  /\ \A i, j \in I \ S : Dominates(f[j], f[i]) => g[j] < g[i]
  /\ \A i \in I \ S :
       g[i] = 1 \/ \E j \in I \ S : Dominates(f[j], f[i]) /\ g[j] = g[i] - 1
  /\ \A i \in S : r = 1 \/ \E j \in I \ S : Dominates(f[j], f[i]) /\ g[j] = r - 1
  /\ \A i \in S, j \in I \ S : ~Dominates(f[i], f[j])

(* A round that gives its rank to the non-dominated of those left. *)
LEMMA PeelFront ==
  ASSUME NEW I, NEW S \in SUBSET I, NEW f \in [I -> Objectives],
         NEW g \in [I -> Nat], NEW h \in [I -> Nat], NEW r \in Nat \ {0},
         PeeledOff(I, S, f, g, r),
         NEW N, N = {i \in S : \A j \in S : ~Dominates(f[j], f[i])},
         \A i \in I : h[i] = IF i \in N THEN r ELSE g[i]
  PROVE  PeeledOff(I, S \ N, f, h, r + 1)
<1> DEFINE done == I \ S
<1>1. /\ N \subseteq S /\ I \ (S \ N) = done \cup N
      /\ \A i \in N : h[i] = r
      /\ \A i \in done : h[i] = g[i] /\ g[i] \in 1..(r - 1)
  BY DEF PeeledOff
<1>2. \A i \in done \cup N : h[i] \in 1..((r + 1) - 1)
  BY <1>1
<1>3. ASSUME NEW i \in done \cup N, NEW j \in done \cup N, Dominates(f[j], f[i])
      PROVE  h[j] < h[i]
  <2>1. CASE i \in done /\ j \in done
    BY <1>1, <1>3, <2>1 DEF PeeledOff
  <2>2. CASE i \in N /\ j \in done
    BY <1>1, <2>2
  <2>3. CASE i \in done /\ j \in N
    BY <1>1, <1>3, <2>3 DEF PeeledOff
  <2>4. CASE i \in N /\ j \in N
    BY <1>1, <1>3, <2>4
  <2>. QED
    BY <2>1, <2>2, <2>3, <2>4
<1>4. ASSUME NEW i \in done \cup N
      PROVE  h[i] = 1 \/ \E j \in done \cup N : Dominates(f[j], f[i]) /\ h[j] = h[i] - 1
  <2>1. CASE i \in done
    BY <1>1, <2>1 DEF PeeledOff
  <2>2. CASE i \in N
    BY <1>1, <2>2 DEF PeeledOff
  <2>. QED
    BY <2>1, <2>2
<1>5. ASSUME NEW i \in S \ N
      PROVE  \E j \in done \cup N : Dominates(f[j], f[i]) /\ h[j] = (r + 1) - 1
  <2>1. PICK j \in S : Dominates(f[j], f[i]) /\ \A k \in S : ~Dominates(f[k], f[j])
    BY DominatorOnTheFront
  <2>2. j \in N /\ h[j] = (r + 1) - 1
    BY <1>1, <2>1
  <2>. QED
    BY <2>1, <2>2
<1>6. \A i \in S \ N, j \in done \cup N : ~Dominates(f[i], f[j])
  BY DEF PeeledOff
<1> HIDE DEF done
<1>. QED
  BY <1>1, <1>2, <1>3, <1>4, <1>5, <1>6 DEF PeeledOff

-----------------------------------------------------------------------------
(* The inductive invariant *)

Size(a) == Len(arrays[a])

NothingChosen == Size("nextGeneration") = 0 /\ Size("globalPopulation") = 0

(* How many individuals each array holds, wherever the thread is: elitism and  *)
(* reduction only move them, so that offspringPopulationSize are left over.    *)
Lengths ==
  /\ pc = "initialize" =>
       Size("parents") <= line.parentPopulationSize /\ Size("offsprings") = 0 /\ NothingChosen
  /\ pc = "rank" =>
       /\ Size("parents") = line.parentPopulationSize
       /\ Size("offsprings") \in {0, line.offspringPopulationSize}
       /\ NothingChosen
  /\ pc \in {"criteria", "finish"} =>
       Size("parents") = line.parentPopulationSize /\ Size("offsprings") = 0 /\ NothingChosen
  /\ pc = "produce" =>
       /\ Size("parents") = line.parentPopulationSize
       /\ Size("offsprings") <= line.offspringPopulationSize
       /\ NothingChosen
  /\ pc = "elitism" =>
       /\ Size("parents") + Size("nextGeneration") = line.parentPopulationSize
       /\ Size("offsprings") = line.offspringPopulationSize
       /\ Size("globalPopulation") = 0
       /\ Size("nextGeneration") <= line.ELITE_SIZE
       /\ ~line.ELITISM => Size("nextGeneration") = 0
  /\ pc \in {"gathered", "reduce"} =>
       /\ Size("parents") = 0 /\ Size("offsprings") = 0
       /\ Size("nextGeneration") + Size("globalPopulation")
            = line.parentPopulationSize + line.offspringPopulationSize
  /\ pc = "gathered" => Size("nextGeneration") <= line.ELITE_SIZE
  /\ pc \in {"gathered", "reduce"} =>
       Size("nextGeneration") <= line.parentPopulationSize

Given(i) == Fit(ranking[i])

(* What the rounds before this one have given in CUDA_MO. *)
Peeled ==
  PeeledOff(DOMAIN ranking, left, [i \in DOMAIN ranking |-> F(i)],
            [i \in DOMAIN ranking |-> Given(i)], rank)

Ranking ==
  pc = "rank" =>
    /\ ranking = Parents \o Offsprings
    /\ line.template = "CUDA_MO" => Peeled

(* where the objectives of every individual are those of its genome, but for   *)
(* an offspring that is still to be evaluated                                  *)
ObjectivesCurrent ==
  line.template = "CUDA_MO" \/ line.always =>
    \A a \in allocated :
      \/ heap[a].f = heap[a].genome
      \/ /\ pc \in {"produce", "wild"} /\ a \in Range(Offsprings)
         /\ line.template = "STD_MO" => ~heap[a].valid

(* the array that a Deterministic replacement takes from is still sorted *)
StillSorted ==
  pc = "reduce" /\ line.replacement = "Deterministic" =>
    \A j, k \in DOMAIN arrays["globalPopulation"] : j < k =>
      ~Better(Fit(arrays["globalPopulation"][j]), Fit(arrays["globalPopulation"][k]))

Inv ==
  /\ TypeOK
  /\ OwnedBy(ArrayName, arrays, allocated)
  /\ Lengths
  /\ Ranking
  /\ ObjectivesCurrent
  /\ StillSorted
  /\ DeterministicKeepsBestRanks

LEMMA LineTyped ==
  ASSUME line \in Lines
  PROVE  /\ line.parentPopulationSize \in Nat /\ line.parentPopulationSize > 0
         /\ line.offspringPopulationSize \in Nat /\ line.offspringPopulationSize > 0
         /\ line.ELITE_SIZE \in Nat
         /\ line.nbGen \in Nat
         /\ line.ELITISM \in BOOLEAN /\ line.minimizing \in BOOLEAN /\ line.always \in BOOLEAN
         /\ line.template \in {"STD_MO", "CUDA_MO"}
  BY LinesAssumption DEF Line, Template

LEMMA IndividualsTyped ==
  /\ Unset \in Individual
  /\ \A g \in Objectives : NewIndividual(g) \in Individual /\ NewIndividual(g).f = g
                           /\ NewIndividual(g).genome = g
  /\ \A x \in Individual :
       /\ Evaluated(x) \in Individual /\ Evaluated(x).genome = x.genome
       /\ Evaluated(x).fitness = x.fitness
       /\ \A y \in Children(x) : y \in Individual
       /\ \A y \in Children(x) : line.always = TRUE => ~y.valid
<1>1. Objectives # {}
  <2>1. PICK v \in Values : TRUE
    BY ValuesAssumption
  <2>2. <<v, v>> \in Objectives
    BY <2>1 DEF Objectives
  <2>. QED
    BY <2>2
<1>2. (CHOOSE o \in Objectives : TRUE) \in Objectives
  BY <1>1
<1>3. Unset \in Individual
  BY <1>2 DEF Unset, Individual
<1>4. ASSUME NEW g \in Objectives
      PROVE  /\ NewIndividual(g) \in Individual /\ NewIndividual(g).f = g
             /\ NewIndividual(g).genome = g
  BY <1>3 DEF NewIndividual, Individual
<1>5. ASSUME NEW x \in Individual
      PROVE  /\ Evaluated(x) \in Individual /\ Evaluated(x).genome = x.genome
             /\ Evaluated(x).fitness = x.fitness
  BY DEF Evaluated, Individual
<1>6. ASSUME NEW x \in Individual, NEW y \in Children(x)
      PROVE  y \in Individual /\ (line.always = TRUE => ~y.valid)
  <2>1. CASE y \in {Recombined(x, g) : g \in Objectives}
    BY <2>1 DEF Recombined, Individual
  <2>2. CASE line.always # TRUE /\ y \in Clones(x)
    BY <2>2 DEF Clones, Individual
  <2>. QED
    BY <2>1, <2>2 DEF Children
<1>. QED
  BY <1>3, <1>4, <1>5, <1>6

(* What the operations on the arrays rest on. *)
LEMMA InvFacts ==
  ASSUME Inv
  PROVE  /\ line \in Lines
         /\ arrays \in [ArrayName -> Seq(Address)]
         /\ \A a \in ArrayName :
              /\ arrays[a] \in Seq(Address) /\ Len(arrays[a]) \in Nat
              /\ DOMAIN arrays[a] = 1..Len(arrays[a])
              /\ Len(arrays[a]) = 0 <=> arrays[a] = <<>>
              /\ Range(arrays[a]) \subseteq allocated
         /\ heap \in [Address -> Individual]
         /\ allocated \subseteq Address
         /\ \A a \in Address : heap[a] \in Individual /\ heap[a].f \in Objectives
                               /\ heap[a].fitness \in Nat
         /\ {"parents", "offsprings", "nextGeneration", "globalPopulation"} = ArrayName
<1>1. /\ line \in Lines /\ arrays \in [ArrayName -> Seq(Address)]
      /\ heap \in [Address -> Individual] /\ allocated \subseteq Address
  BY DEF Inv, TypeOK
<1>2. \A a \in ArrayName : arrays[a] \in Seq(Address)
  BY <1>1
<1>3. \A t \in Seq(Address) : /\ Len(t) \in Nat /\ DOMAIN t = 1..Len(t)
                              /\ Len(t) = 0 <=> t = <<>>
  OBVIOUS
<1>4. \A a \in ArrayName : Range(arrays[a]) \subseteq allocated
  BY DEF Inv, OwnedBy
<1>5. \A a \in Address : heap[a] \in Individual /\ heap[a].f \in Objectives
                         /\ heap[a].fitness \in Nat
  BY <1>1 DEF Individual
<1>. QED
  BY <1>1, <1>2, <1>3, <1>4, <1>5 DEF ArrayName

-----------------------------------------------------------------------------
(* The operations on arrays and heap *)

LEMMA Constructed ==
  ASSUME Inv, NEW x \in Individual, NEW to \in ArrayName, Construct(x, to)
  PROVE  /\ Fresh \in Address /\ Fresh \notin allocated
         /\ allocated' = allocated \cup {Fresh} /\ allocated' \subseteq Address
         /\ heap' \in [Address -> Individual]
         /\ heap'[Fresh] = x
         /\ \A a \in Address \ {Fresh} : heap'[a] = heap[a]
         /\ arrays' \in [ArrayName -> Seq(Address)]
         /\ OwnedBy(ArrayName, arrays', allocated')
         /\ Len(arrays'[to]) = Len(arrays[to]) + 1
         /\ Range(arrays'[to]) = Range(arrays[to]) \cup {Fresh}
         /\ \A a \in ArrayName \ {to} : arrays'[a] = arrays[a]
<1>1. Fresh \in Address /\ Fresh \notin allocated
  BY DEF Construct, Fresh
<1>2. /\ heap' \in [Address -> Individual] /\ heap'[Fresh] = x
      /\ \A a \in Address \ {Fresh} : heap'[a] = heap[a]
  BY <1>1, InvFacts DEF Construct
<1>3. allocated' = allocated \cup {Fresh} /\ allocated' \subseteq Address
  BY <1>1, InvFacts DEF Construct
<1>4. arrays' = Added(arrays, to, Fresh)
  BY DEF Construct, Added
<1>5. arrays \in [ArrayName -> Seq(Address)] /\ OwnedBy(ArrayName, arrays, allocated)
  BY InvFacts DEF Inv
<1>6. /\ arrays' \in [ArrayName -> Seq(Address)]
      /\ OwnedBy(ArrayName, arrays', allocated \cup {Fresh})
      /\ Len(arrays'[to]) = Len(arrays[to]) + 1
      /\ \A a \in ArrayName \ {to} : arrays'[a] = arrays[a]
  <2> DEFINE new == Fresh
  <2>1. new \in Address /\ new \notin allocated /\ arrays' = Added(arrays, to, new)
    BY <1>1, <1>4
  <2> HIDE DEF new
  <2>2. OwnedBy(ArrayName, arrays', allocated \cup {new})
    BY <1>5, <2>1, AppendOwned
  <2>3. /\ arrays' \in [ArrayName -> Seq(Address)]
        /\ Len(arrays'[to]) = Len(arrays[to]) + 1
        /\ \A a \in ArrayName \ {to} : arrays'[a] = arrays[a]
    BY <1>5, <2>1, <2>2, AppendOwned
  <2>. QED
    BY <2>2, <2>3 DEF new
<1>7. Range(arrays'[to]) = Range(arrays[to]) \cup {Fresh}
  <2>1. arrays'[to] = Append(arrays[to], Fresh)
    BY <1>4, <1>5 DEF Added
  <2>2. /\ arrays[to] \in Seq(Address) /\ IsInjective(arrays[to])
        /\ Fresh \notin Range(arrays[to])
    BY <1>1, <1>5 DEF OwnedBy
  <2>. QED
    BY <1>1, <2>1, <2>2, AppendRange
<1>. QED
  BY <1>1, <1>2, <1>3, <1>6, <1>7

LEMMA Deleted ==
  ASSUME Inv, NEW S, Delete(S)
  PROVE  /\ heap' \in [Address -> Individual]
         /\ allocated' = allocated \ S /\ allocated' \subseteq Address
         /\ \A a \in allocated' : heap'[a] = heap[a]
<1>1. /\ allocated' = allocated \ S
      /\ heap' = [a \in Address |-> IF a \in S THEN Unset ELSE heap[a]]
  BY DEF Delete
<1>2. \A a \in Address : (IF a \in S THEN Unset ELSE heap[a]) \in Individual
  BY InvFacts, IndividualsTyped
<1>. QED
  BY <1>1, <1>2, InvFacts

LEMMA MoveFacts ==
  ASSUME Inv, NEW from \in ArrayName, NEW to \in ArrayName, from # to,
         NEW k \in 1..Len(arrays[from]), Move(from, k, to)
  PROVE  /\ arrays' \in [ArrayName -> Seq(Address)]
         /\ OwnedBy(ArrayName, arrays', allocated)
         /\ Len(arrays'[from]) = Len(arrays[from]) - 1
         /\ Len(arrays'[to]) = Len(arrays[to]) + 1
         /\ \A a \in ArrayName \ {from, to} : arrays'[a] = arrays[a]
<1>1. arrays \in [ArrayName -> Seq(Address)] /\ OwnedBy(ArrayName, arrays, allocated)
  BY InvFacts DEF Inv
<1>2. arrays' = Moved(arrays, from, k, to)
  BY DEF Move, SwapOut, Without, Moved
<1>. QED
  BY <1>1, <1>2, MoveOwned

(* initialize of an operator rearranges the array, and Deterministic sorts it. *)
LEMMA ArrangedFacts ==
  ASSUME NEW operator, NEW s \in Seq(Address), IsInjective(s), NEW t \in Arranged(operator, s)
  PROVE  /\ t \in Seq(Address) /\ Len(t) = Len(s) /\ IsInjective(t) /\ Range(t) = Range(s)
         /\ operator = "Deterministic" =>
              \A j, k \in DOMAIN t : j < k => ~Better(Fit(t[j]), Fit(t[k]))
<1>1. CASE operator = "Deterministic"
  <2>1. PICK order \in Bijection(DOMAIN s, DOMAIN s) :
          /\ t = [k \in DOMAIN s |-> s[order[k]]]
          /\ \A j, k \in DOMAIN s : j < k => ~Better(Fit(t[j]), Fit(t[k]))
    BY <1>1 DEF Arranged
  <2>2. DOMAIN s = 1..Len(s)
    OBVIOUS
  <2>3. /\ t \in Seq(Address) /\ Len(t) = Len(s) /\ IsInjective(t) /\ Range(t) = Range(s)
    BY <2>1, <2>2, PermutedRange
  <2>4. DOMAIN t = DOMAIN s
    BY <2>2, <2>3
  <2>. QED
    BY <2>1, <2>3, <2>4
<1>2. CASE operator # "Deterministic"
  BY <1>2 DEF Arranged
<1>. QED
  BY <1>1, <1>2

(* Nothing but the thread's place changes what is still to be evaluated. *)
LEMMA StillCurrent ==
  ASSUME Inv, pc \notin {"produce", "wild"}, line' = line,
         allocated' \subseteq allocated,
         \A a \in allocated' : heap'[a].f = heap[a].f /\ heap'[a].genome = heap[a].genome
  PROVE  ObjectivesCurrent'
  BY DEF Inv, ObjectivesCurrent

(* A step that is not a reduction and does not rank. *)
LEMMA InvElsewhere ==
  ASSUME pc' \notin {"rank", "reduce"},
         TypeOK', OwnedBy(ArrayName, arrays', allocated'), Lengths', ObjectivesCurrent'
  PROVE  Inv'
  BY DEF Inv, Ranking, StillSorted, DeterministicKeepsBestRanks

-----------------------------------------------------------------------------
(* Each step keeps the invariant *)

LEMMA AddIndividualInv ==
  ASSUME Inv, AddIndividual
  PROVE  Inv'
<1>1. /\ pc = "initialize" /\ pc' = pc /\ line' = line
      /\ Size("parents") < line.parentPopulationSize
      /\ ranking' = ranking /\ left' = left /\ rank' = rank /\ generation' = generation
  BY DEF AddIndividual, Parents, Size
<1>2. PICK g \in Objectives : Construct(NewIndividual(g), "parents")
  BY DEF AddIndividual
<1>3. NewIndividual(g) \in Individual /\ NewIndividual(g).f = NewIndividual(g).genome
  BY IndividualsTyped
<1>4. "parents" \in ArrayName
  BY InvFacts
<1>5. /\ Fresh \in Address /\ Fresh \notin allocated
      /\ allocated' = allocated \cup {Fresh} /\ allocated' \subseteq Address
      /\ heap' \in [Address -> Individual]
      /\ heap'[Fresh] = NewIndividual(g)
      /\ \A a \in Address \ {Fresh} : heap'[a] = heap[a]
      /\ arrays' \in [ArrayName -> Seq(Address)]
      /\ OwnedBy(ArrayName, arrays', allocated')
      /\ Len(arrays'["parents"]) = Len(arrays["parents"]) + 1
      /\ \A a \in ArrayName \ {"parents"} : arrays'[a] = arrays[a]
  BY <1>2, <1>3, <1>4, Constructed
<1>6. TypeOK'
  BY <1>1, <1>5 DEF Inv, TypeOK
<1>7. Lengths'
  <2>1. Size("parents") \in Nat /\ line.parentPopulationSize \in Nat
    BY InvFacts, LineTyped DEF Size
  <2>2. Size("parents")' <= line.parentPopulationSize
    BY <1>1, <1>5, <2>1 DEF Size
  <2>3. \A a \in {"offsprings", "nextGeneration", "globalPopulation"} : Size(a)' = Size(a)
    BY <1>5, InvFacts DEF Size
  <2>4. Size("offsprings") = 0 /\ NothingChosen
    BY <1>1 DEF Inv, Lengths
  <2>. QED
    BY <1>1, <2>2, <2>3, <2>4 DEF Lengths, NothingChosen
<1>8. ObjectivesCurrent'
  BY <1>1, <1>3, <1>5, InvFacts DEF Inv, ObjectivesCurrent
<1>. QED
  BY <1>1, <1>5, <1>6, <1>7, <1>8, InvElsewhere

(* A ranking starts with nobody ranked. *)
LEMMA RankInv ==
  ASSUME Inv, Rank, line' = line, arrays' = arrays,
         heap' \in [Address -> Individual], allocated' = allocated, generation' = generation,
         Size("parents") = line.parentPopulationSize,
         Size("offsprings") \in {0, line.offspringPopulationSize}, NothingChosen,
         ObjectivesCurrent'
  PROVE  Inv'
<1>1. /\ pc' = "rank" /\ ranking' = Parents \o Offsprings
      /\ left' = 1..(Len(Parents) + Len(Offsprings)) /\ rank' = 1
  BY DEF Rank, Goto
<1>2. /\ Parents \in Seq(Address) /\ Offsprings \in Seq(Address)
  BY InvFacts DEF Parents, Offsprings
<1>3. ranking' \in Seq(Address) /\ left' = DOMAIN ranking'
  BY <1>1, <1>2
<1>4. TypeOK'
  BY <1>1, <1>3 DEF Inv, TypeOK
<1>5. Lengths'
  BY <1>1 DEF Lengths, Size, NothingChosen
<1>6. Peeled'
  BY <1>1, <1>3 DEF Peeled, PeeledOff
<1>7. Ranking'
  BY <1>1, <1>6 DEF Ranking, Parents, Offsprings
<1>8. OwnedBy(ArrayName, arrays', allocated')
  BY DEF Inv
<1>. QED
  BY <1>1, <1>4, <1>5, <1>7, <1>8 DEF Inv, StillSorted, DeterministicKeepsBestRanks

LEMMA EvaluateParentsInv ==
  ASSUME Inv, EvaluateParents
  PROVE  Inv'
<1>1. /\ pc = "initialize" /\ Size("parents") = line.parentPopulationSize /\ Rank
      /\ line' = line /\ arrays' = arrays /\ heap' = heap /\ allocated' = allocated
      /\ generation' = generation
  BY DEF EvaluateParents, Parents, Size
<1>2. Size("offsprings") = 0 /\ NothingChosen
  BY <1>1 DEF Inv, Lengths
<1>3. ObjectivesCurrent'
  BY <1>1, StillCurrent
<1>. QED
  BY <1>1, <1>2, <1>3, InvFacts, RankInv

LEMMA RankFrontInv ==
  ASSUME Inv, RankFront
  PROVE  Inv'
<1>1. /\ pc = "rank" /\ pc' = pc /\ line' = line /\ arrays' = arrays /\ allocated' = allocated
      /\ ranking' = ranking /\ left' = left \ Front /\ rank' = rank + 1
      /\ generation' = generation
      /\ heap' = [a \in Address |-> IF \E i \in Front : ranking[i] = a
                                      THEN [heap[a] EXCEPT !.fitness = rank] ELSE heap[a]]
  BY DEF RankFront
<1>2. /\ ranking = Parents \o Offsprings /\ ranking \in Seq(Address)
      /\ left \subseteq DOMAIN ranking /\ rank \in Nat \ {0}
  BY <1>1 DEF Inv, Ranking, TypeOK
<1>3. IsInjective(ranking)
  <2>1. /\ Parents \in Seq(Address) /\ Offsprings \in Seq(Address)
        /\ IsInjective(Parents) /\ IsInjective(Offsprings)
        /\ Range(Parents) \cap Range(Offsprings) = {}
    BY InvFacts DEF Inv, OwnedBy, Parents, Offsprings
  <2>. QED
    BY <1>2, <2>1, ConcatRange
<1>4. \A i, j \in DOMAIN ranking : ranking[i] = ranking[j] => i = j
  BY <1>3 DEF IsInjective
<1>5. \A i \in DOMAIN ranking : ranking[i] \in Address
  BY <1>2
<1>6. Front \subseteq left
  BY DEF Front, NonDominated, FirstLeft
<1>7. \A a \in Address :
        /\ heap'[a] \in Individual
        /\ heap'[a].f = heap[a].f /\ heap'[a].genome = heap[a].genome
        /\ heap'[a].valid = heap[a].valid
  BY <1>1, <1>2, InvFacts DEF Individual
<1>8. \A i \in DOMAIN ranking :
        heap'[ranking[i]].fitness = IF i \in Front THEN rank ELSE heap[ranking[i]].fitness
  <2> TAKE i \in DOMAIN ranking
  <2>1. (\E j \in Front : ranking[j] = ranking[i]) <=> i \in Front
    BY <1>2, <1>4, <1>6
  <2>2. heap[ranking[i]] \in Individual
    BY <1>5, InvFacts
  <2>. QED
    BY <1>1, <1>5, <2>1, <2>2 DEF Individual
<1>9. TypeOK'
  <2>1. heap' \in [Address -> Individual]
    BY <1>1, <1>7
  <2>2. rank' \in Nat \ {0} /\ left' \subseteq DOMAIN ranking'
    BY <1>1, <1>2
  <2>. QED
    BY <1>1, <2>1, <2>2 DEF Inv, TypeOK
<1>10. Lengths'
  BY <1>1 DEF Inv, Lengths, Size, NothingChosen
<1>11. ASSUME line.template = "CUDA_MO"
       PROVE  Peeled'
  <2> DEFINE I == DOMAIN ranking
             f == [i \in I |-> F(i)]
             g == [i \in I |-> Given(i)]
             h == [i \in I |-> Given(i)']
  <2>1. PeeledOff(I, left, f, g, rank)
    BY <1>1, <1>11 DEF Inv, Ranking, Peeled
  <2>2. f \in [I -> Objectives] /\ g \in [I -> Nat]
    BY <1>5, InvFacts DEF F, Given, Fit
  <2>3. \A i \in I : h[i] = IF i \in Front THEN rank ELSE g[i]
    BY <1>1, <1>8 DEF Given, Fit
  <2>4. h \in [I -> Nat]
    BY <1>2, <2>2, <2>3
  <2>5. Front = {i \in left : \A j \in left : ~Dominates(f[j], f[i])}
    BY <1>2, <1>11 DEF Front, NonDominated
  <2>6. [i \in DOMAIN ranking' |-> F(i)'] = f
    BY <1>1, <1>5, <1>7 DEF F
  <2> HIDE DEF f, g, h, I
  <2>7. PeeledOff(I, left \ Front, f, h, rank + 1)
    BY <1>2, <2>1, <2>2, <2>3, <2>4, <2>5, PeelFront DEF I
  <2>. QED
    BY <1>1, <2>6, <2>7 DEF Peeled, I, h
<1>12. Ranking'
  BY <1>1, <1>2, <1>11 DEF Ranking, Parents, Offsprings
<1>13. ObjectivesCurrent'
  BY <1>1, <1>7, InvFacts, StillCurrent
<1>14. OwnedBy(ArrayName, arrays', allocated')
  BY <1>1 DEF Inv
<1>. QED
  BY <1>1, <1>9, <1>10, <1>12, <1>13, <1>14
     DEF Inv, StillSorted, DeterministicKeepsBestRanks

LEMMA RankedInv ==
  ASSUME Inv, Ranked
  PROVE  Inv'
<1>1. /\ pc = "rank" /\ pc' = (IF Offsprings = <<>> THEN "criteria" ELSE "elitism")
      /\ line' = line /\ arrays' = arrays /\ heap' = heap /\ allocated' = allocated
      /\ left = {} /\ left' = {} /\ ranking' = <<>> /\ rank' = 1 /\ generation' = generation
  BY DEF Ranked, Goto
<1>2. TypeOK'
  BY <1>1 DEF Inv, TypeOK
<1>3. Lengths'
  <2>1. Offsprings = <<>> <=> Size("offsprings") = 0
    BY InvFacts DEF Offsprings, Size
  <2>2. /\ Size("parents") = line.parentPopulationSize
        /\ Size("offsprings") \in {0, line.offspringPopulationSize}
        /\ Size("nextGeneration") = 0 /\ Size("globalPopulation") = 0
    BY <1>1 DEF Inv, Lengths, NothingChosen
  <2>3. \A a : Size(a)' = Size(a)
    BY <1>1 DEF Size
  <2>. QED
    BY <1>1, <2>1, <2>2, <2>3, InvFacts, LineTyped DEF Lengths, NothingChosen
<1>4. ObjectivesCurrent'
  BY <1>1, StillCurrent
<1>5. OwnedBy(ArrayName, arrays', allocated')
  BY <1>1 DEF Inv
<1>. QED
  BY <1>1, <1>2, <1>3, <1>4, <1>5, InvElsewhere

(* An array that is rearranged keeps its owner. *)
LEMMA RearrangedOwned ==
  ASSUME Inv, NEW n \in ArrayName, NEW t \in Seq(Address), IsInjective(t),
         Len(t) = Len(arrays[n]), Range(t) = Range(arrays[n]),
         arrays' = [arrays EXCEPT ![n] = t]
  PROVE  /\ arrays' \in [ArrayName -> Seq(Address)]
         /\ OwnedBy(ArrayName, arrays', allocated)
         /\ \A a \in ArrayName : Size(a)' = Size(a) /\ Range(arrays'[a]) = Range(arrays[a])
<1>1. /\ arrays' \in [ArrayName -> Seq(Address)]
      /\ arrays'[n] = t /\ \A a \in ArrayName \ {n} : arrays'[a] = arrays[a]
  BY InvFacts
<1>2. \A a \in ArrayName : /\ Size(a)' = Size(a) /\ Range(arrays'[a]) = Range(arrays[a])
                           /\ IsInjective(arrays[a]) => IsInjective(arrays'[a])
  BY <1>1 DEF Size
<1>3. OwnedBy(ArrayName, arrays', allocated)
  BY <1>2 DEF Inv, OwnedBy
<1>. QED
  BY <1>1, <1>2, <1>3

LEMMA CheckCriteriaInv ==
  ASSUME Inv, CheckCriteria
  PROVE  Inv'
<1>1. /\ pc = "criteria" /\ pc' \in {"finish", "produce"}
      /\ line' = line /\ heap' = heap /\ allocated' = allocated
      /\ left' = left /\ ranking' = ranking /\ rank' = rank /\ generation' = generation
  BY DEF CheckCriteria, Goto
<1>2. /\ arrays' \in [ArrayName -> Seq(Address)]
      /\ OwnedBy(ArrayName, arrays', allocated)
      /\ \A a \in ArrayName : Size(a)' = Size(a)
  <2>1. CASE arrays' = arrays
    BY <2>1, InvFacts DEF Inv, Size
  <2>2. CASE \E s \in Arranged(line.selection, Parents) :
               arrays' = [arrays EXCEPT !["parents"] = s]
    <3>1. PICK s \in Arranged(line.selection, Parents) :
            arrays' = [arrays EXCEPT !["parents"] = s]
      BY <2>2
    <3>2. Parents = arrays["parents"] /\ "parents" \in ArrayName
      BY InvFacts DEF Parents
    <3>3. Parents \in Seq(Address) /\ IsInjective(Parents)
      BY <3>2, InvFacts DEF Inv, OwnedBy
    <3>4. /\ s \in Seq(Address) /\ Len(s) = Len(arrays["parents"]) /\ IsInjective(s)
          /\ Range(s) = Range(arrays["parents"])
      BY <3>2, <3>3, ArrangedFacts
    <3>. QED
      BY <3>1, <3>2, <3>4, RearrangedOwned
  <2>. QED
    BY <2>1, <2>2 DEF CheckCriteria
<1>3. TypeOK'
  BY <1>1, <1>2 DEF Inv, TypeOK
<1>4. Lengths'
  <2>1. /\ Size("parents") = line.parentPopulationSize /\ Size("offsprings") = 0
        /\ Size("nextGeneration") = 0 /\ Size("globalPopulation") = 0
    BY <1>1 DEF Inv, Lengths, NothingChosen
  <2>. QED
    BY <1>1, <1>2, <2>1, InvFacts, LineTyped DEF Lengths, NothingChosen
<1>5. ObjectivesCurrent'
  BY <1>1, StillCurrent
<1>. QED
  BY <1>1, <1>2, <1>3, <1>4, <1>5, InvElsewhere

LEMMA ProduceOffspringInv ==
  ASSUME Inv, ProduceOffspring
  PROVE  Inv'
<1>1. /\ pc = "produce" /\ pc' = pc /\ line' = line
      /\ Size("offsprings") < line.offspringPopulationSize
      /\ ranking' = ranking /\ left' = left /\ rank' = rank /\ generation' = generation
  BY DEF ProduceOffspring, Offsprings, Size
<1>2. PICK k \in Selectable(line.selection, Parents) :
        \E x \in Children(heap[Parents[k]]) : Construct(x, "offsprings")
  BY DEF ProduceOffspring
<1>3. PICK x \in Children(heap[Parents[k]]) : Construct(x, "offsprings")
  BY <1>2
<1>4. k \in 1..Len(Parents)
  <2>1. Len(Parents) \in Nat /\ Len(Parents) > 0 /\ DOMAIN Parents = 1..Len(Parents)
    BY <1>1, InvFacts, LineTyped DEF Inv, Lengths, Size, Parents
  <2>. QED
    BY <2>1 DEF Selectable
<1>5. Parents[k] \in allocated /\ Parents[k] \in Address /\ Parents[k] \notin Range(Offsprings)
  <2>1. Parents[k] \in Range(Parents)
    BY <1>4, InvFacts, RangeOfArray DEF Parents
  <2>. QED
    BY <2>1, InvFacts DEF Inv, OwnedBy, Parents, Offsprings
<1>6. x \in Individual /\ (line.always = TRUE => ~x.valid)
  BY <1>5, InvFacts, IndividualsTyped
<1>7. "offsprings" \in ArrayName
  BY InvFacts
<1>8. /\ Fresh \in Address /\ Fresh \notin allocated
      /\ allocated' = allocated \cup {Fresh} /\ allocated' \subseteq Address
      /\ heap' \in [Address -> Individual]
      /\ heap'[Fresh] = x
      /\ \A a \in Address \ {Fresh} : heap'[a] = heap[a]
      /\ arrays' \in [ArrayName -> Seq(Address)]
      /\ OwnedBy(ArrayName, arrays', allocated')
      /\ Len(arrays'["offsprings"]) = Len(arrays["offsprings"]) + 1
      /\ Range(arrays'["offsprings"]) = Range(arrays["offsprings"]) \cup {Fresh}
      /\ \A a \in ArrayName \ {"offsprings"} : arrays'[a] = arrays[a]
  BY <1>3, <1>6, <1>7, Constructed
<1>9. TypeOK'
  BY <1>1, <1>8 DEF Inv, TypeOK
<1>10. Lengths'
  <2>1. Size("offsprings") \in Nat /\ line.offspringPopulationSize \in Nat
    BY InvFacts, LineTyped DEF Size
  <2>2. Size("offsprings")' <= line.offspringPopulationSize
    BY <1>1, <1>8, <2>1 DEF Size
  <2>3. \A a \in {"parents", "nextGeneration", "globalPopulation"} : Size(a)' = Size(a)
    BY <1>8, InvFacts DEF Size
  <2>4. Size("parents") = line.parentPopulationSize /\ NothingChosen
    BY <1>1 DEF Inv, Lengths
  <2>. QED
    BY <1>1, <2>2, <2>3, <2>4 DEF Lengths, NothingChosen
<1>11. ObjectivesCurrent'
  <2> SUFFICES ASSUME line.template = "CUDA_MO" \/ line.always, NEW a \in allocated'
               PROVE  \/ heap'[a].f = heap'[a].genome
                      \/ /\ a \in Range(arrays'["offsprings"])
                         /\ line.template = "STD_MO" => ~heap'[a].valid
    BY <1>1 DEF ObjectivesCurrent, Offsprings
  <2>1. CASE a = Fresh
    BY <1>6, <1>8, <2>1, InvFacts, LineTyped
  <2>2. CASE a # Fresh
    <3>1. a \in allocated /\ heap'[a] = heap[a]
      BY <1>8, <2>2
    <3>2. \/ heap[a].f = heap[a].genome
          \/ a \in Range(arrays["offsprings"]) /\ (line.template = "STD_MO" => ~heap[a].valid)
      BY <3>1 DEF Inv, ObjectivesCurrent, Offsprings
    <3>. QED
      BY <1>8, <3>1, <3>2
  <2>. QED
    BY <2>1, <2>2
<1>. QED
  BY <1>1, <1>8, <1>9, <1>10, <1>11, InvElsewhere

LEMMA EvaluateOffspringInv ==
  ASSUME Inv, EvaluateOffspring
  PROVE  Inv'
<1>1. /\ pc = "produce" /\ Size("offsprings") = line.offspringPopulationSize /\ Rank
      /\ line' = line /\ arrays' = arrays /\ allocated' = allocated
      /\ generation' = generation
      /\ heap' = [a \in Address |->
                    IF a \in Range(Offsprings) THEN Evaluated(heap[a]) ELSE heap[a]]
  BY DEF EvaluateOffspring, Offsprings, Size
<1>2. Size("parents") = line.parentPopulationSize /\ NothingChosen
  BY <1>1 DEF Inv, Lengths
<1>3. heap' \in [Address -> Individual]
  <2>1. \A a \in Address :
          (IF a \in Range(Offsprings) THEN Evaluated(heap[a]) ELSE heap[a]) \in Individual
    BY InvFacts, IndividualsTyped
  <2>. QED
    BY <1>1, <2>1
<1>4. ObjectivesCurrent'
  <2> SUFFICES ASSUME line.template = "CUDA_MO" \/ line.always, NEW a \in allocated
               PROVE  heap'[a].f = heap'[a].genome
    BY <1>1 DEF ObjectivesCurrent
  <2>1. a \in Address /\ heap[a] \in Individual
    BY InvFacts
  <2>2. \/ heap[a].f = heap[a].genome
        \/ a \in Range(Offsprings) /\ (line.template = "STD_MO" => ~heap[a].valid)
    BY DEF Inv, ObjectivesCurrent
  <2>3. CASE a \in Range(Offsprings)
    <3>1. heap'[a] = Evaluated(heap[a])
      BY <1>1, <2>1, <2>3
    <3>. QED
      BY <2>1, <2>2, <3>1 DEF Evaluated, Individual
  <2>4. CASE a \notin Range(Offsprings)
    BY <1>1, <2>1, <2>2, <2>4
  <2>. QED
    BY <2>3, <2>4
<1>. QED
  BY <1>1, <1>2, <1>3, <1>4, RankInv

LEMMA SaveEliteFacts ==
  ASSUME Inv, NEW from \in {"parents", "globalPopulation"}, SaveElite(from)
  PROVE  /\ arrays' \in [ArrayName -> Seq(Address)]
         /\ OwnedBy(ArrayName, arrays', allocated)
         /\ Size(from)' = Size(from) - 1
         /\ Size("nextGeneration")' = Size("nextGeneration") + 1
         /\ Size("nextGeneration")' <= line.ELITE_SIZE
         /\ Size("nextGeneration")' <= line.parentPopulationSize
         /\ \A a \in ArrayName \ {from, "nextGeneration"} : Size(a)' = Size(a)
         /\ UNCHANGED <<line, pc, heap, allocated, ranking, left, rank, generation>>
<1>1. /\ Size("nextGeneration") < line.ELITE_SIZE
      /\ Size("nextGeneration") < line.parentPopulationSize
  BY DEF SaveElite, Size
<1>2. PICK k \in DOMAIN arrays[from] : Move(from, k, "nextGeneration")
  BY DEF SaveElite
<1>3. /\ from \in ArrayName /\ "nextGeneration" \in ArrayName /\ from # "nextGeneration"
      /\ k \in 1..Len(arrays[from])
  BY InvFacts
<1>4. /\ arrays' \in [ArrayName -> Seq(Address)]
      /\ OwnedBy(ArrayName, arrays', allocated)
      /\ Len(arrays'[from]) = Len(arrays[from]) - 1
      /\ Len(arrays'["nextGeneration"]) = Len(arrays["nextGeneration"]) + 1
      /\ \A a \in ArrayName \ {from, "nextGeneration"} : arrays'[a] = arrays[a]
  BY <1>2, <1>3, MoveFacts
<1>5. /\ Size("nextGeneration") \in Nat /\ line.ELITE_SIZE \in Nat
      /\ line.parentPopulationSize \in Nat
  BY <1>3, InvFacts, LineTyped DEF Size
<1>6. UNCHANGED <<line, pc, heap, allocated, ranking, left, rank, generation>>
  BY DEF SaveElite
<1>. QED
  BY <1>1, <1>4, <1>5, <1>6 DEF Size

LEMMA StrongElitismInv ==
  ASSUME Inv, StrongElitism
  PROVE  Inv'
<1>1. pc = "elitism" /\ line.ELITISM /\ SaveElite("parents")
  BY DEF StrongElitism
<1>2. /\ arrays' \in [ArrayName -> Seq(Address)]
      /\ OwnedBy(ArrayName, arrays', allocated)
      /\ Size("parents")' = Size("parents") - 1
      /\ Size("nextGeneration")' = Size("nextGeneration") + 1
      /\ Size("nextGeneration")' <= line.ELITE_SIZE
      /\ Size("offsprings")' = Size("offsprings")
      /\ Size("globalPopulation")' = Size("globalPopulation")
      /\ UNCHANGED <<line, pc, heap, allocated, ranking, left, rank, generation>>
  BY <1>1, InvFacts, SaveEliteFacts
<1>3. TypeOK'
  BY <1>2 DEF Inv, TypeOK
<1>4. Lengths'
  <2>1. /\ Size("parents") + Size("nextGeneration") = line.parentPopulationSize
        /\ Size("offsprings") = line.offspringPopulationSize
        /\ Size("globalPopulation") = 0
    BY <1>1 DEF Inv, Lengths
  <2>2. Size("parents") \in Nat /\ Size("nextGeneration") \in Nat
    BY InvFacts DEF Size
  <2>3. Size("parents")' + Size("nextGeneration")' = line.parentPopulationSize
    BY <1>2, <2>1, <2>2
  <2>. QED
    BY <1>1, <1>2, <2>1, <2>3 DEF Lengths, NothingChosen
<1>5. ObjectivesCurrent'
  BY <1>1, <1>2, StillCurrent
<1>. QED
  BY <1>1, <1>2, <1>3, <1>4, <1>5, InvElsewhere

LEMMA WeakElitismInv ==
  ASSUME Inv, WeakElitism
  PROVE  Inv'
<1>1. pc = "gathered" /\ SaveElite("globalPopulation")
  BY DEF WeakElitism
<1>2. /\ arrays' \in [ArrayName -> Seq(Address)]
      /\ OwnedBy(ArrayName, arrays', allocated)
      /\ Size("globalPopulation")' = Size("globalPopulation") - 1
      /\ Size("nextGeneration")' = Size("nextGeneration") + 1
      /\ Size("nextGeneration")' <= line.ELITE_SIZE
      /\ Size("nextGeneration")' <= line.parentPopulationSize
      /\ Size("offsprings")' = Size("offsprings")
      /\ Size("parents")' = Size("parents")
      /\ UNCHANGED <<line, pc, heap, allocated, ranking, left, rank, generation>>
  BY <1>1, InvFacts, SaveEliteFacts
<1>3. TypeOK'
  BY <1>2 DEF Inv, TypeOK
<1>4. Lengths'
  <2>1. /\ Size("parents") = 0 /\ Size("offsprings") = 0
        /\ Size("nextGeneration") + Size("globalPopulation")
             = line.parentPopulationSize + line.offspringPopulationSize
    BY <1>1 DEF Inv, Lengths
  <2>2. Size("globalPopulation") \in Nat /\ Size("nextGeneration") \in Nat
    BY InvFacts DEF Size
  <2>3. Size("nextGeneration")' + Size("globalPopulation")'
          = line.parentPopulationSize + line.offspringPopulationSize
    BY <1>2, <2>1, <2>2
  <2>. QED
    BY <1>1, <1>2, <2>1, <2>3 DEF Lengths, NothingChosen
<1>5. ObjectivesCurrent'
  BY <1>1, <1>2, StillCurrent
<1>. QED
  BY <1>1, <1>2, <1>3, <1>4, <1>5, InvElsewhere

LEMMA EliteOverrunInv ==
  ASSUME Inv, EliteOverrun
  PROVE  Inv'
<1>1. /\ pc \in {"elitism", "gathered"} /\ pc' = "wild"
      /\ line' = line /\ arrays' = arrays /\ heap' = heap /\ allocated' = allocated
      /\ ranking' = ranking /\ left' = left /\ rank' = rank /\ generation' = generation
  BY DEF EliteOverrun, ElitismPc, Goto
<1>2. TypeOK' /\ OwnedBy(ArrayName, arrays', allocated')
  BY <1>1 DEF Inv, TypeOK
<1>3. Lengths'
  BY <1>1 DEF Lengths
<1>4. ObjectivesCurrent'
  BY <1>1 DEF Inv, ObjectivesCurrent, Offsprings
<1>. QED
  BY <1>1, <1>2, <1>3, <1>4, InvElsewhere

LEMMA GatherInv ==
  ASSUME Inv, Gather
  PROVE  Inv'
<1> DEFINE u == Parents \o Offsprings
<1>1. /\ pc = "elitism" /\ pc' = "gathered" /\ line' = line /\ heap' = heap
      /\ allocated' = allocated /\ ranking' = ranking /\ left' = left /\ rank' = rank
      /\ generation' = generation
  BY DEF Gather, Goto
<1>2. PICK s \in Arranged(line.replacement, u) :
        arrays' = [arrays EXCEPT !["globalPopulation"] = s,
                                 !["parents"] = <<>>, !["offsprings"] = <<>>]
  BY DEF Gather
<1>3. /\ u \in Seq(Address) /\ IsInjective(u) /\ Len(u) = Size("parents") + Size("offsprings")
      /\ Range(u) = Range(Parents) \cup Range(Offsprings)
  <2>1. /\ Parents \in Seq(Address) /\ Offsprings \in Seq(Address)
        /\ IsInjective(Parents) /\ IsInjective(Offsprings)
        /\ Range(Parents) \cap Range(Offsprings) = {}
    BY InvFacts DEF Inv, OwnedBy, Parents, Offsprings
  <2>2. Len(Parents) = Size("parents") /\ Len(Offsprings) = Size("offsprings")
    BY DEF Parents, Offsprings, Size
  <2>. QED
    BY <2>1, <2>2, ConcatRange
<1>4. s \in Seq(Address) /\ IsInjective(s) /\ Len(s) = Len(u) /\ Range(s) = Range(u)
  BY <1>3, ArrangedFacts
<1> HIDE DEF u
<1>5. /\ arrays' \in [ArrayName -> Seq(Address)]
      /\ arrays'["globalPopulation"] = s
      /\ arrays'["parents"] = <<>> /\ arrays'["offsprings"] = <<>>
      /\ arrays'["nextGeneration"] = arrays["nextGeneration"]
  BY <1>2, <1>4, InvFacts, EmptyRange
<1>6. /\ Size("parents") + Size("nextGeneration") = line.parentPopulationSize
      /\ Size("offsprings") = line.offspringPopulationSize
      /\ Size("globalPopulation") = 0 /\ Size("nextGeneration") <= line.ELITE_SIZE
  BY <1>1 DEF Inv, Lengths
<1>7. Range(arrays["globalPopulation"]) = {}
  BY <1>6, InvFacts, EmptyRange DEF Size
<1>8. OwnedBy(ArrayName, arrays', allocated)
  <2>1. /\ Range(arrays'["parents"]) = {} /\ Range(arrays'["offsprings"]) = {}
        /\ Range(arrays'["nextGeneration"]) = Range(arrays["nextGeneration"])
        /\ Range(arrays'["globalPopulation"])
             = Range(arrays["parents"]) \cup Range(arrays["offsprings"])
    BY <1>3, <1>4, <1>5, EmptyRange DEF Parents, Offsprings
  <2>2. \A a \in ArrayName : a \in {"parents", "offsprings", "nextGeneration", "globalPopulation"}
    BY InvFacts
  <2>3. OwnedBy(ArrayName, arrays, allocated)
    BY DEF Inv
  <2>4. \A a \in ArrayName : IsInjective(arrays'[a]) /\ Range(arrays'[a]) \subseteq allocated
    BY <1>4, <1>5, <2>1, <2>2, <2>3, InvFacts, EmptyRange DEF OwnedBy
  <2>5. Range(arrays'["nextGeneration"]) \cap Range(arrays'["globalPopulation"]) = {}
    BY <2>1, <2>3, InvFacts DEF OwnedBy
  <2>6. \A a, b \in ArrayName : a # b => Range(arrays'[a]) \cap Range(arrays'[b]) = {}
    BY <2>1, <2>2, <2>5
  <2>7. \A i \in allocated : \E a \in ArrayName : i \in Range(arrays'[a])
    <3> TAKE i \in allocated
    <3>1. PICK a \in ArrayName : i \in Range(arrays[a])
      BY <2>3 DEF OwnedBy
    <3>2. CASE a \in {"parents", "offsprings"}
      BY <2>1, <3>1, <3>2, InvFacts
    <3>3. CASE a = "nextGeneration"
      BY <2>1, <3>1, <3>3
    <3>. QED
      BY <1>7, <2>2, <3>1, <3>2, <3>3
  <2>. QED
    BY <2>4, <2>6, <2>7 DEF OwnedBy
<1>9. TypeOK'
  BY <1>1, <1>5 DEF Inv, TypeOK
<1>10. Lengths'
  <2>1. /\ Size("parents")' = 0 /\ Size("offsprings")' = 0
        /\ Size("nextGeneration")' = Size("nextGeneration")
        /\ Size("globalPopulation")' = Size("parents") + Size("offsprings")
    BY <1>3, <1>4, <1>5, EmptyRange DEF Size
  <2>2. Size("parents") \in Nat /\ Size("nextGeneration") \in Nat /\ Size("offsprings") \in Nat
    BY InvFacts DEF Size
  <2>3. Size("nextGeneration")' + Size("globalPopulation")'
          = line.parentPopulationSize + line.offspringPopulationSize
    BY <1>6, <2>1, <2>2
  <2>4. Size("nextGeneration")' <= line.parentPopulationSize
    BY <1>6, <2>1, <2>2
  <2>. QED
    BY <1>1, <1>6, <2>1, <2>3, <2>4 DEF Lengths
<1>11. ObjectivesCurrent'
  BY <1>1, StillCurrent
<1>. QED
  BY <1>1, <1>8, <1>9, <1>10, <1>11, InvElsewhere

LEMMA InitializeReductionInv ==
  ASSUME Inv, InitializeReduction
  PROVE  Inv'
<1>1. /\ pc = "gathered" /\ pc' = "reduce" /\ line' = line /\ heap' = heap
      /\ allocated' = allocated /\ ranking' = ranking /\ left' = left /\ rank' = rank
      /\ generation' = generation
      /\ Size("nextGeneration") = line.ELITE_SIZE
  BY DEF InitializeReduction, Goto, EliteSaved, Size
<1>2. PICK s \in Arranged(line.replacement, arrays["globalPopulation"]) :
        arrays' = [arrays EXCEPT !["globalPopulation"] = s]
  BY DEF InitializeReduction
<1>3. /\ arrays["globalPopulation"] \in Seq(Address)
      /\ IsInjective(arrays["globalPopulation"])
  BY InvFacts DEF Inv, OwnedBy
<1>4. /\ s \in Seq(Address) /\ Len(s) = Len(arrays["globalPopulation"]) /\ IsInjective(s)
      /\ Range(s) = Range(arrays["globalPopulation"])
      /\ line.replacement = "Deterministic" =>
           \A j, k \in DOMAIN s : j < k => ~Better(Fit(s[j]), Fit(s[k]))
  BY <1>3, ArrangedFacts
<1>5. /\ arrays' \in [ArrayName -> Seq(Address)]
      /\ OwnedBy(ArrayName, arrays', allocated)
      /\ \A a \in ArrayName : Size(a)' = Size(a)
      /\ arrays'["globalPopulation"] = s
  BY <1>2, <1>4, InvFacts, RearrangedOwned
<1>6. TypeOK'
  BY <1>1, <1>5 DEF Inv, TypeOK
<1>7. Lengths'
  <2>1. /\ Size("parents") = 0 /\ Size("offsprings") = 0
        /\ Size("nextGeneration") + Size("globalPopulation")
             = line.parentPopulationSize + line.offspringPopulationSize
        /\ Size("nextGeneration") <= line.parentPopulationSize
    BY <1>1 DEF Inv, Lengths
  <2>2. /\ Size("parents")' = Size("parents") /\ Size("offsprings")' = Size("offsprings")
        /\ Size("nextGeneration")' = Size("nextGeneration")
        /\ Size("globalPopulation")' = Size("globalPopulation")
    BY <1>5, InvFacts
  <2>. QED
    BY <1>1, <2>1, <2>2 DEF Lengths
<1>8. ObjectivesCurrent'
  BY <1>1, StillCurrent
<1>9. StillSorted'
  BY <1>1, <1>4, <1>5 DEF StillSorted, Better, Fit
<1>10. DeterministicKeepsBestRanks'
  <2>1. Len(arrays'["nextGeneration"]) = line.ELITE_SIZE
    BY <1>1, <1>5, InvFacts DEF Size
  <2>2. (line.ELITE_SIZE + 1)..Len(arrays'["nextGeneration"]) = {}
    BY <2>1, InvFacts, LineTyped
  <2>. QED
    BY <1>1, <2>2 DEF DeterministicKeepsBestRanks
<1>11. Ranking'
  BY <1>1 DEF Ranking
<1>12. OwnedBy(ArrayName, arrays', allocated')
  BY <1>1, <1>5
<1>. QED
  BY <1>6, <1>7, <1>8, <1>9, <1>10, <1>11, <1>12 DEF Inv

LEMMA ReduceOneInv ==
  ASSUME Inv, ReduceOne
  PROVE  Inv'
<1> DEFINE G == arrays["globalPopulation"]
           T == arrays["nextGeneration"]
           g == Len(G)
           t == Len(T)
<1>1. /\ pc = "reduce" /\ pc' = pc /\ line' = line /\ heap' = heap
      /\ allocated' = allocated /\ ranking' = ranking /\ left' = left /\ rank' = rank
      /\ generation' = generation
      /\ Size("nextGeneration") < line.parentPopulationSize
  BY DEF ReduceOne, Size
<1>2. PICK k \in Selectable(line.replacement, G) : Move("globalPopulation", k, "nextGeneration")
  BY DEF ReduceOne
<1>3. /\ Size("parents") = 0 /\ Size("offsprings") = 0
      /\ Size("nextGeneration") + Size("globalPopulation")
           = line.parentPopulationSize + line.offspringPopulationSize
      /\ Size("nextGeneration") \in Nat /\ Size("globalPopulation") \in Nat
      /\ line.parentPopulationSize \in Nat
      /\ line.offspringPopulationSize \in Nat /\ line.offspringPopulationSize > 0
  <2>1. /\ Size("parents") = 0 /\ Size("offsprings") = 0
        /\ Size("nextGeneration") + Size("globalPopulation")
             = line.parentPopulationSize + line.offspringPopulationSize
    BY <1>1 DEF Inv, Lengths
  <2>2. Size("nextGeneration") \in Nat /\ Size("globalPopulation") \in Nat
    BY InvFacts DEF Size
  <2>. QED
    BY <2>1, <2>2, InvFacts, LineTyped
<1>4. g > 0 /\ g \in Nat /\ t \in Nat /\ k \in 1..g
  <2>1. g > 0 /\ g \in Nat /\ t \in Nat
    <3>1. Size("globalPopulation") > 0
      BY <1>1, <1>3
    <3>. QED
      BY <1>3, <3>1 DEF Size
  <2>2. DOMAIN G = 1..g
    BY InvFacts
  <2>. QED
    BY <1>2, <2>1, <2>2 DEF Selectable
<1>5. /\ arrays' \in [ArrayName -> Seq(Address)]
      /\ OwnedBy(ArrayName, arrays', allocated)
      /\ Len(arrays'["globalPopulation"]) = g - 1
      /\ Len(arrays'["nextGeneration"]) = t + 1
      /\ \A a \in ArrayName \ {"globalPopulation", "nextGeneration"} : arrays'[a] = arrays[a]
  BY <1>2, <1>4, InvFacts, MoveFacts
<1>6. TypeOK'
  BY <1>1, <1>5 DEF Inv, TypeOK
<1>7. Lengths'
  <2>1. /\ Size("nextGeneration")' = Size("nextGeneration") + 1
        /\ Size("globalPopulation")' = Size("globalPopulation") - 1
        /\ Size("parents")' = 0 /\ Size("offsprings")' = 0
    BY <1>3, <1>5, InvFacts DEF Size
  <2>2. /\ Size("nextGeneration")' + Size("globalPopulation")'
             = line.parentPopulationSize + line.offspringPopulationSize
        /\ Size("nextGeneration")' <= line.parentPopulationSize
    BY <1>1, <1>3, <2>1
  <2>. QED
    BY <1>1, <2>1, <2>2 DEF Lengths
<1>8. ObjectivesCurrent'
  BY <1>1, StillCurrent
<1>9. ASSUME line.replacement = "Deterministic"
      PROVE  /\ \A j \in 1..(g - 1) : arrays'["globalPopulation"][j] = G[j]
             /\ \A j \in 1..t : arrays'["nextGeneration"][j] = T[j]
             /\ arrays'["nextGeneration"][t + 1] = G[g]
             /\ DOMAIN arrays'["globalPopulation"] = 1..(g - 1)
             /\ \A i, j \in 1..g : i < j => ~Better(Fit(G[i]), Fit(G[j]))
  <2>1. k = g
    BY <1>2, <1>9 DEF Selectable
  <2>2. /\ arrays'["globalPopulation"] = SwapOut(G, g)
        /\ arrays'["nextGeneration"] = Append(T, G[g])
    BY <1>2, <2>1, InvFacts DEF Move
  <2>3. \A j \in 1..(g - 1) : SwapOut(G, g)[j] = G[j]
    BY <1>4 DEF SwapOut
  <2>4. T \in Seq(Address)
    BY InvFacts
  <2>5. DOMAIN arrays'["globalPopulation"] = 1..(g - 1)
    BY <1>5, InvFacts
  <2>6. DOMAIN G = 1..g
    BY InvFacts
  <2>7. \A i, j \in 1..g : i < j => ~Better(Fit(G[i]), Fit(G[j]))
    BY <1>1, <1>9, <2>6 DEF Inv, StillSorted
  <2>8. /\ \A j \in 1..t : Append(T, G[g])[j] = T[j]
        /\ Append(T, G[g])[t + 1] = G[g]
    BY <2>4
  <2>. QED
    BY <2>2, <2>3, <2>5, <2>7, <2>8
<1> HIDE DEF g, t
<1>11. StillSorted'
  <2> SUFFICES ASSUME line.replacement = "Deterministic",
                      NEW i \in 1..(g - 1), NEW j \in 1..(g - 1), i < j
               PROVE  ~Better(Fit(G[i]), Fit(G[j]))
    BY <1>1, <1>9 DEF StillSorted, Better, Fit
  <2>. QED
    BY <1>4, <1>9
<1>12. DeterministicKeepsBestRanks'
  <2> SUFFICES ASSUME line.replacement = "Deterministic",
                      NEW i \in (line.ELITE_SIZE + 1)..(t + 1), NEW j \in 1..(g - 1)
               PROVE  ~Better(Fit(G[j]), Fit(arrays'["nextGeneration"][i]))
    BY <1>1, <1>5, <1>9 DEF DeterministicKeepsBestRanks, Better, Fit
  <2>1. CASE i = t + 1
    BY <1>4, <1>9, <2>1
  <2>2. CASE i # t + 1
    <3>1. i \in (line.ELITE_SIZE + 1)..t /\ i \in 1..t
      BY <1>4, <2>2, InvFacts, LineTyped
    <3>2. j \in DOMAIN G
      BY <1>4, InvFacts DEF g
    <3>3. ~Better(Fit(G[j]), Fit(T[i]))
      BY <1>1, <3>1, <3>2 DEF Inv, DeterministicKeepsBestRanks, t
    <3>. QED
      BY <1>9, <3>1, <3>3
  <2>. QED
    BY <2>1, <2>2
<1>13. Ranking'
  BY <1>1 DEF Ranking
<1>14. OwnedBy(ArrayName, arrays', allocated')
  BY <1>1, <1>5
<1>. QED
  BY <1>6, <1>7, <1>8, <1>11, <1>12, <1>13, <1>14 DEF Inv

LEMMA ReplaceInv ==
  ASSUME Inv, Replace
  PROVE  Inv'
<1> DEFINE G == arrays["globalPopulation"]
           D == {G[k] : k \in 1..line.offspringPopulationSize}
<1>1. /\ pc = "reduce" /\ pc' = "criteria" /\ line' = line /\ Delete(D)
      /\ Size("nextGeneration") = line.parentPopulationSize
      /\ arrays' = [arrays EXCEPT !["parents"] = arrays["nextGeneration"],
                                  !["nextGeneration"] = <<>>, !["globalPopulation"] = <<>>]
      /\ ranking' = ranking /\ left' = left /\ rank' = rank /\ generation' = generation + 1
  BY DEF Replace, Goto, Size
<1>2. /\ Size("parents") = 0 /\ Size("offsprings") = 0
      /\ Size("globalPopulation") = line.offspringPopulationSize
  <2>1. /\ Size("parents") = 0 /\ Size("offsprings") = 0
        /\ Size("nextGeneration") + Size("globalPopulation")
             = line.parentPopulationSize + line.offspringPopulationSize
    BY <1>1 DEF Inv, Lengths
  <2>2. Size("globalPopulation") \in Nat
    BY InvFacts DEF Size
  <2>3. line.parentPopulationSize \in Nat /\ line.offspringPopulationSize \in Nat
    BY InvFacts, LineTyped
  <2>. QED
    BY <1>1, <2>1, <2>2, <2>3
<1>3. D = Range(G)
  BY <1>2, InvFacts, RangeOfArray DEF Size
<1> HIDE DEF D
<1>4. /\ heap' \in [Address -> Individual]
      /\ allocated' = allocated \ D /\ allocated' \subseteq Address
      /\ \A a \in allocated' : heap'[a] = heap[a]
  BY <1>1, Deleted
<1>5. /\ arrays' \in [ArrayName -> Seq(Address)]
      /\ arrays'["parents"] = arrays["nextGeneration"]
      /\ arrays'["nextGeneration"] = <<>> /\ arrays'["globalPopulation"] = <<>>
      /\ arrays'["offsprings"] = arrays["offsprings"]
  BY <1>1, InvFacts, EmptyRange
<1>6. OwnedBy(ArrayName, arrays', allocated')
  <2>1. /\ Range(arrays'["parents"]) = Range(arrays["nextGeneration"])
        /\ Range(arrays'["offsprings"]) = Range(arrays["offsprings"])
        /\ Range(arrays'["nextGeneration"]) = {} /\ Range(arrays'["globalPopulation"]) = {}
        /\ Range(arrays["parents"]) = {} /\ Range(arrays["offsprings"]) = {}
    BY <1>2, <1>5, InvFacts, EmptyRange DEF Size
  <2>2. \A a \in ArrayName : a \in {"parents", "offsprings", "nextGeneration", "globalPopulation"}
    BY InvFacts
  <2>3. OwnedBy(ArrayName, arrays, allocated)
    BY DEF Inv
  <2>4. Range(arrays["nextGeneration"]) \cap D = {}
    BY <1>3, <2>3, InvFacts DEF OwnedBy
  <2>5. \A a \in ArrayName : IsInjective(arrays'[a]) /\ Range(arrays'[a]) \subseteq allocated'
    BY <1>4, <1>5, <2>1, <2>2, <2>3, <2>4, InvFacts, EmptyRange DEF OwnedBy
  <2>6. \A a, b \in ArrayName : a # b => Range(arrays'[a]) \cap Range(arrays'[b]) = {}
    BY <2>1, <2>2
  <2>7. \A i \in allocated' : \E a \in ArrayName : i \in Range(arrays'[a])
    <3> TAKE i \in allocated'
    <3>1. PICK a \in ArrayName : i \in Range(arrays[a])
      BY <1>4, <2>3 DEF OwnedBy
    <3>2. a = "nextGeneration"
      BY <1>3, <1>4, <2>1, <2>2, <3>1
    <3>. QED
      BY <2>1, <3>1, <3>2, InvFacts
  <2>. QED
    BY <2>5, <2>6, <2>7 DEF OwnedBy
<1>7. TypeOK'
  <2>1. generation' \in Nat /\ pc' \in {"criteria"}
    BY <1>1 DEF Inv, TypeOK
  <2>2. ranking' \in Seq(Address) /\ left' \subseteq DOMAIN ranking' /\ rank' \in Nat \ {0}
    BY <1>1 DEF Inv, TypeOK
  <2>3. line' \in Lines
    BY <1>1, InvFacts
  <2>. QED
    BY <1>4, <1>5, <2>1, <2>2, <2>3 DEF TypeOK
<1>8. Lengths'
  <2>1. /\ Size("parents")' = line.parentPopulationSize /\ Size("offsprings")' = 0
        /\ Size("nextGeneration")' = 0 /\ Size("globalPopulation")' = 0
    BY <1>1, <1>2, <1>5, EmptyRange DEF Size
  <2>. QED
    BY <1>1, <2>1 DEF Lengths, NothingChosen
<1>9. ObjectivesCurrent'
  BY <1>1, <1>4, StillCurrent
<1>. QED
  BY <1>1, <1>6, <1>7, <1>8, <1>9, InvElsewhere

LEMMA OverdrawInv ==
  ASSUME Inv, Overdraw
  PROVE  Inv'
<1>1. /\ pc \in {"produce", "reduce"} /\ pc' = "wild"
      /\ line' = line /\ arrays' = arrays /\ heap' = heap /\ allocated' = allocated
      /\ ranking' = ranking /\ left' = left /\ rank' = rank /\ generation' = generation
  BY DEF Overdraw, Goto
<1>2. TypeOK' /\ OwnedBy(ArrayName, arrays', allocated')
  BY <1>1 DEF Inv, TypeOK
<1>3. Lengths'
  BY <1>1 DEF Lengths
<1>4. ObjectivesCurrent'
  BY <1>1 DEF Inv, ObjectivesCurrent, Offsprings
<1>. QED
  BY <1>1, <1>2, <1>3, <1>4, InvElsewhere

LEMMA DeletePopulationInv ==
  ASSUME Inv, DeletePopulation
  PROVE  Inv'
<1> DEFINE D == Range(Offsprings) \cup Range(Parents)
<1>1. /\ pc = "finish" /\ pc' = "done" /\ line' = line /\ Delete(D)
      /\ arrays' = [arrays EXCEPT !["parents"] = <<>>, !["offsprings"] = <<>>]
      /\ ranking' = ranking /\ left' = left /\ rank' = rank /\ generation' = generation
  BY DEF DeletePopulation, Goto
<1>2. /\ heap' \in [Address -> Individual]
      /\ allocated' = allocated \ D /\ allocated' \subseteq Address
      /\ \A a \in allocated' : heap'[a] = heap[a]
  BY <1>1, Deleted
<1>3. /\ arrays' \in [ArrayName -> Seq(Address)]
      /\ arrays'["parents"] = <<>> /\ arrays'["offsprings"] = <<>>
      /\ \A a \in ArrayName \ {"parents", "offsprings"} : arrays'[a] = arrays[a]
  BY <1>1, InvFacts, EmptyRange
<1>4. D = Range(arrays["parents"]) \cup Range(arrays["offsprings"])
  BY DEF Parents, Offsprings
<1> HIDE DEF D
<1>5. OwnedBy(ArrayName, arrays', allocated')
  <2>1. OwnedBy(ArrayName, arrays, allocated)
    BY DEF Inv
  <2>2. /\ IsInjective(arrays'["parents"]) /\ IsInjective(arrays'["offsprings"])
        /\ Range(arrays'["parents"]) = {} /\ Range(arrays'["offsprings"]) = {}
        /\ "parents" \in ArrayName /\ "offsprings" \in ArrayName
    BY <1>3, InvFacts, EmptyRange
  <2>. QED
    BY <1>2, <1>3, <1>4, <2>1, <2>2 DEF OwnedBy
<1>6. TypeOK'
  BY <1>1, <1>2, <1>3 DEF Inv, TypeOK
<1>7. Lengths'
  BY <1>1 DEF Lengths
<1>8. ObjectivesCurrent'
  BY <1>1, <1>2, StillCurrent
<1>. QED
  BY <1>1, <1>5, <1>6, <1>7, <1>8, InvElsewhere

LEMMA StutteringInv ==
  ASSUME Inv, UNCHANGED vars
  PROVE  Inv'
<1>1. /\ line' = line /\ pc' = pc /\ arrays' = arrays /\ heap' = heap
      /\ allocated' = allocated /\ ranking' = ranking /\ left' = left /\ rank' = rank
      /\ generation' = generation
  BY DEF vars
<1>2. TypeOK' /\ OwnedBy(ArrayName, arrays', allocated')
  BY <1>1 DEF Inv, TypeOK
<1>3. Lengths'
  BY <1>1 DEF Inv, Lengths, NothingChosen, Size
<1>4. Ranking'
  BY <1>1 DEF Inv, Ranking, Peeled, F, Given, Fit, Parents, Offsprings
<1>5. ObjectivesCurrent'
  BY <1>1 DEF Inv, ObjectivesCurrent, Offsprings
<1>6. StillSorted' /\ DeterministicKeepsBestRanks'
  BY <1>1 DEF Inv, StillSorted, DeterministicKeepsBestRanks, Better, Fit
<1>. QED
  BY <1>2, <1>3, <1>4, <1>5, <1>6 DEF Inv

LEMMA InitInv ==
  ASSUME Init
  PROVE  Inv
<1>1. /\ line \in Lines /\ pc = "initialize" /\ arrays = [n \in ArrayName |-> <<>>]
      /\ heap = [a \in Address |-> Unset] /\ allocated = {}
      /\ ranking = <<>> /\ left = {} /\ rank = 1 /\ generation = 0
  BY DEF Init
<1>2. TypeOK
  BY <1>1, IndividualsTyped DEF TypeOK
<1>3. OwnedBy(ArrayName, arrays, allocated)
  BY <1>1, EmptyRange DEF OwnedBy
<1>4. Lengths
  BY <1>1, EmptyRange, LineTyped DEF Lengths, NothingChosen, Size, ArrayName
<1>5. Ranking /\ ObjectivesCurrent /\ StillSorted /\ DeterministicKeepsBestRanks
  BY <1>1 DEF Ranking, ObjectivesCurrent, StillSorted, DeterministicKeepsBestRanks
<1>. QED
  BY <1>2, <1>3, <1>4, <1>5 DEF Inv

(* The invariant is inductive. *)
LEMMA InvInductive == Inv /\ [Next]_vars => Inv'
<1> SUFFICES ASSUME Inv, [Next]_vars
             PROVE  Inv'
  OBVIOUS
<1>1. CASE AddIndividual \/ EvaluateParents \/ RankFront \/ Ranked \/ CheckCriteria
  BY <1>1, AddIndividualInv, EvaluateParentsInv, RankFrontInv, RankedInv, CheckCriteriaInv
<1>2. CASE ProduceOffspring \/ EvaluateOffspring
  BY <1>2, ProduceOffspringInv, EvaluateOffspringInv
<1>3. CASE StrongElitism \/ Gather \/ WeakElitism \/ EliteOverrun
  BY <1>3, StrongElitismInv, GatherInv, WeakElitismInv, EliteOverrunInv
<1>4. CASE InitializeReduction \/ ReduceOne \/ Replace
  BY <1>4, InitializeReductionInv, ReduceOneInv, ReplaceInv
<1>5. CASE Overdraw \/ DeletePopulation
  BY <1>5, OverdrawInv, DeletePopulationInv
<1>6. CASE UNCHANGED vars
  BY <1>6, StutteringInv
<1>. QED
  BY <1>1, <1>2, <1>3, <1>4, <1>5, <1>6 DEF Next

LEMMA Invariance == Spec => []Inv
<1>1. Init => Inv
  BY InitInv
<1>. QED
  BY <1>1, InvInductive, PTL DEF Spec

-----------------------------------------------------------------------------
(* The theorems *)

(* The variables of the program have their types, whatever the template, the   *)
(* operators and the sizes.                                                    *)
THEOREM TypeCorrect == Spec => []TypeOK
<1>1. Inv => TypeOK
  BY DEF Inv
<1>. QED
  BY <1>1, Invariance, PTL

(* Under both kinds of elitism, what reduceTotalPopulation deletes by a count  *)
(* of its own is exactly what is left over: nothing is freed twice, kept after *)
(* it was freed, or lost.                                                      *)
THEOREM Ownership == Spec => []OwnedOnce
<1>1. ASSUME Inv
      PROVE  OwnedOnce
  <2> DEFINE Places == UNION {{n} \X DOMAIN arrays[n] : n \in ArrayName}
  <2>1. OwnedBy(ArrayName, arrays, allocated)
    BY <1>1 DEF Inv
  <2>2. \A p \in Places : /\ p[1] \in ArrayName /\ p[2] \in DOMAIN arrays[p[1]]
                          /\ p = <<p[1], p[2]>>
    OBVIOUS
  <2>3. \A n \in ArrayName : \A k \in DOMAIN arrays[n] :
          <<n, k>> \in Places /\ <<n, k>>[1] = n /\ <<n, k>>[2] = k
    OBVIOUS
  <2>4. \A n \in ArrayName : \A k \in DOMAIN arrays[n] : arrays[n][k] \in Range(arrays[n])
    BY DEF Range
  <2> HIDE DEF Places
  <2>5. ASSUME NEW p \in Places, NEW q \in Places, arrays[p[1]][p[2]] = arrays[q[1]][q[2]]
        PROVE  p = q
    <3>1. p[1] = q[1]
      BY <2>1, <2>2, <2>4, <2>5 DEF OwnedBy
    <3>2. p[2] = q[2]
      BY <2>1, <2>2, <2>5, <3>1 DEF OwnedBy, IsInjective
    <3>. QED
      BY <2>2, <3>1, <3>2
  <2>6. \A p \in Places : arrays[p[1]][p[2]] \in allocated
    BY <2>1, <2>2, <2>4 DEF OwnedBy
  <2>7. ASSUME NEW a \in allocated
        PROVE  \E p \in Places : a = arrays[p[1]][p[2]]
    <3>1. PICK n \in ArrayName : a \in Range(arrays[n])
      BY <2>1 DEF OwnedBy
    <3>2. PICK k \in DOMAIN arrays[n] : arrays[n][k] = a
      BY <3>1 DEF Range
    <3>. QED
      BY <2>3, <3>2
  <2>. QED
    BY <2>5, <2>6, <2>7 DEF OwnedOnce, Places
<1>. QED
  BY <1>1, Invariance, PTL

(* When evaluateMoPopulation of CUDA_MO has ranked everybody, the ranks are    *)
(* those of the Pareto fronts, for any number of individuals and objectives'   *)
(* values: Peeled is what a round of its loop keeps.                           *)
THEOREM ParetoRanks == Spec => []RanksArePareto
<1>1. ASSUME Inv, line.template = "CUDA_MO", pc = "rank", left = {},
             NEW a \in Range(ranking)
      PROVE  /\ \A b \in Dominators(a, Range(ranking)) : Fit(b) < Fit(a)
             /\ Fit(a) = 1 \/ \E b \in Dominators(a, Range(ranking)) : Fit(b) = Fit(a) - 1
  <2> DEFINE I == DOMAIN ranking
             f == [i \in I |-> F(i)]
             g == [i \in I |-> Given(i)]
  <2>1. PeeledOff(I, {}, f, g, rank)
    BY <1>1 DEF Inv, Ranking, Peeled
  <2>2. /\ \A i, j \in I : Dominates(f[j], f[i]) => g[j] < g[i]
        /\ \A i \in I : g[i] = 1 \/ \E j \in I : Dominates(f[j], f[i]) /\ g[j] = g[i] - 1
    BY <2>1 DEF PeeledOff
  <2>3. \A i \in I : f[i] = heap[ranking[i]].f /\ g[i] = Fit(ranking[i])
    BY DEF F, Given
  <2>4. PICK i \in I : ranking[i] = a
    BY <1>1 DEF Range
  <2>5. \A b \in Range(ranking) : \E j \in I : ranking[j] = b
    BY DEF Range
  <2>6. \A j \in I : ranking[j] \in Range(ranking)
    BY DEF Range
  <2> HIDE DEF I, f, g
  <2>7. ASSUME NEW b \in Dominators(a, Range(ranking))
        PROVE  Fit(b) < Fit(a)
    <3>1. PICK j \in I : ranking[j] = b
      BY <2>5 DEF Dominators
    <3>. QED
      BY <2>2, <2>3, <2>4, <3>1 DEF Dominators
  <2>8. CASE Fit(a) # 1
    <3>1. PICK j \in I : Dominates(f[j], f[i]) /\ g[j] = g[i] - 1
      BY <2>2, <2>3, <2>4, <2>8
    <3>2. ranking[j] \in Dominators(a, Range(ranking)) /\ Fit(ranking[j]) = Fit(a) - 1
      BY <2>3, <2>4, <2>6, <3>1 DEF Dominators
    <3>. QED
      BY <2>7, <3>2
  <2>. QED
    BY <2>7, <2>8
<1>2. Inv => RanksArePareto
  BY <1>1 DEF RanksArePareto, ParetoRanked
<1>. QED
  BY <1>2, Invariance, PTL

(* The ranking compares the objectives of the individuals' own genomes: in     *)
(* CUDA_MO because the card evaluates whoever it is given, in STD_MO as long   *)
(* as every child is recombined.                                               *)
THEOREM ObjectivesAreCurrent == Spec => []ComparedObjectivesAreCurrent
<1>1. ASSUME Inv, pc = "rank", line.template = "CUDA_MO" \/ line.always, NEW i \in left
      PROVE  F(i) = heap[ranking[i]].genome
  <2>1. ranking[i] \in Range(Parents) \cup Range(Offsprings)
    <3>1. ranking = Parents \o Offsprings /\ i \in DOMAIN ranking
      BY <1>1 DEF Inv, Ranking, TypeOK
    <3>2. Parents \in Seq(Address) /\ Offsprings \in Seq(Address)
      BY <1>1, InvFacts DEF Parents, Offsprings
    <3>3. Range(ranking) = Range(Parents) \cup Range(Offsprings)
      BY <3>1, <3>2, ConcatRange
    <3>. QED
      BY <3>1, <3>3 DEF Range
  <2>2. ranking[i] \in allocated
    BY <1>1, <2>1, InvFacts DEF Parents, Offsprings
  <2>. QED
    BY <1>1, <2>2 DEF Inv, ObjectivesCurrent, F
<1>2. Inv => ComparedObjectivesAreCurrent
  BY <1>1 DEF ComparedObjectivesAreCurrent
<1>. QED
  BY <1>2, Invariance, PTL

(* A Deterministic replacement leaves nobody to be deleted who is better than  *)
(* one it has kept: taking from the end keeps the array sorted.                *)
THEOREM BestRanksKept == Spec => []DeterministicKeepsBestRanks
<1>1. Inv => DeterministicKeepsBestRanks
  BY DEF Inv
<1>. QED
  BY <1>1, Invariance, PTL
=============================================================================
