---------------------- MODULE SelectionOperators_proofs ----------------------
(***************************************************************************)
(* Proofs about the selection operators, for every array, pressure and     *)
(* number of individuals asked for: what they return, what a reduction     *)
(* leaves behind, and that they implement Selection.                       *)
(***************************************************************************)
EXTENDS SelectionOperators, ArrayTheorems, FiniteSetTheorems, FunctionTheorems

-----------------------------------------------------------------------------
(* The weights of the wheel *)

(* Weight is the cumulated sum that the wheel is turned over. *)
LEMMA WeightStep ==
  ASSUME NEW s \in Seq(Int)
  PROVE  /\ \A k \in 0..Len(s) : Weight(s, k) \in Int
         /\ Weight(s, 0) = 0
         /\ \A k \in 1..Len(s) : Weight(s, k) = Weight(s, k - 1) + s[k]
<1>1. \A k \in 0..Len(s) : Weight(s, k) = SumOf(s, k)
  BY DEF Weight, SumOf
<1>. QED
  BY <1>1, SumStep

(* Without negative weights the sums never fall. *)
LEMMA WeightGrows ==
  ASSUME NEW s \in Seq(Int), \A k \in 1..Len(s) : s[k] >= 0
  PROVE  \A j, k \in 0..Len(s) : j <= k => Weight(s, j) <= Weight(s, k)
<1> SUFFICES ASSUME NEW j \in 0..Len(s)
             PROVE  \A k \in 0..Len(s) : j <= k => Weight(s, j) <= Weight(s, k)
  OBVIOUS
<1> DEFINE T == {k \in Nat : k <= Len(s) /\ j <= k => Weight(s, j) <= Weight(s, k)}
<1>1. 0 \in T
  BY WeightStep
<1>2. ASSUME NEW k \in Nat, k \in T
      PROVE  k + 1 \in T
  <2> SUFFICES ASSUME k + 1 <= Len(s), j <= k + 1
               PROVE  Weight(s, j) <= Weight(s, k + 1)
    OBVIOUS
  <2>1. CASE j = k + 1
    BY <2>1, WeightStep
  <2>2. CASE j <= k
    <3>1. Weight(s, j) <= Weight(s, k)
      BY <1>2, <2>2
    <3>2. k + 1 \in 1..Len(s) /\ (k + 1) - 1 = k /\ k \in 0..Len(s) /\ k + 1 \in 0..Len(s)
      OBVIOUS
    <3>3. Weight(s, k + 1) = Weight(s, k) + s[k + 1] /\ s[k + 1] >= 0 /\ s[k + 1] \in Int
      BY <3>2, WeightStep
    <3>. QED
      BY <3>1, <3>2, <3>3, WeightStep
  <2>. QED
    BY <2>1, <2>2
<1>3. \A k \in Nat : k \in T
  <2> HIDE DEF T
  <2>. QED
    BY <1>1, <1>2, SetInduction
<1>. QED
  BY <1>3

(* The wheel stops at a place of the array, whatever the weights and the draw. *)
LEMMA SpunInRange ==
  ASSUME NEW s \in Seq(Int), s # <<>>, NEW q \in Int
  PROVE  Spun(s, q) \in 1..Len(s)
<1> DEFINE Total == Weight(s, Len(s))
           Hit == {k \in DOMAIN s : IF Total < 0 THEN q < -Weight(s, k) ELSE q < Weight(s, k)}
<1>1. Spun(s, q) = IF Total = 0 \/ Hit = {} THEN 1 ELSE CHOOSE k \in Hit : \A j \in Hit : k <= j
  BY DEF Spun
<1>2. Hit \subseteq 1..Len(s) /\ 1 \in 1..Len(s) /\ Hit \subseteq Nat
  OBVIOUS
<1> HIDE DEF Hit, Total
<1>3. Hit # {} => \E k \in Hit : \A j \in Hit : k <= j
  BY <1>2, LeastNatural
<1>4. Hit # {} => (CHOOSE k \in Hit : \A j \in Hit : k <= j) \in Hit
  BY <1>3
<1>. QED
  BY <1>1, <1>2, <1>4

(* Where no weight is negative and one is positive, it stops at one that is. *)
LEMMA SpunHasWeight ==
  ASSUME NEW s \in Seq(Int), \A k \in 1..Len(s) : s[k] >= 0, \E k \in 1..Len(s) : s[k] > 0,
         NEW q \in {0} \cup 0..(AbsoluteTotal(s) - 1)
  PROVE  s[Spun(s, q)] > 0
<1>1. PICK n \in Nat : n = Len(s) /\ DOMAIN s = 1..n
  OBVIOUS
<1>2. \A k \in 0..n : Weight(s, k) \in Int
  BY <1>1, WeightStep
<1>3. PICK k \in 1..n : s[k] > 0
  BY <1>1
<1>4. Weight(s, n) \in Int /\ Weight(s, n) > 0
  <2>1. k - 1 \in 0..n /\ k \in 0..n /\ n \in 0..n /\ 0 \in 0..n /\ 0 <= k - 1 /\ k <= n
    OBVIOUS
  <2>2. Weight(s, k) = Weight(s, k - 1) + s[k] /\ Weight(s, 0) = 0
    BY <1>1, WeightStep
  <2>3. 0 <= Weight(s, k - 1) /\ Weight(s, k) <= Weight(s, n)
    BY <1>1, <2>1, <2>2, WeightGrows
  <2>4. s[k] \in Int /\ Weight(s, k - 1) \in Int /\ Weight(s, k) \in Int /\ Weight(s, n) \in Int
    BY <1>1, <1>2, <2>1
  <2>. QED
    BY <1>3, <2>2, <2>3, <2>4
<1>5. q \in Nat /\ q < Weight(s, n)
  <2>1. AbsoluteTotal(s) = Weight(s, n)
    BY <1>1, <1>4 DEF AbsoluteTotal
  <2>. QED
    BY <1>4, <2>1
<1>6. PICK Hit : Hit = {j \in DOMAIN s : IF Weight(s, Len(s)) < 0 THEN q < -Weight(s, j)
                                                                  ELSE q < Weight(s, j)}
  OBVIOUS
<1>7. Hit = {j \in 1..n : q < Weight(s, j)}
  <2>1. ~(Weight(s, Len(s)) < 0)
    BY <1>1, <1>4
  <2>. QED
    BY <1>1, <1>6, <2>1
<1>8. n \in Hit /\ Hit \subseteq Nat /\ Hit \subseteq 1..n
  BY <1>3, <1>5, <1>7
<1>9. Spun(s, q) = CHOOSE j \in Hit : \A i \in Hit : j <= i
  <2>1. ~(Weight(s, Len(s)) = 0 \/ Hit = {})
    BY <1>1, <1>4, <1>8
  <2>2. Spun(s, q) = IF Weight(s, Len(s)) = 0 \/ Hit = {}
                       THEN 1 ELSE CHOOSE j \in Hit : \A i \in Hit : j <= i
    BY <1>6 DEF Spun
  <2>. QED
    BY <2>1, <2>2
<1>10. PICK j \in Hit : j = Spun(s, q) /\ \A i \in Hit : j <= i
  <2>1. \E j \in Hit : \A i \in Hit : j <= i
    BY <1>8, LeastNatural
  <2>. QED
    BY <1>9, <2>1
<1>11. j \in 1..n /\ j - 1 \in 0..n /\ j \in 0..n /\ s[j] \in Int
  BY <1>1, <1>8
<1>12. Weight(s, j - 1) \in Int /\ Weight(s, j) \in Int
  BY <1>2, <1>11
<1>13. Weight(s, j - 1) <= q
  <2>1. CASE j = 1
    <3>1. Weight(s, j - 1) = 0
      BY <2>1, WeightStep
    <3>. QED
      BY <1>5, <3>1
  <2>2. CASE j > 1
    <3>1. j - 1 \in 1..n /\ j - 1 \notin Hit
      BY <1>10, <1>11, <2>2
    <3>2. ~(q < Weight(s, j - 1))
      BY <1>7, <3>1
    <3>. QED
      BY <1>5, <1>12, <3>2
  <2>. QED
    BY <1>11, <2>1, <2>2
<1>14. q < Weight(s, j) /\ Weight(s, j) = Weight(s, j - 1) + s[j]
  BY <1>1, <1>7, <1>11, WeightStep
<1>. QED
  BY <1>5, <1>10, <1>11, <1>12, <1>13, <1>14

-----------------------------------------------------------------------------
(* The inductive invariant *)

(* There is always somebody left to select from while somebody is asked for. *)
Enough ==
  /\ call.reducing => call.obSize <= Len(population) + Len(selected)
  /\ ~call.reducing => population # <<>>
  /\ pc = "initialize" => population # <<>> /\ selected = <<>>
  /\ pc = "selected" => Len(selected) < call.obSize

BestDrawn ==
  /\ index \in drawn
  /\ \A d \in drawn : ~Better(population[d], population[index])

(* what the loop of a tournament maintains *)
Drawing ==
  /\ pc = "initialize" => drawn = {} /\ draws = 0
  /\ pc = "select" /\ draws > 0 => BestDrawn
  /\ pc = "select" /\ drawn # {} => BestDrawn

(* what initialize of Deterministic establishes, and every swap keeps *)
BestLast ==
  Operator = "Deterministic" /\ pc # "initialize" =>
    /\ \A j, k \in DOMAIN population : j < k => ~Better(population[j], population[k])
    /\ pc = "selected" => index = Len(population)

Inv == /\ TypeOK /\ Enough /\ Drawing /\ BestLast
       /\ IndexInRange /\ TournamentReturnsBestDrawn /\ DeterministicKeepsBest
       /\ RouletteSkipsZero

LEMMA CallType ==
  ASSUME call \in Calls
  PROVE  /\ call \in Call
         /\ call.reducing \in BOOLEAN /\ call.minimizing \in BOOLEAN
         /\ call.obSize \in Nat /\ Pressure \in Int
<1>1. call \in Call
  BY CallsAssumption
<1>2. call.reducing \in BOOLEAN /\ call.minimizing \in BOOLEAN /\ call.obSize \in Nat
      /\ call.pressure \in Int
  BY <1>1 DEF Call
<1>3. Pressure \in Int
  BY <1>2 DEF Pressure
<1>. QED
  BY <1>1, <1>2, <1>3

(* Nobody is asked of an empty array. *)
LEMMA SomebodyLeft ==
  ASSUME TypeOK, Enough, Len(selected) < call.obSize
  PROVE  population # <<>> /\ Len(population) \in Nat \ {0}
<1>1. call.reducing \in BOOLEAN /\ call.obSize \in Nat /\ population \in Seq(Fitness)
      /\ Len(selected) \in Nat /\ Len(population) \in Nat
  BY CallType DEF TypeOK
<1>2. CASE call.reducing
  <2>1. Len(population) > 0
    BY <1>1, <1>2 DEF Enough
  <2>. QED
    BY <1>1, <2>1
<1>3. CASE ~call.reducing
  <2>1. population # <<>>
    BY <1>3 DEF Enough
  <2>. QED
    BY <1>1, <2>1, ZeroLength
<1>. QED
  BY <1>1, <1>2, <1>3

LEMMA Initially == Init => Inv
<1> SUFFICES ASSUME Init
             PROVE  Inv
  OBVIOUS
<1>1. /\ call \in Calls /\ population \in Seq(Fitness) /\ population # <<>>
      /\ pc = "initialize" /\ drawn = {} /\ draws = 0 /\ index = 1 /\ selected = <<>>
      /\ call.reducing => call.obSize <= Len(population)
  BY PopulationsAssumption DEF Init
<1>2. Len(population) \in Nat /\ Len(selected) = 0 /\ selected \in Seq(Fitness) /\ DOMAIN selected = {}
      /\ call.obSize \in Nat
  BY <1>1, CallType
<1>3. TypeOK
  BY <1>1, <1>2 DEF TypeOK
<1>4. Enough
  BY <1>1, <1>2 DEF Enough
<1>5. Drawing /\ BestLast
  BY <1>1 DEF Drawing, BestLast
<1>6. IndexInRange /\ TournamentReturnsBestDrawn /\ RouletteSkipsZero
  BY <1>1 DEF IndexInRange, TournamentReturnsBestDrawn, RouletteSkipsZero
<1>7. DeterministicKeepsBest
  BY <1>2 DEF DeterministicKeepsBest
<1>. QED
  BY <1>3, <1>4, <1>5, <1>6, <1>7 DEF Inv

(* What selectNext returns: it is enough to look at the index. *)
LEMMA ReturnKeeps ==
  ASSUME Inv, NEW op, Selecting(op), call' = call, population' = population,
         selected' = selected, draws' \in Nat, drawn' \subseteq 1..Len(population),
         pc' = "selected", index' \in DOMAIN population,
         op = "Tournament" /\ Pressure >= 200 => (BestDrawn)',
         op = "Deterministic" => index' = Len(population),
         op = "Roulette" => (RouletteSkipsZero)'
  PROVE  Inv'
<1>1. pc = "select" /\ Len(selected) < call.obSize /\ Operator = op
  BY DEF Selecting
<1>2. Operator' = Operator /\ Pressure' = Pressure /\ \A f, g : Better(f, g)' = Better(f, g)
  BY DEF Operator, Pressure, Better
<1>3. population \in Seq(Fitness) /\ DOMAIN population = 1..Len(population)
  BY DEF Inv, TypeOK
<1>4. TypeOK'
  BY <1>3 DEF Inv, TypeOK
<1>5. Enough'
  BY <1>1 DEF Inv, Enough
<1>6. Drawing'
  BY DEF Drawing
<1>7. BestLast'
  BY <1>1, <1>2 DEF Inv, BestLast
<1>8. IndexInRange'
  BY DEF IndexInRange
<1>9. TournamentReturnsBestDrawn'
  BY <1>1, <1>2 DEF TournamentReturnsBestDrawn, BestDrawn
<1>10. DeterministicKeepsBest'
  BY <1>2 DEF Inv, DeterministicKeepsBest
<1>11. RouletteSkipsZero'
  BY <1>1, <1>2 DEF RouletteSkipsZero
<1>. QED
  BY <1>4, <1>5, <1>6, <1>7, <1>8, <1>9, <1>10, <1>11 DEF Inv

(* The integers among which the operators compare. *)
LEMMA Values ==
  ASSUME TypeOK
  PROVE  /\ population \in Seq(Int) /\ population \in Seq(Fitness)
         /\ Len(population) \in Nat /\ DOMAIN population = 1..Len(population)
         /\ \A k \in DOMAIN population : population[k] \in Int
<1>1. population \in Seq(Fitness)
  BY DEF TypeOK
<1>2. population \in Seq(Int)
  <2>1. \A k \in 1..Len(population) : population[k] \in Fitness
    BY <1>1
  <2>2. \A k \in 1..Len(population) : population[k] \in Int
    BY <2>1, FitnessAssumption
  <2>. QED
    BY <1>1, <2>2
<1>. QED
  BY <1>1, <1>2

LEMMA StepInitialize == Inv /\ Initialize => Inv'
<1> SUFFICES ASSUME Inv, Initialize
             PROVE  Inv'
  OBVIOUS
<1>1. /\ pc = "initialize" /\ pc' = "select" /\ population' \in Arranged(population)
      /\ call' = call /\ drawn' = drawn /\ draws' = draws /\ index' = index
      /\ selected' = selected /\ drawn = {} /\ draws = 0 /\ selected = <<>>
      /\ population # <<>>
  BY DEF Initialize, Inv, Drawing, Enough
<1>2. /\ Operator' = Operator /\ Pressure' = Pressure
      /\ \A f, g : Better(f, g)' = Better(f, g) /\ Precedes(f, g)' = Precedes(f, g)
  BY <1>1 DEF Operator, Pressure, Better, Precedes
<1>3. /\ population \in Seq(Fitness) /\ Len(population) \in Nat
      /\ DOMAIN population = 1..Len(population)
  BY DEF Inv, TypeOK
<1>4. population' \in Seq(Fitness) /\ Len(population') = Len(population)
  <2>1. CASE Operator \in {"Deterministic", "Roulette"}
    <3>1. population' \in Reorderings(population)
      BY <1>1, <2>1 DEF Arranged
    <3>2. PICK order \in Bijection(DOMAIN population, DOMAIN population) :
            population' = [k \in DOMAIN population |-> population[order[k]]]
      BY <3>1 DEF Reorderings
    <3>3. order \in [DOMAIN population -> DOMAIN population]
      BY DEF Bijection, Injection
    <3>4. \A k \in DOMAIN population : population[order[k]] \in Fitness
      BY <1>3, <3>3
    <3>. QED
      BY <1>3, <3>2, <3>4
  <2>2. CASE Operator \notin {"Deterministic", "Roulette"}
    BY <1>1, <1>3, <2>2 DEF Arranged
  <2>. QED
    BY <2>1, <2>2
<1>5. TypeOK'
  BY <1>1, <1>4 DEF Inv, TypeOK
<1>6. Enough'
  <2>1. population' # <<>>
    BY <1>1, <1>3, <1>4, ZeroLength
  <2>. QED
    BY <1>1, <1>4, <2>1 DEF Inv, Enough
<1>7. Drawing'
  BY <1>1 DEF Drawing
<1>8. BestLast'
  <2>1. Operator = "Deterministic" =>
          \A j, k \in DOMAIN population' : j < k => ~Precedes(population'[k], population'[j])
    <3> SUFFICES ASSUME Operator = "Deterministic"
                 PROVE  \A j, k \in DOMAIN population' :
                          j < k => ~Precedes(population'[k], population'[j])
      OBVIOUS
    <3>1. /\ \A j, k \in DOMAIN population : j < k => ~Precedes(population'[k], population'[j])
      BY <1>1 DEF Arranged
    <3>2. DOMAIN population' = DOMAIN population
      BY <1>3, <1>4
    <3>. QED
      BY <3>1, <3>2
  <2>2. Operator = "Deterministic" => \A f, g : Precedes(f, g) = Better(g, f)
    BY DEF Precedes
  <2>. QED
    BY <1>1, <1>2, <2>1, <2>2 DEF BestLast
<1>9. IndexInRange' /\ TournamentReturnsBestDrawn' /\ RouletteSkipsZero'
  BY <1>1 DEF IndexInRange, TournamentReturnsBestDrawn, RouletteSkipsZero
<1>10. DeterministicKeepsBest'
  <2>1. DOMAIN selected' = {}
    BY <1>1
  <2>. QED
    BY <2>1 DEF DeterministicKeepsBest
<1>. QED
  BY <1>5, <1>6, <1>7, <1>8, <1>9, <1>10 DEF Inv

LEMMA StepDrawCompetitor == Inv /\ DrawCompetitor => Inv'
<1> SUFFICES ASSUME Inv, DrawCompetitor
             PROVE  Inv'
  OBVIOUS
<1>1. PICK k \in DOMAIN population :
        /\ index' = IF drawn = {} \/ Better(population[k], population[index]) THEN k ELSE index
        /\ drawn' = drawn \cup {k}
  BY DEF DrawCompetitor
<1>2. /\ pc = "select" /\ pc' = "select" /\ call' = call /\ population' = population
      /\ selected' = selected /\ draws' = draws + 1 /\ Operator = "Tournament"
      /\ Len(selected) < call.obSize
  BY DEF DrawCompetitor, Selecting
<1>3. Operator' = Operator /\ Pressure' = Pressure /\ \A f, g : Better(f, g)' = Better(f, g)
  BY <1>2 DEF Operator, Pressure, Better
<1>4. /\ DOMAIN population = 1..Len(population) /\ draws \in Nat /\ index \in Nat
      /\ drawn \subseteq 1..Len(population)
      /\ \A i \in DOMAIN population : population[i] \in Int
  BY Values DEF Inv, TypeOK
<1>5. TypeOK'
  <2>1. index' \in Nat
    BY <1>1, <1>4
  <2>2. drawn' \subseteq 1..Len(population)
    BY <1>1, <1>4
  <2>. QED
    BY <1>2, <1>4, <2>1, <2>2 DEF Inv, TypeOK
<1>6. Enough' /\ BestLast' /\ IndexInRange' /\ TournamentReturnsBestDrawn'
      /\ DeterministicKeepsBest' /\ RouletteSkipsZero'
  BY <1>2, <1>3 DEF Inv, Enough, BestLast, IndexInRange, TournamentReturnsBestDrawn,
                    DeterministicKeepsBest, RouletteSkipsZero
<1>7. index' \in drawn' /\ \A d \in drawn' : ~Better(population[d], population[index'])
  <2>1. CASE drawn = {}
    <3>1. index' = k /\ drawn' = {k}
      BY <1>1, <2>1
    <3>. QED
      BY <1>1, <1>4, <3>1 DEF Better
  <2>2. CASE drawn # {}
    <3>1. BestDrawn
      BY <1>2, <2>2 DEF Inv, Drawing
    <3>2. index \in drawn /\ \A d \in drawn : ~Better(population[d], population[index])
      BY <3>1 DEF BestDrawn
    <3>3. CASE Better(population[k], population[index])
      <4>1. index' = k /\ drawn' = drawn \cup {k}
        BY <1>1, <3>3
      <4>2. ASSUME NEW d \in drawn
            PROVE  ~Better(population[d], population[k])
        <5>1. ~Better(population[d], population[index])
          BY <3>2
        <5>2. population[d] \in Int /\ population[k] \in Int /\ population[index] \in Int
          BY <1>4, <3>2
        <5>. QED
          BY <3>3, <5>1, <5>2 DEF Better
      <4>3. ~Better(population[k], population[k])
        BY <1>4 DEF Better
      <4>. QED
        BY <4>1, <4>2, <4>3
    <3>4. CASE ~Better(population[k], population[index])
      BY <1>1, <2>2, <3>2, <3>4
    <3>. QED
      BY <3>3, <3>4
  <2>. QED
    BY <2>1, <2>2
<1>8. BestDrawn'
  BY <1>2, <1>3, <1>7 DEF BestDrawn
<1>9. Drawing'
  BY <1>2, <1>8 DEF Drawing
<1>. QED
  BY <1>5, <1>6, <1>9 DEF Inv

LEMMA StepSelect ==
  Inv /\ (TournamentWon \/ TournamentOfTwo \/ TournamentUnhandled \/ DeterministicSelect) => Inv'
<1>1. Inv /\ TournamentWon => Inv'
  <2> SUFFICES ASSUME Inv, TournamentWon
               PROVE  Inv'
    OBVIOUS
  <2>1. /\ Selecting("Tournament") /\ draws = Draws /\ Pressure >= 200 /\ pc' = "selected"
        /\ index' = index /\ call' = call /\ population' = population /\ drawn' = drawn
        /\ draws' = draws /\ selected' = selected
    BY DEF TournamentWon, Return
  <2>2. Draws > 0
    <3>1. Pressure \in Int
      BY CallType DEF Inv, TypeOK
    <3>. QED
      BY <2>1, <3>1 DEF Draws
  <2>3. BestDrawn
    BY <2>1, <2>2 DEF Inv, Drawing, Selecting
  <2>4. (BestDrawn)'
    BY <2>1, <2>3 DEF BestDrawn, Better
  <2>5. index' \in DOMAIN population
    BY <2>1, <2>3, Values DEF Inv, TypeOK, BestDrawn
  <2>6. draws' \in Nat /\ drawn' \subseteq 1..Len(population)
    BY <2>1 DEF Inv, TypeOK
  <2>. QED
    BY <2>1, <2>4, <2>5, <2>6, ReturnKeeps
<1>2. Inv /\ TournamentOfTwo => Inv'
  <2> SUFFICES ASSUME Inv, TournamentOfTwo
               PROVE  Inv'
    OBVIOUS
  <2>1. /\ Selecting("Tournament") /\ Pressure \in 1..100 /\ pc' = "selected"
        /\ call' = call /\ population' = population
        /\ draws' = draws /\ selected' = selected
    BY DEF TournamentOfTwo
  <2>2. PICK i1 \in DOMAIN population, i2 \in DOMAIN population :
          index' \in {i1, i2, 1} /\ drawn' = {i1, i2}
    BY DEF TournamentOfTwo
  <2>3. /\ DOMAIN population = 1..Len(population) /\ 1 \in DOMAIN population /\ draws \in Nat
    BY <2>1, Values, SomebodyLeft DEF Inv, Selecting, TypeOK
  <2>4. ~(Pressure >= 200)
    BY <2>1
  <2>. QED
    BY <2>1, <2>2, <2>3, <2>4, ReturnKeeps
<1>3. Inv /\ TournamentUnhandled => Inv'
  <2> SUFFICES ASSUME Inv, TournamentUnhandled
               PROVE  Inv'
    OBVIOUS
  <2>1. /\ Selecting("Tournament") /\ Pressure < 200 /\ pc' = "selected" /\ index' = 1
        /\ call' = call /\ population' = population /\ drawn' = drawn
        /\ draws' = draws /\ selected' = selected
    BY DEF TournamentUnhandled, Return
  <2>2. 1 \in DOMAIN population /\ draws' \in Nat /\ drawn' \subseteq 1..Len(population)
    BY <2>1, Values, SomebodyLeft DEF Inv, Selecting, TypeOK
  <2>3. ~(Pressure >= 200)
    <3>1. Pressure \in Int
      BY CallType DEF Inv, TypeOK
    <3>. QED
      BY <2>1, <3>1
  <2>. QED
    BY <2>1, <2>2, <2>3, ReturnKeeps
<1>4. Inv /\ DeterministicSelect => Inv'
  <2> SUFFICES ASSUME Inv, DeterministicSelect
               PROVE  Inv'
    OBVIOUS
  <2>1. /\ Selecting("Deterministic") /\ pc' = "selected" /\ index' = Len(population)
        /\ call' = call /\ population' = population /\ drawn' = drawn
        /\ draws' = draws /\ selected' = selected
    BY DEF DeterministicSelect, Return
  <2>2. /\ Len(population) \in DOMAIN population
        /\ draws' \in Nat /\ drawn' \subseteq 1..Len(population)
    BY <2>1, Values, SomebodyLeft DEF Inv, Selecting, TypeOK
  <2>. QED
    BY <2>1, <2>2, ReturnKeeps
<1>. QED
  BY <1>1, <1>2, <1>3, <1>4

LEMMA StepRandomSelect == Inv /\ RandomSelect => Inv'
<1> SUFFICES ASSUME Inv, RandomSelect
             PROVE  Inv'
  OBVIOUS
<1>1. /\ Selecting("Random") /\ call' = call /\ population' = population /\ drawn' = drawn
      /\ draws' = draws /\ selected' = selected
  BY DEF RandomSelect, Return
<1>2. CASE \E k \in 1..(Len(population) - 1) : Return(k)
  <2>1. PICK k \in 1..(Len(population) - 1) : Return(k)
    BY <1>2
  <2>2. pc' = "selected" /\ index' = k
    BY <2>1 DEF Return
  <2>3. /\ index' \in DOMAIN population /\ draws' \in Nat
        /\ drawn' \subseteq 1..Len(population)
    BY <1>1, <2>1, <2>2, Values DEF Inv, TypeOK
  <2>. QED
    BY <1>1, <2>2, <2>3, ReturnKeeps
<1>3. CASE Len(population) = 1 /\ pc' = "wild" /\ index' = index
  <2>1. Operator = "Random" /\ Operator' = Operator /\ Pressure' = Pressure
        /\ \A f, g : Better(f, g)' = Better(f, g)
    BY <1>1 DEF Selecting, Operator, Pressure, Better
  <2>2. TypeOK' /\ Enough'
    BY <1>1, <1>3 DEF Inv, TypeOK, Enough
  <2>3. Drawing' /\ BestLast' /\ IndexInRange'
    BY <1>1, <1>3, <2>1 DEF Drawing, BestLast, IndexInRange
  <2>4. TournamentReturnsBestDrawn' /\ RouletteSkipsZero'
    BY <1>3 DEF TournamentReturnsBestDrawn, RouletteSkipsZero
  <2>5. DeterministicKeepsBest'
    BY <2>1 DEF DeterministicKeepsBest
  <2>. QED
    BY <2>2, <2>3, <2>4, <2>5 DEF Inv
<1>. QED
  BY <1>2, <1>3 DEF RandomSelect

LEMMA StepRouletteSelect == Inv /\ RouletteSelect => Inv'
<1> SUFFICES ASSUME Inv, RouletteSelect
             PROVE  Inv'
  OBVIOUS
<1>1. PICK q \in {0} \cup 0..(AbsoluteTotal(population) - 1) : Return(Spun(population, q))
  BY DEF RouletteSelect
<1>2. /\ Selecting("Roulette") /\ pc' = "selected" /\ index' = Spun(population, q)
      /\ call' = call /\ population' = population /\ drawn' = drawn
      /\ draws' = draws /\ selected' = selected
  BY <1>1 DEF RouletteSelect, Return
<1>3. /\ population \in Seq(Int) /\ DOMAIN population = 1..Len(population)
      /\ population # <<>> /\ draws \in Nat /\ drawn \subseteq 1..Len(population)
  BY <1>2, Values, SomebodyLeft DEF Inv, TypeOK, Selecting
<1>4. q \in Int
  OBVIOUS
<1>5. index' \in DOMAIN population
  BY <1>2, <1>3, <1>4, SpunInRange
<1>6. RouletteSkipsZero'
  <2> SUFFICES ASSUME \A k \in DOMAIN population : population[k] >= 0,
                      \E k \in DOMAIN population : population[k] > 0
               PROVE  population[Spun(population, q)] > 0
    BY <1>2 DEF RouletteSkipsZero
  <2>1. /\ \A k \in 1..Len(population) : population[k] >= 0
        /\ \E k \in 1..Len(population) : population[k] > 0
    BY <1>3
  <2>. QED
    BY <1>3, <2>1, SpunHasWeight
<1>. QED
  BY <1>2, <1>3, <1>5, <1>6, ReturnKeeps

LEMMA StepUse == Inv /\ Use => Inv'
<1> SUFFICES ASSUME Inv, Use
             PROVE  Inv'
  OBVIOUS
<1>1. /\ pc = "selected" /\ pc' = "select" /\ call' = call
      /\ selected' = Append(selected, population[index])
      /\ population' = IF call.reducing THEN SwapOut(population, index) ELSE population
      /\ drawn' = {} /\ draws' = 0 /\ index' = 1
  BY DEF Use
<1>2. /\ Operator' = Operator /\ Pressure' = Pressure
      /\ \A f, g : Better(f, g)' = Better(f, g)
  BY <1>1 DEF Operator, Pressure, Better
<1>3. /\ population \in Seq(Fitness) /\ DOMAIN population = 1..Len(population)
      /\ index \in 1..Len(population) /\ Len(population) \in Nat
      /\ selected \in Seq(Fitness) /\ Len(selected) \in Nat
      /\ call.reducing \in BOOLEAN /\ call.obSize \in Nat
      /\ Len(selected) < call.obSize
  BY <1>1, Values, CallType DEF Inv, TypeOK, IndexInRange, Enough
<1>4. /\ population[index] \in Fitness
      /\ selected' \in Seq(Fitness) /\ Len(selected') = Len(selected) + 1
      /\ selected'[Len(selected) + 1] = population[index]
      /\ \A k \in DOMAIN selected : selected'[k] = selected[k]
      /\ DOMAIN selected' = 1..(Len(selected) + 1) /\ DOMAIN selected = 1..Len(selected)
  BY <1>1, <1>3
<1>5. call.reducing =>
        /\ population' \in Seq(Fitness) /\ Len(population') = Len(population) - 1
        /\ DOMAIN population' = 1..(Len(population) - 1)
        /\ \A j \in 1..(Len(population) - 1) :
             population'[j] = IF j = index THEN population[Len(population)] ELSE population[j]
  <2> SUFFICES ASSUME call.reducing
               PROVE  /\ population' \in Seq(Fitness) /\ Len(population') = Len(population) - 1
                      /\ DOMAIN population' = 1..(Len(population) - 1)
                      /\ \A j \in 1..(Len(population) - 1) :
                           population'[j] = IF j = index THEN population[Len(population)]
                                                         ELSE population[j]
    OBVIOUS
  <2>1. PICK m \in Nat : m = Len(population) - 1
    <3>1. Len(population) - 1 \in Nat
      BY <1>3
    <3>. QED
      BY <3>1
  <2>2. population' = [j \in 1..m |-> IF j = index THEN population[Len(population)]
                                                   ELSE population[j]]
    BY <1>1, <2>1 DEF SwapOut
  <2>3. \A j \in 1..m : population[j] \in Fitness /\ population[Len(population)] \in Fitness
    BY <1>3, <2>1
  <2>. QED
    BY <2>1, <2>2, <2>3
<1>6. TypeOK'
  <2>1. population' \in Seq(Fitness)
    BY <1>1, <1>3, <1>5
  <2>. QED
    BY <1>1, <1>4, <2>1 DEF Inv, TypeOK
<1>7. Enough'
  <2>1. call.reducing => call.obSize <= Len(population') + Len(selected')
    BY <1>3, <1>4, <1>5 DEF Inv, Enough
  <2>. QED
    BY <1>1, <2>1 DEF Inv, Enough
<1>8. Drawing'
  BY <1>1 DEF Drawing
<1>9. ASSUME Operator = "Deterministic"
      PROVE  /\ \A j, k \in DOMAIN population' : j < k => ~Better(population'[j], population'[k])
             /\ \A j \in DOMAIN population' :
                  call.reducing => population'[j] = population[j] /\ j \in DOMAIN population
  <2>1. /\ index = Len(population)
        /\ \A j, k \in DOMAIN population : j < k => ~Better(population[j], population[k])
    BY <1>1, <1>9 DEF Inv, BestLast
  <2>2. CASE call.reducing
    <3>1. ASSUME NEW j \in 1..(Len(population) - 1)
          PROVE  population'[j] = population[j] /\ j \in DOMAIN population
      <4>1. j # index /\ j \in 1..Len(population)
        <5>1. Len(population) \in Nat /\ index = Len(population)
          BY <1>3, <2>1
        <5>. QED
          BY <5>1
      <4>2. population'[j] = IF j = index THEN population[Len(population)] ELSE population[j]
        BY <1>5, <2>2
      <4>. QED
        BY <1>3, <4>1, <4>2
    <3>. QED
      BY <1>5, <2>1, <2>2, <3>1
  <2>3. CASE ~call.reducing
    BY <1>1, <2>1, <2>3
  <2>. QED
    BY <2>2, <2>3
<1>10. BestLast'
  BY <1>1, <1>2, <1>9 DEF BestLast
<1>11. IndexInRange' /\ TournamentReturnsBestDrawn' /\ RouletteSkipsZero'
  BY <1>1 DEF IndexInRange, TournamentReturnsBestDrawn, RouletteSkipsZero
<1>12. DeterministicKeepsBest'
  <2> SUFFICES ASSUME Operator = "Deterministic", call.reducing,
                      NEW k \in DOMAIN selected', NEW j \in DOMAIN population'
               PROVE  ~Better(population'[j], selected'[k])
    BY <1>1, <1>2 DEF DeterministicKeepsBest
  <2>1. /\ index = Len(population)
        /\ \A i, l \in DOMAIN population : i < l => ~Better(population[i], population[l])
        /\ \A i \in DOMAIN selected, l \in DOMAIN population : ~Better(population[l], selected[i])
    BY <1>1 DEF Inv, BestLast, DeterministicKeepsBest
  <2>2. population'[j] = population[j] /\ j \in DOMAIN population /\ j < Len(population)
    BY <1>3, <1>5, <1>9
  <2>3. CASE k \in DOMAIN selected
    BY <1>4, <2>1, <2>2, <2>3
  <2>4. CASE k = Len(selected) + 1
    BY <1>3, <1>4, <2>1, <2>2, <2>4
  <2>. QED
    BY <1>3, <1>4, <2>3, <2>4
<1>. QED
  BY <1>6, <1>7, <1>8, <1>10, <1>11, <1>12 DEF Inv

LEMMA Inductive == Inv /\ [Next]_vars => Inv'
<1> SUFFICES ASSUME Inv, [Next]_vars
             PROVE  Inv'
  OBVIOUS
<1>1. CASE Initialize
  BY <1>1, StepInitialize
<1>2. CASE DrawCompetitor
  BY <1>2, StepDrawCompetitor
<1>3. CASE TournamentWon \/ TournamentOfTwo \/ TournamentUnhandled \/ DeterministicSelect
  BY <1>3, StepSelect
<1>4. CASE RandomSelect
  BY <1>4, StepRandomSelect
<1>5. CASE RouletteSelect
  BY <1>5, StepRouletteSelect
<1>6. CASE Use
  BY <1>6, StepUse
<1>7. CASE UNCHANGED vars
  BY <1>7 DEF vars, Inv, TypeOK, Enough, Drawing, BestDrawn, BestLast, IndexInRange,
              TournamentReturnsBestDrawn, DeterministicKeepsBest, RouletteSkipsZero,
              Operator, Pressure, Better
<1>. QED
  BY <1>1, <1>2, <1>3, <1>4, <1>5, <1>6, <1>7 DEF Next

LEMMA Always == Spec => []Inv
<1>. QED
  BY Initially, Inductive, PTL DEF Spec

-----------------------------------------------------------------------------
(* The theorems *)

(* Every variable of a use of an operator has its type: no competitor is drawn *)
(* from outside the array that is left.                                        *)
THEOREM TypeCorrect == Spec => []TypeOK
<1>1. Inv => TypeOK
  BY DEF Inv
<1>. QED
  BY <1>1, Always, PTL

(* Every index that selectNext returns is inside the array that the reduction  *)
(* has left, whatever the operator, the pressure and the weights.              *)
THEOREM IndicesInRange == Spec => []IndexInRange
<1>1. Inv => IndexInRange
  BY DEF Inv
<1>. QED
  BY <1>1, Always, PTL

(* The winner of a tournament of any size is one of those drawn, and none of   *)
(* them is better.                                                             *)
THEOREM TournamentsAreFair == Spec => []TournamentReturnsBestDrawn
<1>1. Inv => TournamentReturnsBestDrawn
  BY DEF Inv
<1>. QED
  BY <1>1, Always, PTL

(* A Deterministic reduction of any array leaves nobody behind who is better   *)
(* than one it has taken.                                                      *)
THEOREM DeterministicTakesBest == Spec => []DeterministicKeepsBest
<1>1. Inv => DeterministicKeepsBest
  BY DEF Inv
<1>. QED
  BY <1>1, Always, PTL

(* The wheel stops at an individual with weight when there is one and no       *)
(* weight is negative, for every array and every draw.                         *)
THEOREM WheelSkipsZero == Spec => []RouletteSkipsZero
<1>1. Inv => RouletteSkipsZero
  BY DEF Inv
<1>. QED
  BY <1>1, Always, PTL

-----------------------------------------------------------------------------
(* The refinement *)

(* One value out of a bag that has it. *)
LEMMA BagWithout ==
  ASSUME NEW B, AbstractSelection!IsABag(B), NEW f, AbstractSelection!BagIn(f, B)
  PROVE  AbstractSelection!(-)(B, AbstractSelection!SetToBag({f}))
           = [e \in {d \in DOMAIN B : d # f \/ B[f] > 1} |-> IF e = f THEN B[f] - 1 ELSE B[e]]
<1>. QED
  BY DEF AbstractSelection!(-), AbstractSelection!SetToBag, AbstractSelection!IsABag

(* the places of s that hold the value e *)
PlacesOf(s, e) == {k \in DOMAIN s : s[k] = e}

LEMMA PlacesFinite ==
  ASSUME NEW S, NEW s \in Seq(S), NEW e
  PROVE  /\ IsFiniteSet(PlacesOf(s, e)) /\ Cardinality(PlacesOf(s, e)) \in Nat
         /\ e \in Range(s) <=> Cardinality(PlacesOf(s, e)) > 0
<1>1. IsFiniteSet(1..Len(s)) /\ DOMAIN s = 1..Len(s)
  BY FS_Interval
<1>2. PlacesOf(s, e) \in SUBSET (1..Len(s))
  BY <1>1 DEF PlacesOf
<1>3. IsFiniteSet(PlacesOf(s, e)) /\ Cardinality(PlacesOf(s, e)) \in Nat
  BY <1>1, <1>2, FS_Subset, FS_CardinalityType
<1>4. e \in Range(s) <=> PlacesOf(s, e) # {}
  BY DEF PlacesOf, Range
<1>5. Cardinality(PlacesOf(s, e)) = 0 <=> PlacesOf(s, e) = {}
  BY <1>3, FS_EmptySet
<1>. QED
  BY <1>3, <1>4, <1>5

LEMMA PoolIsABag ==
  ASSUME NEW S, NEW s \in Seq(S)
  PROVE  /\ PoolOf(s) = [e \in Range(s) |-> Cardinality(PlacesOf(s, e))]
         /\ AbstractSelection!IsABag(PoolOf(s))
<1>1. PoolOf(s) = [e \in Range(s) |-> Cardinality(PlacesOf(s, e))]
  BY DEF PoolOf, PlacesOf
<1>2. \A e \in Range(s) : Cardinality(PlacesOf(s, e)) \in {n \in Nat : n > 0}
  BY PlacesFinite
<1>. QED
  BY <1>1, <1>2 DEF AbstractSelection!IsABag

(* When the places of t correspond to the places D of s, each value is found   *)
(* in t as often as in the places D.                                           *)
LEMMA SamePlaces ==
  ASSUME NEW S, NEW s \in Seq(S), NEW t \in Seq(S), NEW D \in SUBSET DOMAIN s,
         NEW b \in Bijection(DOMAIN t, D), \A j \in DOMAIN t : t[j] = s[b[j]], NEW e
  PROVE  Cardinality(PlacesOf(t, e)) = Cardinality(PlacesOf(s, e) \cap D)
<1>1. /\ b \in [DOMAIN t -> D]
      /\ \A i, j \in DOMAIN t : b[i] = b[j] => i = j
      /\ \A d \in D : \E j \in DOMAIN t : b[j] = d
  BY Fun_BijectionProperties
<1> DEFINE P == PlacesOf(t, e)
           Q == PlacesOf(s, e) \cap D
           g == [j \in P |-> b[j]]
<1>2. P \subseteq DOMAIN t /\ \A j \in P : t[j] = e
  BY DEF PlacesOf
<1>3. g \in [P -> Q]
  <2>1. \A j \in P : b[j] \in Q
    BY <1>1, <1>2 DEF PlacesOf
  <2>. QED
    BY <2>1
<1>4. \A i, j \in P : g[i] = g[j] => i = j
  BY <1>1, <1>2
<1>5. \A d \in Q : \E j \in P : g[j] = d
  <2> SUFFICES ASSUME NEW d \in Q
               PROVE  \E j \in P : g[j] = d
    OBVIOUS
  <2>1. PICK j \in DOMAIN t : b[j] = d
    BY <1>1
  <2>2. j \in P
    BY <2>1 DEF PlacesOf
  <2>. QED
    BY <2>1, <2>2
<1>6. g \in Bijection(P, Q)
  <2> HIDE DEF g, P, Q
  <2>. QED
    BY <1>3, <1>4, <1>5, Fun_IsBij
<1>7. IsFiniteSet(P)
  BY PlacesFinite
<1>8. ExistsBijection(P, Q)
  BY <1>6, Fun_ExistsBij
<1> HIDE DEF P, Q
<1>9. Cardinality(Q) = Cardinality(P)
  BY <1>7, <1>8, FS_Bijection
<1>. QED
  BY <1>9 DEF P, Q

(* Sorting keeps the pool. *)
LEMMA PermutedPool ==
  ASSUME NEW S, NEW s \in Seq(S), NEW t \in Seq(S), NEW b \in Bijection(DOMAIN s, DOMAIN s),
         t = [k \in DOMAIN s |-> s[b[k]]]
  PROVE  PoolOf(t) = PoolOf(s)
<1>1. DOMAIN t = DOMAIN s /\ \A j \in DOMAIN t : t[j] = s[b[j]]
  OBVIOUS
<1>2. \A e : Cardinality(PlacesOf(t, e)) = Cardinality(PlacesOf(s, e) \cap DOMAIN s)
  BY <1>1, SamePlaces
<1>3. \A e : PlacesOf(s, e) \cap DOMAIN s = PlacesOf(s, e)
  BY DEF PlacesOf
<1>4. \A e : Cardinality(PlacesOf(t, e)) = Cardinality(PlacesOf(s, e))
  BY <1>2, <1>3
<1>5. Range(t) = Range(s)
  <2>1. \A e : e \in Range(t) <=> e \in Range(s)
    BY <1>4, PlacesFinite
  <2>. QED
    BY <2>1
<1>. QED
  BY <1>4, <1>5, PoolIsABag

(* A swap with the last place takes one value out of the pool, once. *)
LEMMA SwapOutPool ==
  ASSUME NEW S, NEW s \in Seq(S), NEW k \in 1..Len(s)
  PROVE  PoolOf(SwapOut(s, k))
           = AbstractSelection!(-)(PoolOf(s), AbstractSelection!SetToBag({s[k]}))
<1>1. PICK n \in Nat : n = Len(s) /\ DOMAIN s = 1..n
  OBVIOUS
<1>2. PICK m \in Nat : m = n - 1
  <2>1. n - 1 \in Nat
    BY <1>1
  <2>. QED
    BY <2>1
<1>3. PICK t : t = SwapOut(s, k)
  OBVIOUS
<1>4. t = [j \in 1..m |-> IF j = k THEN s[n] ELSE s[j]]
  BY <1>1, <1>2, <1>3 DEF SwapOut
<1>5. t \in Seq(S) /\ DOMAIN t = 1..m
  <2>1. \A j \in 1..m : s[j] \in S /\ s[n] \in S
    BY <1>1, <1>2
  <2>. QED
    BY <1>4, <2>1
<1> DEFINE b == [j \in 1..m |-> IF j = k THEN n ELSE j]
           D == (1..n) \ {k}
<1>6. b \in Bijection(1..m, D)
  <2>1. b \in [1..m -> D]
    BY <1>1, <1>2
  <2>2. \A i, j \in 1..m : b[i] = b[j] => i = j
    BY <1>1, <1>2
  <2>3. \A d \in D : \E j \in 1..m : b[j] = d
    <3> SUFFICES ASSUME NEW d \in D
                 PROVE  \E j \in 1..m : b[j] = d
      OBVIOUS
    <3>1. CASE d = n
      <4>1. k \in 1..m /\ b[k] = n
        BY <1>1, <1>2, <3>1
      <4>. QED
        BY <3>1, <4>1
    <3>2. CASE d # n
      <4>1. d \in 1..m /\ b[d] = d
        BY <1>1, <1>2, <3>2
      <4>. QED
        BY <4>1
    <3>. QED
      BY <3>1, <3>2
  <2> HIDE DEF b, D
  <2>. QED
    BY <2>1, <2>2, <2>3, Fun_IsBij
<1>7. \A j \in DOMAIN t : t[j] = s[b[j]]
  BY <1>4, <1>5
<1>8. D \in SUBSET DOMAIN s
  BY <1>1
<1> HIDE DEF b
<1>9. \A e : Cardinality(PlacesOf(t, e)) = Cardinality(PlacesOf(s, e) \cap D)
  BY <1>5, <1>6, <1>7, <1>8, SamePlaces
<1>10. ASSUME NEW e
       PROVE  Cardinality(PlacesOf(t, e)) = IF e = s[k] THEN Cardinality(PlacesOf(s, e)) - 1
                                                        ELSE Cardinality(PlacesOf(s, e))
  <2>1. PlacesOf(s, e) \cap D = PlacesOf(s, e) \ {k}
    BY <1>1 DEF PlacesOf
  <2>2. k \in PlacesOf(s, e) <=> e = s[k]
    BY <1>1 DEF PlacesOf
  <2>3. IsFiniteSet(PlacesOf(s, e))
    BY PlacesFinite
  <2>4. Cardinality(PlacesOf(s, e) \ {k}) = IF k \in PlacesOf(s, e)
                                              THEN Cardinality(PlacesOf(s, e)) - 1
                                              ELSE Cardinality(PlacesOf(s, e))
    BY <2>3, FS_RemoveElement
  <2>. QED
    BY <1>9, <2>1, <2>2, <2>4
<1>11. PICK f : f = s[k] /\ f \in Range(s)
  BY <1>1 DEF Range
<1> DEFINE B == PoolOf(s)
<1>12. /\ B = [e \in Range(s) |-> Cardinality(PlacesOf(s, e))]
       /\ AbstractSelection!IsABag(B) /\ AbstractSelection!BagIn(f, B)
  BY <1>11, PoolIsABag DEF AbstractSelection!BagIn, AbstractSelection!BagToSet
<1>13. DOMAIN B = Range(s) /\ \A e \in Range(s) : B[e] = Cardinality(PlacesOf(s, e))
  BY <1>12
<1>14. PoolOf(t) = [e \in Range(t) |-> Cardinality(PlacesOf(t, e))]
  BY <1>5, PoolIsABag
<1> HIDE DEF B
<1>15. Range(t) = {d \in DOMAIN B : d # f \/ B[f] > 1}
  <2>1. ASSUME NEW e
        PROVE  e \in Range(t) <=> e \in Range(s) /\ (e # f \/ B[f] > 1)
    <3>1. e \in Range(t) <=> Cardinality(PlacesOf(t, e)) > 0
      BY <1>5, PlacesFinite
    <3>2. e \in Range(s) <=> Cardinality(PlacesOf(s, e)) > 0
      BY PlacesFinite
    <3>3. Cardinality(PlacesOf(s, f)) \in Nat /\ B[f] = Cardinality(PlacesOf(s, f))
      BY <1>11, <1>13, PlacesFinite
    <3>4. CASE e = f
      BY <1>10, <1>11, <3>1, <3>3, <3>4
    <3>5. CASE e # f
      BY <1>10, <1>11, <3>1, <3>2, <3>5
    <3>. QED
      BY <3>4, <3>5
  <2>. QED
    BY <1>13, <2>1
<1>16. \A e \in Range(t) : Cardinality(PlacesOf(t, e)) = IF e = f THEN B[f] - 1 ELSE B[e]
  BY <1>10, <1>11, <1>13, <1>15
<1>17. PoolOf(t) = [e \in {d \in DOMAIN B : d # f \/ B[f] > 1} |-> IF e = f THEN B[f] - 1 ELSE B[e]]
  BY <1>14, <1>15, <1>16
<1>. QED
  BY <1>3, <1>11, <1>12, <1>17, BagWithout DEF B

LEMMA InitSelects == Init => AbstractSelection!Init
<1> SUFFICES ASSUME Init
             PROVE  AbstractSelection!Init
  OBVIOUS
<1>1. TypeOK /\ selected = <<>>
  BY Initially DEF Inv, Init
<1>2. population \in Seq(Fitness) /\ call.reducing \in BOOLEAN
  BY <1>1, CallType DEF TypeOK
<1>3. AbstractSelection!IsABag(PoolOf(population))
  BY <1>2, PoolIsABag
<1>. QED
  BY <1>1, <1>2, <1>3 DEF AbstractSelection!Init

(* The array may be sorted, but nobody is lost by that. *)
LEMMA InitializeStutters ==
  Inv /\ Initialize => UNCHANGED <<call.reducing, PoolOf(population), selected>>
<1> SUFFICES ASSUME Inv, Initialize
             PROVE  UNCHANGED <<call.reducing, PoolOf(population), selected>>
  OBVIOUS
<1>1. /\ population' \in Arranged(population) /\ call' = call /\ selected' = selected
      /\ population \in Seq(Fitness) /\ population' \in Seq(Fitness)
  BY StepInitialize DEF Initialize, Inv, TypeOK
<1>2. PoolOf(population') = PoolOf(population)
  <2>1. CASE Operator \in {"Deterministic", "Roulette"}
    <3>1. PICK order \in Bijection(DOMAIN population, DOMAIN population) :
            population' = [k \in DOMAIN population |-> population[order[k]]]
      BY <1>1, <2>1 DEF Arranged, Reorderings
    <3>. QED
      BY <1>1, <3>1, PermutedPool
  <2>2. CASE Operator \notin {"Deterministic", "Roulette"}
    BY <1>1, <2>2 DEF Arranged
  <2>. QED
    BY <2>1, <2>2
<1>3. (PoolOf(population))' = PoolOf(population')
  BY DEF PoolOf
<1>. QED
  BY <1>1, <1>2, <1>3

(* What the caller does with an index is a selection. *)
LEMMA UseSelects == Inv /\ Use => AbstractSelection!Next
<1> SUFFICES ASSUME Inv, Use
             PROVE  AbstractSelection!Next
  OBVIOUS
<1>1. /\ call' = call /\ selected' = Append(selected, population[index])
      /\ population' = IF call.reducing THEN SwapOut(population, index) ELSE population
      /\ population \in Seq(Fitness) /\ index \in 1..Len(population)
      /\ DOMAIN population = 1..Len(population) /\ call.reducing \in BOOLEAN
  BY Values, CallType DEF Use, Inv, TypeOK, IndexInRange
<1>2. PICK f : f = population[index]
  OBVIOUS
<1>3. f \in DOMAIN PoolOf(population)
  <2>1. DOMAIN PoolOf(population) = Range(population)
    BY <1>1, PoolIsABag
  <2>2. population[index] \in Range(population)
    BY <1>1 DEF Range
  <2>. QED
    BY <1>2, <2>1, <2>2
<1>4. (PoolOf(population))' = PoolOf(population')
  BY DEF PoolOf
<1>5. PoolOf(population') =
        IF call.reducing
          THEN AbstractSelection!(-)(PoolOf(population), AbstractSelection!SetToBag({f}))
          ELSE PoolOf(population)
  BY <1>1, <1>2, SwapOutPool
<1>6. AbstractSelection!Select(f)
  BY <1>1, <1>2, <1>3, <1>4, <1>5 DEF AbstractSelection!Select, AbstractSelection!BagIn,
                                      AbstractSelection!BagToSet
<1>. QED
  BY <1>3, <1>6 DEF AbstractSelection!Next, AbstractSelection!BagToSet

(* The operators implement Selection: every answer is a member of the pool,    *)
(* and a reduction takes each out of it exactly once, whatever was sorted and  *)
(* swapped in between.                                                         *)
THEOREM SelectionImplemented == Spec => ImplementsSelection
<1>1. Inv /\ [Next]_vars => [AbstractSelection!Next]_(AbstractSelection!vars)
  <2> SUFFICES ASSUME Inv, [Next]_vars
               PROVE  [AbstractSelection!Next]_(AbstractSelection!vars)
    OBVIOUS
  <2>1. CASE Use
    BY <2>1, UseSelects
  <2>2. CASE Initialize
    BY <2>2, InitializeStutters DEF AbstractSelection!vars
  <2>3. CASE \/ DrawCompetitor \/ TournamentWon \/ TournamentOfTwo \/ TournamentUnhandled
             \/ DeterministicSelect \/ RandomSelect \/ RouletteSelect \/ UNCHANGED vars
    <3>1. UNCHANGED <<call, population, selected>>
      BY <2>3 DEF DrawCompetitor, TournamentWon, TournamentOfTwo, TournamentUnhandled,
                  DeterministicSelect, RandomSelect, RouletteSelect, Return, vars
    <3>. QED
      BY <3>1 DEF AbstractSelection!vars, PoolOf
  <2>. QED
    BY <2>1, <2>2, <2>3 DEF Next
<1>. QED
  BY <1>1, InitSelects, Always, PTL DEF Spec, ImplementsSelection, AbstractSelection!Spec
=============================================================================
