------------------------ MODULE CudaEvaluation_proofs ------------------------
(***************************************************************************)
(* Proofs about CudaEvaluation, for any machines, any sizes of the         *)
(* populations and any number of generations: the semaphores keep the      *)
(* threads of the cards asleep whenever the main thread works on what they *)
(* share, the memory of a card is large enough and is freed, and when the  *)
(* shares are positive every individual is given its own fitness.          *)
(***************************************************************************)
EXTENDS CudaEvaluation, ArrayTheorems

-----------------------------------------------------------------------------
(* The shares *)

LEMMA SumToStep ==
  ASSUME NEW s \in Seq(Int)
  PROVE  /\ \A k \in 0..Len(s) : SumTo(s, k) \in Int
         /\ SumTo(s, 0) = 0
         /\ \A k \in 1..Len(s) : SumTo(s, k) = SumTo(s, k - 1) + s[k]
<1>1. \A k \in 0..Len(s) : SumTo(s, k) = SumOf(s, k)
  BY DEF SumTo, SumOf
<1>. QED
  BY <1>1, SumStep

LEMMA ConfigTyped ==
  ASSUME config \in Configs
  PROVE  /\ config.fstgpu \in Int /\ config.lstgpu \in Int
         /\ config.multiProcessors \in Seq(Nat \ {0})
         /\ config.popSize \in Nat \ {0} /\ config.nbOffspring \in Nat \ {0}
         /\ config.warpSize \in Nat \ {0} /\ config.maxThreads \in Nat \ {0}
         /\ config.warpSize <= config.maxThreads
         /\ num_gpus \in Int
<1>1. config \in Config /\ config.warpSize <= config.maxThreads
  BY ConfigsAssumption
<1>2. Len(config.multiProcessors) \in Nat
  BY <1>1 DEF Config
<1>. QED
  BY <1>1, <1>2 DEF Config, num_gpus

LEMMA Multiprocessors ==
  ASSUME config \in Configs, ~Refused(config), NEW g \in Gpus
  PROVE  num_MP(g) \in Nat \ {0}
<1>1. config.fstgpu + g \in 1..Len(config.multiProcessors)
  <2>1. /\ config.fstgpu \in Int /\ config.lstgpu \in Int /\ num_gpus \in Int
        /\ Len(config.multiProcessors) \in Nat
    BY ConfigTyped
  <2>2. g \in Int /\ 1 <= g /\ g <= num_gpus
    BY <2>1 DEF Gpus
  <2>3. CASE UseAll(config)
    <3>1. num_gpus = Len(config.multiProcessors) /\ config.fstgpu = 0
      BY <2>3 DEF UseAll, num_gpus
    <3>. QED
      BY <2>1, <2>2, <3>1
  <2>4. CASE ~UseAll(config)
    <3>1. /\ num_gpus = config.lstgpu - config.fstgpu
          /\ ~(config.fstgpu < 0) /\ ~(config.lstgpu > Len(config.multiProcessors))
      BY <2>4 DEF Refused, num_gpus
    <3>2. \A f, l, m, n \in Int : /\ ~(f < 0) /\ ~(l > m) /\ n = l - f /\ 1 <= g /\ g <= n
                                  => f + g \in 1..m
      BY <2>2
    <3>. QED
      BY <2>1, <2>2, <3>1, <3>2
  <2>. QED
    BY <2>3, <2>4
<1>. QED
  BY <1>1, ConfigTyped DEF num_MP

(* Sums of natural numbers do not fall. *)
LEMMA SumOfNaturals ==
  ASSUME NEW s \in Seq(Nat)
  PROVE  \A k \in 0..Len(s) : SumTo(s, k) \in Nat
<1> DEFINE T == {k \in Nat : k <= Len(s) => SumTo(s, k) \in Nat}
<1>1. s \in Seq(Int) /\ Len(s) \in Nat
  OBVIOUS
<1>2. 0 \in T
  BY <1>1, SumToStep
<1>3. \A k \in Nat : k \in T => k + 1 \in T
  <2> SUFFICES ASSUME NEW k \in Nat, k \in T, k + 1 <= Len(s)
               PROVE  SumTo(s, k + 1) \in Nat
    OBVIOUS
  <2>1. SumTo(s, k) \in Nat
    BY <1>1
  <2>2. k + 1 \in 1..Len(s) /\ (k + 1) - 1 = k
    BY <1>1
  <2>3. SumTo(s, k + 1) = SumTo(s, k) + s[k + 1]
    BY <1>1, <2>2, SumToStep
  <2>4. s[k + 1] \in Nat
    BY <2>2
  <2>5. \A x, y \in Nat : x + y \in Nat
    OBVIOUS
  <2>6. SumTo(s, k) + s[k + 1] \in Nat
    BY <2>1, <2>4, <2>5
  <2>. QED
    BY <2>3, <2>6
<1>4. \A k \in Nat : k \in T
  <2> HIDE DEF T
  <2>. QED
    BY <1>2, <1>3, SetInduction
<1>. QED
  BY <1>1, <1>4

LEMMA QuotasTyped ==
  ASSUME config \in Configs, ~Refused(config), NEW n \in Nat
  PROVE  \A g \in Gpus : Quota(g, n) \in Nat
<1> SUFFICES ASSUME NEW h \in Gpus PROVE Quota(h, n) \in Nat
  OBVIOUS
<1> DEFINE s == [g \in Gpus |-> num_MP(g)]
<1>1. num_gpus \in Nat \ {0} /\ Gpus = 1..num_gpus
  BY ConfigTyped DEF Gpus
<1>2. s \in [1..num_gpus -> Nat]
  BY <1>1, Multiprocessors
<1>3. s \in Seq(Nat) /\ s \in Seq(Int) /\ Len(s) = num_gpus
  <2>1. \A m \in Nat : \A f \in [1..m -> Nat] : f \in Seq(Nat) /\ Len(f) = m
    OBVIOUS
  <2>2. \A f \in Seq(Nat) : f \in Seq(Int)
    OBVIOUS
  <2>. HIDE DEF s
  <2>. QED
    BY <1>1, <1>2, <2>1, <2>2
<1>4. s[num_gpus] \in Nat \ {0}
  BY <1>1, Multiprocessors
<1>5. noTotalMP \in Nat \ {0}
  <2>. HIDE DEF s
  <2>1. noTotalMP = SumTo(s, num_gpus)
    BY DEF noTotalMP, s
  <2>2. SumTo(s, num_gpus) = SumTo(s, num_gpus - 1) + s[num_gpus]
    BY <1>1, <1>3, SumToStep
  <2>3. SumTo(s, num_gpus - 1) \in Nat
    BY <1>1, <1>3, SumOfNaturals
  <2>. QED
    BY <1>4, <2>1, <2>2, <2>3
<1>6. num_MP(h) \in Nat
  BY Multiprocessors
<1>7. n * num_MP(h) \in Nat
  <2>1. \A x, y \in Nat : x * y \in Nat
    OBVIOUS
  <2>. QED
    BY <1>6, <2>1
<1>8. n * num_MP(h) + (noTotalMP - 1) \in Nat
  BY <1>5, <1>7
<1>9. \A x \in Nat, y \in Nat \ {0} : x \div y \in Nat
  OBVIOUS
<1> DEFINE x == n * num_MP(h) + (noTotalMP - 1)
           y == noTotalMP
<1>10. Quota(h, n) = x \div y
  BY DEF Quota
<1>11. x \in Nat /\ y \in Nat \ {0}
  BY <1>5, <1>8
<1>. HIDE DEF x, y
<1>. QED
  BY <1>9, <1>10, <1>11

(* Each card but the last begins where the share of the one before ends. *)
LEMMA Starts ==
  ASSUME config \in Configs, ~Refused(config), NEW n \in Nat
  PROVE  /\ \A g \in Gpus : Start(g, n) \in Nat
         /\ 1 \in Gpus => Start(1, n) = 0
         /\ \A g \in Gpus : g + 1 \in Gpus => Start(g + 1, n) = Start(g, n) + Quota(g, n)
<1> DEFINE s == [g \in Gpus |-> Quota(g, n)]
<1> SUFFICES ASSUME NEW h \in Gpus
             PROVE  /\ Start(h, n) \in Nat
                    /\ Start(1, n) = 0
                    /\ h + 1 \in Gpus => Start(h + 1, n) = Start(h, n) + Quota(h, n)
  BY DEF Gpus
<1>1. num_gpus \in Nat \ {0} /\ Gpus = 1..num_gpus /\ h \in 1..num_gpus
  BY ConfigTyped DEF Gpus
<1>2. s \in [1..num_gpus -> Nat]
  BY <1>1, QuotasTyped
<1>3. s \in Seq(Nat) /\ s \in Seq(Int) /\ Len(s) = num_gpus
  <2>1. \A m \in Nat : \A f \in [1..m -> Nat] : f \in Seq(Nat) /\ Len(f) = m
    OBVIOUS
  <2>2. \A f \in Seq(Nat) : f \in Seq(Int)
    OBVIOUS
  <2>. HIDE DEF s
  <2>. QED
    BY <1>1, <1>2, <2>1, <2>2
<1>4. s[h] = Quota(h, n)
  OBVIOUS
<1>5. \A g : Start(g, n) = SumTo(s, g - 1)
  BY DEF Start
<1>. HIDE DEF s
<1>6. Start(h, n) \in Nat
  BY <1>1, <1>3, <1>5, SumOfNaturals
<1>7. Start(1, n) = 0
  <2>1. SumTo(s, 0) = 0
    BY <1>3, SumToStep
  <2>. QED
    BY <1>5, <2>1
<1>8. ASSUME h + 1 \in Gpus
      PROVE  Start(h + 1, n) = Start(h, n) + Quota(h, n)
  <2>1. SumTo(s, h) = SumTo(s, h - 1) + s[h]
    BY <1>1, <1>3, SumToStep
  <2>2. (h + 1) - 1 = h
    BY <1>1
  <2>. QED
    BY <1>4, <1>5, <2>1, <2>2
<1>. QED
  BY <1>6, <1>7, <1>8

LEMMA DispatchedTyped ==
  ASSUME config \in Configs, ~Refused(config), NEW n \in Nat
  PROVE  /\ Dispatched(n) \in [Gpus -> [indiv_start : Nat, sh_pop_size : Int]]
         /\ \A g \in Gpus :
              /\ Dispatched(n)[g].indiv_start = Start(g, n)
              /\ Dispatched(n)[g].sh_pop_size =
                   IF g # num_gpus THEN Quota(g, n) ELSE n - Start(g, n)
<1>1. ASSUME NEW g \in Gpus
      PROVE  /\ Start(g, n) \in Nat
             /\ (IF g # num_gpus THEN Quota(g, n) ELSE n - Start(g, n)) \in Int
  BY Starts, QuotasTyped
<1>. QED
  BY <1>1 DEF Dispatched

(* the places of the results of card g, of n *)
Places(g, n) ==
  (Dispatched(n)[g].indiv_start + 1)..(Dispatched(n)[g].indiv_start + Dispatched(n)[g].sh_pop_size)

(* When no share is empty, the shares are inside the population and cover it. *)
LEMMA SharesCover ==
  ASSUME config \in Configs, ~Refused(config), NEW n \in Nat,
         \A g \in Gpus : Dispatched(n)[g].sh_pop_size > 0
  PROVE  /\ \A g \in Gpus : Places(g, n) \subseteq 1..n
         /\ num_gpus > 0 => \A k \in 1..n : \E g \in Gpus : k \in Places(g, n)
<1> SUFFICES ASSUME num_gpus > 0
             PROVE  /\ \A g \in Gpus : Places(g, n) \subseteq 1..n
                    /\ \A k \in 1..n : \E g \in Gpus : k \in Places(g, n)
  <2>1. num_gpus > 0 \/ Gpus = {}
    BY ConfigTyped DEF Gpus
  <2>. QED
    BY <2>1
<1> DEFINE M == num_gpus
           St(g) == Dispatched(n)[g].indiv_start
           Sz(g) == Dispatched(n)[g].sh_pop_size
<1>1. M \in Nat \ {0} /\ Gpus = 1..M
  BY ConfigTyped DEF Gpus
<1>2. \A g \in 1..M : St(g) \in Nat /\ Sz(g) \in Int /\ Sz(g) > 0
  BY <1>1, DispatchedTyped
<1>3. St(1) = 0
  <2>1. 1 \in Gpus
    BY <1>1
  <2>2. Start(1, n) = 0
    BY <2>1, Starts
  <2>. QED
    BY <2>1, <2>2, DispatchedTyped
<1>4. \A g \in 1..M : g + 1 \in 1..M => St(g + 1) = St(g) + Sz(g)
  <2> TAKE g \in 1..M
  <2> HAVE g + 1 \in 1..M
  <2>1. g # M
    BY <1>1
  <2>2. Start(g + 1, n) = Start(g, n) + Quota(g, n)
    BY <1>1, Starts
  <2>3. St(g + 1) = Start(g + 1, n) /\ St(g) = Start(g, n) /\ Sz(g) = Quota(g, n)
    BY <1>1, <2>1, DispatchedTyped
  <2>. QED
    BY <2>2, <2>3
<1>5. St(M) + Sz(M) = n
  <2>1. M \in Gpus
    BY <1>1
  <2>2. St(M) = Start(M, n) /\ Sz(M) = n - Start(M, n) /\ Start(M, n) \in Nat
    BY <2>1, DispatchedTyped, Starts
  <2>. HIDE DEF St, Sz
  <2>. QED
    BY <2>2
<1>6. \A g \in Gpus : Places(g, n) = (St(g) + 1)..(St(g) + Sz(g))
  BY DEF Places
<1>. HIDE DEF M, St, Sz
<1>7. \A g \in 1..M : St(g) <= St(M)
  <2> DEFINE T == {j \in Nat : j < M => St(M - j) <= St(M)}
  <2>1. 0 \in T
    BY <1>1, <1>2
  <2>2. \A j \in Nat : j \in T => j + 1 \in T
    <3> SUFFICES ASSUME NEW j \in Nat, j < M => St(M - j) <= St(M), j + 1 < M
                 PROVE  St(M - (j + 1)) <= St(M)
      OBVIOUS
    <3>1. /\ M - (j + 1) \in 1..M /\ M - j \in 1..M /\ (M - (j + 1)) + 1 = M - j
          /\ M \in 1..M
      BY <1>1
    <3>2. St(M - j) = St(M - (j + 1)) + Sz(M - (j + 1))
      BY <1>4, <3>1
    <3>3. St(M - j) <= St(M)
      BY <1>1
    <3>4. /\ St(M - j) \in Int /\ St(M) \in Int /\ St(M - (j + 1)) \in Int
          /\ Sz(M - (j + 1)) \in Int /\ Sz(M - (j + 1)) > 0
      BY <1>2, <3>1
    <3>5. \A w, x, y, z \in Int : w = x + y /\ y > 0 /\ w <= z => x <= z
      OBVIOUS
    <3>. QED
      BY <3>2, <3>3, <3>4, <3>5
  <2>3. \A j \in Nat : j \in T
    <3> HIDE DEF T
    <3>. QED
      BY <2>1, <2>2, SetInduction
  <2> TAKE g \in 1..M
  <2>4. M - g \in Nat /\ M - g < M /\ M - (M - g) = g
    BY <1>1
  <2>5. M - g \in T
    BY <2>3, <2>4
  <2>. QED
    BY <2>4, <2>5
<1>8. ASSUME NEW g \in Gpus PROVE Places(g, n) \subseteq 1..n
  <2>1. g \in 1..M /\ M \in 1..M
    BY <1>1
  <2>2. St(g) + Sz(g) <= n
    <3>1. CASE g = M
      BY <1>5, <3>1
    <3>2. CASE g # M
      <4>1. g + 1 \in 1..M
        BY <1>1, <2>1, <3>2
      <4>2. St(g) + Sz(g) <= St(M)
        BY <1>4, <1>7, <2>1, <4>1
      <4>3. St(M) <= n
        BY <1>2, <1>5, <2>1
      <4>. QED
        BY <1>2, <2>1, <4>2, <4>3
    <3>. QED
      BY <3>1, <3>2
  <2>3. St(g) \in Nat /\ Sz(g) \in Int
    BY <1>2, <2>1
  <2>. QED
    BY <1>6, <2>2, <2>3
<1>9. \A k \in 1..n : \E g \in Gpus : k \in Places(g, n)
  <2> DEFINE Covered(m) == \A k \in 1..m : \E g \in Gpus : k \in Places(g, n)
             T == {j \in Nat : j + 1 \in 1..M => Covered(St(j + 1) + Sz(j + 1))}
  <2>1. 0 \in T
    <3> SUFFICES ASSUME NEW k \in 1..(St(1) + Sz(1)) PROVE \E g \in Gpus : k \in Places(g, n)
      OBVIOUS
    <3>1. 1 \in 1..M /\ 1 \in Gpus
      BY <1>1
    <3>2. k \in (St(1) + 1)..(St(1) + Sz(1))
      BY <1>2, <1>3, <3>1
    <3>. QED
      BY <1>6, <3>1, <3>2
  <2>2. \A j \in Nat : j \in T => j + 1 \in T
    <3> SUFFICES ASSUME NEW j \in Nat, j \in T, (j + 1) + 1 \in 1..M,
                        NEW k \in 1..(St((j + 1) + 1) + Sz((j + 1) + 1))
                 PROVE  \E g \in Gpus : k \in Places(g, n)
      OBVIOUS
    <3> DEFINE g == j + 1
    <3>1. g \in 1..M /\ g + 1 \in 1..M /\ g + 1 \in Gpus
      BY <1>1
    <3>2. Covered(St(g) + Sz(g))
      BY <3>1
    <3>3. St(g + 1) = St(g) + Sz(g)
      BY <1>4, <3>1
    <3>4. /\ St(g) \in Nat /\ Sz(g) \in Int /\ St(g + 1) \in Nat /\ Sz(g + 1) \in Int
          /\ k \in 1..(St(g + 1) + Sz(g + 1))
      BY <1>2, <3>1
    <3>. HIDE DEF g
    <3>5. k \in 1..(St(g) + Sz(g)) \/ k \in (St(g + 1) + 1)..(St(g + 1) + Sz(g + 1))
      BY <3>3, <3>4
    <3>. QED
      BY <1>6, <3>1, <3>2, <3>5
  <2>3. \A j \in Nat : j \in T
    <3> HIDE DEF T
    <3>. QED
      BY <2>1, <2>2, SetInduction
  <2>4. M - 1 \in Nat /\ (M - 1) + 1 = M /\ M \in 1..M
    BY <1>1
  <2>5. Covered(St(M) + Sz(M))
    <3>1. M - 1 \in T
      BY <2>3, <2>4
    <3>. QED
      BY <2>4, <3>1
  <2>. QED
    BY <1>5, <2>5
<1>. QED
  BY <1>8, <1>9

-----------------------------------------------------------------------------
(* The launch of the kernel *)

LEMMA MinOfTwo ==
  ASSUME NEW x \in Nat, NEW y \in Nat
  PROVE  Min({x, y}) \in Nat /\ (y <= x => Min({x, y}) = y)
<1> DEFINE z == IF x <= y THEN x ELSE y
<1>1. z \in {x, y} /\ \A w \in {x, y} : z <= w
  OBVIOUS
<1>2. \E m \in {x, y} : \A w \in {x, y} : m <= w
  BY <1>1
<1>3. Min({x, y}) \in {x, y} /\ \A w \in {x, y} : Min({x, y}) <= w
  BY <1>2 DEF Min
<1>. QED
  BY <1>3

(* What a division that rounds up returns. *)
LEMMA CeilingTimes ==
  ASSUME NEW n \in Nat, NEW m \in Nat \ {0}
  PROVE  /\ (n + (m - 1)) \div m \in Nat
         /\ 0 < n /\ n <= m => (n + (m - 1)) \div m = 1
<1> DEFINE q == (n + (m - 1)) \div m
           r == (n + (m - 1)) % m
<1>1. q \in Int /\ r \in 0..(m - 1) /\ n + (m - 1) = m * q + r /\ q \in Nat
  OBVIOUS
<1>2. ASSUME 0 < n, n <= m PROVE q = 1
  <2>1. n + (m - 1) >= m /\ n + (m - 1) < 2 * m
    BY <1>2
  <2>. QED
    BY <2>1
<1>. QED
  BY <1>1, <1>2

(* The loop of cudaPreliminaryProcess ends, with a thread per individual. *)
LEMMA SpreadCovers ==
  ASSUME config \in Configs, ~Refused(config), NEW g \in Gpus, NEW n \in Nat \ {0}
  PROVE  /\ Spread(g, n) \in [dimGrid : Nat, dimBlock : Nat]
         /\ Spread(g, n).dimGrid * Spread(g, n).dimBlock >= n
         /\ Spread(g, n).dimBlock <= config.maxThreads
<1> DEFINE M == num_MP(g)
           w == config.warpSize
           L == config.maxThreads
           J == {j \in 1..n : Suffice(M * j, n)}
           T(b) == ThreadsPerBlock(b, n)
<1>1. M \in Nat \ {0} /\ w \in Nat \ {0} /\ L \in Nat \ {0} /\ w <= L
  BY Multiprocessors, ConfigTyped
<1>2. \A x, y \in Nat \ {0} : x * y \in Nat \ {0} /\ y <= x * y
  OBVIOUS
<1>3. ASSUME NEW b \in Nat \ {0} PROVE T(b) \in Nat
  <2>1. L * b \in Nat \ {0} /\ b * w \in Nat \ {0}
    BY <1>1, <1>2
  <2>2. Min({L * b, n}) \in Nat
    BY <2>1, MinOfTwo
  <2>3. (Min({L * b, n}) + (b * w - 1)) \div (b * w) \in Nat
    BY <2>1, <2>2, CeilingTimes
  <2>4. \A x, y \in Nat : x * y \in Nat
    OBVIOUS
  <2>. QED
    BY <1>1, <2>3, <2>4 DEF ThreadsPerBlock
<1>4. n \in J
  <2> DEFINE b == M * n
  <2>1. b \in Nat \ {0} /\ n <= b
    BY <1>1, <1>2
  <2>2. L * b \in Nat \ {0} /\ b <= L * b /\ b * w \in Nat \ {0} /\ b <= b * w
    <3>1. \A x, y \in Nat \ {0} : x <= x * y
      OBVIOUS
    <3>. HIDE DEF b
    <3>. QED
      BY <1>1, <1>2, <2>1, <3>1
  <2>3. Min({L * b, n}) = n
    BY <2>1, <2>2, MinOfTwo
  <2>4. (n + (b * w - 1)) \div (b * w) = 1
    <3>1. n <= b * w
      BY <2>1, <2>2
    <3>. QED
      BY <2>2, <3>1, CeilingTimes
  <2>5. T(b) = w
    BY <1>1, <2>3, <2>4 DEF ThreadsPerBlock
  <2>6. b * T(b) >= n
    BY <2>1, <2>2, <2>5
  <2>7. n \in 1..n
    OBVIOUS
  <2>. QED
    BY <1>1, <2>5, <2>6, <2>7 DEF Suffice
<1>5. Min(J) \in J
  <2>1. J \subseteq Nat
    OBVIOUS
  <2>2. PICK j \in J : \A k \in J : j <= k
    <3> HIDE DEF J
    <3>. QED
      BY <1>4, <2>1, LeastNatural
  <2>. HIDE DEF J
  <2>. QED
    BY <2>2 DEF Min
<1> DEFINE turns == Min(J)
<1>6. turns \in Nat \ {0} /\ Suffice(M * turns, n)
  <2> HIDE DEF turns
  <2>1. turns \in J
    BY <1>5 DEF turns
  <2>. QED
    BY <2>1
<1>7. Spread(g, n) = [dimGrid |-> M * turns, dimBlock |-> T(M * turns)]
  BY DEF Spread
<1>. HIDE DEF turns, M
<1>8. M * turns \in Nat \ {0}
  BY <1>1, <1>2, <1>6
<1>9. T(M * turns) \in Nat
  BY <1>3, <1>8
<1>10. (M * turns) * T(M * turns) >= n /\ T(M * turns) <= L
  BY <1>6 DEF Suffice
<1>. HIDE DEF T
<1>. QED
  BY <1>7, <1>8, <1>9, <1>10

-----------------------------------------------------------------------------
(* The invariant *)

Asleep(g) == threadPc[g] = "sem_in" /\ sem_in[g] = 0 /\ sem_out[g] = 0
Ended(g)  == threadPc[g] = "ended" /\ sem_in[g] = 0 /\ sem_out[g] = 0

(* the one token of a card: put in by the main thread, in the hands of the     *)
(* card's thread, or put out by it                                             *)
HasToken(g) ==
  \/ sem_in[g] = 1 /\ sem_out[g] = 0 /\ threadPc[g] = "sem_in"
  \/ /\ sem_in[g] = 0 /\ sem_out[g] = 0
     /\ threadPc[g] \in IF freeGPU THEN {"woken", "ending"}
                                   ELSE {"woken", "memcpy", "kernel", "post"}
  \/ sem_in[g] = 0 /\ sem_out[g] = 1 /\ threadPc[g] = IF freeGPU THEN "ended" ELSE "sem_in"

Waking == mainPc \in {"post", "collect"}

(* Between the two loops of wake_up_gpu_thread every card has its token; the   *)
(* first has reached, and the second left, the card next.                      *)
Tokens(g) ==
  /\ mainPc \in {"evaluate", "read", "evolve"} => Asleep(g)
  /\ mainPc = "post" => IF g < next THEN HasToken(g) ELSE Asleep(g)
  /\ mainPc = "collect" =>
       IF g < next THEN (IF freeGPU THEN Ended(g) ELSE Asleep(g)) ELSE HasToken(g)
  /\ mainPc = "freed" => Ended(g)

(* the thread of card g has been through its allocation, or through its kernel *)
Allocated(g) ==
  \/ threadPc[g] \in {"memcpy", "kernel", "post"} \/ sem_out[g] = 1
  \/ mainPc = "collect" /\ g < next
  \/ mainPc \in {"read", "evolve"}
Computed(g) ==
  \/ threadPc[g] = "post" \/ sem_out[g] = 1
  \/ mainPc = "collect" /\ g < next
  \/ mainPc = "read"

(* the launch of card g is a valid one, with a thread for all of its share *)
LaunchCovers(g) ==
  /\ launch[g].dimGrid * launch[g].dimBlock >= shares[g].sh_pop_size
  /\ launch[g].dimBlock <= config.maxThreads

(* The preliminary process runs in the first two evaluations, the memory is as *)
(* large as the share that it ran for, and the launch covers it.               *)
Memory(g) ==
  /\ ~freeGPU =>
       preliminaries[g] = IF Allocated(g) THEN (IF round <= 2 THEN 2 - round ELSE 0)
                                          ELSE (IF round <= 3 THEN 3 - round ELSE 0)
  /\ ~freeGPU /\ (preliminaries[g] = 0 \/ threadPc[g] \in {"memcpy", "kernel"}) =>
       d_size[g] = shares[g].sh_pop_size /\ LaunchCovers(g)
  /\ threadPc[g] \in {"ending", "ended"} => d_size[g] = 0

(* With shares that fit and without failures, what is on the card are the      *)
(* individuals of this evaluation, and what it has computed is its part.       *)
Results(g) ==
  SharesFit /\ ~failed /\ ~freeGPU =>
    /\ Waking /\ threadPc[g] = "kernel" => \A k \in Share(g) : d_population[g][k] = <<round, k>>
    /\ (Waking \/ mainPc = "read") /\ Computed(g) =>
         \A k \in Share(g) : fitnessTemp[k] = <<round, k>>

(* what the main thread has prepared for the threads *)
Prepared ==
  /\ mainPc \in {"post", "collect", "read", "evolve"} =>
       shares = Dispatched(PopulationSize(round))
  /\ mainPc = "evaluate" /\ round > 2 => shares = Dispatched(config.nbOffspring)
  /\ freeGPU => mainPc \in {"post", "collect", "freed"}
  /\ mainPc = "freed" => freeGPU
  /\ mainPc \in {"evaluate", "evolve"} => fitnessTemp = None
  /\ (Waking \/ mainPc = "read") /\ ~freeGPU =>
       fitnessTemp = [k \in 1..PopulationSize(round) |-> fitnessTemp[k]]
  /\ 1..config.popSize \subseteq DOMAIN cudaBuffer
  /\ 1..config.nbOffspring \subseteq DOMAIN cudaBuffer
  /\ (Waking /\ ~freeGPU) \/ (mainPc = "evaluate" /\ round = 1) =>
       \A k \in 1..PopulationSize(round) : cudaBuffer[k] = <<round, k>>

CardInv(g) == Tokens(g) /\ Memory(g) /\ Results(g)

(* After an exit nothing happens. *)
Inv ==
  /\ TypeOK
  /\ DOMAIN cudaBuffer \subseteq Nat
  /\ mainPc # "exit" =>
       /\ ~Refused(config)
       /\ Prepared
       /\ FitnessIsItsOwn
       /\ \A g \in Gpus : CardInv(g)

LEMMA PopulationSizeTyped ==
  ASSUME config \in Configs, NEW r \in Int
  PROVE  PopulationSize(r) \in Nat \ {0}
  BY ConfigTyped DEF PopulationSize

LEMMA MaxOfTwo ==
  ASSUME NEW x \in Nat, NEW y \in Nat
  PROVE  Max({x, y}) \in Nat /\ x <= Max({x, y}) /\ y <= Max({x, y})
<1> DEFINE z == IF x <= y THEN y ELSE x
<1>1. z \in {x, y} /\ \A w \in {x, y} : z >= w
  OBVIOUS
<1>2. \E m \in {x, y} : \A w \in {x, y} : m >= w
  BY <1>1
<1>3. Max({x, y}) \in {x, y} /\ \A w \in {x, y} : Max({x, y}) >= w
  BY <1>2 DEF Max
<1>. QED
  BY <1>3

LEMMA FirstTags ==
  ASSUME NEW m \in Nat, NEW p
  PROVE  [k \in 1..m |-> IF k <= p THEN <<1, k>> ELSE None] \in [1..m -> Tag \cup {None}]
<1> SUFFICES ASSUME NEW k \in 1..m PROVE <<1, k>> \in Tag
  OBVIOUS
<1>1. k \in Nat /\ 1 \in 1..MaxRounds
  BY MaxRoundsAssumption
<1>. QED
  BY <1>1 DEF Tag

LEMMA InitInv == Init => Inv
<1> SUFFICES ASSUME Init PROVE Inv
  OBVIOUS
<1> DEFINE P == config.popSize
           O == config.nbOffspring
<1>1. config \in Configs /\ P \in Nat \ {0} /\ O \in Nat \ {0} /\ num_gpus \in Int
  BY ConfigTyped DEF Init
<1>2. /\ Max({P, O}) \in Nat /\ P <= Max({P, O}) /\ O <= Max({P, O})
  BY <1>1, MaxOfTwo
<1>3. /\ DOMAIN cudaBuffer = 1..Max({P, O})
      /\ \A k \in DOMAIN cudaBuffer : cudaBuffer[k] = IF k <= P THEN <<1, k>> ELSE None
  BY DEF Init
<1>4. /\ 1..P \subseteq DOMAIN cudaBuffer /\ 1..O \subseteq DOMAIN cudaBuffer
      /\ DOMAIN cudaBuffer \subseteq Nat
      /\ \A k \in 1..P : cudaBuffer[k] = <<1, k>>
  <2> DEFINE m == Max({P, O})
  <2>1. P \in Nat /\ O \in Nat /\ m \in Nat /\ P <= m /\ O <= m /\ DOMAIN cudaBuffer = 1..m
    BY <1>1, <1>2, <1>3
  <2>2. \A k \in 1..m : cudaBuffer[k] = IF k <= P THEN <<1, k>> ELSE None
    BY <1>3
  <2>. HIDE DEF P, O, m
  <2>3. 1..P \subseteq 1..m /\ 1..O \subseteq 1..m /\ 1..m \subseteq Nat
    BY <2>1
  <2>4. \A k \in 1..P : k \in 1..m /\ k <= P
    BY <2>1
  <2>. QED
    BY <2>1, <2>2, <2>3, <2>4
<1>5. cudaBuffer \in [DOMAIN cudaBuffer -> Tag \cup {None}]
  <2>1. cudaBuffer = [k \in 1..Max({P, O}) |-> IF k <= P THEN <<1, k>> ELSE None]
    BY DEF Init
  <2>2. Max({P, O}) \in Nat
    BY <1>2
  <2>3. [k \in 1..Max({P, O}) |-> IF k <= P THEN <<1, k>> ELSE None]
          \in [1..Max({P, O}) -> Tag \cup {None}]
    BY <2>2, FirstTags
  <2>. QED
    BY <2>1, <2>3
<1>6. TypeOK
  <2>1. round \in 1..MaxRounds
    BY MaxRoundsAssumption DEF Init
  <2>2. /\ sem_in \in [Gpus -> 0..1] /\ sem_out \in [Gpus -> 0..1]
        /\ preliminaries \in [Gpus -> 0..2] /\ d_size \in [Gpus -> Int]
        /\ launch \in [Gpus -> [dimGrid : Nat, dimBlock : Nat]]
        /\ shares \in [Gpus -> [indiv_start : Nat, sh_pop_size : Int] \cup {None}]
    BY DEF Init
  <2>. QED
    BY <1>1, <1>5, <2>1, <2>2 DEF Init, TypeOK
<1>7. ASSUME mainPc # "exit"
      PROVE  /\ ~Refused(config)
             /\ Prepared
             /\ FitnessIsItsOwn
             /\ \A g \in Gpus : CardInv(g)
  <2>1. /\ ~Refused(config) /\ mainPc = "evaluate" /\ round = 1 /\ ~freeGPU /\ fitnessTemp = None
        /\ ~failed
    BY <1>7 DEF Init
  <2>2. \A g \in Gpus : /\ threadPc[g] = "sem_in" /\ sem_in[g] = 0 /\ sem_out[g] = 0
                        /\ preliminaries[g] = 2
    BY DEF Init
  <2>3. Prepared
    BY <1>4, <2>1 DEF Prepared, Waking, PopulationSize
  <2>4. FitnessIsItsOwn
    BY <2>1 DEF FitnessIsItsOwn
  <2>5. ASSUME NEW g \in Gpus PROVE CardInv(g)
    BY <2>1, <2>2, <2>5 DEF CardInv, Tokens, Memory, Results, Asleep, Allocated, Waking
  <2>. QED
    BY <2>1, <2>3, <2>4, <2>5
<1>. QED
  BY <1>4, <1>6, <1>7 DEF Inv

-----------------------------------------------------------------------------
(* The threads of the cards *)

(* what a thread's step leaves alone of another card and of the main thread *)
SameControl ==
  /\ config' = config /\ mainPc' = mainPc /\ round' = round /\ next' = next
  /\ freeGPU' = freeGPU /\ shares' = shares /\ cudaBuffer' = cudaBuffer /\ fitness' = fitness

SameCard(h) ==
  /\ threadPc'[h] = threadPc[h] /\ sem_in'[h] = sem_in[h] /\ sem_out'[h] = sem_out[h]
  /\ preliminaries'[h] = preliminaries[h] /\ d_size'[h] = d_size[h]
  /\ launch'[h] = launch[h] /\ d_population'[h] = d_population[h]

LEMMA SameLaunch ==
  ASSUME NEW h \in Gpus, launch'[h] = launch[h], shares' = shares, config' = config
  PROVE  LaunchCovers(h)' = LaunchCovers(h)
  BY DEF LaunchCovers

LEMMA OtherCard ==
  ASSUME NEW h \in Gpus, CardInv(h), SameControl, SameCard(h), fitnessTemp' = fitnessTemp,
         failed' = failed
  PROVE  CardInv(h)'
<1>1. Tokens(h)'
  BY DEF CardInv, Tokens, HasToken, Asleep, Ended, SameControl, SameCard
<1>2. Memory(h)'
  <2>1. LaunchCovers(h)' = LaunchCovers(h)
    BY SameLaunch DEF SameControl, SameCard
  <2>. QED
    BY <2>1 DEF CardInv, Memory, Allocated, SameControl, SameCard
<1>3. SharesFit' = SharesFit /\ Share(h)' = Share(h)
  BY DEF SharesFit, Share, SameControl, Gpus, num_gpus, UseAll, Dispatched, Quota, Start,
     num_MP, noTotalMP, SumTo
<1>4. Results(h)'
  BY <1>3 DEF CardInv, Results, Computed, Waking, SameControl, SameCard
<1>. QED
  BY <1>1, <1>2, <1>4 DEF CardInv

LEMMA SameConfig ==
  ASSUME config' = config
  PROVE  /\ num_gpus' = num_gpus /\ Gpus' = Gpus /\ SharesFit' = SharesFit
         /\ Refused(config)' = Refused(config)
         /\ \A r : PopulationSize(r)' = PopulationSize(r)
         /\ \A n : Dispatched(n)' = Dispatched(n)
<1>1. /\ num_gpus' = num_gpus /\ Gpus' = Gpus
      /\ Refused(config)' = Refused(config)
      /\ \A r : PopulationSize(r)' = PopulationSize(r)
  BY DEF Gpus, num_gpus, UseAll, Refused, PopulationSize
<1>2. \A n : Dispatched(n)' = Dispatched(n)
  BY DEF Gpus, num_gpus, UseAll, Dispatched, Quota, Start, num_MP, noTotalMP, SumTo
<1>3. SharesFit' = SharesFit
  BY <1>1, <1>2 DEF SharesFit
<1>. QED
  BY <1>1, <1>2, <1>3

(* A thread that does anything has its card's token. *)
LEMMA Busy ==
  ASSUME Inv, mainPc # "exit", NEW g \in Gpus,
         threadPc[g] \notin {"sem_in", "ended"} \/ sem_in[g] > 0
  PROVE  /\ Waking /\ HasToken(g) /\ sem_out[g] = 0
         /\ mainPc = "post" => g < next
         /\ mainPc = "collect" => ~(g < next)
<1>1. Tokens(g) /\ TypeOK
  BY DEF Inv, CardInv
<1>2. num_gpus \in Int /\ g \in Int /\ next \in Int
  <2>1. num_gpus \in Int
    BY <1>1, ConfigTyped DEF TypeOK
  <2>2. \A h \in Gpus : h \in Int
    BY <2>1 DEF Gpus
  <2>. QED
    BY <1>1, <2>1, <2>2 DEF TypeOK
<1>. QED
  BY <1>1, <1>2 DEF TypeOK, Tokens, Asleep, Ended, HasToken, Waking, Allocated

(* What is left to show of a step that leaves the other cards alone. *)
LEMMA ThreadStepInv ==
  ASSUME Inv, mainPc # "exit", NEW g \in Gpus, SameControl,
         \A h \in Gpus \ {g} : SameCard(h),
         fitnessTemp' = fitnessTemp, failed' = failed, TypeOK', CardInv(g)'
  PROVE  Inv'
<1>1. \A h \in Gpus : CardInv(h)'
  BY OtherCard DEF Inv
<1>2. /\ Gpus' = Gpus /\ Refused(config)' = Refused(config)
      /\ \A r : PopulationSize(r)' = PopulationSize(r)
      /\ \A n : Dispatched(n)' = Dispatched(n)
      /\ num_gpus' = num_gpus /\ SharesFit' = SharesFit
  BY SameConfig DEF SameControl
<1>3. Prepared'
  BY <1>2 DEF Inv, Prepared, Waking, SameControl
<1>4. FitnessIsItsOwn'
  BY <1>2 DEF Inv, FitnessIsItsOwn, SameControl
<1>. QED
  BY <1>1, <1>2, <1>3, <1>4 DEF Inv, SameControl

LEMMA TokenKept ==
  ASSUME SameControl, Waking, NEW g \in Gpus, HasToken(g)',
         mainPc = "post" => g < next, mainPc = "collect" => ~(g < next)
  PROVE  Tokens(g)'
  BY DEF Tokens, Waking, SameControl

LEMMA SameShare ==
  ASSUME SameControl, NEW g \in Gpus
  PROVE  SharesFit' = SharesFit /\ Share(g)' = Share(g) /\ Gpus' = Gpus
<1>1. SharesFit' = SharesFit /\ Gpus' = Gpus
  BY SameConfig DEF SameControl
<1>. QED
  BY <1>1 DEF Share, SameControl

LEMMA WaitInInv ==
  ASSUME Inv, NEW g \in Gpus, WaitIn(g)
  PROVE  Inv'
<1>1. mainPc # "exit" /\ threadPc[g] = "sem_in" /\ sem_in[g] > 0 /\ TypeOK /\ CardInv(g)
  BY DEF WaitIn, ThreadStep, Inv
<1>2. Waking /\ HasToken(g) /\ (mainPc = "post" => g < next) /\ (mainPc = "collect" => ~(g < next))
  BY <1>1, Busy
<1>3. sem_in[g] = 1 /\ sem_out[g] = 0
  BY <1>1, <1>2 DEF HasToken
<1>4. SameControl /\ fitnessTemp' = fitnessTemp /\ failed' = failed
  BY DEF WaitIn, ThreadStep, SameControl, controlVars, dataVars
<1>5. \A h \in Gpus \ {g} : SameCard(h)
  BY <1>1 DEF WaitIn, ThreadStep, SameCard, TypeOK
<1>6. /\ threadPc'[g] = "woken" /\ sem_in'[g] = 0 /\ sem_out'[g] = 0
      /\ preliminaries'[g] = preliminaries[g] /\ d_size'[g] = d_size[g]
      /\ LaunchCovers(g)' = LaunchCovers(g)
  BY <1>1, <1>3, <1>4, SameLaunch DEF WaitIn, ThreadStep, TypeOK, SameControl
<1>7. TypeOK'
  <2>1. Gpus' = Gpus /\ PopulationSize(round)' = PopulationSize(round)
    BY <1>4, SameConfig DEF SameControl
  <2>2. sem_in' \in [Gpus -> 0..1] /\ sem_in' = [sem_in EXCEPT ![g] = 0]
    BY <1>1, <1>3 DEF WaitIn, TypeOK
  <2>. QED
    BY <1>1, <1>4, <2>1, <2>2
       DEF WaitIn, ThreadStep, SameControl, controlVars, dataVars, TypeOK
<1>8. CardInv(g)'
  <2>1. Tokens(g)'
    <3>1. HasToken(g)'
      BY <1>6 DEF HasToken
    <3>. QED
      BY <1>2, <1>4, <3>1, TokenKept
  <2>2. Memory(g)'
    BY <1>1, <1>2, <1>3, <1>4, <1>6 DEF CardInv, Memory, Allocated, Waking, SameControl
  <2>3. Results(g)'
    BY <1>2, <1>4, <1>6, SameShare DEF Results, Computed, Waking, SameControl
  <2>. QED
    BY <2>1, <2>2, <2>3 DEF CardInv
<1>. QED
  BY <1>1, <1>4, <1>5, <1>7, <1>8, ThreadStepInv

LEMMA FreeDeviceInv ==
  ASSUME Inv, NEW g \in Gpus, FreeDevice(g)
  PROVE  Inv'
<1>1. mainPc # "exit" /\ threadPc[g] = "woken" /\ freeGPU /\ TypeOK /\ CardInv(g)
  BY DEF FreeDevice, ThreadStep, Inv
<1>2. Waking /\ HasToken(g) /\ (mainPc = "post" => g < next) /\ (mainPc = "collect" => ~(g < next))
  BY <1>1, Busy
<1>3. sem_in[g] = 0 /\ sem_out[g] = 0
  BY <1>1, <1>2 DEF HasToken
<1>4. SameControl /\ fitnessTemp' = fitnessTemp /\ failed' = failed
  BY DEF FreeDevice, ThreadStep, SameControl, controlVars, dataVars
<1>5. \A h \in Gpus \ {g} : SameCard(h)
  BY <1>1 DEF FreeDevice, ThreadStep, SameCard, semVars, TypeOK
<1>6. /\ threadPc'[g] = "ending" /\ sem_in'[g] = 0 /\ sem_out'[g] = 0 /\ d_size'[g] = 0
  BY <1>1, <1>3 DEF FreeDevice, ThreadStep, semVars, TypeOK
<1>7. TypeOK'
  <2>1. Gpus' = Gpus /\ PopulationSize(round)' = PopulationSize(round)
    BY <1>4, SameConfig DEF SameControl
  <2>2. d_size' \in [Gpus -> Int]
    BY <1>1 DEF FreeDevice, TypeOK
  <2>. QED
    BY <1>1, <1>4, <2>1, <2>2
       DEF FreeDevice, ThreadStep, SameControl, controlVars, dataVars, semVars, TypeOK
<1>8. CardInv(g)'
  <2>1. Tokens(g)'
    <3>1. HasToken(g)'
      BY <1>1, <1>4, <1>6 DEF HasToken, SameControl
    <3>. QED
      BY <1>2, <1>4, <3>1, TokenKept
  <2>2. Memory(g)' /\ Results(g)'
    BY <1>1, <1>4, <1>6 DEF Memory, Results, SameControl
  <2>. QED
    BY <2>1, <2>2 DEF CardInv
<1>. QED
  BY <1>1, <1>4, <1>5, <1>7, <1>8, ThreadStepInv

(* While the threads work, the shares are those of this evaluation. *)
LEMMA WorkingShares ==
  ASSUME Inv, mainPc \in {"post", "collect", "read", "evolve"}
  PROVE  /\ config \in Configs /\ ~Refused(config) /\ round \in Nat
         /\ PopulationSize(round) \in Nat
         /\ \A g \in Gpus : /\ shares[g].indiv_start \in Nat /\ shares[g].sh_pop_size \in Int
                            /\ shares[g] = Dispatched(PopulationSize(round))[g]
                            /\ Share(g) = Places(g, PopulationSize(round))
<1>1. /\ config \in Configs /\ ~Refused(config) /\ round \in Nat
      /\ shares = Dispatched(PopulationSize(round))
  BY MaxRoundsAssumption DEF Inv, TypeOK, Prepared
<1>2. PopulationSize(round) \in Nat
  BY <1>1, PopulationSizeTyped
<1>3. shares \in [Gpus -> [indiv_start : Nat, sh_pop_size : Int]]
  BY <1>1, <1>2, DispatchedTyped
<1>. QED
  BY <1>1, <1>2, <1>3 DEF Share, Places

LEMMA PreliminaryInv ==
  ASSUME Inv, NEW g \in Gpus, Preliminary(g)
  PROVE  Inv'
<1>1. mainPc # "exit" /\ threadPc[g] = "woken" /\ ~freeGPU /\ TypeOK /\ CardInv(g)
  BY DEF Preliminary, ThreadStep, Inv
<1>2. Waking /\ HasToken(g) /\ (mainPc = "post" => g < next) /\ (mainPc = "collect" => ~(g < next))
  BY <1>1, Busy
<1>3. sem_in[g] = 0 /\ sem_out[g] = 0 /\ ~Allocated(g)
  BY <1>1, <1>2 DEF HasToken, Allocated, Waking
<1>4. shares[g].sh_pop_size \in Int /\ round \in Nat
  BY <1>2, WorkingShares DEF Waking
<1>5. /\ preliminaries[g] = IF round <= 3 THEN 3 - round ELSE 0
      /\ preliminaries[g] = 0 => d_size[g] = shares[g].sh_pop_size /\ LaunchCovers(g)
  BY <1>1, <1>3 DEF CardInv, Memory
<1>6. /\ config' = config /\ round' = round /\ next' = next /\ freeGPU' = freeGPU
      /\ shares' = shares /\ cudaBuffer' = cudaBuffer /\ fitness' = fitness
      /\ fitnessTemp' = fitnessTemp /\ failed' = failed /\ sem_in' = sem_in
      /\ sem_out' = sem_out /\ d_population' = d_population
      /\ threadPc' = [threadPc EXCEPT ![g] = "memcpy"]
  BY DEF Preliminary, ThreadStep, dataVars, semVars
<1>7. /\ preliminaries' \in [Gpus -> 0..2] /\ d_size' \in [Gpus -> Int]
      /\ preliminaries'[g] = IF round <= 2 THEN 2 - round ELSE 0
      /\ d_size'[g] = shares[g].sh_pop_size
      /\ \A h \in Gpus \ {g} : preliminaries'[h] = preliminaries[h] /\ d_size'[h] = d_size[h]
      /\ launch' \in [Gpus -> [dimGrid : Nat, dimBlock : Nat]]
      /\ \A h \in Gpus \ {g} : launch'[h] = launch[h]
      /\ mainPc' = "exit" \/ (mainPc' = mainPc /\ LaunchCovers(g)')
  <2>1. /\ preliminaries \in [Gpus -> 0..2] /\ d_size \in [Gpus -> Int] /\ round \in 1..MaxRounds
        /\ launch \in [Gpus -> [dimGrid : Nat, dimBlock : Nat]]
    BY <1>1 DEF TypeOK
  <2>2. CASE preliminaries[g] > 0
    <3>1. /\ preliminaries' = [preliminaries EXCEPT ![g] = preliminaries[g] - 1]
          /\ d_size' = [d_size EXCEPT ![g] = shares[g].sh_pop_size]
          /\ IF shares[g].sh_pop_size <= 0
               THEN mainPc' = "exit" /\ launch' = launch
               ELSE /\ launch' = [launch EXCEPT ![g] = Spread(g, shares[g].sh_pop_size)]
                    /\ mainPc' = mainPc
      BY <2>2 DEF Preliminary, PreliminaryDue
    <3>2. preliminaries[g] - 1 \in 0..2
      BY <2>1, <2>2
    <3>3. preliminaries[g] - 1 = IF round <= 2 THEN 2 - round ELSE 0
      BY <1>4, <1>5, <2>1, <2>2
    <3>4. preliminaries' \in [Gpus -> 0..2] /\ d_size' \in [Gpus -> Int]
      BY <1>4, <2>1, <3>1, <3>2
    <3>5. /\ preliminaries'[g] = preliminaries[g] - 1
          /\ d_size'[g] = shares[g].sh_pop_size
          /\ \A h \in Gpus \ {g} : preliminaries'[h] = preliminaries[h] /\ d_size'[h] = d_size[h]
      BY <2>1, <3>1
    <3>6. /\ launch' \in [Gpus -> [dimGrid : Nat, dimBlock : Nat]]
          /\ \A h \in Gpus \ {g} : launch'[h] = launch[h]
          /\ mainPc' = "exit" \/ (mainPc' = mainPc /\ LaunchCovers(g)')
      <4>1. CASE shares[g].sh_pop_size <= 0
        BY <2>1, <3>1, <4>1
      <4>2. CASE ~(shares[g].sh_pop_size <= 0)
        <5> DEFINE n == shares[g].sh_pop_size
        <5>1. n \in Nat \ {0}
          BY <1>4, <4>2
        <5>2. config \in Configs /\ ~Refused(config)
          BY <1>2, WorkingShares DEF Waking
        <5>3. /\ Spread(g, n) \in [dimGrid : Nat, dimBlock : Nat]
              /\ Spread(g, n).dimGrid * Spread(g, n).dimBlock >= n
              /\ Spread(g, n).dimBlock <= config.maxThreads
          BY <5>1, <5>2, SpreadCovers
        <5>4. /\ launch' \in [Gpus -> [dimGrid : Nat, dimBlock : Nat]]
              /\ launch'[g] = Spread(g, n) /\ mainPc' = mainPc
              /\ \A h \in Gpus \ {g} : launch'[h] = launch[h]
          BY <2>1, <3>1, <4>2, <5>3
        <5>5. LaunchCovers(g)'
          BY <1>6, <5>3, <5>4 DEF LaunchCovers
        <5>. QED
          BY <5>4, <5>5
      <4>. QED
        BY <4>1, <4>2
    <3>. QED
      BY <3>1, <3>3, <3>4, <3>5, <3>6
  <2>3. CASE ~(preliminaries[g] > 0)
    <3>1. /\ preliminaries' = preliminaries /\ d_size' = d_size /\ mainPc' = mainPc
          /\ launch' = launch
      BY <2>3 DEF Preliminary, PreliminaryDue
    <3>2. preliminaries[g] = 0
      BY <2>1, <2>3
    <3>3. round \in Nat /\ ~(round <= 2)
      BY <1>4, <1>5, <3>2
    <3>4. LaunchCovers(g)'
      BY <1>5, <1>6, <3>1, <3>2, SameLaunch
    <3>. QED
      BY <1>5, <2>1, <3>1, <3>2, <3>3, <3>4
  <2>. QED
    BY <2>2, <2>3
<1>8. TypeOK'
  <2>1. Gpus' = Gpus /\ PopulationSize(round)' = PopulationSize(round)
    BY <1>6, SameConfig
  <2>. QED
    BY <1>1, <1>6, <1>7, <2>1 DEF TypeOK
<1>9. CASE mainPc' = "exit"
  BY <1>6, <1>8, <1>9 DEF Inv
<1>10. CASE mainPc' = mainPc /\ LaunchCovers(g)'
  <2>1. SameControl
    BY <1>6, <1>10 DEF SameControl
  <2>2. \A h \in Gpus \ {g} : SameCard(h)
    BY <1>1, <1>6, <1>7 DEF SameCard, TypeOK
  <2>3. threadPc'[g] = "memcpy" /\ sem_in'[g] = 0 /\ sem_out'[g] = 0
    BY <1>1, <1>3, <1>6 DEF TypeOK
  <2>4. Tokens(g)'
    <3>1. HasToken(g)'
      BY <1>1, <1>6, <2>3 DEF HasToken
    <3>. QED
      BY <1>2, <2>1, <3>1, TokenKept
  <2>5. Memory(g)'
    <3>1. Allocated(g)'
      BY <2>3 DEF Allocated
    <3>. QED
      BY <1>6, <1>7, <1>10, <2>3, <3>1 DEF Memory
  <2>6. Results(g)'
    BY <1>2, <2>1, <2>3, SameShare DEF Results, Computed, Waking, SameControl
  <2>7. CardInv(g)'
    BY <2>4, <2>5, <2>6 DEF CardInv
  <2>. QED
    BY <1>1, <1>6, <1>8, <2>1, <2>2, <2>7, ThreadStepInv
<1>. QED
  BY <1>7, <1>9, <1>10

(* When the shares fit, each is a part of the population. *)
LEMMA ShareInside ==
  ASSUME Inv, mainPc \in {"post", "collect", "read", "evolve"}, SharesFit
  PROVE  /\ \A g \in Gpus : Share(g) \subseteq 1..PopulationSize(round)
         /\ num_gpus > 0 => \A k \in 1..PopulationSize(round) : \E g \in Gpus : k \in Share(g)
<1>1. \A g \in Gpus : Dispatched(PopulationSize(round))[g].sh_pop_size > 0
  BY DEF SharesFit, PopulationSize
<1>2. /\ \A g \in Gpus : Places(g, PopulationSize(round)) \subseteq 1..PopulationSize(round)
      /\ num_gpus > 0 => \A k \in 1..PopulationSize(round) :
                           \E g \in Gpus : k \in Places(g, PopulationSize(round))
  BY <1>1, WorkingShares, SharesCover
<1>. QED
  BY <1>2, WorkingShares

LEMMA CopyInInv ==
  ASSUME Inv, NEW g \in Gpus, CopyIn(g)
  PROVE  Inv'
<1>1. mainPc # "exit" /\ threadPc[g] = "memcpy" /\ TypeOK /\ CardInv(g)
  BY DEF CopyIn, ThreadStep, Inv
<1>2. Waking /\ HasToken(g) /\ (mainPc = "post" => g < next) /\ (mainPc = "collect" => ~(g < next))
  BY <1>1, Busy
<1>3. sem_in[g] = 0 /\ sem_out[g] = 0 /\ ~freeGPU
  BY <1>1, <1>2 DEF HasToken
<1>4. SameControl /\ fitnessTemp' = fitnessTemp /\ failed' = failed
  BY DEF CopyIn, ThreadStep, SameControl, controlVars, dataVars
<1>5. \A h \in Gpus \ {g} : SameCard(h)
  BY <1>1 DEF CopyIn, ThreadStep, SameCard, semVars, TypeOK
<1>6. /\ threadPc'[g] = "kernel" /\ sem_in'[g] = 0 /\ sem_out'[g] = 0
      /\ preliminaries'[g] = preliminaries[g] /\ d_size'[g] = d_size[g]
      /\ LaunchCovers(g)' = LaunchCovers(g)
      /\ d_population'[g] =
           [k \in Share(g) |-> IF k \in DOMAIN cudaBuffer THEN cudaBuffer[k] ELSE None]
  BY <1>1, <1>3, <1>4, SameLaunch DEF CopyIn, ThreadStep, semVars, TypeOK, SameControl
<1>7. TypeOK'
  <2>1. Gpus' = Gpus /\ PopulationSize(round)' = PopulationSize(round)
    BY <1>4, SameConfig DEF SameControl
  <2>2. DOMAIN d_population' = Gpus
    BY <1>1 DEF CopyIn, TypeOK
  <2>. QED
    BY <1>1, <1>4, <2>1, <2>2
       DEF CopyIn, ThreadStep, SameControl, controlVars, dataVars, semVars, TypeOK
<1>8. CardInv(g)'
  <2>1. Tokens(g)'
    <3>1. HasToken(g)'
      BY <1>3, <1>4, <1>6 DEF HasToken, SameControl
    <3>. QED
      BY <1>2, <1>4, <3>1, TokenKept
  <2>2. Memory(g)'
    BY <1>1, <1>3, <1>4, <1>6 DEF CardInv, Memory, Allocated, SameControl
  <2>3. Results(g)'
    <3>1. SharesFit => \A k \in Share(g) : d_population'[g][k] = <<round, k>>
      <4> SUFFICES ASSUME SharesFit, NEW k \in Share(g) PROVE d_population'[g][k] = <<round, k>>
        OBVIOUS
      <4>1. k \in 1..PopulationSize(round)
        BY <1>2, ShareInside DEF Waking
      <4>2. cudaBuffer[k] = <<round, k>> /\ k \in DOMAIN cudaBuffer
        BY <1>1, <1>2, <1>3, <4>1 DEF Inv, Prepared, PopulationSize
      <4>. QED
        BY <1>6, <4>2
    <3>2. ~Computed(g)'
      BY <1>2, <1>4, <1>6 DEF Computed, Waking, SameControl
    <3>. QED
      BY <1>4, <3>1, <3>2, SameShare DEF Results, SameControl
  <2>. QED
    BY <2>1, <2>2, <2>3 DEF CardInv
<1>. QED
  BY <1>1, <1>4, <1>5, <1>7, <1>8, ThreadStepInv

(* The threads of a launch that covers the share leave nobody out. *)
LEMMA EveryoneEvaluated ==
  ASSUME Inv, Waking, ~freeGPU, NEW g \in Gpus, Memory(g), threadPc[g] = "kernel"
  PROVE  Evaluated(g) = Share(g)
<1>1. shares[g].indiv_start \in Nat /\ shares[g].sh_pop_size \in Int
  BY WorkingShares DEF Waking
<1>2. /\ launch[g].dimGrid * launch[g].dimBlock >= shares[g].sh_pop_size
      /\ launch[g].dimBlock <= config.maxThreads
  BY DEF Memory, LaunchCovers
<1> DEFINE t == launch[g].dimGrid * launch[g].dimBlock
<1>3. t \in Int
  <2>1. launch[g].dimGrid \in Nat /\ launch[g].dimBlock \in Nat
    BY DEF Inv, TypeOK
  <2>2. \A x, y \in Nat : x * y \in Int
    OBVIOUS
  <2>. QED
    BY <2>1, <2>2
<1>4. t >= shares[g].sh_pop_size
  BY <1>2
<1>5. Evaluated(g) = {k \in Share(g) : k - shares[g].indiv_start <= t}
  BY <1>2 DEF Evaluated
<1>. HIDE DEF t
<1>6. \A k \in Share(g) : k - shares[g].indiv_start <= t
  BY <1>1, <1>3, <1>4 DEF Share
<1>. QED
  BY <1>5, <1>6

LEMMA KernelInv ==
  ASSUME Inv, NEW g \in Gpus, Kernel(g)
  PROVE  Inv'
<1>1. mainPc # "exit" /\ threadPc[g] = "kernel" /\ TypeOK /\ Prepared /\ \A h \in Gpus : CardInv(h)
  BY DEF Kernel, ThreadStep, Inv
<1>2. Waking /\ HasToken(g) /\ (mainPc = "post" => g < next) /\ (mainPc = "collect" => ~(g < next))
  BY <1>1, Busy
<1>3. sem_in[g] = 0 /\ sem_out[g] = 0 /\ ~freeGPU
  BY <1>1, <1>2 DEF HasToken
<1>4. SameControl
  BY DEF Kernel, ThreadStep, SameControl, controlVars, dataVars
<1>5. \A h \in Gpus \ {g} : SameCard(h)
  BY <1>1 DEF Kernel, ThreadStep, SameCard, semVars, TypeOK
<1>6. /\ threadPc'[g] = "post" /\ sem_in'[g] = 0 /\ sem_out'[g] = 0
      /\ preliminaries'[g] = preliminaries[g] /\ d_size'[g] = d_size[g]
      /\ LaunchCovers(g)' = LaunchCovers(g)
  BY <1>1, <1>3, <1>4, SameLaunch DEF Kernel, ThreadStep, semVars, TypeOK, SameControl
<1> DEFINE N == PopulationSize(round)
<1>7. fitnessTemp = [k \in 1..N |-> fitnessTemp[k]]
  BY <1>1, <1>2, <1>3 DEF Prepared
<1>8. \/ /\ fitnessTemp' = [k \in 1..N |-> IF k \in Evaluated(g) THEN d_population[g][k]
                                        ELSE IF k \in Share(g) THEN None ELSE fitnessTemp[k]]
         /\ failed' = failed
      \/ fitnessTemp' = fitnessTemp /\ failed' = TRUE
  <2>1. DOMAIN fitnessTemp = 1..N
    BY <1>7
  <2>. QED
    BY <2>1 DEF Kernel
<1>9. fitnessTemp' = [k \in 1..N |-> fitnessTemp'[k]] /\ DOMAIN fitnessTemp' = 1..N
  <2>. HIDE DEF N
  <2>. QED
    BY <1>7, <1>8
<1>10. /\ Gpus' = Gpus /\ SharesFit' = SharesFit /\ num_gpus' = num_gpus
       /\ Refused(config)' = Refused(config)
       /\ \A r : PopulationSize(r)' = PopulationSize(r)
       /\ \A n : Dispatched(n)' = Dispatched(n)
       /\ \A h \in Gpus : Share(h)' = Share(h)
  BY <1>4, SameConfig, SameShare DEF SameControl
<1>11. TypeOK'
  <2>1. /\ threadPc' \in [Gpus -> {"sem_in", "woken", "memcpy", "kernel", "post", "ending", "ended"}]
        /\ failed' \in BOOLEAN
    BY <1>1 DEF Kernel, ThreadStep, TypeOK
  <2>2. DOMAIN fitnessTemp' = 1..PopulationSize(round)'
    BY <1>4, <1>9, <1>10 DEF SameControl
  <2>. QED
    BY <1>1, <1>4, <1>10, <2>1, <2>2 DEF Kernel, SameControl, semVars, TypeOK
<1>12. \A h \in Gpus : Tokens(h)' /\ Memory(h)'
  <2>1. Tokens(g)'
    <3>1. HasToken(g)'
      BY <1>3, <1>4, <1>6 DEF HasToken, SameControl
    <3>. QED
      BY <1>2, <1>4, <3>1, TokenKept
  <2>2. Memory(g)'
    BY <1>1, <1>3, <1>4, <1>6 DEF CardInv, Memory, Allocated, SameControl
  <2>3. ASSUME NEW h \in Gpus \ {g} PROVE Tokens(h)' /\ Memory(h)'
    <3>1. Tokens(h) /\ Memory(h) /\ SameCard(h)
      BY <1>1, <1>5 DEF CardInv
    <3>2. Tokens(h)'
      BY <1>4, <3>1 DEF Tokens, HasToken, Asleep, Ended, SameControl, SameCard
    <3>3. Memory(h)'
      BY <1>4, <3>1, SameLaunch DEF Memory, Allocated, SameControl, SameCard
    <3>. QED
      BY <3>2, <3>3
  <2>. QED
    BY <2>1, <2>2, <2>3
<1>13. ASSUME NEW h \in Gpus PROVE Results(h)'
  <2> SUFFICES ASSUME SharesFit, ~failed'
               PROVE  /\ threadPc'[h] = "kernel" =>
                           \A k \in Share(h) : d_population'[h][k] = <<round, k>>
                      /\ Computed(h)' =>
                           \A k \in Share(h) : fitnessTemp'[k] = <<round, k>>
    BY <1>4, <1>10 DEF Results, SameControl
  <2>1. /\ ~failed
        /\ fitnessTemp' = [k \in 1..N |-> IF k \in Evaluated(g) THEN d_population[g][k]
                                          ELSE IF k \in Share(g) THEN None ELSE fitnessTemp[k]]
    BY <1>1, <1>8 DEF TypeOK
  <2>7. Evaluated(g) = Share(g)
    BY <1>1, <1>2, <1>3, EveryoneEvaluated DEF CardInv
  <2>2. \A k \in Share(g) : d_population[g][k] = <<round, k>>
    BY <1>1, <1>2, <1>3, <2>1 DEF CardInv, Results
  <2>3. \A i \in Gpus : Share(i) \subseteq 1..N
    BY <1>2, ShareInside DEF Waking
  <2>4. d_population' = d_population
    BY DEF Kernel
  <2>5. CASE h = g
    <3>1. \A k \in Share(g) : fitnessTemp'[k] = <<round, k>>
      <4>. HIDE DEF N
      <4>. QED
        BY <2>1, <2>2, <2>3, <2>7
    <3>. QED
      BY <1>6, <2>5, <3>1
  <2>6. CASE h # g
    <3>1. SameCard(h) /\ Results(h)
      BY <1>1, <1>5, <2>6 DEF CardInv
    <3>2. Computed(h)' = Computed(h) /\ threadPc'[h] = threadPc[h]
      BY <1>4, <3>1 DEF Computed, SameCard, SameControl
    <3>3. /\ threadPc[h] = "kernel" => \A k \in Share(h) : d_population[h][k] = <<round, k>>
          /\ Computed(h) => \A k \in Share(h) : fitnessTemp[k] = <<round, k>>
      BY <1>2, <1>3, <2>1, <3>1 DEF Results
    <3>4. Computed(h) => \A k \in Share(h) : fitnessTemp'[k] = <<round, k>>
      <4>. HIDE DEF N
      <4>. QED
        BY <2>1, <2>2, <2>3, <2>7, <3>3
    <3>. QED
      BY <2>4, <3>2, <3>3, <3>4
  <2>. QED
    BY <2>5, <2>6
<1>14. Prepared'
  BY <1>1, <1>2, <1>4, <1>9, <1>10 DEF Prepared, Waking, SameControl
<1>15. FitnessIsItsOwn'
  BY <1>2, <1>4 DEF FitnessIsItsOwn, Waking, SameControl
<1>. QED
  BY <1>1, <1>4, <1>10, <1>11, <1>12, <1>13, <1>14, <1>15 DEF Inv, CardInv, SameControl

LEMMA PostOutInv ==
  ASSUME Inv, NEW g \in Gpus, PostOut(g)
  PROVE  Inv'
<1>1. mainPc # "exit" /\ threadPc[g] \in {"post", "ending"} /\ TypeOK /\ CardInv(g)
  BY DEF PostOut, ThreadStep, Inv
<1>2. Waking /\ HasToken(g) /\ (mainPc = "post" => g < next) /\ (mainPc = "collect" => ~(g < next))
  BY <1>1, Busy
<1>3. sem_in[g] = 0 /\ sem_out[g] = 0 /\ (freeGPU <=> threadPc[g] = "ending")
  BY <1>1, <1>2 DEF HasToken
<1>4. SameControl /\ fitnessTemp' = fitnessTemp /\ failed' = failed
  BY DEF PostOut, ThreadStep, SameControl, controlVars, dataVars
<1>5. \A h \in Gpus \ {g} : SameCard(h)
  BY <1>1 DEF PostOut, ThreadStep, SameCard, TypeOK
<1>6. /\ threadPc'[g] = IF freeGPU THEN "ended" ELSE "sem_in"
      /\ sem_in'[g] = 0 /\ sem_out'[g] = 1
      /\ preliminaries'[g] = preliminaries[g] /\ d_size'[g] = d_size[g]
      /\ LaunchCovers(g)' = LaunchCovers(g)
  BY <1>1, <1>3, <1>4, SameLaunch DEF PostOut, ThreadStep, TypeOK, SameControl
<1>7. TypeOK'
  <2>1. Gpus' = Gpus /\ PopulationSize(round)' = PopulationSize(round)
    BY <1>4, SameConfig DEF SameControl
  <2>2. /\ threadPc' \in [Gpus -> {"sem_in", "woken", "memcpy", "kernel", "post", "ending", "ended"}]
        /\ sem_out' \in [Gpus -> 0..1]
    <3>1. /\ threadPc' = [threadPc EXCEPT ![g] = "sem_in"] \/ threadPc' = [threadPc EXCEPT ![g] = "ended"]
          /\ sem_out' = [sem_out EXCEPT ![g] = sem_out[g] + 1] /\ sem_out[g] + 1 \in 0..1
      BY <1>3 DEF PostOut, ThreadStep
    <3>. QED
      BY <1>1, <3>1 DEF TypeOK
  <2>. QED
    BY <1>1, <1>4, <2>1, <2>2 DEF PostOut, SameControl, controlVars, dataVars, TypeOK
<1>8. CardInv(g)'
  <2>1. Tokens(g)'
    <3>1. HasToken(g)'
      BY <1>4, <1>6 DEF HasToken, SameControl
    <3>. QED
      BY <1>2, <1>4, <3>1, TokenKept
  <2>2. Memory(g)'
    BY <1>1, <1>3, <1>4, <1>6 DEF CardInv, Memory, Allocated, SameControl
  <2>3. Results(g)'
    BY <1>1, <1>3, <1>4, <1>6, SameShare DEF CardInv, Results, Computed, Waking, SameControl
  <2>. QED
    BY <2>1, <2>2, <2>3 DEF CardInv
<1>. QED
  BY <1>1, <1>4, <1>5, <1>7, <1>8, ThreadStepInv

-----------------------------------------------------------------------------
(* The main thread *)

LEMMA EvaluateInv ==
  ASSUME Inv, Evaluate
  PROVE  Inv'
<1> DEFINE N == PopulationSize(round)
<1>1. /\ mainPc = "evaluate" /\ mainPc' = "post" /\ next' = 1 /\ TypeOK /\ Prepared
      /\ ~Refused(config) /\ \A g \in Gpus : CardInv(g)
      /\ config' = config /\ round' = round /\ freeGPU' = freeGPU /\ threadVars' = threadVars
      /\ semVars' = semVars /\ fitness' = fitness
      /\ fitnessTemp' = [k \in 1..N |-> None]
  BY DEF Evaluate, Inv
<1>2. ~freeGPU /\ round \in 1..MaxRounds /\ round \in Nat
  BY <1>1, MaxRoundsAssumption DEF Prepared, TypeOK
<1>3. /\ Gpus' = Gpus /\ SharesFit' = SharesFit /\ num_gpus' = num_gpus
      /\ Refused(config)' = Refused(config)
      /\ \A r : PopulationSize(r)' = PopulationSize(r)
      /\ \A n : Dispatched(n)' = Dispatched(n)
  BY <1>1, SameConfig
<1>4. N \in Nat
  BY <1>1, <1>2, PopulationSizeTyped DEF TypeOK
<1>5. shares' = Dispatched(N) /\ (round > 2 => shares' = shares)
  <2>1. CASE round <= 2
    BY <1>2, <2>1 DEF Evaluate
  <2>2. CASE ~(round <= 2)
    <3>1. shares' = shares /\ round > 2 /\ round # 1
      BY <1>2, <2>2 DEF Evaluate
    <3>. QED
      BY <1>1, <3>1 DEF Prepared, PopulationSize
  <2>. QED
    BY <2>1, <2>2
<1>6. /\ DOMAIN cudaBuffer' = DOMAIN cudaBuffer
      /\ cudaBuffer' \in [DOMAIN cudaBuffer -> Tag \cup {None}]
      /\ \A k \in 1..N : k \in DOMAIN cudaBuffer => cudaBuffer'[k] = <<round, k>>
  <2>1. cudaBuffer' = [k \in DOMAIN cudaBuffer |->
                         IF round > 1 /\ k <= N THEN <<round, k>> ELSE cudaBuffer[k]]
    BY DEF Evaluate
  <2>2. \A k \in DOMAIN cudaBuffer : <<round, k>> \in Tag
    BY <1>2 DEF Inv, Tag
  <2>3. cudaBuffer \in [DOMAIN cudaBuffer -> Tag \cup {None}]
    BY <1>1 DEF TypeOK
  <2>4. \A k \in 1..N : ~(round > 1) => cudaBuffer[k] = <<round, k>>
    BY <1>1, <1>2 DEF Prepared
  <2>5. \A k \in 1..N : k <= N
    BY <1>4
  <2>. HIDE DEF N
  <2>. QED
    BY <2>1, <2>2, <2>3, <2>4, <2>5
<1>7. TypeOK'
  <2>1. shares' \in [Gpus -> [indiv_start : Nat, sh_pop_size : Int] \cup {None}]
    <3>1. Dispatched(N) \in [Gpus -> [indiv_start : Nat, sh_pop_size : Int]]
      BY <1>1, <1>4, DispatchedTyped DEF TypeOK
    <3>. QED
      BY <1>5, <3>1
  <2>2. DOMAIN fitnessTemp' = 1..N
    BY <1>1
  <2>. QED
    BY <1>1, <1>3, <1>6, <2>1, <2>2 DEF TypeOK, threadVars, semVars
<1>8. Prepared'
  <2>1. fitnessTemp' = [k \in 1..N |-> fitnessTemp'[k]]
    BY <1>1
  <2>2. \A k \in 1..N : k \in DOMAIN cudaBuffer
    BY <1>1 DEF Prepared, PopulationSize
  <2>. QED
    BY <1>1, <1>2, <1>3, <1>5, <1>6, <2>1, <2>2 DEF Prepared, Waking
<1>9. FitnessIsItsOwn'
  BY <1>1 DEF FitnessIsItsOwn
<1>10. ASSUME NEW g \in Gpus PROVE CardInv(g)'
  <2>1. Asleep(g) /\ Memory(g)
    BY <1>1 DEF CardInv, Tokens
  <2>2. Tokens(g)'
    <3>1. ~(g < 1)
      <4>1. num_gpus \in Int
        BY <1>1, ConfigTyped DEF TypeOK
      <4>. QED
        BY <4>1 DEF Gpus
    <3>2. Asleep(g)'
      BY <1>1, <2>1 DEF Asleep, threadVars, semVars
    <3>. QED
      BY <1>1, <3>1, <3>2 DEF Tokens
  <2>3. Memory(g)'
    <3>1. ~Allocated(g) /\ ~Allocated(g)'
      BY <1>1, <2>1 DEF Asleep, Allocated, threadVars, semVars
    <3>2. preliminaries[g] = 0 => round > 2
      BY <1>2, <2>1, <3>1 DEF Memory
    <3>3. preliminaries[g] = 0 => LaunchCovers(g)' = LaunchCovers(g)
      BY <1>1, <1>5, <3>2, SameLaunch DEF threadVars
    <3>. QED
      BY <1>1, <1>2, <1>5, <2>1, <3>1, <3>2, <3>3 DEF Memory, Asleep, threadVars
  <2>4. Results(g)'
    BY <1>1, <2>1 DEF Results, Computed, Asleep, threadVars, semVars
  <2>. QED
    BY <2>2, <2>3, <2>4 DEF CardInv
<1>. QED
  BY <1>1, <1>3, <1>6, <1>7, <1>8, <1>9, <1>10 DEF Inv

LEMMA PostInInv ==
  ASSUME Inv, PostIn
  PROVE  Inv'
<1>1. /\ mainPc = "post" /\ TypeOK /\ Prepared /\ ~Refused(config)
      /\ \A g \in Gpus : CardInv(g)
      /\ config' = config /\ round' = round /\ freeGPU' = freeGPU /\ threadVars' = threadVars
      /\ sem_out' = sem_out /\ dataVars' = dataVars
      /\ mainPc' \in {"post", "collect"}
  BY DEF PostIn, Inv
<1>2. num_gpus \in Int /\ \A g \in Gpus : g \in Int /\ 1 <= g /\ g <= num_gpus
  <2>1. num_gpus \in Int
    BY <1>1, ConfigTyped DEF TypeOK
  <2>. QED
    BY <2>1 DEF Gpus
<1>3. next \in Int /\ next >= 1
  BY <1>1, <1>2 DEF TypeOK
<1>4. /\ Gpus' = Gpus /\ SharesFit' = SharesFit /\ num_gpus' = num_gpus
      /\ Refused(config)' = Refused(config)
      /\ \A r : PopulationSize(r)' = PopulationSize(r)
      /\ \A n : Dispatched(n)' = Dispatched(n)
      /\ \A g \in Gpus : Share(g)' = Share(g)
  <2>1. shares' = shares
    BY <1>1 DEF dataVars
  <2>. QED
    BY <1>1, <2>1, SameConfig DEF Share
<1>5. Prepared' /\ FitnessIsItsOwn'
  BY <1>1, <1>4 DEF Prepared, FitnessIsItsOwn, Waking, dataVars
<1>6. ASSUME NEW g \in Gpus PROVE (Memory(g) => Memory(g)') /\ (Results(g) => Results(g)')
  <2>1. ~(mainPc' = "collect" /\ g < next')
    BY <1>1, <1>2 DEF PostIn
  <2>2. Allocated(g)' = Allocated(g) /\ Computed(g)' = Computed(g)
    BY <1>1, <2>1 DEF Allocated, Computed, threadVars
  <2>3. LaunchCovers(g)' = LaunchCovers(g)
    BY <1>1, SameLaunch DEF threadVars, dataVars
  <2>. QED
    BY <1>1, <1>4, <2>2, <2>3 DEF Memory, Results, Waking, threadVars, dataVars
<1>7. CASE next <= num_gpus
  <2>1. /\ sem_in' = [sem_in EXCEPT ![next] = sem_in[next] + 1]
        /\ next' = next + 1 /\ mainPc' = "post" /\ next \in Gpus
    BY <1>1, <1>2, <1>3, <1>7 DEF PostIn, Gpus
  <2>2. Asleep(next)
    BY <1>1, <1>3, <2>1 DEF CardInv, Tokens
  <2>3. /\ sem_in' \in [Gpus -> 0..1] /\ sem_in'[next] = 1
        /\ \A h \in Gpus \ {next} : sem_in'[h] = sem_in[h]
    BY <1>1, <2>1, <2>2 DEF TypeOK, Asleep
  <2>4. TypeOK'
    BY <1>1, <1>4, <2>1, <2>3 DEF TypeOK, threadVars, dataVars
  <2>5. ASSUME NEW g \in Gpus PROVE Tokens(g)'
    <3>1. CASE g = next
      <4>1. HasToken(g)'
        BY <1>1, <2>2, <2>3, <3>1 DEF HasToken, Asleep, threadVars
      <4>. QED
        BY <1>3, <2>1, <3>1, <4>1 DEF Tokens
    <3>2. CASE g # next
      <4>1. g < next' <=> g < next
        BY <1>2, <1>3, <2>1, <3>2
      <4>2. IF g < next THEN HasToken(g) ELSE Asleep(g)
        BY <1>1 DEF CardInv, Tokens
      <4>3. IF g < next THEN HasToken(g)' ELSE Asleep(g)'
        BY <1>1, <2>3, <3>2, <4>2 DEF HasToken, Asleep, threadVars
      <4>. QED
        BY <2>1, <4>1, <4>3 DEF Tokens
    <3>. QED
      BY <3>1, <3>2
  <2>. QED
    BY <1>1, <1>4, <1>5, <1>6, <2>4, <2>5 DEF Inv, CardInv, dataVars
<1>8. CASE ~(next <= num_gpus)
  <2>1. mainPc' = "collect" /\ next' = 1 /\ sem_in' = sem_in
    BY <1>8 DEF PostIn
  <2>2. TypeOK'
    BY <1>1, <1>4, <2>1 DEF TypeOK, threadVars, dataVars
  <2>3. ASSUME NEW g \in Gpus PROVE Tokens(g)'
    <3>1. g < next /\ ~(g < 1)
      BY <1>2, <1>3, <1>8
    <3>2. HasToken(g)
      BY <1>1, <3>1 DEF CardInv, Tokens
    <3>3. HasToken(g)'
      BY <1>1, <2>1, <3>2 DEF HasToken, threadVars
    <3>. QED
      BY <2>1, <3>1, <3>3 DEF Tokens
  <2>. QED
    BY <1>1, <1>4, <1>5, <1>6, <2>2, <2>3 DEF Inv, CardInv, dataVars
<1>. QED
  BY <1>7, <1>8

LEMMA WaitOutInv ==
  ASSUME Inv, WaitOut
  PROVE  Inv'
<1>1. /\ mainPc = "collect" /\ TypeOK /\ Prepared /\ ~Refused(config)
      /\ \A g \in Gpus : CardInv(g)
      /\ config' = config /\ round' = round /\ freeGPU' = freeGPU /\ threadVars' = threadVars
      /\ sem_in' = sem_in /\ dataVars' = dataVars
  BY DEF WaitOut, Inv
<1>2. num_gpus \in Int /\ \A g \in Gpus : g \in Int /\ 1 <= g /\ g <= num_gpus
  <2>1. num_gpus \in Int
    BY <1>1, ConfigTyped DEF TypeOK
  <2>. QED
    BY <2>1 DEF Gpus
<1>3. next \in Int /\ next >= 1
  BY <1>1, <1>2 DEF TypeOK
<1>4. /\ Gpus' = Gpus /\ SharesFit' = SharesFit /\ num_gpus' = num_gpus
      /\ Refused(config)' = Refused(config)
      /\ \A r : PopulationSize(r)' = PopulationSize(r)
      /\ \A n : Dispatched(n)' = Dispatched(n)
      /\ \A g \in Gpus : Share(g)' = Share(g)
  <2>1. shares' = shares
    BY <1>1 DEF dataVars
  <2>. QED
    BY <1>1, <2>1, SameConfig DEF Share
<1>5. CASE next <= num_gpus
  <2>1. /\ sem_out' = [sem_out EXCEPT ![next] = sem_out[next] - 1] /\ sem_out[next] > 0
        /\ next' = next + 1 /\ mainPc' = "collect" /\ next \in Gpus
    BY <1>1, <1>2, <1>3, <1>5 DEF WaitOut, Gpus
  <2>2. /\ sem_in[next] = 0 /\ sem_out[next] = 1
        /\ threadPc[next] = IF freeGPU THEN "ended" ELSE "sem_in"
    BY <1>1, <1>3, <2>1 DEF CardInv, Tokens, HasToken
  <2>3. /\ sem_out' \in [Gpus -> 0..1] /\ sem_out'[next] = 0
        /\ \A h \in Gpus \ {next} : sem_out'[h] = sem_out[h]
    BY <1>1, <2>1, <2>2 DEF TypeOK
  <2>4. TypeOK'
    BY <1>1, <1>4, <2>1, <2>3 DEF TypeOK, threadVars, dataVars
  <2>5. Prepared' /\ FitnessIsItsOwn'
    BY <1>1, <1>4, <2>1 DEF Prepared, FitnessIsItsOwn, Waking, dataVars
  <2>6. ASSUME NEW g \in Gpus PROVE CardInv(g)'
    <3>1. Tokens(g)'
      <4>1. CASE g = next
        <5>1. g < next'
          BY <1>3, <2>1, <4>1
        <5>2. IF freeGPU THEN Ended(g)' ELSE Asleep(g)'
          BY <1>1, <2>2, <2>3, <4>1 DEF Ended, Asleep, threadVars
        <5>. QED
          BY <1>1, <2>1, <5>1, <5>2 DEF Tokens
      <4>2. CASE g # next
        <5>1. g < next' <=> g < next
          BY <1>2, <1>3, <2>1, <4>2
        <5>2. IF g < next THEN (IF freeGPU THEN Ended(g) ELSE Asleep(g)) ELSE HasToken(g)
          BY <1>1 DEF CardInv, Tokens
        <5>3. IF g < next THEN (IF freeGPU THEN Ended(g)' ELSE Asleep(g)') ELSE HasToken(g)'
          BY <1>1, <2>3, <4>2, <5>2 DEF HasToken, Asleep, Ended, threadVars
        <5>. QED
          BY <1>1, <2>1, <5>1, <5>3 DEF Tokens
      <4>. QED
        BY <4>1, <4>2
    <3>2. Allocated(g)' = Allocated(g) /\ Computed(g)' = Computed(g)
      <4>1. CASE g = next
        <5>1. g < next'
          BY <1>3, <2>1, <4>1
        <5>. QED
          BY <1>1, <2>1, <2>2, <4>1, <5>1 DEF Allocated, Computed
      <4>2. CASE g # next
        <5>1. g < next' <=> g < next
          BY <1>2, <1>3, <2>1, <4>2
        <5>. QED
          BY <1>1, <2>1, <2>3, <4>2, <5>1 DEF Allocated, Computed, threadVars
      <4>. QED
        BY <4>1, <4>2
    <3>3. LaunchCovers(g)' = LaunchCovers(g)
      BY <1>1, SameLaunch DEF threadVars, dataVars
    <3>4. Memory(g)' /\ Results(g)'
      BY <1>1, <1>4, <2>1, <3>2, <3>3 DEF CardInv, Memory, Results, Waking, threadVars, dataVars
    <3>. QED
      BY <3>1, <3>4 DEF CardInv
  <2>. QED
    BY <1>1, <1>4, <2>4, <2>5, <2>6 DEF Inv, dataVars
<1>6. CASE ~(next <= num_gpus)
  <2>1. /\ mainPc' = IF freeGPU THEN "freed" ELSE "read"
        /\ next' = next /\ sem_out' = sem_out
    BY <1>6 DEF WaitOut, AfterWakeUp
  <2>2. TypeOK'
    BY <1>1, <1>4, <2>1 DEF TypeOK, threadVars, dataVars
  <2>3. Prepared' /\ FitnessIsItsOwn'
    BY <1>1, <1>4, <2>1 DEF Prepared, FitnessIsItsOwn, Waking, dataVars
  <2>4. ASSUME NEW g \in Gpus PROVE CardInv(g)'
    <3>1. g < next
      BY <1>2, <1>3, <1>6
    <3>2. IF freeGPU THEN Ended(g) ELSE Asleep(g)
      BY <1>1, <3>1 DEF CardInv, Tokens
    <3>3. Tokens(g)'
      BY <1>1, <2>1, <3>2 DEF Tokens, Asleep, Ended, threadVars
    <3>4. Allocated(g) /\ Computed(g) /\ (~freeGPU => Allocated(g)')
      BY <1>1, <2>1, <3>1 DEF Allocated, Computed
    <3>5. LaunchCovers(g)' = LaunchCovers(g)
      BY <1>1, SameLaunch DEF threadVars, dataVars
    <3>6. Memory(g)' /\ Results(g)'
      BY <1>1, <1>4, <2>1, <3>4, <3>5 DEF CardInv, Memory, Results, Waking, threadVars, dataVars
    <3>. QED
      BY <3>3, <3>6 DEF CardInv
  <2>. QED
    BY <1>1, <1>4, <2>2, <2>3, <2>4 DEF Inv, dataVars
<1>. QED
  BY <1>5, <1>6

LEMMA ReadFitnessInv ==
  ASSUME Inv, ReadFitness
  PROVE  Inv'
<1> DEFINE N == PopulationSize(round)
<1>1. /\ mainPc = "read" /\ mainPc' = "evolve" /\ TypeOK /\ Prepared /\ ~Refused(config)
      /\ \A g \in Gpus : CardInv(g)
      /\ fitness' = fitnessTemp /\ fitnessTemp' = None
      /\ config' = config /\ round' = round /\ next' = next /\ freeGPU' = freeGPU
      /\ threadVars' = threadVars /\ semVars' = semVars /\ shares' = shares
      /\ cudaBuffer' = cudaBuffer
  BY DEF ReadFitness, Inv
<1>2. ~freeGPU /\ fitnessTemp = [k \in 1..N |-> fitnessTemp[k]]
  BY <1>1 DEF Prepared, Waking
<1>3. /\ Gpus' = Gpus /\ SharesFit' = SharesFit /\ num_gpus' = num_gpus
      /\ Refused(config)' = Refused(config)
      /\ \A r : PopulationSize(r)' = PopulationSize(r)
      /\ \A n : Dispatched(n)' = Dispatched(n)
  BY <1>1, SameConfig
<1>4. TypeOK'
  <2>1. DOMAIN fitness' \subseteq Nat
    <3>1. DOMAIN fitness' = 1..N /\ N \in Nat
      BY <1>1, <1>2, WorkingShares
    <3>. HIDE DEF N
    <3>. QED
      BY <3>1
  <2>. QED
    BY <1>1, <1>3, <2>1 DEF TypeOK, threadVars, semVars
<1>5. Prepared'
  BY <1>1, <1>2, <1>3 DEF Prepared, Waking
<1>6. FitnessIsItsOwn'
  <2> SUFFICES ASSUME num_gpus > 0, SharesFit, ~failed
               PROVE  fitnessTemp = [k \in 1..N |-> <<round, k>>]
    BY <1>1, <1>3 DEF FitnessIsItsOwn, threadVars
  <2>1. ASSUME NEW k \in 1..N PROVE fitnessTemp[k] = <<round, k>>
    <3>1. PICK g \in Gpus : k \in Share(g)
      BY <1>1, ShareInside
    <3>2. Results(g) /\ Computed(g)
      BY <1>1 DEF CardInv, Computed
    <3>. QED
      BY <1>1, <1>2, <3>1, <3>2 DEF Results
  <2>. HIDE DEF N
  <2>. QED
    BY <1>2, <2>1
<1>7. ASSUME NEW g \in Gpus PROVE CardInv(g)'
  <2>1. Asleep(g) /\ Memory(g) /\ Allocated(g) /\ Allocated(g)'
    BY <1>1 DEF CardInv, Tokens, Allocated
  <2>2. LaunchCovers(g)' = LaunchCovers(g)
    BY <1>1, SameLaunch DEF threadVars
  <2>. QED
    BY <1>1, <1>2, <2>1, <2>2
       DEF CardInv, Tokens, Memory, Results, Asleep, Waking, threadVars, semVars
<1>. QED
  BY <1>1, <1>3, <1>4, <1>5, <1>6, <1>7 DEF Inv

LEMMA EvolveInv ==
  ASSUME Inv, Evolve
  PROVE  Inv'
<1>1. /\ mainPc = "evolve" /\ TypeOK /\ Prepared /\ ~Refused(config)
      /\ \A g \in Gpus : CardInv(g)
      /\ config' = config /\ threadVars' = threadVars /\ semVars' = semVars
      /\ dataVars' = dataVars
  BY DEF Evolve, Inv
<1>2. /\ ~freeGPU /\ fitnessTemp = None /\ round \in 1..MaxRounds /\ round \in Nat
      /\ shares = Dispatched(PopulationSize(round))
  BY <1>1, MaxRoundsAssumption DEF Prepared, TypeOK
<1>3. /\ Gpus' = Gpus /\ SharesFit' = SharesFit /\ num_gpus' = num_gpus
      /\ Refused(config)' = Refused(config)
      /\ \A r : PopulationSize(r)' = PopulationSize(r)
      /\ \A n : Dispatched(n)' = Dispatched(n)
  BY <1>1, SameConfig
<1>4. \A g \in Gpus : Asleep(g) /\ Asleep(g)' /\ Memory(g) /\ Allocated(g)
  BY <1>1 DEF CardInv, Tokens, Asleep, Allocated, threadVars, semVars
<1>5. CASE round < MaxRounds /\ round' = round + 1 /\ mainPc' = "evaluate"
           /\ next' = next /\ freeGPU' = freeGPU
  <2>1. TypeOK'
    <3>1. round' \in 1..MaxRounds
      BY <1>2, <1>5, MaxRoundsAssumption
    <3>. QED
      BY <1>1, <1>2, <1>3, <1>5, <3>1 DEF TypeOK, threadVars, semVars, dataVars
  <2>2. Prepared'
    <3>1. round' # 1 /\ (round' > 2 => round # 1)
      BY <1>2, <1>5
    <3>. QED
      BY <1>1, <1>2, <1>3, <1>5, <3>1 DEF Prepared, Waking, PopulationSize, dataVars
  <2>3. FitnessIsItsOwn'
    BY <1>5 DEF FitnessIsItsOwn
  <2>4. ASSUME NEW g \in Gpus PROVE CardInv(g)'
    <3>1. ~Allocated(g)'
      BY <1>4, <1>5 DEF Asleep, Allocated
    <3>2. preliminaries[g] = IF round' <= 3 THEN 3 - round' ELSE 0
      BY <1>2, <1>4, <1>5 DEF Memory
    <3>3. Memory(g)'
      BY <1>1, <1>4, <1>5, <3>1, <3>2, SameLaunch DEF Memory, threadVars, dataVars, Asleep
    <3>4. Tokens(g)' /\ Results(g)'
      BY <1>4, <1>5 DEF Tokens, Results, Waking
    <3>. QED
      BY <3>3, <3>4 DEF CardInv
  <2>. QED
    BY <1>1, <1>3, <2>1, <2>2, <2>3, <2>4 DEF Inv, dataVars
<1>6. CASE freeGPU' = TRUE /\ mainPc' = "post" /\ next' = 1 /\ round' = round
  <2>1. TypeOK'
    BY <1>1, <1>3, <1>6 DEF TypeOK, threadVars, semVars, dataVars
  <2>2. Prepared' /\ FitnessIsItsOwn'
    BY <1>1, <1>2, <1>3, <1>6 DEF Prepared, FitnessIsItsOwn, Waking, dataVars
  <2>3. ASSUME NEW g \in Gpus PROVE CardInv(g)'
    <3>1. ~(g < 1)
      <4>1. num_gpus \in Int
        BY <1>1, ConfigTyped DEF TypeOK
      <4>. QED
        BY <4>1 DEF Gpus
    <3>. QED
      BY <1>4, <1>6, <3>1 DEF CardInv, Tokens, Memory, Results, Asleep
  <2>. QED
    BY <1>1, <1>3, <2>1, <2>2, <2>3 DEF Inv, dataVars
<1>. QED
  BY <1>5, <1>6 DEF Evolve

LEMMA StutterInv ==
  ASSUME Inv, UNCHANGED vars
  PROVE  Inv'
<1>1. /\ SameControl /\ fitnessTemp' = fitnessTemp /\ failed' = failed
      /\ threadVars' = threadVars /\ semVars' = semVars
  BY DEF vars, SameControl, controlVars, dataVars, threadVars
<1>2. /\ Gpus' = Gpus /\ SharesFit' = SharesFit /\ num_gpus' = num_gpus
      /\ Refused(config)' = Refused(config)
      /\ \A r : PopulationSize(r)' = PopulationSize(r)
      /\ \A n : Dispatched(n)' = Dispatched(n)
  BY <1>1, SameConfig DEF SameControl
<1>3. TypeOK'
  BY <1>1, <1>2 DEF Inv, TypeOK, SameControl, threadVars, semVars
<1>4. mainPc # "exit" => Prepared' /\ FitnessIsItsOwn'
  BY <1>1, <1>2 DEF Inv, Prepared, FitnessIsItsOwn, Waking, SameControl
<1>5. mainPc # "exit" => \A g \in Gpus : CardInv(g)'
  <2> SUFFICES ASSUME mainPc # "exit", NEW g \in Gpus PROVE CardInv(g)'
    OBVIOUS
  <2>1. CardInv(g) /\ SameCard(g)
    BY <1>1 DEF Inv, SameCard, threadVars, semVars
  <2>. QED
    BY <1>1, <2>1, OtherCard
<1>. QED
  BY <1>1, <1>2, <1>3, <1>4, <1>5 DEF Inv, SameControl

LEMMA NextInv == Inv /\ [Next]_vars => Inv'
<1> SUFFICES ASSUME Inv, [Next]_vars PROVE Inv'
  OBVIOUS
<1>1. CASE Main
  BY <1>1, EvaluateInv, PostInInv, WaitOutInv, ReadFitnessInv, EvolveInv DEF Main
<1>2. ASSUME NEW g \in Gpus, Thread(g) PROVE Inv'
  BY <1>2, WaitInInv, FreeDeviceInv, PreliminaryInv, CopyInInv, KernelInv, PostOutInv
     DEF Thread
<1>3. CASE UNCHANGED vars
  BY <1>3, StutterInv
<1>. QED
  BY <1>1, <1>2, <1>3 DEF Next

LEMMA InvHolds == Spec => []Inv
  BY InitInv, NextInv, PTL DEF Spec

-----------------------------------------------------------------------------
(* The theorems *)

(* The variables keep their types: no semaphore ever holds two tokens, the     *)
(* loops never pass the last card, and the preliminary process runs twice at   *)
(* the most, on any machine.                                                   *)
THEOREM TypeCorrect == Spec => []TypeOK
<1>1. Inv => TypeOK
  BY DEF Inv
<1>. QED
  BY <1>1, InvHolds, PTL

(* Whatever the order in which the threads run, when wake_up_gpu_thread is     *)
(* over all of them are back on their semaphore, or at their end, and both     *)
(* semaphores of every card are at zero.                                       *)
THEOREM ThreadsRest == Spec => []ThreadsSleep
<1>1. Inv => ThreadsSleep
  <2> SUFFICES ASSUME Inv, mainPc \in {"evaluate", "read", "evolve", "freed"}, NEW g \in Gpus
               PROVE  /\ threadPc[g] = IF mainPc = "freed" THEN "ended" ELSE "sem_in"
                      /\ sem_in[g] = 0 /\ sem_out[g] = 0
    BY DEF ThreadsSleep
  <2>1. Tokens(g)
    BY DEF Inv, CardInv
  <2>. QED
    BY <2>1 DEF Tokens, Asleep, Ended
<1>. QED
  BY <1>1, InvHolds, PTL

(* For any sizes and any machine, with shares that fit and without failures,   *)
(* no individual is left with a fitness that is missing, old or another's.     *)
THEOREM OwnFitness == Spec => []FitnessIsItsOwn
<1>1. Inv => FitnessIsItsOwn
  <2>1. mainPc = "exit" => FitnessIsItsOwn
    BY DEF FitnessIsItsOwn
  <2>. QED
    BY <2>1 DEF Inv
<1>. QED
  BY <1>1, InvHolds, PTL

(* The two allocations of a thread are enough for all its copies. *)
THEOREM CopiesFit == Spec => []CopiesFitDeviceMemory
<1>1. Inv => CopiesFitDeviceMemory
  <2> SUFFICES ASSUME Inv, NEW g \in Gpus, threadPc[g] = "memcpy", mainPc # "exit"
               PROVE  shares[g].sh_pop_size <= d_size[g]
    BY DEF CopiesFitDeviceMemory
  <2>1. Waking /\ HasToken(g)
    BY Busy
  <2>2. ~freeGPU
    BY <2>1 DEF HasToken
  <2>3. d_size[g] = shares[g].sh_pop_size
    BY <2>2 DEF Inv, CardInv, Memory
  <2>4. shares[g].sh_pop_size \in Int
    BY <2>1, WorkingShares DEF Waking
  <2>. QED
    BY <2>3, <2>4
<1>. QED
  BY <1>1, InvHolds, PTL

(* Every thread has freed its card when the main thread frees what they share. *)
THEOREM MemoryFreed == Spec => []DeviceMemoryFreed
<1>1. Inv => DeviceMemoryFreed
  <2> SUFFICES ASSUME Inv, mainPc = "freed", NEW g \in Gpus PROVE d_size[g] = 0
    BY DEF DeviceMemoryFreed
  <2>1. Tokens(g) /\ Memory(g)
    BY DEF Inv, CardInv
  <2>. QED
    BY <2>1 DEF Tokens, Ended, Memory
<1>. QED
  BY <1>1, InvHolds, PTL
=============================================================================
