--------------------------- MODULE ArrayTheorems ---------------------------
(***************************************************************************)
(* Arrays of addresses, as the populations of the library and of the       *)
(* multi-objective templates keep them: what the operations on them do to  *)
(* the addresses they hold, and to who owns an individual.  Arrays of      *)
(* numbers: the sums of their first places.                                *)
(***************************************************************************)
EXTENDS Integers, Sequences, Functions, TLAPS, WellFoundedInduction

(* Numbers *)

(* A set of naturals that is not empty has a least member. *)
LEMMA LeastNatural ==
  ASSUME NEW T, T \subseteq Nat, T # {}
  PROVE  \E n \in T : \A k \in T : n <= k
<1>1. PICK n \in T : \A k \in T : ~(<<k, n>> \in OpToRel(<, Nat))
  BY NatLessThanWellFounded, WFMin
<1>2. \A k \in T : ~(k < n)
  BY <1>1 DEF OpToRel
<1>. QED
  BY <1>2

(* Induction on a set of naturals: one that contains 0 and the successor of    *)
(* each of its members contains them all.                                      *)
LEMMA SetInduction ==
  ASSUME NEW T, 0 \in T, \A n \in Nat : n \in T => n + 1 \in T
  PROVE  \A n \in Nat : n \in T
<1> DEFINE U == {n \in Nat : n \notin T}
<1>1. SUFFICES ASSUME U # {}
               PROVE  FALSE
  OBVIOUS
<1>2. PICK n \in U : \A k \in U : n <= k
  BY <1>1, LeastNatural
<1>3. n - 1 \in Nat /\ n - 1 \notin U
  BY <1>2
<1>. QED
  BY <1>2, <1>3

-----------------------------------------------------------------------------
(* What an array holds *)

LEMMA RangeOfArray ==
  ASSUME NEW S, NEW s \in Seq(S)
  PROVE  /\ Range(s) = {s[k] : k \in 1..Len(s)}
         /\ Range(s) \subseteq S
         /\ IsInjective(s) <=> \A k, l \in 1..Len(s) : s[k] = s[l] => k = l
  BY DEF Range, IsInjective

(* the array s without its place k, into which the last individual moves *)
Without(s, k) == [j \in 1..(Len(s) - 1) |-> IF j = k THEN s[Len(s)] ELSE s[j]]

(* A swap with the last place takes exactly one individual out of an array without repetitions. *)
LEMMA SwapOutRange ==
  ASSUME NEW S, NEW s \in Seq(S), IsInjective(s), NEW k \in 1..Len(s)
  PROVE  /\ Without(s, k) \in Seq(S)
         /\ Len(Without(s, k)) = Len(s) - 1
         /\ IsInjective(Without(s, k))
         /\ Range(Without(s, k)) = Range(s) \ {s[k]}
<1> DEFINE n == Len(s)
           t == Without(s, k)
<1>1. n \in Nat /\ k \in 1..n
  OBVIOUS
<1>2. t \in Seq(S) /\ Len(t) = n - 1
  BY DEF Without
<1>3. \A j \in 1..(n - 1) : t[j] = IF j = k THEN s[n] ELSE s[j]
  BY DEF Without
<1>4. \A i, j \in 1..n : s[i] = s[j] => i = j
  BY RangeOfArray
<1> HIDE DEF n, t
<1>5. \A i, j \in 1..(n - 1) : t[i] = t[j] => i = j
  BY <1>1, <1>3, <1>4
<1>6. {t[j] : j \in 1..(n - 1)} \subseteq {s[j] : j \in 1..n} \ {s[k]}
  BY <1>1, <1>3, <1>4
<1>7. ASSUME NEW j \in 1..n, j # k
      PROVE  \E i \in 1..(n - 1) : t[i] = s[j]
  <2>1. CASE j = n
    <3>1. k \in 1..(n - 1) /\ t[k] = s[j]
      BY <1>1, <1>3, <1>7, <2>1
    <3>. QED
      BY <3>1
  <2>2. CASE j # n
    <3>1. j \in 1..(n - 1) /\ t[j] = s[j]
      BY <1>1, <1>3, <1>7, <2>2
    <3>. QED
      BY <3>1
  <2>. QED
    BY <2>1, <2>2
<1>8. {s[j] : j \in 1..n} \ {s[k]} \subseteq {t[j] : j \in 1..(n - 1)}
  BY <1>7
<1>9. Range(t) = {t[j] : j \in 1..(n - 1)} /\ Range(s) = {s[j] : j \in 1..n}
  BY <1>2, RangeOfArray DEF n
<1>10. IsInjective(t)
  BY <1>2, <1>5, RangeOfArray
<1>. QED
  BY <1>2, <1>6, <1>8, <1>9, <1>10 DEF n, t

(* Append adds exactly one. *)
LEMMA AppendRange ==
  ASSUME NEW S, NEW s \in Seq(S), IsInjective(s), NEW x \in S, x \notin Range(s)
  PROVE  /\ Append(s, x) \in Seq(S)
         /\ Len(Append(s, x)) = Len(s) + 1
         /\ IsInjective(Append(s, x))
         /\ Range(Append(s, x)) = Range(s) \cup {x}
<1> DEFINE n == Len(s)
           t == Append(s, x)
<1>1. n \in Nat /\ t \in Seq(S) /\ Len(t) = n + 1
  OBVIOUS
<1>2. t[n + 1] = x /\ \A j \in 1..n : t[j] = s[j]
  OBVIOUS
<1>3. \A j \in 1..n : s[j] # x
  BY RangeOfArray
<1>4. \A i, j \in 1..n : s[i] = s[j] => i = j
  BY RangeOfArray
<1>a. Range(s) = {s[j] : j \in 1..n}
  BY RangeOfArray
<1> HIDE DEF n, t
<1>5. Range(t) = {t[j] : j \in 1..(n + 1)} /\ Range(s) = {s[j] : j \in 1..n}
  BY <1>a, <1>1, RangeOfArray
<1>6. \A i, j \in 1..(n + 1) : t[i] = t[j] => i = j
  BY <1>1, <1>2, <1>3, <1>4
<1>7. IsInjective(t)
  BY <1>1, <1>6, RangeOfArray
<1>8. {t[j] : j \in 1..(n + 1)} = {s[j] : j \in 1..n} \cup {x}
  <2>1. {t[j] : j \in 1..(n + 1)} \subseteq {s[j] : j \in 1..n} \cup {x}
    BY <1>1, <1>2
  <2>2. {s[j] : j \in 1..n} \subseteq {t[j] : j \in 1..(n + 1)}
    BY <1>1, <1>2
  <2>3. x \in {t[j] : j \in 1..(n + 1)}
    BY <1>1, <1>2
  <2>. QED
    BY <2>1, <2>2, <2>3
<1>. QED
  BY <1>1, <1>5, <1>7, <1>8 DEF n, t

(* Concatenation of two arrays that share nothing. *)
LEMMA ConcatRange ==
  ASSUME NEW S, NEW s \in Seq(S), NEW t \in Seq(S)
  PROVE  /\ s \o t \in Seq(S)
         /\ Len(s \o t) = Len(s) + Len(t)
         /\ Range(s \o t) = Range(s) \cup Range(t)
         /\ IsInjective(s) /\ IsInjective(t) /\ Range(s) \cap Range(t) = {} =>
              IsInjective(s \o t)
<1> DEFINE m == Len(s)
           n == Len(t)
           u == s \o t
<1>1. m \in Nat /\ n \in Nat /\ u \in Seq(S) /\ Len(u) = m + n
  OBVIOUS
<1>2. /\ \A j \in 1..m : u[j] = s[j]
      /\ \A j \in 1..n : u[m + j] = t[j]
      /\ \A j \in (m + 1)..(m + n) : u[j] = t[j - m]
  OBVIOUS
<1>3. /\ Range(s) = {s[j] : j \in 1..m}
      /\ Range(t) = {t[j] : j \in 1..n}
      /\ Range(u) = {u[j] : j \in 1..(m + n)}
  BY <1>1, RangeOfArray
<1>4. /\ IsInjective(s) <=> \A j, l \in 1..m : s[j] = s[l] => j = l
      /\ IsInjective(t) <=> \A j, l \in 1..n : t[j] = t[l] => j = l
      /\ IsInjective(u) <=> \A j, l \in 1..(m + n) : u[j] = u[l] => j = l
  BY <1>1, RangeOfArray
<1> HIDE DEF m, n, u
<1>5. \A j \in 1..(m + n) : j \in 1..m \/ (j \in (m + 1)..(m + n) /\ j - m \in 1..n)
  BY <1>1
<1>6. {u[j] : j \in 1..(m + n)} \subseteq {s[j] : j \in 1..m} \cup {t[j] : j \in 1..n}
  BY <1>2, <1>5
<1>7. {s[j] : j \in 1..m} \subseteq {u[j] : j \in 1..(m + n)}
  BY <1>1, <1>2
<1>8. {t[j] : j \in 1..n} \subseteq {u[j] : j \in 1..(m + n)}
  <2> SUFFICES ASSUME NEW j \in 1..n
               PROVE  t[j] \in {u[l] : l \in 1..(m + n)}
    OBVIOUS
  <2>1. m + j \in 1..(m + n) /\ u[m + j] = t[j]
    BY <1>1, <1>2
  <2>. QED
    BY <2>1
<1>9. ASSUME IsInjective(s), IsInjective(t), Range(s) \cap Range(t) = {}
      PROVE  IsInjective(u)
  <2> SUFFICES ASSUME NEW j \in 1..(m + n), NEW l \in 1..(m + n), u[j] = u[l]
               PROVE  j = l
    BY <1>4
  <2>1. \A a \in 1..m, b \in 1..n : s[a] # t[b]
    BY <1>3, <1>9
  <2>2. CASE j \in 1..m /\ l \in 1..m
    BY <2>2, <1>2, <1>4, <1>9
  <2>3. CASE j \in (m + 1)..(m + n) /\ l \in (m + 1)..(m + n)
    <3>1. t[j - m] = t[l - m] /\ j - m \in 1..n /\ l - m \in 1..n
      BY <2>3, <1>1, <1>2
    <3>2. j - m = l - m
      BY <3>1, <1>4, <1>9
    <3>. QED
      BY <3>2, <1>1
  <2>4. CASE j \in 1..m /\ l \in (m + 1)..(m + n)
    <3>1. u[j] = s[j] /\ u[l] = t[l - m] /\ l - m \in 1..n
      BY <2>4, <1>1, <1>2
    <3>. QED
      BY <3>1, <2>1, <2>4
  <2>5. CASE l \in 1..m /\ j \in (m + 1)..(m + n)
    <3>1. u[l] = s[l] /\ u[j] = t[j - m] /\ j - m \in 1..n
      BY <2>5, <1>1, <1>2
    <3>. QED
      BY <3>1, <2>1, <2>5
  <2>. QED
    BY <2>2, <2>3, <2>4, <2>5, <1>5
<1>. QED
  BY <1>1, <1>3, <1>6, <1>7, <1>8, <1>9 DEF m, n, u

(* A rearrangement keeps the addresses. *)
LEMMA PermutedRange ==
  ASSUME NEW S, NEW s \in Seq(S), IsInjective(s), NEW t,
         NEW order \in Bijection(1..Len(s), 1..Len(s)), t = [k \in 1..Len(s) |-> s[order[k]]]
  PROVE  /\ t \in Seq(S)
         /\ Len(t) = Len(s)
         /\ IsInjective(t)
         /\ Range(t) = Range(s)
<1> DEFINE n == Len(s)
<1>1. t = [k \in 1..n |-> s[order[k]]]
  OBVIOUS
<1>2. /\ n \in Nat
      /\ order \in [1..n -> 1..n]
      /\ \A a, b \in 1..n : order[a] = order[b] => a = b
      /\ \A k \in 1..n : \E a \in 1..n : order[a] = k
  BY DEF Bijection, Injection, Surjection, IsInjective
<1>3. t \in Seq(S) /\ Len(t) = n /\ \A k \in 1..n : t[k] = s[order[k]]
  <2>1. \A j \in 1..n : s[j] \in S
    OBVIOUS
  <2> HIDE DEF n
  <2>2. \A k \in 1..n : order[k] \in 1..n
    BY <1>2
  <2>3. t \in [1..n -> S] /\ \A k \in 1..n : t[k] = s[order[k]]
    BY <1>1, <2>1, <2>2
  <2>. QED
    BY <1>2, <2>3
<1>4. /\ Range(s) = {s[j] : j \in 1..n}
      /\ Range(t) = {t[j] : j \in 1..n}
      /\ \A j, l \in 1..n : s[j] = s[l] => j = l
      /\ IsInjective(t) <=> \A j, l \in 1..n : t[j] = t[l] => j = l
  BY <1>3, RangeOfArray
<1> HIDE DEF n
<1>a. \A k \in 1..n : order[k] \in 1..n
  BY <1>2
<1>5. \A j, l \in 1..n : t[j] = t[l] => j = l
  <2> TAKE j, l \in 1..n
  <2> HAVE t[j] = t[l]
  <2>1. s[order[j]] = s[order[l]] /\ order[j] \in 1..n /\ order[l] \in 1..n
    BY <1>a, <1>3
  <2>2. order[j] = order[l]
    BY <2>1, <1>4
  <2>. QED
    BY <2>2, <1>2
<1>6. {t[j] : j \in 1..n} \subseteq {s[j] : j \in 1..n}
  BY <1>a, <1>3
<1>7. {s[j] : j \in 1..n} \subseteq {t[j] : j \in 1..n}
  <2> SUFFICES ASSUME NEW j \in 1..n
               PROVE  s[j] \in {t[l] : l \in 1..n}
    OBVIOUS
  <2>1. PICK a \in 1..n : order[a] = j
    BY <1>2
  <2>. QED
    BY <2>1, <1>3
<1>. QED
  BY <1>3, <1>4, <1>5, <1>6, <1>7 DEF n

(* An empty array holds nothing. *)
LEMMA EmptyRange ==
  /\ \A S : <<>> \in Seq(S)
  /\ Range(<<>>) = {}
  /\ IsInjective(<<>>)
  /\ Len(<<>>) = 0
<1>1. \A S : <<>> \in Seq(S)
  OBVIOUS
<1>2. Len(<<>>) = 0 /\ DOMAIN <<>> = {}
  OBVIOUS
<1>3. Range(<<>>) = {}
  BY <1>2 DEF Range
<1>4. IsInjective(<<>>)
  BY <1>2 DEF IsInjective
<1>. QED
  BY <1>1, <1>2, <1>3, <1>4

(* An array of length 0 is the empty one. *)
LEMMA ZeroLength ==
  ASSUME NEW S, NEW s \in Seq(S)
  PROVE  Len(s) \in Nat /\ (Len(s) = 0 <=> s = <<>>)
  OBVIOUS

-----------------------------------------------------------------------------
(* Sums *)

(* what the recursive definition in SumOf asks of the sums g of the first places *)
Sums(s, k, g) == g = [j \in 0..k |-> IF j = 0 THEN 0 ELSE g[j - 1] + s[j]]

LEMMA SumsExist ==
  ASSUME NEW s \in Seq(Int)
  PROVE  \A k \in 0..Len(s) : \E g \in [0..k -> Int] : Sums(s, k, g)
<1> DEFINE T == {k \in Nat : k <= Len(s) => \E g \in [0..k -> Int] : Sums(s, k, g)}
<1>1. 0 \in T
  <2> DEFINE g == [j \in 0..0 |-> 0]
  <2>1. g \in [0..0 -> Int] /\ g = [j \in 0..0 |-> IF j = 0 THEN 0 ELSE g[j - 1] + s[j]]
    OBVIOUS
  <2>2. Sums(s, 0, g)
    BY <2>1 DEF Sums
  <2>. QED
    BY <2>1, <2>2
<1>2. ASSUME NEW k \in Nat, k \in T, k + 1 <= Len(s)
      PROVE  \E h \in [0..(k + 1) -> Int] : Sums(s, k + 1, h)
  <2>1. PICK g \in [0..k -> Int] : Sums(s, k, g)
    BY <1>2
  <2> DEFINE h == [j \in 0..(k + 1) |-> IF j <= k THEN g[j] ELSE g[k] + s[k + 1]]
  <2>2. h \in [0..(k + 1) -> Int]
    BY <1>2
  <2>3. \A j \in 0..k : g[j] = IF j = 0 THEN 0 ELSE g[j - 1] + s[j]
    BY <2>1 DEF Sums
  <2>4. ASSUME NEW j \in 0..(k + 1)
        PROVE  h[j] = IF j = 0 THEN 0 ELSE h[j - 1] + s[j]
    <3>1. CASE j = 0
      BY <2>3, <3>1
    <3>2. CASE j \in 1..k
      BY <2>3, <3>2
    <3>3. CASE j = k + 1
      BY <3>3
    <3>. QED
      BY <3>1, <3>2, <3>3
  <2>5. h = [j \in 0..(k + 1) |-> IF j = 0 THEN 0 ELSE h[j - 1] + s[j]]
    <3> HIDE DEF h
    <3>. QED
      BY <2>2, <2>4
  <2>6. Sums(s, k + 1, h)
    BY <2>5 DEF Sums
  <2>. QED
    BY <2>2, <2>6
<1>3. \A k \in Nat : k \in T
  <2>1. \A k \in Nat : k \in T => k + 1 \in T
    BY <1>2
  <2>. QED
    BY <1>1, <2>1, SetInduction
<1>. QED
  BY <1>3

(* The sums of a longer part of the array begin with those of a shorter one. *)
LEMMA SumsAgree ==
  ASSUME NEW s \in Seq(Int), NEW k \in Nat, NEW l \in Nat, NEW g, NEW h,
         Sums(s, k, g), Sums(s, l, h)
  PROVE  \A j \in Nat : j <= k /\ j <= l => g[j] = h[j]
<1> DEFINE T == {j \in Nat : j <= k /\ j <= l => g[j] = h[j]}
<1>1. /\ \A j \in 0..k : g[j] = IF j = 0 THEN 0 ELSE g[j - 1] + s[j]
      /\ \A j \in 0..l : h[j] = IF j = 0 THEN 0 ELSE h[j - 1] + s[j]
  BY DEF Sums
<1>2. 0 \in T
  BY <1>1
<1>3. \A j \in Nat : j \in T => j + 1 \in T
  <2> SUFFICES ASSUME NEW j \in Nat, j \in T, j + 1 <= k, j + 1 <= l
               PROVE  g[j + 1] = h[j + 1]
    OBVIOUS
  <2>1. g[j] = h[j]
    OBVIOUS
  <2>2. g[j + 1] = g[j] + s[j + 1] /\ h[j + 1] = h[j] + s[j + 1]
    <3>1. j + 1 \in 0..k /\ j + 1 \in 0..l /\ (j + 1) - 1 = j /\ j + 1 # 0
      OBVIOUS
    <3>. QED
      BY <1>1, <3>1
  <2>. QED
    BY <2>1, <2>2
<1>4. \A j \in Nat : j \in T
  <2> HIDE DEF T
  <2>. QED
    BY <1>2, <1>3, SetInduction
<1>. QED
  BY <1>4

(* the sum of the first k numbers of s *)
SumOf(s, k) == LET sum[j \in 0..k] == IF j = 0 THEN 0 ELSE sum[j - 1] + s[j] IN sum[k]

LEMMA SumStep ==
  ASSUME NEW s \in Seq(Int)
  PROVE  /\ \A k \in 0..Len(s) : SumOf(s, k) \in Int
         /\ SumOf(s, 0) = 0
         /\ \A k \in 1..Len(s) : SumOf(s, k) = SumOf(s, k - 1) + s[k]
<1> DEFINE G(k) == CHOOSE g : g = [j \in 0..k |-> IF j = 0 THEN 0 ELSE g[j - 1] + s[j]]
<1>1. \A k \in 0..Len(s) : SumOf(s, k) = G(k)[k]
  BY DEF SumOf
<1>2. ASSUME NEW k \in 0..Len(s)
      PROVE  Sums(s, k, G(k)) /\ \E g \in [0..k -> Int] : G(k)[k] = g[k]
  <2>1. PICK g \in [0..k -> Int] : Sums(s, k, g)
    BY SumsExist
  <2>2. Sums(s, k, G(k))
    BY <2>1 DEF Sums
  <2>3. G(k)[k] = g[k]
    BY <2>1, <2>2, SumsAgree
  <2>. QED
    BY <2>2, <2>3
<1> HIDE DEF G
<1>3. \A k \in 0..Len(s) : G(k)[k] \in Int
  BY <1>2
<1>4. G(0)[0] = 0
  <2>1. Sums(s, 0, G(0))
    BY <1>2
  <2>. QED
    BY <2>1 DEF Sums
<1>5. ASSUME NEW k \in 1..Len(s)
      PROVE  G(k)[k] = G(k - 1)[k - 1] + s[k]
  <2>1. Sums(s, k, G(k)) /\ Sums(s, k - 1, G(k - 1))
    BY <1>2
  <2>2. G(k)[k] = G(k)[k - 1] + s[k]
    BY <2>1 DEF Sums
  <2>3. G(k)[k - 1] = G(k - 1)[k - 1]
    BY <2>1, SumsAgree
  <2>. QED
    BY <2>2, <2>3
<1>6. /\ SumOf(s, 0) = G(0)[0]
      /\ \A k \in 1..Len(s) : SumOf(s, k) = G(k)[k] /\ SumOf(s, k - 1) = G(k - 1)[k - 1]
  BY <1>1
<1>. QED
  BY <1>1, <1>3, <1>4, <1>5, <1>6

-----------------------------------------------------------------------------
(* Ownership *)

(* The arrays A, whose names are N, own the live individuals D: each is in one *)
(* place of one array.                                                         *)
OwnedBy(N, A, D) ==
  /\ \A a \in N : IsInjective(A[a]) /\ Range(A[a]) \subseteq D
  /\ \A a, b \in N : a # b => Range(A[a]) \cap Range(A[b]) = {}
  /\ \A i \in D : \E a \in N : i \in Range(A[a])

(* Ownership without the sequences: i is in the array from, and then in to. *)
LEMMA OwnedAfterMove ==
  ASSUME NEW N, NEW A, NEW B, NEW D, OwnedBy(N, A, D),
         NEW from \in N, NEW to \in N, from # to,
         NEW i \in Range(A[from]),
         IsInjective(B[from]), Range(B[from]) = Range(A[from]) \ {i},
         IsInjective(B[to]), Range(B[to]) = Range(A[to]) \cup {i},
         \A a \in N \ {from, to} : B[a] = A[a]
  PROVE  OwnedBy(N, B, D)
<1>1. i \in D /\ \A a \in N \ {from} : i \notin Range(A[a])
  BY DEF OwnedBy
<1>2. \A a \in N :
        IsInjective(B[a]) /\ Range(B[a]) \subseteq D
        /\ Range(B[a]) \subseteq Range(A[a]) \cup (IF a = to THEN {i} ELSE {})
        /\ (a # to => i \notin Range(B[a]))
  BY <1>1 DEF OwnedBy
<1>3. \A a, b \in N : a # b => Range(B[a]) \cap Range(B[b]) = {}
  <2> TAKE a, b \in N
  <2> HAVE a # b
  <2>1. Range(A[a]) \cap Range(A[b]) = {}
    BY DEF OwnedBy
  <2>2. a # to \/ b # to
    OBVIOUS
  <2>. QED
    BY <1>2, <2>1, <2>2
<1>4. ASSUME NEW j \in D
      PROVE  \E a \in N : j \in Range(B[a])
  <2>1. PICK a \in N : j \in Range(A[a])
    BY DEF OwnedBy
  <2>2. CASE j = i
    BY <2>2
  <2>3. CASE j # i
    <3>1. j \in Range(B[a])
      BY <2>1, <2>3
    <3>. QED
      BY <3>1
  <2>. QED
    BY <2>2, <2>3
<1>. QED
  BY <1>2, <1>3, <1>4 DEF OwnedBy

(* the arrays A after the individual at place k of one has moved to the end of *)
(* another                                                                     *)
Moved(A, from, k, to) == [A EXCEPT ![from] = Without(@, k), ![to] = Append(@, A[from][k])]

(* An individual that moves from an array to another still has one owner. *)
LEMMA MoveOwned ==
  ASSUME NEW N, NEW S, NEW A \in [N -> Seq(S)], NEW D, OwnedBy(N, A, D),
         NEW from \in N, NEW to \in N, from # to,
         NEW k \in 1..Len(A[from])
  PROVE  /\ Moved(A, from, k, to) \in [N -> Seq(S)]
         /\ OwnedBy(N, Moved(A, from, k, to), D)
         /\ Len(Moved(A, from, k, to)[from]) = Len(A[from]) - 1
         /\ Len(Moved(A, from, k, to)[to]) = Len(A[to]) + 1
         /\ \A a \in N \ {from, to} : Moved(A, from, k, to)[a] = A[a]
<1> DEFINE i == A[from][k]
           B == Moved(A, from, k, to)
<1>1. /\ B[from] = Without(A[from], k)
      /\ B[to] = Append(A[to], i)
      /\ \A a \in N \ {from, to} : B[a] = A[a]
  BY DEF Moved
<1>2. /\ A[from] \in Seq(S) /\ IsInjective(A[from])
      /\ A[to] \in Seq(S) /\ IsInjective(A[to])
      /\ Range(A[from]) \cap Range(A[to]) = {}
  BY DEF OwnedBy
<1>3. i \in S /\ i \in Range(A[from])
  BY <1>2, RangeOfArray
<1>4. /\ Without(A[from], k) \in Seq(S)
      /\ Len(Without(A[from], k)) = Len(A[from]) - 1
      /\ IsInjective(Without(A[from], k))
      /\ Range(Without(A[from], k)) = Range(A[from]) \ {i}
  BY <1>2, SwapOutRange
<1>5. i \notin Range(A[to])
  BY <1>2, <1>3
<1>6. /\ Append(A[to], i) \in Seq(S)
      /\ Len(Append(A[to], i)) = Len(A[to]) + 1
      /\ IsInjective(Append(A[to], i))
      /\ Range(Append(A[to], i)) = Range(A[to]) \cup {i}
  BY <1>2, <1>3, <1>5, AppendRange
<1> HIDE DEF i
<1>7. B \in [N -> Seq(S)]
  <2>1. Without(A[from], k) \in Seq(S)
    BY <1>4
  <2>2. Append(A[to], A[from][k]) \in Seq(S)
    BY <1>6 DEF i
  <2>. QED
    BY <2>1, <2>2 DEF Moved
<1> HIDE DEF B
<1>8. /\ IsInjective(B[from]) /\ Range(B[from]) = Range(A[from]) \ {i}
      /\ IsInjective(B[to]) /\ Range(B[to]) = Range(A[to]) \cup {i}
  BY <1>1, <1>4, <1>6
<1>9. OwnedBy(N, B, D)
  <2>1. \A a \in N \ {from, to} : B[a] = A[a]
    BY <1>1
  <2> HIDE DEF OwnedBy
  <2>. QED
    BY <1>3, <1>8, <2>1, OwnedAfterMove
<1>. QED
  BY <1>1, <1>4, <1>6, <1>7, <1>9 DEF B

(* the arrays A after i was added to the end of one *)
Added(A, to, i) == [A EXCEPT ![to] = Append(@, i)]

(* A new individual belongs to the array it is added to. *)
LEMMA AppendOwned ==
  ASSUME NEW N, NEW S, NEW A \in [N -> Seq(S)], NEW D, OwnedBy(N, A, D),
         NEW to \in N, NEW i \in S, i \notin D
  PROVE  /\ Added(A, to, i) \in [N -> Seq(S)]
         /\ OwnedBy(N, Added(A, to, i), D \cup {i})
         /\ Len(Added(A, to, i)[to]) = Len(A[to]) + 1
         /\ \A a \in N \ {to} : Added(A, to, i)[a] = A[a]
<1> DEFINE B == Added(A, to, i)
<1>1. B[to] = Append(A[to], i) /\ \A a \in N \ {to} : B[a] = A[a]
  BY DEF Added
<1>2. A[to] \in Seq(S) /\ IsInjective(A[to]) /\ i \notin Range(A[to])
  BY DEF OwnedBy
<1>3. /\ Append(A[to], i) \in Seq(S)
      /\ Len(Append(A[to], i)) = Len(A[to]) + 1
      /\ IsInjective(Append(A[to], i))
      /\ Range(Append(A[to], i)) = Range(A[to]) \cup {i}
  BY <1>2, AppendRange
<1>4. B \in [N -> Seq(S)]
  BY <1>3 DEF Added
<1> HIDE DEF B
<1>5. \A a \in N :
        /\ IsInjective(B[a])
        /\ Range(B[a]) = Range(A[a]) \cup (IF a = to THEN {i} ELSE {})
  BY <1>1, <1>3 DEF OwnedBy
<1>6. OwnedBy(N, B, D \cup {i})
  <2>1. \A a \in N : i \notin Range(A[a])
    BY DEF OwnedBy
  <2>2. \A a, b \in N : a # b => Range(B[a]) \cap Range(B[b]) = {}
    <3> TAKE a, b \in N
    <3> HAVE a # b
    <3>1. Range(A[a]) \cap Range(A[b]) = {}
      BY DEF OwnedBy
    <3>2. Range(B[a]) \subseteq Range(A[a]) \cup {i} /\ Range(B[b]) \subseteq Range(A[b]) \cup {i}
      BY <1>5
    <3>3. a # to \/ b # to
      OBVIOUS
    <3>4. i \notin Range(B[a]) \/ i \notin Range(B[b])
      BY <1>5, <2>1, <3>3
    <3>. QED
      BY <3>1, <3>2, <3>4
  <2>3. \A a \in N : Range(B[a]) \subseteq D \cup {i}
    BY <1>5 DEF OwnedBy
  <2>4. \A j \in D \cup {i} : \E a \in N : j \in Range(B[a])
    <3>1. \A j \in D : \E a \in N : j \in Range(A[a])
      BY DEF OwnedBy
    <3>. QED
      BY <1>5, <3>1
  <2>. QED
    BY <1>5, <2>2, <2>3, <2>4 DEF OwnedBy
<1>. QED
  BY <1>1, <1>3, <1>4, <1>6 DEF B
=============================================================================
