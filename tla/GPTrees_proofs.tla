--------------------------- MODULE GPTrees_proofs ---------------------------
(***************************************************************************)
(* Proofs about GPTrees: paths, the nodes of a tree, what the operations   *)
(* on trees make of it, the trees that construction_method returns, the    *)
(* order in which pickNthNode meets the nodes, and the properties of a     *)
(* behaviour.                                                              *)
(***************************************************************************)
EXTENDS GPTrees, ArrayTheorems, FiniteSetTheorems, SequenceTheorems

-----------------------------------------------------------------------------
(* Paths *)

Path == Seq(Nat)

(* A path is the root or hangs one step below another. *)
LEMMA PathCases ==
  ASSUME NEW p \in Path
  PROVE  p = Root \/ \E r \in Path, k \in Nat : p = Append(r, k)
BY SequenceEmptyOrAppend DEF Path, Root

LEMMA PathAppend ==
  ASSUME NEW p \in Path, NEW k \in Nat
  PROVE  /\ Append(p, k) \in Path
         /\ Append(p, k) # Root
         /\ Len(Append(p, k)) = Len(p) + 1
         /\ \A i \in 1..Len(p) : Append(p, k)[i] = p[i]
         /\ Append(p, k)[Len(p) + 1] = k
BY AppendProperties DEF Path, Root

LEMMA PathAppendInjective ==
  ASSUME NEW p \in Path, NEW k \in Nat, NEW q \in Path, NEW l \in Nat,
         Append(p, k) = Append(q, l)
  PROVE  p = q /\ k = l
BY AppendInjective DEF Path

LEMMA RootIsPath == Root \in Path /\ Len(Root) = 0
BY DEF Path, Root

LEMMA PathLen ==
  ASSUME NEW p \in Path
  PROVE  /\ Len(p) \in Nat
         /\ DOMAIN p = 1..Len(p)
         /\ \A i \in 1..Len(p) : p[i] \in Nat
         /\ p \in [1..Len(p) -> Nat]
BY LenProperties, ElementOfSeq DEF Path

(* Induction over paths: a set with the root and, with a path, every path one *)
(* step below it, has every path.                                             *)
LEMMA PathInduction ==
  ASSUME NEW T, Root \in T,
         \A p \in Path, k \in Nat : p \in T => Append(p, k) \in T
  PROVE  \A p \in Path : p \in T
<1> DEFINE N == {n \in Nat : \A p \in Path : Len(p) = n => p \in T}
<1>1. 0 \in N
  <2>1. ASSUME NEW p \in Path, Len(p) = 0
        PROVE  p = Root
    BY <2>1, PathCases, PathAppend, PathLen
  <2>. QED
    BY <2>1
<1>2. ASSUME NEW n \in Nat, n \in N
      PROVE  n + 1 \in N
  <2> SUFFICES ASSUME NEW p \in Path, Len(p) = n + 1
               PROVE  p \in T
    OBVIOUS
  <2>1. p # Root
    BY RootIsPath
  <2>2. PICK r \in Path, k \in Nat : p = Append(r, k)
    BY <2>1, PathCases
  <2>3. Len(r) = n
    BY <2>2, PathAppend, PathLen
  <2>. QED
    BY <1>2, <2>2, <2>3
<1>3. \A n \in Nat : n \in N
  <2> HIDE DEF N
  <2>. QED
    BY <1>1, <1>2, SetInduction
<1>. QED
  BY <1>3, PathLen

LEMMA PathEqual ==
  ASSUME NEW p \in Path, NEW q \in Path, Len(p) = Len(q),
         \A i \in 1..Len(p) : p[i] = q[i]
  PROVE  p = q
BY SeqEqual DEF Path

(* Concatenation *)

LEMMA PathConcat ==
  ASSUME NEW p \in Path, NEW q \in Path
  PROVE  /\ p \o q \in Path
         /\ Len(p \o q) = Len(p) + Len(q)
         /\ \A i \in 1..Len(p) : (p \o q)[i] = p[i]
         /\ \A i \in 1..Len(q) : (p \o q)[Len(p) + i] = q[i]
<1>1. Len(p) \in Nat /\ Len(q) \in Nat
  BY PathLen
<1>2. /\ p \o q \in Path /\ Len(p \o q) = Len(p) + Len(q)
      /\ \A i \in 1 .. Len(p) + Len(q) : (p \o q)[i] = IF i <= Len(p) THEN p[i] ELSE q[i - Len(p)]
  BY ConcatProperties DEF Path
<1>3. ASSUME NEW i \in 1..Len(q)
      PROVE  (p \o q)[Len(p) + i] = q[i]
  <2>1. Len(p) + i \in 1..Len(p) + Len(q) /\ ~(Len(p) + i <= Len(p)) /\ (Len(p) + i) - Len(p) = i
    BY <1>1
  <2>. QED
    BY <1>2, <2>1
<1>. QED
  BY <1>1, <1>2, <1>3

LEMMA ConcatRoot ==
  ASSUME NEW p \in Path
  PROVE  p \o Root = p /\ Root \o p = p
BY ConcatEmptySeq DEF Path, Root

LEMMA ConcatAppend ==
  ASSUME NEW p \in Path, NEW r \in Path, NEW k \in Nat
  PROVE  p \o Append(r, k) = Append(p \o r, k)
<1>1. <<k>> \in Path
  BY DEF Path
<1>2. Append(r, k) = r \o <<k>> /\ Append(p \o r, k) = (p \o r) \o <<k>>
  BY PathConcat, AppendIsConcat DEF Path
<1>. QED
  BY <1>1, <1>2, ConcatAssociative DEF Path

LEMMA ConcatCancel ==
  ASSUME NEW p \in Path, NEW q \in Path, NEW r \in Path, p \o q = p \o r
  PROVE  q = r
BY ConcatSimplifications DEF Path

LEMMA ConcatIsRoot ==
  ASSUME NEW p \in Path, NEW r \in Path, p \o r = Root
  PROVE  p = Root
BY ConcatEqualIffEmpty DEF Path, Root

(* A prefix and what is left without it. *)
LEMMA PrefixIsConcat ==
  ASSUME NEW p \in Path, NEW q \in Path
  PROVE  IsPrefix(p, q) <=> \E r \in Path : q = p \o r
<1>1. Len(p) \in Nat /\ Len(q) \in Nat /\ SubSeq(p, 1, Len(p)) = p
  BY PathLen, SubSeqFull DEF Path
<1>2. ASSUME IsPrefix(p, q)
      PROVE  \E r \in Path : q = p \o r
  <2>1. Len(p) <= Len(q) /\ p = SubSeq(q, 1, Len(p))
    BY <1>1, <1>2 DEF IsPrefix
  <2>2. SubSeq(q, 1, Len(p)) \o SubSeq(q, Len(p) + 1, Len(q)) = SubSeq(q, 1, Len(q))
    <3>1. 1 \in 1..(Len(q) + 1) /\ Len(p) \in (1 - 1)..Len(q) /\ Len(q) \in Len(p)..Len(q)
      BY <1>1, <2>1
    <3>. QED
      BY <3>1, ConcatAdjacentSubSeq DEF Path
  <2>3. SubSeq(q, 1, Len(q)) = q
    BY SubSeqFull DEF Path
  <2>4. \A i \in (Len(p) + 1)..Len(q) : q[i] \in Nat
    BY <1>1, PathLen
  <2>5. SubSeq(q, Len(p) + 1, Len(q)) \in Path
    BY <1>1, <2>4, SubSeqProperties DEF Path
  <2>. QED
    BY <2>1, <2>2, <2>3, <2>5
<1>3. ASSUME NEW r \in Path, q = p \o r
      PROVE  IsPrefix(p, q)
  <2>1. Len(p) <= Len(q)
    BY <1>1, <1>3, PathConcat, PathLen
  <2>2. SubSeq(q, 1, Len(p)) \in Path /\ Len(SubSeq(q, 1, Len(p))) = Len(p)
        /\ \A i \in 1..Len(p) : SubSeq(q, 1, Len(p))[i] = q[i]
    <3>1. \A i \in 1..Len(p) : q[i] \in Nat
      BY <1>1, <2>1, PathLen
    <3>. QED
      BY <1>1, <3>1, SubSeqProperties DEF Path
  <2>3. \A i \in 1..Len(p) : SubSeq(q, 1, Len(p))[i] = p[i]
    BY <1>3, <2>2, PathConcat
  <2>4. SubSeq(q, 1, Len(p)) = p
    BY <2>2, <2>3, PathEqual
  <2>. QED
    BY <1>1, <2>1, <2>4 DEF IsPrefix
<1>. QED
  BY <1>2, <1>3

LEMMA SuffixOfConcat ==
  ASSUME NEW p \in Path, NEW r \in Path
  PROVE  SubSeq(p \o r, Len(p) + 1, Len(p \o r)) = r
<1> DEFINE q == p \o r
           s == SubSeq(q, Len(p) + 1, Len(q))
<1>1. q \in Path /\ Len(q) = Len(p) + Len(r) /\ Len(p) \in Nat /\ Len(r) \in Nat
  BY PathConcat, PathLen
<1>2. \A i \in (Len(p) + 1)..Len(q) : q[i] \in Nat
  <2> HIDE DEF q
  <2>1. \A i \in 1..Len(q) : q[i] \in Nat
    BY <1>1, PathLen
  <2>. QED
    BY <1>1, <2>1
<1>3. s \in Path /\ Len(s) = Len(r) /\ \A i \in 1..Len(r) : s[i] = q[Len(p) + i]
  <2> HIDE DEF q
  <2>1. s \in Path /\ Len(s) = Len(q) - Len(p)
        /\ \A i \in 1..(Len(q) - (Len(p) + 1)) + 1 : s[i] = q[(Len(p) + 1) + i - 1]
    BY <1>1, <1>2, SubSeqProperties DEF Path
  <2>. QED
    BY <1>1, <2>1
<1>4. \A i \in 1..Len(r) : s[i] = r[i]
  BY <1>3, PathConcat
<1>. QED
  <2> HIDE DEF s, q
  <2>1. s = r
    BY <1>3, <1>4, PathEqual
  <2>. QED
    BY <2>1 DEF s, q

(* The prefixes of a path one step below another are those of the other and the other. *)
LEMMA PrefixesOfAppend ==
  ASSUME NEW p \in Path, NEW k \in Nat
  PROVE  /\ DOMAIN Append(p, k) = 1..(Len(p) + 1)
         /\ \A i \in 1..Len(p) : SubSeq(Append(p, k), 1, i - 1) = SubSeq(p, 1, i - 1)
         /\ SubSeq(Append(p, k), 1, Len(p)) = p
<1> DEFINE q == Append(p, k)
<1>1. /\ q \in Path /\ Len(q) = Len(p) + 1 /\ Len(p) \in Nat
      /\ \A i \in 1..Len(p) : q[i] = p[i] /\ p[i] \in Nat
      /\ DOMAIN q = 1..Len(q)
  BY PathAppend, PathLen
<1> HIDE DEF q
<1>2. ASSUME NEW i \in 1..(Len(p) + 1)
      PROVE  SubSeq(q, 1, i - 1) = SubSeq(p, 1, i - 1)
  <2>1. \A j \in 1..(i - 1) : q[j] = p[j] /\ p[j] \in Nat /\ q[j] \in Nat
    BY <1>1
  <2> DEFINE s == SubSeq(q, 1, i - 1)
             u == SubSeq(p, 1, i - 1)
  <2>2. s \in Path /\ Len(s) = i - 1 /\ \A j \in 1..(i - 1) : s[j] = q[j]
    BY <1>1, <2>1, SubSeqProperties DEF Path
  <2>3. u \in Path /\ Len(u) = i - 1 /\ \A j \in 1..(i - 1) : u[j] = p[j]
    BY <1>1, <2>1, SubSeqProperties DEF Path
  <2>4. s = u
    <3> HIDE DEF s, u
    <3>. QED
      BY <2>1, <2>2, <2>3, PathEqual
  <2>. QED
    BY <2>4
<1>3. SubSeq(q, 1, Len(p)) = SubSeq(p, 1, Len(p))
  <2>1. Len(p) + 1 \in 1..(Len(p) + 1) /\ (Len(p) + 1) - 1 = Len(p)
    BY <1>1
  <2>. QED
    BY <1>2, <2>1
<1>4. SubSeq(p, 1, Len(p)) = p
  BY SubSeqFull DEF Path
<1>. QED
  BY <1>1, <1>2, <1>3, <1>4 DEF q

-----------------------------------------------------------------------------
(* Finite sets of numbers *)

(* A finite set of naturals that is not empty has a greatest member. *)
LEMMA GreatestNatural ==
  ASSUME NEW S \in SUBSET Nat, S # {}, IsFiniteSet(S)
  PROVE  /\ Max(S) \in S
         /\ \A x \in S : x <= Max(S)
<1> DEFINE Bounded(n) == \A f \in [1..n -> Nat] : \E b \in Nat : \A i \in 1..n : f[i] <= b
           T == {n \in Nat : Bounded(n)}
<1>1. Bounded(0)
  OBVIOUS
<1>2. ASSUME NEW n \in Nat, Bounded(n)
      PROVE  Bounded(n + 1)
  <2> SUFFICES ASSUME NEW f \in [1..(n + 1) -> Nat]
               PROVE  \E b \in Nat : \A i \in 1..(n + 1) : f[i] <= b
    OBVIOUS
  <2> DEFINE g == [j \in 1..n |-> f[j]]
  <2>1. g \in [1..n -> Nat] /\ \A j \in 1..n : g[j] = f[j]
    OBVIOUS
  <2>2. PICK b \in Nat : \A i \in 1..n : g[i] <= b
    <3> HIDE DEF g
    <3>. QED
      BY <1>2, <2>1
  <2>3. \A i \in 1..n : f[i] <= b /\ f[i] \in Nat
    BY <2>1, <2>2
  <2>4. f[n + 1] \in Nat /\ \A i \in 1..(n + 1) : i \in 1..n \/ i = n + 1
    OBVIOUS
  <2>5. CASE f[n + 1] <= b
    BY <2>3, <2>4, <2>5
  <2>6. CASE ~(f[n + 1] <= b)
    <3>1. \A i \in 1..(n + 1) : f[i] <= f[n + 1]
      BY <2>3, <2>4, <2>6
    <3>. QED
      BY <2>4, <3>1
  <2>. QED
    BY <2>5, <2>6
<1>3. \A n \in Nat : Bounded(n)
  <2> HIDE DEF Bounded
  <2>1. 0 \in T /\ \A n \in Nat : n \in T => n + 1 \in T
    BY <1>1, <1>2
  <2>2. \A n \in Nat : n \in T
    <3> HIDE DEF T
    <3>. QED
      BY <2>1, SetInduction
  <2>. QED
    BY <2>2
<1>4. \E b \in Nat : \A x \in S : x <= b
  <2>1. PICK n \in Nat : ExistsSurjection(1..n, S)
    BY FS_NatSurjection
  <2>2. PICK f \in [1..n -> S] : \A x \in S : \E i \in 1..n : f[i] = x
    BY <2>1 DEF ExistsSurjection, Surjection
  <2>3. f \in [1..n -> Nat]
    OBVIOUS
  <2>. QED
    BY <1>3, <2>2, <2>3
<1> DEFINE B == {b \in Nat : \A x \in S : x <= b}
<1>5. PICK b \in B : \A c \in B : b <= c
  <2>1. B \subseteq Nat /\ B # {}
    BY <1>4
  <2> HIDE DEF B
  <2>. QED
    BY <2>1, LeastNatural
<1>6. b \in S
  <2> SUFFICES ASSUME b \notin S
               PROVE  FALSE
    OBVIOUS
  <2>1. \A x \in S : x <= b - 1 /\ x \in Nat
    OBVIOUS
  <2>2. b - 1 \in Nat
    <3>1. PICK x : x \in S
      OBVIOUS
    <3>2. x \in Nat /\ x <= b - 1
      BY <2>1, <3>1
    <3>. QED
      BY <3>2
  <2>3. b - 1 \in B
    BY <2>1, <2>2
  <2>. QED
    BY <1>5, <2>3
<1>7. \E x \in S : \A y \in S : x >= y
  BY <1>6
<1>. QED
  BY <1>7 DEF Max

(* of two *)
LEMMA GreaterOfTwo ==
  ASSUME NEW a \in Nat, NEW b \in Nat
  PROVE  Max({a, b}) \in Nat /\ a <= Max({a, b}) /\ b <= Max({a, b})
<1>1. {a, b} \in SUBSET Nat /\ {a, b} # {} /\ IsFiniteSet({a, b})
  <2>1. {a, b} = {a} \cup {b}
    OBVIOUS
  <2>2. IsFiniteSet({a} \cup {b})
    BY FS_Singleton, FS_AddElement
  <2>. QED
    BY <2>1, <2>2
<1> DEFINE S == {a, b}
<1>2. a \in S /\ b \in S
  OBVIOUS
<1> HIDE DEF S
<1>. QED
  BY <1>1, <1>2, GreatestNatural DEF S

LEMMA LesserOfTwo ==
  ASSUME NEW a \in Nat, NEW b \in Nat
  PROVE  Min({a, b}) \in {a, b} /\ Min({a, b}) <= a /\ Min({a, b}) <= b
<1>1. \E x \in {a, b} : \A y \in {a, b} : x <= y
  OBVIOUS
<1>. QED
  BY <1>1 DEF Min

(* The image of a finite set under a function is finite. *)
LEMMA FiniteImage ==
  ASSUME NEW S, IsFiniteSet(S), NEW f, DOMAIN f = S
  PROVE  IsFiniteSet({f[x] : x \in S})
<1> DEFINE T == {f[x] : x \in S}
           g == [x \in S |-> f[x]]
<1>1. g \in Surjection(S, T)
  BY DEF Surjection
<1>2. IsFiniteSet(T)
  <2> HIDE DEF T, g
  <2>. QED
    BY <1>1, FS_Surjection
<1>. QED
  BY <1>2

-----------------------------------------------------------------------------
(* Trees *)

(* A tree whose operations have their arities in A, said of each node and its *)
(* neighbours only: every argument is there, and what else hangs at a node is *)
(* the first child pointer of a terminal.                                     *)
Tree(t, A) ==
  /\ t = [p \in DOMAIN t |-> t[p]]
  /\ IsFiniteSet(DOMAIN t)
  /\ DOMAIN t \subseteq Path
  /\ Root \in DOMAIN t
  /\ \A p \in DOMAIN t :
       /\ t[p] \in {0} \cup A
       /\ \A k \in 0..(t[p] - 1) : Append(p, k) \in DOMAIN t
  /\ \A p \in Path, k \in Nat :
       Append(p, k) \in DOMAIN t => p \in DOMAIN t /\ (k < t[p] \/ (k = 0 /\ t[p] = 0))

(* the sets that arities may be *)
Arities == SUBSET (1..2) \ {{}}

(* The nodes of a tree: the root, and of each the children up to its arity. *)
LEMMA NodesOfTree ==
  ASSUME NEW A \in Arities, NEW t, Tree(t, A)
  PROVE  /\ Nodes(t) \subseteq DOMAIN t
         /\ Nodes(t) \subseteq Path
         /\ IsFiniteSet(Nodes(t))
         /\ Root \in Nodes(t)
         /\ \A p \in Nodes(t) : t[p] \in 0..2
         /\ \A p \in Path, k \in Nat : Append(p, k) \in Nodes(t) <=> p \in Nodes(t) /\ k < t[p]
<1>1. Nodes(t) \subseteq DOMAIN t /\ DOMAIN t \subseteq Path /\ IsFiniteSet(DOMAIN t)
  BY DEF Nodes, Tree
<1>2. IsFiniteSet(Nodes(t))
  BY <1>1, FS_Subset
<1>3. Root \in Nodes(t)
  <2>1. DOMAIN Root = {}
    BY RootIsPath, PathLen
  <2>. QED
    BY <2>1 DEF Nodes, Tree
<1>4. \A p \in DOMAIN t : t[p] \in 0..2
  BY DEF Tree, Arities
<1>5. ASSUME NEW p \in Path, NEW k \in Nat
      PROVE  Append(p, k) \in Nodes(t) <=> p \in Nodes(t) /\ k < t[p]
  <2> DEFINE q == Append(p, k)
  <2>1. /\ DOMAIN q = 1..(Len(p) + 1) /\ DOMAIN p = 1..Len(p) /\ Len(p) \in Nat
        /\ \A i \in 1..Len(p) : SubSeq(q, 1, i - 1) = SubSeq(p, 1, i - 1) /\ q[i] = p[i]
        /\ SubSeq(q, 1, (Len(p) + 1) - 1) = p /\ q[Len(p) + 1] = k
    <3>1. (Len(p) + 1) - 1 = Len(p)
      BY PathLen
    <3>. QED
      BY <3>1, PrefixesOfAppend, PathAppend, PathLen
  <2> HIDE DEF q
  <2>2. (\A i \in DOMAIN q : q[i] < t[SubSeq(q, 1, i - 1)])
          <=> (\A i \in DOMAIN p : p[i] < t[SubSeq(p, 1, i - 1)]) /\ k < t[p]
    <3>1. \A i \in 1..(Len(p) + 1) : i \in 1..Len(p) \/ i = Len(p) + 1
      BY <2>1
    <3>2. 1..Len(p) \subseteq 1..(Len(p) + 1) /\ Len(p) + 1 \in 1..(Len(p) + 1)
      BY <2>1
    <3>. QED
      BY <2>1, <3>1, <3>2
  <2>3. q \in DOMAIN t => p \in DOMAIN t
    BY DEF Tree, q
  <2>4. p \in DOMAIN t /\ k < t[p] => q \in DOMAIN t
    <3> SUFFICES ASSUME p \in DOMAIN t, k < t[p]
                 PROVE  q \in DOMAIN t
      OBVIOUS
    <3>1. k \in 0..(t[p] - 1)
      BY <1>4
    <3>. QED
      BY <3>1 DEF Tree, q
  <2>5. q \in Nodes(t) <=> q \in DOMAIN t /\ \A i \in DOMAIN q : q[i] < t[SubSeq(q, 1, i - 1)]
    BY DEF Nodes
  <2>6. p \in Nodes(t) <=> p \in DOMAIN t /\ \A i \in DOMAIN p : p[i] < t[SubSeq(p, 1, i - 1)]
    BY DEF Nodes
  <2>. QED
    BY <2>2, <2>3, <2>4, <2>5, <2>6 DEF q
<1>. QED
  BY <1>1, <1>2, <1>3, <1>4, <1>5

(* Whatever hangs in a tree out of reach does so below the first child pointer *)
(* of a terminal.                                                              *)
LEMMA HiddenInTree ==
  ASSUME NEW A \in Arities, NEW t, Tree(t, A), NEW p \in DOMAIN t \ Nodes(t)
  PROVE  \E k \in DOMAIN p : p[k] = 0 /\ t[SubSeq(p, 1, k - 1)] = 0
<1> DEFINE T == {q \in Path : q \in DOMAIN t => \A k \in DOMAIN q :
                   q[k] < t[SubSeq(q, 1, k - 1)] \/ (q[k] = 0 /\ t[SubSeq(q, 1, k - 1)] = 0)}
<1>1. Root \in T
  <2>1. DOMAIN Root = {} /\ Root \in Path
    BY RootIsPath, PathLen
  <2>. QED
    BY <2>1
<1>2. ASSUME NEW q \in Path, NEW l \in Nat, q \in T
      PROVE  Append(q, l) \in T
  <2> DEFINE u == Append(q, l)
  <2> SUFFICES ASSUME u \in DOMAIN t, NEW k \in DOMAIN u
               PROVE  u[k] < t[SubSeq(u, 1, k - 1)] \/ (u[k] = 0 /\ t[SubSeq(u, 1, k - 1)] = 0)
    BY PathAppend
  <2>1. q \in DOMAIN t /\ (l < t[q] \/ (l = 0 /\ t[q] = 0))
    BY DEF Tree
  <2>2. /\ DOMAIN u = 1..(Len(q) + 1) /\ DOMAIN q = 1..Len(q) /\ Len(q) \in Nat
        /\ \A i \in 1..Len(q) : SubSeq(u, 1, i - 1) = SubSeq(q, 1, i - 1) /\ u[i] = q[i]
        /\ SubSeq(u, 1, (Len(q) + 1) - 1) = q /\ u[Len(q) + 1] = l
    <3>1. (Len(q) + 1) - 1 = Len(q)
      BY PathLen
    <3>. QED
      BY <3>1, PrefixesOfAppend, PathAppend, PathLen
  <2>3. k \in 1..Len(q) \/ k = Len(q) + 1
    BY <2>2
  <2> HIDE DEF u
  <2>4. CASE k \in 1..Len(q)
    <3>1. q[k] < t[SubSeq(q, 1, k - 1)] \/ (q[k] = 0 /\ t[SubSeq(q, 1, k - 1)] = 0)
      BY <1>2, <2>1, <2>2, <2>4
    <3>. QED
      BY <2>2, <2>4, <3>1
  <2>5. CASE k = Len(q) + 1
    BY <2>1, <2>2, <2>5
  <2>. QED
    BY <2>3, <2>4, <2>5
<1>3. \A q \in Path : q \in T
  <2> HIDE DEF T
  <2>. QED
    BY <1>1, <1>2, PathInduction
<1>4. p \in Path /\ \E k \in DOMAIN p : ~(p[k] < t[SubSeq(p, 1, k - 1)])
  BY DEF Nodes, Tree
<1>. QED
  BY <1>3, <1>4

LEMMA LeafIsTree ==
  ASSUME NEW A \in Arities
  PROVE  Tree(Leaf, A) /\ Nodes(Leaf) = {Root}
<1>1. DOMAIN Leaf = {Root} /\ Leaf[Root] = 0 /\ Leaf = [p \in DOMAIN Leaf |-> Leaf[p]]
  BY DEF Leaf
<1>2. IsFiniteSet({Root})
  BY FS_Singleton
<1>3. \A p \in Path, k \in Nat : Append(p, k) \notin DOMAIN Leaf
  BY <1>1, PathAppend
<1>4. Tree(Leaf, A)
  <2>1. \A k \in 0..(Leaf[Root] - 1) : FALSE
    BY <1>1
  <2>. QED
    BY <1>1, <1>2, <1>3, <2>1, RootIsPath DEF Tree
<1>5. Nodes(Leaf) = {Root}
  BY <1>1, <1>4, NodesOfTree
<1>. QED
  BY <1>4, <1>5

(* depthOfTree is one more than the length of the longest path to a node. *)
LEMMA DepthOfTree ==
  ASSUME NEW A \in Arities, NEW t, Tree(t, A)
  PROVE  /\ depthOfTree(t) \in Nat \ {0}
         /\ \A p \in Nodes(t) : Len(p) < depthOfTree(t)
         /\ \E p \in Nodes(t) : Len(p) + 1 = depthOfTree(t)
<1> DEFINE N == Nodes(t)
           S == {Len(p) : p \in N}
           f == [p \in N |-> Len(p)]
<1>1. N \subseteq Path /\ Root \in N /\ IsFiniteSet(N)
  BY NodesOfTree
<1>2. S = {f[p] : p \in N} /\ DOMAIN f = N
  OBVIOUS
<1>3. IsFiniteSet(S)
  <2> HIDE DEF f, S, N
  <2>. QED
    BY <1>1, <1>2, FiniteImage
<1>4. S \in SUBSET Nat /\ S # {}
  <2> HIDE DEF N
  <2>. QED
    BY <1>1, PathLen
<1>5. Max(S) \in S /\ \A x \in S : x <= Max(S)
  <2> HIDE DEF S
  <2>. QED
    BY <1>3, <1>4, GreatestNatural
<1>6. depthOfTree(t) = 1 + Max(S)
  BY DEF depthOfTree
<1> DEFINE m == Max(S)
<1>7. m \in Nat /\ (\E p \in N : Len(p) = m) /\ \A p \in N : Len(p) <= m /\ Len(p) \in Nat
  <2>1. \A p \in N : Len(p) \in S
    OBVIOUS
  <2>2. \E p \in N : Len(p) = m
    BY <1>5
  <2> HIDE DEF S, N
  <2>. QED
    BY <1>4, <1>5, <2>1, <2>2
<1> HIDE DEF m, N, S
<1>8. depthOfTree(t) = 1 + m
  BY <1>6 DEF m
<1>. QED
  BY <1>7, <1>8 DEF N

(* bounded by what bounds the nodes *)
LEMMA DepthBound ==
  ASSUME NEW A \in Arities, NEW t, Tree(t, A), NEW d \in Nat, \A p \in Nodes(t) : Len(p) < d
  PROVE  depthOfTree(t) <= d
<1>1. PICK p \in Nodes(t) : Len(p) + 1 = depthOfTree(t)
  BY DepthOfTree
<1>2. Len(p) \in Nat /\ Len(p) < d
  BY NodesOfTree, PathLen
<1>. QED
  BY <1>1, <1>2

-----------------------------------------------------------------------------
(* Subtrees *)

LEMMA PrefixOfAppend ==
  ASSUME NEW p \in Path, NEW q \in Path, NEW k \in Nat
  PROVE  IsPrefix(p, Append(q, k)) <=> IsPrefix(p, q) \/ p = Append(q, k)
<1>1. ASSUME IsPrefix(p, Append(q, k))
      PROVE  IsPrefix(p, q) \/ p = Append(q, k)
  <2>1. PICK r \in Path : Append(q, k) = p \o r
    BY <1>1, PrefixIsConcat, PathAppend
  <2>2. CASE r = Root
    BY <2>1, <2>2, ConcatRoot
  <2>3. CASE \E u \in Path, l \in Nat : r = Append(u, l)
    <3>1. PICK u \in Path, l \in Nat : r = Append(u, l)
      BY <2>3
    <3>2. p \o Append(u, l) = Append(p \o u, l)
      BY ConcatAppend
    <3>3. p \o u \in Path
      BY PathConcat
    <3>4. Append(q, k) = Append(p \o u, l)
      BY <2>1, <3>1, <3>2
    <3>5. q = p \o u
      BY <3>3, <3>4, PathAppendInjective
    <3>. QED
      BY <3>5, PrefixIsConcat
  <2>. QED
    BY <2>2, <2>3, PathCases
<1>2. ASSUME IsPrefix(p, q)
      PROVE  IsPrefix(p, Append(q, k))
  <2>1. PICK r \in Path : q = p \o r
    BY <1>2, PrefixIsConcat
  <2>2. Append(q, k) = p \o Append(r, k) /\ Append(r, k) \in Path /\ Append(q, k) \in Path
    BY <2>1, ConcatAppend, PathAppend
  <2>. QED
    BY <2>2, PrefixIsConcat
<1>3. ASSUME p = Append(q, k)
      PROVE  IsPrefix(p, Append(q, k))
  <2>1. Append(q, k) = p \o Root
    BY <1>3, ConcatRoot
  <2>. QED
    BY <2>1, RootIsPath, PathAppend, PrefixIsConcat
<1>. QED
  BY <1>1, <1>2, <1>3

(* A subtree is the tree seen from one of its paths. *)
LEMMA SubtreeAt ==
  ASSUME NEW A \in Arities, NEW t, Tree(t, A), NEW p \in Path
  PROVE  /\ DOMAIN Subtree(t, p) = {r \in Path : p \o r \in DOMAIN t}
         /\ IsFiniteSet(DOMAIN Subtree(t, p))
         /\ Subtree(t, p) = [r \in DOMAIN Subtree(t, p) |-> Subtree(t, p)[r]]
         /\ \A r \in DOMAIN Subtree(t, p) : Subtree(t, p)[r] = t[p \o r]
<1> DEFINE R == {r \in DOMAIN t : IsPrefix(p, r)}
           f == [r \in R |-> SubSeq(r, Len(p) + 1, Len(r))]
           D == {SubSeq(r, Len(p) + 1, Len(r)) : r \in R}
<1>1. DOMAIN t \subseteq Path /\ IsFiniteSet(DOMAIN t)
  BY DEF Tree
<1>2. Subtree(t, p) = [q \in D |-> t[p \o q]]
  BY DEF Subtree
<1>3. D = {r \in Path : p \o r \in DOMAIN t}
  <2>1. ASSUME NEW r \in R
        PROVE  SubSeq(r, Len(p) + 1, Len(r)) \in Path /\ p \o SubSeq(r, Len(p) + 1, Len(r)) \in DOMAIN t
    <3>1. PICK u \in Path : r = p \o u
      BY <1>1, PrefixIsConcat
    <3>2. SubSeq(r, Len(p) + 1, Len(r)) = u
      BY <3>1, SuffixOfConcat
    <3>. QED
      BY <3>1, <3>2
  <2>2. ASSUME NEW r \in Path, p \o r \in DOMAIN t
        PROVE  p \o r \in R /\ r = SubSeq(p \o r, Len(p) + 1, Len(p \o r))
    BY <1>1, <2>2, PrefixIsConcat, SuffixOfConcat
  <2> HIDE DEF R
  <2>. QED
    BY <2>1, <2>2
<1>4. IsFiniteSet(D)
  <2>1. IsFiniteSet(R)
    BY <1>1, FS_Subset
  <2>2. D = {f[r] : r \in R} /\ DOMAIN f = R
    OBVIOUS
  <2> HIDE DEF R, f, D
  <2>. QED
    BY <2>1, <2>2, FiniteImage
<1> DEFINE s == Subtree(t, p)
<1>5. s = [q \in D |-> t[p \o q]]
  BY <1>2
<1> HIDE DEF s, D
<1>6. DOMAIN s = D
  BY <1>5
<1>7. s = [r \in DOMAIN s |-> s[r]] /\ \A r \in DOMAIN s : s[r] = t[p \o r]
  BY <1>5
<1>8. IsFiniteSet(DOMAIN s) /\ DOMAIN s = {r \in Path : p \o r \in DOMAIN t}
  BY <1>3, <1>4, <1>6
<1>. QED
  BY <1>7, <1>8 DEF s

LEMMA SubtreeIsTree ==
  ASSUME NEW A \in Arities, NEW t, Tree(t, A), NEW p \in DOMAIN t
  PROVE  Tree(Subtree(t, p), A)
<1> DEFINE s == Subtree(t, p)
<1>1. p \in Path
  BY DEF Tree
<1>2. /\ DOMAIN s = {r \in Path : p \o r \in DOMAIN t} /\ IsFiniteSet(DOMAIN s)
  BY <1>1, SubtreeAt
<1>3. \A r \in DOMAIN s : s[r] = t[p \o r]
  BY <1>1, SubtreeAt
<1>4. s = [r \in DOMAIN s |-> s[r]]
  BY <1>1, SubtreeAt
<1> HIDE DEF s
<1>5. DOMAIN s \subseteq Path /\ Root \in DOMAIN s
  BY <1>1, <1>2, RootIsPath, ConcatRoot
<1>6. ASSUME NEW r \in DOMAIN s
      PROVE  /\ s[r] \in {0} \cup A
             /\ \A k \in 0..(s[r] - 1) : Append(r, k) \in DOMAIN s
  <2>1. r \in Path /\ p \o r \in DOMAIN t /\ s[r] = t[p \o r]
    BY <1>2, <1>3
  <2>2. t[p \o r] \in {0} \cup A /\ \A k \in 0..(t[p \o r] - 1) : Append(p \o r, k) \in DOMAIN t
    BY <2>1 DEF Tree
  <2>3. ASSUME NEW k \in 0..(s[r] - 1)
        PROVE  Append(r, k) \in DOMAIN s
    <3>1. k \in Nat
      OBVIOUS
    <3>2. p \o Append(r, k) \in DOMAIN t
      BY <1>1, <2>1, <2>2, <3>1, ConcatAppend
    <3>. QED
      BY <1>2, <2>1, <3>1, <3>2, PathAppend
  <2>. QED
    BY <2>1, <2>2, <2>3
<1>7. ASSUME NEW r \in Path, NEW k \in Nat, Append(r, k) \in DOMAIN s
      PROVE  r \in DOMAIN s /\ (k < s[r] \/ (k = 0 /\ s[r] = 0))
  <2>1. Append(p \o r, k) \in DOMAIN t /\ p \o r \in Path
    <3>1. p \o Append(r, k) \in DOMAIN t
      BY <1>2, <1>7
    <3>2. p \o Append(r, k) = Append(p \o r, k)
      BY <1>1, ConcatAppend
    <3>3. p \o r \in Path
      BY <1>1, PathConcat
    <3>. QED
      BY <3>1, <3>2, <3>3
  <2>2. p \o r \in DOMAIN t /\ (k < t[p \o r] \/ (k = 0 /\ t[p \o r] = 0))
    BY <2>1 DEF Tree
  <2>. QED
    BY <1>2, <1>3, <2>2
<1>8. Tree(s, A)
  BY <1>2, <1>4, <1>5, <1>6, <1>7 DEF Tree
<1>. QED
  BY <1>8 DEF s

(* The nodes of the subtree of a node are the nodes at or below it. *)
LEMMA NodesOfSubtree ==
  ASSUME NEW A \in Arities, NEW t, Tree(t, A), NEW p \in Nodes(t), NEW r \in Path
  PROVE  r \in Nodes(Subtree(t, p)) <=> p \o r \in Nodes(t)
<1> DEFINE s == Subtree(t, p)
           T == {u \in Path : u \in Nodes(s) <=> p \o u \in Nodes(t)}
<1>1. p \in Path /\ p \in DOMAIN t
  BY NodesOfTree
<1>2. Tree(s, A) /\ DOMAIN s = {u \in Path : p \o u \in DOMAIN t}
      /\ \A u \in DOMAIN s : s[u] = t[p \o u]
  BY <1>1, SubtreeAt, SubtreeIsTree
<1> HIDE DEF s
<1>3. Root \in T
  BY <1>1, <1>2, NodesOfTree, ConcatRoot, RootIsPath
<1>4. ASSUME NEW u \in Path, NEW k \in Nat, u \in T
      PROVE  Append(u, k) \in T
  <2>1. p \o Append(u, k) = Append(p \o u, k) /\ p \o u \in Path
    BY <1>1, ConcatAppend, PathConcat
  <2>2. Append(u, k) \in Nodes(s) <=> u \in Nodes(s) /\ k < s[u]
    BY <1>2, NodesOfTree
  <2>3. Append(p \o u, k) \in Nodes(t) <=> p \o u \in Nodes(t) /\ k < t[p \o u]
    BY <2>1, NodesOfTree
  <2>4. u \in Nodes(s) => s[u] = t[p \o u]
    BY <1>2, NodesOfTree
  <2>5. u \in Nodes(s) <=> p \o u \in Nodes(t)
    BY <1>4
  <2>. QED
    BY <2>1, <2>2, <2>3, <2>4, <2>5, PathAppend
<1>5. \A u \in Path : u \in T
  <2> HIDE DEF T
  <2>. QED
    BY <1>3, <1>4, PathInduction
<1>. QED
  BY <1>5 DEF s

-----------------------------------------------------------------------------
(* Grafts *)

(* what is left of t when what hangs at p is cut off, and where a graft goes *)
Kept(t, p) == {q \in DOMAIN t : ~IsPrefix(p, q)}
Hung(p, s) == {p \o r : r \in DOMAIN s}

(* g is t where it is kept and s where it was hung at p *)
IsGraft(g, t, p, s) ==
  /\ DOMAIN g = Kept(t, p) \cup Hung(p, s)
  /\ IsFiniteSet(DOMAIN g)
  /\ g = [q \in DOMAIN g |-> g[q]]
  /\ \A q \in Kept(t, p) : g[q] = t[q]
  /\ \A r \in DOMAIN s : g[p \o r] = s[r]

LEMMA GraftedAt ==
  ASSUME NEW A \in Arities, NEW t, Tree(t, A), NEW s, Tree(s, A), NEW p \in Path
  PROVE  IsGraft(Grafted(t, p, s), t, p, s)
<1> DEFINE f == [r \in DOMAIN s |-> p \o r]
           g == Grafted(t, p, s)
<1>1. /\ DOMAIN t \subseteq Path /\ IsFiniteSet(DOMAIN t)
      /\ DOMAIN s \subseteq Path /\ IsFiniteSet(DOMAIN s)
  BY DEF Tree
<1>2. DOMAIN Cut(t, p) = Kept(t, p)
  BY DEF Cut, Kept
<1>3. g = [q \in Kept(t, p) \cup Hung(p, s) |->
             IF q \in Kept(t, p) THEN t[q] ELSE s[SubSeq(q, Len(p) + 1, Len(q))]]
  BY <1>2 DEF Grafted, Hung
<1> HIDE DEF g
<1>4. IsFiniteSet(Kept(t, p))
  BY <1>1, FS_Subset DEF Kept
<1>5. IsFiniteSet(Hung(p, s))
  <2>1. Hung(p, s) = {f[r] : r \in DOMAIN s} /\ DOMAIN f = DOMAIN s
    BY DEF Hung
  <2> HIDE DEF f
  <2>. QED
    BY <1>1, <2>1, FiniteImage
<1>6. IsFiniteSet(Kept(t, p) \cup Hung(p, s))
  BY <1>4, <1>5, FS_Union
<1>7. ASSUME NEW r \in DOMAIN s
      PROVE  /\ p \o r \in Hung(p, s) /\ p \o r \notin Kept(t, p)
             /\ SubSeq(p \o r, Len(p) + 1, Len(p \o r)) = r
  <2>1. r \in Path /\ p \o r \in Path
    BY <1>1, PathConcat
  <2>2. IsPrefix(p, p \o r)
    BY <2>1, PrefixIsConcat
  <2>. QED
    BY <2>1, <2>2, SuffixOfConcat DEF Kept, Hung
<1>8. \A q \in Kept(t, p) : g[q] = t[q]
  BY <1>3
<1>9. \A r \in DOMAIN s : g[p \o r] = s[r]
  BY <1>3, <1>7
<1>10. DOMAIN g = Kept(t, p) \cup Hung(p, s) /\ g = [q \in DOMAIN g |-> g[q]]
  BY <1>3
<1>11. IsGraft(g, t, p, s)
  BY <1>6, <1>8, <1>9, <1>10 DEF IsGraft
<1>. QED
  BY <1>11 DEF g

(* the paths at which a tree may be hung into t *)
Graftable(t, p) ==
  \/ p = Root
  \/ \E r \in DOMAIN t, k \in Nat : p = Append(r, k) /\ (k < t[r] \/ (k = 0 /\ t[r] = 0))

LEMMA GraftedIsTree ==
  ASSUME NEW A \in Arities, NEW t, Tree(t, A), NEW s, Tree(s, A), NEW p \in Path, Graftable(t, p)
  PROVE  Tree(Grafted(t, p, s), A)
<1> DEFINE g == Grafted(t, p, s)
           old == Kept(t, p)
           new == Hung(p, s)
<1>1. IsGraft(g, t, p, s)
  BY GraftedAt
<1> HIDE DEF g
<1>2. DOMAIN g = old \cup new /\ IsFiniteSet(DOMAIN g) /\ g = [q \in DOMAIN g |-> g[q]]
  BY <1>1 DEF IsGraft
<1>3. \A q \in old : g[q] = t[q]
  BY <1>1 DEF IsGraft
<1>4. \A r \in DOMAIN s : g[p \o r] = s[r]
  BY <1>1 DEF IsGraft
<1>5. DOMAIN t \subseteq Path /\ DOMAIN s \subseteq Path /\ Root \in DOMAIN t /\ Root \in DOMAIN s
  BY DEF Tree
<1>6. DOMAIN g \subseteq Path
  <2>1. \A r \in DOMAIN s : p \o r \in Path
    BY <1>5, PathConcat
  <2>. QED
    BY <1>2, <1>5, <2>1 DEF Kept, Hung
<1>7. p \in new
  BY <1>5, ConcatRoot DEF Hung
<1>8. Root \in DOMAIN g
  <2>1. CASE IsPrefix(p, Root)
    <3>1. PICK r \in Path : Root = p \o r
      BY <2>1, PrefixIsConcat, RootIsPath
    <3>2. p = Root
      BY <3>1, ConcatIsRoot
    <3>. QED
      BY <1>2, <1>7, <3>2
  <2>2. CASE ~IsPrefix(p, Root)
    BY <1>2, <1>5, <2>2 DEF Kept
  <2>. QED
    BY <2>1, <2>2
<1> USE DEF Kept, Hung
<1>9. ASSUME NEW q \in old
      PROVE  /\ g[q] \in {0} \cup A
             /\ \A k \in 0..(g[q] - 1) : Append(q, k) \in DOMAIN g
  <2>1. t[q] \in {0} \cup A /\ \A k \in 0..(t[q] - 1) : Append(q, k) \in DOMAIN t
    BY DEF Tree
  <2>2. ASSUME NEW k \in 0..(t[q] - 1)
        PROVE  Append(q, k) \in old \cup new
    <3>1. q \in Path /\ k \in Nat /\ ~IsPrefix(p, q)
      BY <1>5
    <3>2. IsPrefix(p, Append(q, k)) => p = Append(q, k)
      BY <3>1, PrefixOfAppend
    <3>3. Append(q, k) \in DOMAIN t
      BY <2>1
    <3>. QED
      BY <1>7, <3>2, <3>3
  <2>. QED
    BY <1>2, <1>3, <2>1, <2>2
<1>10. ASSUME NEW r \in DOMAIN s
       PROVE  /\ g[p \o r] \in {0} \cup A
              /\ \A k \in 0..(g[p \o r] - 1) : Append(p \o r, k) \in DOMAIN g
  <2>1. s[r] \in {0} \cup A /\ \A k \in 0..(s[r] - 1) : Append(r, k) \in DOMAIN s
    BY DEF Tree
  <2>2. ASSUME NEW k \in 0..(s[r] - 1)
        PROVE  Append(p \o r, k) \in new
    <3>1. r \in Path /\ k \in Nat
      BY <1>5
    <3>2. p \o Append(r, k) = Append(p \o r, k)
      BY <3>1, ConcatAppend
    <3>. QED
      BY <2>1, <3>2
  <2>. QED
    BY <1>2, <1>4, <2>1, <2>2
<1>11. ASSUME NEW q \in Path, NEW k \in Nat, Append(q, k) \in DOMAIN g
       PROVE  q \in DOMAIN g /\ (k < g[q] \/ (k = 0 /\ g[q] = 0))
  <2>1. ASSUME q \in old, k < t[q] \/ (k = 0 /\ t[q] = 0)
        PROVE  q \in DOMAIN g /\ (k < g[q] \/ (k = 0 /\ g[q] = 0))
    BY <1>2, <1>3, <2>1
  <2>2. CASE Append(q, k) \in old
    <3>1. q \in DOMAIN t /\ (k < t[q] \/ (k = 0 /\ t[q] = 0))
      BY <2>2 DEF Tree
    <3>2. ~IsPrefix(p, q)
      BY <2>2, PrefixOfAppend
    <3>. QED
      BY <2>1, <3>1, <3>2
  <2>3. CASE Append(q, k) \in new
    <3>1. PICK r \in DOMAIN s : Append(q, k) = p \o r
      BY <2>3
    <3>2. CASE r = Root
      <4>1. p = Append(q, k)
        BY <3>1, <3>2, ConcatRoot
      <4>2. PICK u \in DOMAIN t, l \in Nat : p = Append(u, l) /\ (l < t[u] \/ (l = 0 /\ t[u] = 0))
        BY <4>1, PathAppend DEF Graftable
      <4>3. u = q /\ l = k
        <5>1. u \in Path /\ Append(u, l) = Append(q, k)
          BY <1>5, <4>1, <4>2
        <5>. QED
          BY <5>1, PathAppendInjective
      <4>4. ~IsPrefix(p, q)
        BY <4>1, PathAppend, PathLen DEF IsPrefix
      <4>. QED
        BY <2>1, <4>2, <4>3, <4>4
    <3>3. CASE \E u \in Path, l \in Nat : r = Append(u, l)
      <4>1. PICK u \in Path, l \in Nat : r = Append(u, l)
        BY <3>3
      <4>2. p \o Append(u, l) = Append(p \o u, l)
        BY ConcatAppend
      <4>3. p \o u \in Path
        BY PathConcat
      <4>4. Append(q, k) = Append(p \o u, l)
        BY <3>1, <4>1, <4>2
      <4>5. q = p \o u /\ k = l
        <5> DEFINE v == p \o u
        <5>1. v \in Path /\ Append(q, k) = Append(v, l)
          BY <4>3, <4>4
        <5> HIDE DEF v
        <5>2. q = v /\ k = l
          BY <5>1, PathAppendInjective
        <5>. QED
          BY <5>2 DEF v
      <4>6. u \in DOMAIN s /\ (l < s[u] \/ (l = 0 /\ s[u] = 0))
        BY <4>1 DEF Tree
      <4>7. p \o u \in new /\ g[p \o u] = s[u]
        BY <1>4, <4>6
      <4>. QED
        BY <1>2, <4>5, <4>6, <4>7
    <3>. QED
      BY <1>5, <3>2, <3>3, PathCases
  <2>. QED
    BY <1>2, <1>11, <2>2, <2>3
<1>12. \A q \in DOMAIN g : g[q] \in {0} \cup A /\ \A k \in 0..(g[q] - 1) : Append(q, k) \in DOMAIN g
  BY <1>2, <1>9, <1>10
<1>13. Tree(g, A)
  BY <1>2, <1>6, <1>8, <1>11, <1>12 DEF Tree
<1>. QED
  BY <1>13 DEF g

(* A node after a graft was one before it, or is one of what was grafted. *)
LEMMA NodesOfGrafted ==
  ASSUME NEW A \in Arities, NEW t, Tree(t, A), NEW s, Tree(s, A), NEW p \in Path, Graftable(t, p),
         NEW q \in Nodes(Grafted(t, p, s))
  PROVE  q \in Nodes(t) \/ \E r \in Nodes(s) : q = p \o r
<1> DEFINE g == Grafted(t, p, s)
           Mixed(u) == (u \in Nodes(t) /\ ~IsPrefix(p, u)) \/ \E r \in Nodes(s) : u = p \o r
           T == {u \in Path : u \in Nodes(g) => Mixed(u)}
<1>1. /\ Tree(g, A) /\ \A u \in DOMAIN t : ~IsPrefix(p, u) => g[u] = t[u]
      /\ \A r \in DOMAIN s : g[p \o r] = s[r]
  <2>1. Tree(g, A) /\ IsGraft(g, t, p, s)
    BY GraftedIsTree, GraftedAt
  <2> HIDE DEF g
  <2>. QED
    BY <2>1 DEF IsGraft, Kept
<1> HIDE DEF g
<1>2. Root \in Nodes(s) /\ Root \in Nodes(t) /\ Nodes(t) \subseteq DOMAIN t
      /\ Nodes(s) \subseteq DOMAIN s /\ Nodes(s) \subseteq Path
  BY NodesOfTree
<1>3. Root \in T
  <2>1. CASE IsPrefix(p, Root)
    <3>1. PICK r \in Path : Root = p \o r
      BY <2>1, PrefixIsConcat, RootIsPath
    <3>2. p = Root
      BY <3>1, ConcatIsRoot
    <3>3. Root = p \o Root
      BY <3>2, RootIsPath, ConcatRoot
    <3>. QED
      BY <1>2, <3>3, RootIsPath
  <2>2. CASE ~IsPrefix(p, Root)
    BY <1>2, <2>2, RootIsPath
  <2>. QED
    BY <2>1, <2>2
<1>4. ASSUME NEW u \in Path, NEW k \in Nat, u \in T, Append(u, k) \in Nodes(g)
      PROVE  Mixed(Append(u, k))
  <2>1. u \in Nodes(g) /\ k < g[u]
    BY <1>1, <1>4, NodesOfTree
  <2>2. CASE u \in Nodes(t) /\ ~IsPrefix(p, u)
    <3>1. k < t[u]
      BY <1>1, <1>2, <2>1, <2>2
    <3>2. Append(u, k) \in Nodes(t)
      BY <2>2, <3>1, NodesOfTree
    <3>3. CASE p = Append(u, k)
      BY <1>2, <3>3, ConcatRoot
    <3>4. CASE p # Append(u, k)
      <4>1. ~IsPrefix(p, Append(u, k))
        BY <2>2, <3>4, PrefixOfAppend
      <4>. QED
        BY <3>2, <4>1
    <3>. QED
      BY <3>3, <3>4
  <2>3. CASE \E r \in Nodes(s) : u = p \o r
    <3>1. PICK r \in Nodes(s) : u = p \o r
      BY <2>3
    <3>2. r \in Path /\ k < s[r]
      BY <1>1, <1>2, <2>1, <3>1
    <3>3. Append(r, k) \in Nodes(s)
      BY <3>2, NodesOfTree
    <3>4. p \o Append(r, k) = Append(u, k)
      BY <3>1, <3>2, ConcatAppend
    <3>. QED
      BY <3>3, <3>4
  <2>. QED
    BY <1>4, <2>1, <2>2, <2>3
<1>5. \A u \in Path : u \in T
  <2>1. \A u \in Path, k \in Nat : u \in T => Append(u, k) \in T
    BY <1>4, PathAppend
  <2> HIDE DEF T
  <2>. QED
    BY <1>3, <2>1, PathInduction
<1>6. q \in Nodes(g) /\ q \in Path
  BY <1>1, NodesOfTree DEF g
<1>. QED
  BY <1>5, <1>6

(* The depth after a graft: that of the tree, or that of the graft further down. *)
LEMMA DepthOfGrafted ==
  ASSUME NEW A \in Arities, NEW t, Tree(t, A), NEW s, Tree(s, A), NEW p \in Path, Graftable(t, p),
         NEW d \in Nat, depthOfTree(t) <= d, Len(p) + depthOfTree(s) <= d
  PROVE  depthOfTree(Grafted(t, p, s)) <= d
<1>1. ASSUME NEW q \in Nodes(Grafted(t, p, s))
      PROVE  Len(q) < d
  <2>1. CASE q \in Nodes(t)
    BY <2>1, DepthOfTree, NodesOfTree, PathLen
  <2>2. CASE \E r \in Nodes(s) : q = p \o r
    <3>1. PICK r \in Nodes(s) : q = p \o r
      BY <2>2
    <3>2. r \in Path /\ Len(r) < depthOfTree(s) /\ depthOfTree(s) \in Nat
      BY DepthOfTree, NodesOfTree
    <3>3. Len(q) = Len(p) + Len(r) /\ Len(p) \in Nat /\ Len(r) \in Nat
      BY <3>1, <3>2, PathConcat, PathLen
    <3>. QED
      BY <3>2, <3>3
  <2>. QED
    BY <2>1, <2>2, NodesOfGrafted
<1>2. Tree(Grafted(t, p, s), A)
  BY GraftedIsTree
<1>. QED
  BY <1>1, <1>2, DepthBound

-----------------------------------------------------------------------------
(* Construction *)

(* what is built one level above the trees in S; kids[1..a -> S] are the arguments *)
Grown(A, S, full) ==
  (UNION {{Operation(kids) : kids \in [1..a -> S]} : a \in A}) \cup (IF full THEN {} ELSE {Leaf})

LEMMA ConsPath ==
  ASSUME NEW k \in Nat, NEW q \in Path
  PROVE  /\ <<k>> \in Path
         /\ <<k>> \o q \in Path
         /\ Len(<<k>> \o q) = Len(q) + 1
         /\ <<k>> \o q # Root
         /\ (<<k>> \o q)[1] = k
         /\ Tail(<<k>> \o q) = q
<1>1. <<k>> \in Path /\ Len(<<k>>) = 1 /\ <<k>>[1] = k
  BY DEF Path
<1>2. Len(q) \in Nat
  BY PathLen
<1>3. /\ <<k>> \o q \in Path /\ Len(<<k>> \o q) = 1 + Len(q)
      /\ (<<k>> \o q)[1] = k
      /\ \A i \in 1..Len(q) : (<<k>> \o q)[1 + i] = q[i]
  <2>1. 1 \in 1..Len(<<k>>)
    BY <1>1
  <2>. QED
    BY <1>1, <2>1, PathConcat
<1> DEFINE p == <<k>> \o q
<1> HIDE DEF p
<1>4. p \in Path /\ Len(p) = Len(q) + 1 /\ \A i \in 1..Len(q) : p[1 + i] = q[i]
  BY <1>2, <1>3 DEF p
<1>5. p # Root
  BY <1>2, <1>4, RootIsPath
<1>6. Tail(p) \in Path /\ Len(Tail(p)) = Len(q) /\ \A i \in 1..Len(q) : Tail(p)[i] = p[i + 1]
  <2>1. Tail(p) \in Seq(Nat) /\ Len(Tail(p)) = Len(p) - 1
        /\ \A i \in 1..Len(Tail(p)) : Tail(p)[i] = p[i + 1]
    BY <1>4, <1>5, HeadTailProperties DEF Path, Root
  <2>. QED
    BY <1>2, <1>4, <2>1 DEF Path
<1>7. \A i \in 1..Len(q) : Tail(p)[i] = q[i]
  BY <1>2, <1>4, <1>6
<1>8. Tail(p) = q
  <2> HIDE DEF p
  <2>. QED
    BY <1>6, <1>7, PathEqual
<1>. QED
  BY <1>1, <1>2, <1>3, <1>5, <1>8 DEF p

LEMMA OneStep ==
  ASSUME NEW k \in Nat
  PROVE  <<k>> \in Path /\ <<k>> = Append(Root, k) /\ <<k>> = <<k>> \o Root
<1>1. <<k>> \in Path
  BY DEF Path
<1>2. Append(Root, k) = Root \o <<k>>
  BY RootIsPath, AppendIsConcat DEF Path
<1>. QED
  BY <1>1, <1>2, ConcatRoot

(* the path q of the argument number k *)
At(k, q) == <<k - 1>> \o q

LEMMA PathAt ==
  ASSUME NEW k \in Nat \ {0}, NEW q \in Path
  PROVE  /\ At(k, q) \in Path
         /\ Len(At(k, q)) = Len(q) + 1
         /\ At(k, q) # Root
         /\ At(k, q)[1] = k - 1
         /\ Tail(At(k, q)) = q
         /\ At(k, Root) = Append(Root, k - 1)
         /\ \A j \in Nat : At(k, Append(q, j)) = Append(At(k, q), j)
<1> DEFINE l == k - 1
<1>1. l \in Nat
  OBVIOUS
<1> HIDE DEF l
<1>2. \A u : At(k, u) = <<l>> \o u
  BY DEF At, l
<1>3. /\ <<l>> \o q \in Path /\ Len(<<l>> \o q) = Len(q) + 1 /\ <<l>> \o q # Root
      /\ (<<l>> \o q)[1] = l /\ Tail(<<l>> \o q) = q
  BY <1>1, ConsPath
<1>4. <<l>> \o Root = Append(Root, l)
  BY <1>1, OneStep
<1>5. \A j \in Nat : <<l>> \o Append(q, j) = Append(<<l>> \o q, j)
  BY <1>1, OneStep, ConcatAppend
<1>6. At(k, q) = <<l>> \o q /\ At(k, Root) = <<l>> \o Root
      /\ \A j \in Nat : At(k, Append(q, j)) = <<l>> \o Append(q, j)
  BY <1>2
<1>. QED
  BY <1>3, <1>4, <1>5, <1>6 DEF l

(* A path in an argument but for its last step is the operation or in the argument. *)
LEMMA AtAppend ==
  ASSUME NEW k \in Nat \ {0}, NEW q \in Path, NEW p \in Path, NEW j \in Nat,
         Append(p, j) = At(k, q)
  PROVE  \/ q = Root /\ p = Root /\ j = k - 1
         \/ \E r \in Path : q = Append(r, j) /\ p = At(k, r)
<1>1. CASE q = Root
  <2>1. Append(p, j) = Append(Root, k - 1) /\ k - 1 \in Nat
    <3>1. At(k, Root) = Append(Root, k - 1)
      BY RootIsPath, PathAt
    <3>2. Append(p, j) = At(k, Root)
      BY <1>1
    <3>. QED
      BY <3>1, <3>2
  <2>2. p = Root /\ j = k - 1
    BY <2>1, RootIsPath, PathAppendInjective
  <2>. QED
    BY <1>1, <2>2
<1>2. CASE \E r \in Path, l \in Nat : q = Append(r, l)
  <2>1. PICK r \in Path, l \in Nat : q = Append(r, l)
    BY <1>2
  <2>2. Append(p, j) = Append(At(k, r), l) /\ At(k, r) \in Path
    BY <2>1, PathAt
  <2>3. p = At(k, r) /\ j = l
    BY <2>2, PathAppendInjective
  <2>. QED
    BY <2>1, <2>3
<1>. QED
  BY <1>1, <1>2, PathCases

(* g is an operation of arity a on the trees kids *)
IsOperation(g, a, kids) ==
  /\ IsFiniteSet(DOMAIN g)
  /\ g = [p \in DOMAIN g |-> g[p]]
  /\ \A p \in DOMAIN g : p = Root \/ \E k \in 1..a : \E q \in DOMAIN kids[k] : p = At(k, q)
  /\ Root \in DOMAIN g /\ g[Root] = a
  /\ \A k \in 1..a : \A q \in DOMAIN kids[k] :
       At(k, q) \in DOMAIN g /\ g[At(k, q)] = kids[k][q]

LEMMA OperationAt ==
  ASSUME NEW A \in Arities, NEW a \in A, NEW kids, DOMAIN kids = 1..a,
         kids = [k \in 1..a |-> kids[k]], \A k \in 1..a : Tree(kids[k], A)
  PROVE  IsOperation(Operation(kids), a, kids)
<1> DEFINE of(k) == {At(k, q) : q \in DOMAIN kids[k]}
           below == UNION {of(k) : k \in 1..a}
           g == Operation(kids)
<1>1. a \in 1..2
  BY DEF Arities
<1>2. Len(kids) = a
  <2>1. kids \in [1..a -> {kids[k] : k \in 1..a}]
    OBVIOUS
  <2>2. kids \in Seq({kids[k] : k \in 1..a})
    <3> DEFINE S == {kids[k] : k \in 1..a}
    <3>1. kids \in [1..a -> S] /\ a \in Nat
      BY <1>1
    <3> HIDE DEF S
    <3>. QED
      BY <3>1, SeqDef DEF S
  <2>. QED
    BY <1>1, <2>2, LenProperties
<1>3. g = [p \in {Root} \cup below |-> IF p = Root THEN a ELSE kids[p[1] + 1][Tail(p)]]
  BY <1>2 DEF Operation, At
<1>4. \A k \in 1..a : DOMAIN kids[k] \subseteq Path /\ IsFiniteSet(DOMAIN kids[k])
  BY DEF Tree
<1>5. ASSUME NEW k \in 1..a
      PROVE  IsFiniteSet(of(k))
  <2> DEFINE f == [q \in DOMAIN kids[k] |-> At(k, q)]
  <2>1. of(k) = {f[q] : q \in DOMAIN kids[k]} /\ DOMAIN f = DOMAIN kids[k]
    OBVIOUS
  <2> HIDE DEF of, f
  <2>. QED
    BY <1>4, <2>1, FiniteImage
<1>6. IsFiniteSet(below)
  <2> DEFINE f == [k \in 1..a |-> of(k)]
             B == {of(k) : k \in 1..a}
  <2>1. B = {f[k] : k \in 1..a} /\ DOMAIN f = 1..a
    OBVIOUS
  <2>2. IsFiniteSet(B)
    <3>1. IsFiniteSet(1..a)
      <4>1. 1 \in Int /\ a \in Int
        BY <1>1
      <4>. QED
        BY <4>1, FS_Interval
    <3> HIDE DEF of, f, B
    <3>. QED
      BY <2>1, <3>1, FiniteImage
  <2>3. \A C \in B : IsFiniteSet(C)
    <3> HIDE DEF of
    <3>. QED
      BY <1>5
  <2> HIDE DEF B, of
  <2>. QED
    BY <2>2, <2>3, FS_UNION DEF B
<1>7. IsFiniteSet({Root} \cup below)
  <2> HIDE DEF below
  <2>. QED
    BY <1>6, FS_Singleton, FS_Union
<1>8. ASSUME NEW k \in 1..a, NEW q \in DOMAIN kids[k]
      PROVE  /\ At(k, q) \in below
             /\ At(k, q) # Root
             /\ kids[(At(k, q))[1] + 1][Tail(At(k, q))] = kids[k][q]
  <2>1. q \in Path /\ k \in Nat \ {0} /\ (k - 1) + 1 = k
    BY <1>4
  <2>2. At(k, q) # Root /\ (At(k, q))[1] = k - 1 /\ Tail(At(k, q)) = q
    BY <2>1, PathAt
  <2>3. At(k, q) \in of(k)
    OBVIOUS
  <2>4. At(k, q) \in below
    <3> HIDE DEF of
    <3>. QED
      BY <2>3
  <2>. QED
    BY <2>1, <2>2, <2>4
<1>9. \A p \in below : \E k \in 1..a : \E q \in DOMAIN kids[k] : p = At(k, q)
  OBVIOUS
<1> HIDE DEF g, below
<1>10. DOMAIN g = {Root} \cup below /\ g = [p \in DOMAIN g |-> g[p]] /\ g[Root] = a
  BY <1>3
<1>11. ASSUME NEW k \in 1..a, NEW q \in DOMAIN kids[k]
       PROVE  g[At(k, q)] = kids[k][q]
  <2> DEFINE p == At(k, q)
  <2>1. p \in below /\ p # Root /\ kids[p[1] + 1][Tail(p)] = kids[k][q]
    BY <1>8
  <2> HIDE DEF p
  <2>2. g[p] = kids[p[1] + 1][Tail(p)]
    BY <1>3, <2>1
  <2>. QED
    BY <2>1, <2>2 DEF p
<1>12. IsOperation(g, a, kids)
  BY <1>7, <1>8, <1>9, <1>10, <1>11 DEF IsOperation
<1>. QED
  BY <1>12 DEF g

LEMMA OperationIsTree ==
  ASSUME NEW A \in Arities, NEW a \in A, NEW kids, DOMAIN kids = 1..a,
         kids = [k \in 1..a |-> kids[k]], \A k \in 1..a : Tree(kids[k], A)
  PROVE  Tree(Operation(kids), A)
<1> DEFINE g == Operation(kids)
<1>1. IsOperation(g, a, kids)
  BY OperationAt
<1> HIDE DEF g
<1>2. /\ IsFiniteSet(DOMAIN g)
      /\ g = [p \in DOMAIN g |-> g[p]]
      /\ \A p \in DOMAIN g : p = Root \/ \E k \in 1..a : \E q \in DOMAIN kids[k] : p = At(k, q)
      /\ Root \in DOMAIN g /\ g[Root] = a
  BY <1>1 DEF IsOperation
<1>3. \A k \in 1..a : \A q \in DOMAIN kids[k] :
        At(k, q) \in DOMAIN g /\ g[At(k, q)] = kids[k][q]
  BY <1>1 DEF IsOperation
<1>4. a \in 1..2 /\ \A k \in 1..a : k \in Nat \ {0} /\ DOMAIN kids[k] \subseteq Path /\ Root \in DOMAIN kids[k]
  BY DEF Tree, Arities
<1>5. DOMAIN g \subseteq Path
  <2>1. \A k \in 1..a : \A q \in DOMAIN kids[k] : At(k, q) \in Path
    BY <1>4, PathAt
  <2>. QED
    BY <1>2, <2>1, RootIsPath
<1>6. ASSUME NEW k \in 1..a
      PROVE  Append(Root, k - 1) \in DOMAIN g
  BY <1>3, <1>4, PathAt
<1>7. ASSUME NEW p \in DOMAIN g
      PROVE  /\ g[p] \in {0} \cup A
             /\ \A j \in 0..(g[p] - 1) : Append(p, j) \in DOMAIN g
  <2>1. CASE p = Root
    <3>1. ASSUME NEW j \in 0..(a - 1)
          PROVE  Append(Root, j) \in DOMAIN g
      <4>1. j + 1 \in 1..a /\ (j + 1) - 1 = j
        BY <1>4
      <4>. QED
        BY <1>6, <4>1
    <3>. QED
      BY <1>2, <2>1, <3>1
  <2>2. ASSUME NEW k \in 1..a, NEW q \in DOMAIN kids[k], p = At(k, q)
        PROVE  /\ g[p] \in {0} \cup A
               /\ \A j \in 0..(g[p] - 1) : Append(p, j) \in DOMAIN g
    <3>1. g[p] = kids[k][q] /\ q \in Path /\ k \in Nat \ {0}
      BY <1>3, <1>4, <2>2, PathAt
    <3>2. kids[k][q] \in {0} \cup A
          /\ \A j \in 0..(kids[k][q] - 1) : Append(q, j) \in DOMAIN kids[k]
      BY DEF Tree
    <3>3. ASSUME NEW j \in 0..(g[p] - 1)
          PROVE  Append(p, j) \in DOMAIN g
      <4>1. j \in Nat /\ Append(q, j) \in DOMAIN kids[k]
        BY <3>1, <3>2
      <4>2. At(k, Append(q, j)) = Append(p, j)
        BY <2>2, <3>1, <4>1, PathAt
      <4>. QED
        BY <1>3, <4>1, <4>2
    <3>. QED
      BY <3>1, <3>2, <3>3
  <2>. QED
    BY <1>2, <2>1, <2>2
<1>8. ASSUME NEW p \in Path, NEW j \in Nat, Append(p, j) \in DOMAIN g
      PROVE  p \in DOMAIN g /\ (j < g[p] \/ (j = 0 /\ g[p] = 0))
  <2>1. PICK k \in 1..a : \E q \in DOMAIN kids[k] : Append(p, j) = At(k, q)
    BY <1>2, <1>8, PathAppend
  <2>2. PICK q \in DOMAIN kids[k] : Append(p, j) = At(k, q)
    BY <2>1
  <2>3. q \in Path /\ k \in Nat \ {0} /\ k - 1 < a
    BY <1>4
  <2>4. \/ q = Root /\ p = Root /\ j = k - 1
        \/ \E r \in Path : q = Append(r, j) /\ p = At(k, r)
    BY <2>2, <2>3, AtAppend
  <2>5. CASE q = Root /\ p = Root /\ j = k - 1
    BY <1>2, <2>3, <2>5
  <2>6. ASSUME NEW r \in Path, q = Append(r, j), p = At(k, r)
        PROVE  p \in DOMAIN g /\ (j < g[p] \/ (j = 0 /\ g[p] = 0))
    <3>1. r \in DOMAIN kids[k] /\ (j < kids[k][r] \/ (j = 0 /\ kids[k][r] = 0))
      BY <2>6 DEF Tree
    <3>. QED
      BY <1>3, <2>6, <3>1
  <2>. QED
    BY <2>4, <2>5, <2>6
<1>9. Tree(g, A)
  BY <1>2, <1>5, <1>7, <1>8 DEF Tree
<1>. QED
  BY <1>9 DEF g

(* The nodes of an operation are its own and those of its arguments. *)
LEMMA NodesOfOperation ==
  ASSUME NEW A \in Arities, NEW a \in A, NEW kids, DOMAIN kids = 1..a,
         kids = [k \in 1..a |-> kids[k]], \A k \in 1..a : Tree(kids[k], A)
  PROVE  /\ \A p \in Nodes(Operation(kids)) :
              p = Root \/ \E k \in 1..a : \E q \in Nodes(kids[k]) : p = At(k, q)
         /\ \A k \in 1..a : \A q \in Nodes(kids[k]) : At(k, q) \in Nodes(Operation(kids))
<1> DEFINE g == Operation(kids)
<1>1. IsOperation(g, a, kids) /\ Tree(g, A)
  BY OperationAt, OperationIsTree
<1> HIDE DEF g
<1>2. Root \in DOMAIN g /\ g[Root] = a /\ a \in 1..2
  BY <1>1 DEF IsOperation, Arities
<1>3. \A k \in 1..a : \A q \in DOMAIN kids[k] :
        At(k, q) \in DOMAIN g /\ g[At(k, q)] = kids[k][q]
  BY <1>1 DEF IsOperation
<1>4. \A k \in 1..a : /\ k \in Nat \ {0} /\ k - 1 < a
                      /\ At(k, Root) = Append(Root, k - 1)
                      /\ Nodes(kids[k]) \subseteq Path /\ Nodes(kids[k]) \subseteq DOMAIN kids[k]
                      /\ Root \in Nodes(kids[k])
  <2>1. \A k \in 1..a : k \in Nat \ {0} /\ k - 1 < a
    BY <1>2
  <2>2. \A k \in 1..a : At(k, Root) = Append(Root, k - 1)
    BY <2>1, PathAt, RootIsPath
  <2>3. \A k \in 1..a : /\ Nodes(kids[k]) \subseteq Path /\ Nodes(kids[k]) \subseteq DOMAIN kids[k]
                        /\ Root \in Nodes(kids[k])
    BY NodesOfTree
  <2>. QED
    BY <2>1, <2>2, <2>3
<1>5. Root \in Nodes(g) /\ Nodes(g) \subseteq Path
      /\ \A p \in Path, j \in Nat : Append(p, j) \in Nodes(g) <=> p \in Nodes(g) /\ j < g[p]
  BY <1>1, NodesOfTree
<1>6. ASSUME NEW k \in 1..a
      PROVE  \A q \in Nodes(kids[k]) : At(k, q) \in Nodes(g)
  <2> DEFINE T == {q \in Path : q \in Nodes(kids[k]) => At(k, q) \in Nodes(g)}
  <2>1. Root \in T
    <3>1. At(k, Root) = Append(Root, k - 1) /\ k - 1 \in Nat /\ k - 1 < a
      BY <1>4
    <3>2. Append(Root, k - 1) \in Nodes(g)
      BY <1>2, <1>5, <3>1, RootIsPath
    <3>. QED
      BY <3>1, <3>2, RootIsPath
  <2>2. ASSUME NEW q \in Path, NEW j \in Nat, q \in T, Append(q, j) \in Nodes(kids[k])
        PROVE  At(k, Append(q, j)) \in Nodes(g)
    <3>1. q \in Nodes(kids[k]) /\ j < kids[k][q]
      BY <2>2, NodesOfTree
    <3>2. At(k, q) \in Nodes(g) /\ j < g[At(k, q)]
      BY <1>3, <1>4, <2>2, <3>1
    <3>3. At(k, Append(q, j)) = Append(At(k, q), j)
      BY <1>4, PathAt
    <3>. QED
      BY <1>5, <3>2, <3>3
  <2>3. \A q \in Path : q \in T
    <3>1. \A q \in Path, j \in Nat : q \in T => Append(q, j) \in T
      BY <2>2, PathAppend
    <3> HIDE DEF T
    <3>. QED
      BY <2>1, <3>1, PathInduction
  <2>. QED
    BY <1>4, <2>3
<1>7. \A p \in Nodes(g) : p = Root \/ \E k \in 1..a : \E q \in Nodes(kids[k]) : p = At(k, q)
  <2> DEFINE Inside(p) == p = Root \/ \E k \in 1..a : \E q \in Nodes(kids[k]) : p = At(k, q)
             T == {p \in Path : p \in Nodes(g) => Inside(p)}
  <2>1. Root \in T
    BY RootIsPath
  <2>2. ASSUME NEW p \in Path, NEW j \in Nat, p \in T, Append(p, j) \in Nodes(g)
        PROVE  Inside(Append(p, j))
    <3>1. p \in Nodes(g) /\ j < g[p] /\ Inside(p)
      BY <1>5, <2>2
    <3>2. CASE p = Root
      <4>1. j + 1 \in 1..a /\ (j + 1) - 1 = j
        BY <1>2, <3>1, <3>2
      <4>2. Append(Root, j) = At(j + 1, Root) /\ Root \in Nodes(kids[j + 1])
        BY <1>4, <4>1
      <4>. QED
        BY <3>2, <4>1, <4>2
    <3>3. ASSUME NEW k \in 1..a, NEW q \in Nodes(kids[k]), p = At(k, q)
          PROVE  Inside(Append(p, j))
      <4>1. j < kids[k][q] /\ q \in Path
        BY <1>3, <1>4, <3>1, <3>3
      <4>2. Append(q, j) \in Nodes(kids[k])
        BY <4>1, NodesOfTree
      <4>3. At(k, Append(q, j)) = Append(p, j)
        BY <1>4, <3>3, <4>1, PathAt
      <4>. QED
        BY <4>2, <4>3
    <3>. QED
      BY <3>1, <3>2, <3>3
  <2>3. \A p \in Path : p \in T
    <3>1. \A p \in Path, j \in Nat : p \in T => Append(p, j) \in T
      <4> HIDE DEF Inside
      <4>. QED
        BY <2>2, PathAppend
    <3> HIDE DEF T
    <3>. QED
      BY <2>1, <3>1, PathInduction
  <2>. QED
    BY <1>5, <2>3
<1>. QED
  BY <1>6, <1>7 DEF g

(* An operation is one deeper than the deepest of its arguments. *)
LEMMA DepthOfOperation ==
  ASSUME NEW A \in Arities, NEW a \in A, NEW kids, DOMAIN kids = 1..a,
         kids = [k \in 1..a |-> kids[k]], \A k \in 1..a : Tree(kids[k], A)
  PROVE  /\ \A d \in Nat : (\A k \in 1..a : depthOfTree(kids[k]) <= d)
                             => depthOfTree(Operation(kids)) <= d + 1
         /\ \A k \in 1..a : depthOfTree(kids[k]) + 1 <= depthOfTree(Operation(kids))
<1> DEFINE g == Operation(kids)
<1>1. Tree(g, A)
  BY OperationIsTree
<1>2. /\ \A p \in Nodes(g) : p = Root \/ \E k \in 1..a : \E q \in Nodes(kids[k]) : p = At(k, q)
      /\ \A k \in 1..a : \A q \in Nodes(kids[k]) : At(k, q) \in Nodes(g)
  BY NodesOfOperation
<1>3. \A k \in 1..a : \A q \in Nodes(kids[k]) : At(k, q) \in Nodes(g)
  BY <1>2
<1>4. \A k \in 1..a : /\ k \in Nat \ {0} /\ Nodes(kids[k]) \subseteq Path
                      /\ depthOfTree(kids[k]) \in Nat
                      /\ \A q \in Nodes(kids[k]) : Len(q) < depthOfTree(kids[k])
                      /\ \E q \in Nodes(kids[k]) : Len(q) + 1 = depthOfTree(kids[k])
  <2>1. a \in Nat
    BY DEF Arities
  <2>2. \A k \in 1..a : Nodes(kids[k]) \subseteq Path
    BY NodesOfTree
  <2>3. \A k \in 1..a : /\ depthOfTree(kids[k]) \in Nat
                        /\ \A q \in Nodes(kids[k]) : Len(q) < depthOfTree(kids[k])
                        /\ \E q \in Nodes(kids[k]) : Len(q) + 1 = depthOfTree(kids[k])
    BY DepthOfTree
  <2>. QED
    BY <2>1, <2>2, <2>3
<1> HIDE DEF g
<1>5. ASSUME NEW d \in Nat, \A k \in 1..a : depthOfTree(kids[k]) <= d
      PROVE  depthOfTree(g) <= d + 1
  <2>1. ASSUME NEW k \in 1..a, NEW q \in Nodes(kids[k])
        PROVE  Len(At(k, q)) < d + 1
    <3>1. q \in Path /\ k \in Nat \ {0} /\ Len(q) < depthOfTree(kids[k]) /\ depthOfTree(kids[k]) <= d
          /\ depthOfTree(kids[k]) \in Nat
      BY <1>4, <1>5
    <3>2. Len(At(k, q)) = Len(q) + 1 /\ Len(q) \in Nat
      BY <3>1, PathAt, PathLen
    <3>. QED
      BY <3>1, <3>2
  <2>2. \A p \in Nodes(g) : Len(p) < d + 1
    BY <1>2, <2>1, RootIsPath
  <2>. QED
    BY <1>1, <2>2, DepthBound
<1>6. ASSUME NEW k \in 1..a
      PROVE  depthOfTree(kids[k]) + 1 <= depthOfTree(g)
  <2>1. PICK q \in Nodes(kids[k]) : Len(q) + 1 = depthOfTree(kids[k])
    BY <1>4
  <2>2. Len(At(k, q)) = Len(q) + 1
    BY <1>4, PathAt
  <2>3. Len(At(k, q)) < depthOfTree(g) /\ depthOfTree(g) \in Nat
    BY <1>1, <1>3, DepthOfTree
  <2>. QED
    BY <1>4, <2>1, <2>2, <2>3
<1>. QED
  BY <1>5, <1>6 DEF g

LEMMA DepthOfLeaf ==
  ASSUME NEW A \in Arities
  PROVE  depthOfTree(Leaf) = 1
<1>1. Tree(Leaf, A) /\ Nodes(Leaf) = {Root}
  BY LeafIsTree
<1>2. \E p \in Nodes(Leaf) : Len(p) + 1 = depthOfTree(Leaf)
  BY <1>1, DepthOfTree
<1>. QED
  BY <1>1, <1>2, RootIsPath

(* A tree grown from trees of a depth is one deeper, if it is full, and no     *)
(* deeper in any case.                                                         *)
LEMMA GrownTree ==
  ASSUME NEW A \in Arities, NEW d \in Nat \ {0}, NEW full \in BOOLEAN, NEW S,
         \A s \in S : Tree(s, A) /\ depthOfTree(s) <= d /\ (full => depthOfTree(s) = d),
         NEW t \in Grown(A, S, full)
  PROVE  /\ Tree(t, A)
         /\ depthOfTree(t) <= d + 1
         /\ full => depthOfTree(t) = d + 1
<1>1. CASE \E a \in A : \E kids \in [1..a -> S] : t = Operation(kids)
  <2>0. PICK a \in A : \E kids \in [1..a -> S] : t = Operation(kids)
    BY <1>1
  <2>1. PICK kids \in [1..a -> S] : t = Operation(kids)
    BY <2>0
  <2>2. a \in 1..2
    BY DEF Arities
  <2>3. DOMAIN kids = 1..a /\ kids = [k \in 1..a |-> kids[k]] /\ \A k \in 1..a : kids[k] \in S
    BY <2>1
  <2>4. \A k \in 1..a : Tree(kids[k], A) /\ depthOfTree(kids[k]) <= d
                        /\ (full => depthOfTree(kids[k]) = d)
    BY <2>3
  <2>5. Tree(t, A)
    BY <2>1, <2>3, <2>4, OperationIsTree
  <2>6. /\ \A e \in Nat : (\A k \in 1..a : depthOfTree(kids[k]) <= e)
                             => depthOfTree(Operation(kids)) <= e + 1
        /\ \A k \in 1..a : depthOfTree(kids[k]) + 1 <= depthOfTree(Operation(kids))
    BY <2>3, <2>4, DepthOfOperation
  <2>7. depthOfTree(t) <= d + 1
    BY <2>1, <2>4, <2>6
  <2>8. full => d + 1 <= depthOfTree(t)
    <3>1. 1 \in 1..a
      BY <2>2
    <3>. QED
      BY <2>1, <2>4, <2>6, <3>1
  <2>9. depthOfTree(t) \in Nat
    BY <2>5, DepthOfTree
  <2>. QED
    BY <2>5, <2>7, <2>8, <2>9
<1>2. CASE ~full /\ t = Leaf
  BY <1>2, LeafIsTree, DepthOfLeaf
<1>3. (\E a \in A : \E kids \in [1..a -> S] : t = Operation(kids)) \/ (~full /\ t = Leaf)
  <2> DEFINE X == UNION {{Operation(kids) : kids \in [1..a -> S]} : a \in A}
  <2>1. t \in X => \E a \in A : \E kids \in [1..a -> S] : t = Operation(kids)
    OBVIOUS
  <2>2. Grown(A, S, full) = X \cup (IF full THEN {} ELSE {Leaf})
    BY DEF Grown
  <2>3. t \in X \/ (~full /\ t = Leaf)
    <3> HIDE DEF X
    <3>. QED
      BY <2>2
  <2>. QED
    BY <2>1, <2>3
<1>. QED
  BY <1>1, <1>2, <1>3

(* what the recursive definition in construction_method asks of the trees b    *)
(* of the first depths                                                         *)
Builds(A, full, n, b) ==
  b = [d \in 0..n |-> IF d <= 1 THEN {Leaf} ELSE Grown(A, b[d - 1], full)]

LEMMA BuildsExist ==
  ASSUME NEW A, NEW full
  PROVE  \A n \in Nat : \E b : Builds(A, full, n, b)
<1> DEFINE T == {n \in Nat : \E b : Builds(A, full, n, b)}
<1>1. 0 \in T
  <2> DEFINE b == [d \in 0..0 |-> {Leaf}]
  <2>1. b = [d \in 0..0 |-> IF d <= 1 THEN {Leaf} ELSE Grown(A, b[d - 1], full)]
    OBVIOUS
  <2>2. Builds(A, full, 0, b)
    BY <2>1 DEF Builds
  <2>. QED
    BY <2>2
<1>2. ASSUME NEW n \in Nat, n \in T
      PROVE  n + 1 \in T
  <2>1. PICK b : Builds(A, full, n, b)
    BY <1>2
  <2> DEFINE next(d) == IF d <= n THEN b[d] ELSE IF d <= 1 THEN {Leaf} ELSE Grown(A, b[n], full)
             c == [d \in 0..(n + 1) |-> next(d)]
  <2>2. \A d \in 0..n : b[d] = IF d <= 1 THEN {Leaf} ELSE Grown(A, b[d - 1], full)
    BY <2>1 DEF Builds
  <2>3. ASSUME NEW d \in 0..(n + 1)
        PROVE  next(d) = IF d <= 1 THEN {Leaf} ELSE Grown(A, c[d - 1], full)
    <3>1. CASE d <= 1
      BY <2>2, <3>1
    <3>2. CASE ~(d <= 1)
      <4>1. d - 1 \in 0..(n + 1) /\ d - 1 <= n /\ (d <= n \/ d - 1 = n)
        BY <3>2
      <4>2. c[d - 1] = b[d - 1]
        BY <4>1
      <4>3. CASE d <= n
        <5>1. next(d) = b[d] /\ b[d] = Grown(A, b[d - 1], full)
          BY <2>2, <3>2, <4>3
        <5>. QED
          BY <3>2, <4>2, <5>1
      <4>4. CASE ~(d <= n)
        <5>1. next(d) = Grown(A, b[n], full) /\ d - 1 = n
          BY <3>2, <4>1, <4>4
        <5>. QED
          BY <3>2, <4>2, <5>1
      <4>. QED
        BY <4>3, <4>4
    <3>. QED
      BY <3>1, <3>2
  <2>4. c = [d \in 0..(n + 1) |-> IF d <= 1 THEN {Leaf} ELSE Grown(A, c[d - 1], full)]
    <3>1. DOMAIN c = 0..(n + 1) /\ \A d \in 0..(n + 1) : c[d] = next(d)
      OBVIOUS
    <3>2. c = [d \in 0..(n + 1) |-> c[d]]
      OBVIOUS
    <3> HIDE DEF c, next
    <3>. QED
      BY <2>3, <3>1, <3>2
  <2>5. Builds(A, full, n + 1, c)
    BY <2>4 DEF Builds
  <2>. QED
    BY <2>5
<1>3. \A n \in Nat : n \in T
  <2> HIDE DEF T
  <2>. QED
    BY <1>1, <1>2, SetInduction
<1>. QED
  BY <1>3

LEMMA BuildsAgree ==
  ASSUME NEW A, NEW full, NEW m \in Nat, NEW n \in Nat, NEW b, NEW c,
         Builds(A, full, m, b), Builds(A, full, n, c)
  PROVE  \A d \in Nat : d <= m /\ d <= n => b[d] = c[d]
<1> DEFINE T == {d \in Nat : d <= m /\ d <= n => b[d] = c[d]}
<1>1. /\ \A d \in 0..m : b[d] = IF d <= 1 THEN {Leaf} ELSE Grown(A, b[d - 1], full)
      /\ \A d \in 0..n : c[d] = IF d <= 1 THEN {Leaf} ELSE Grown(A, c[d - 1], full)
  BY DEF Builds
<1>2. 0 \in T
  BY <1>1
<1>3. \A d \in Nat : d \in T => d + 1 \in T
  <2> SUFFICES ASSUME NEW d \in Nat, d \in T, d + 1 <= m, d + 1 <= n
               PROVE  b[d + 1] = c[d + 1]
    OBVIOUS
  <2>1. b[d] = c[d]
    OBVIOUS
  <2>2. d + 1 \in 0..m /\ d + 1 \in 0..n /\ (d + 1) - 1 = d
    OBVIOUS
  <2>. QED
    BY <1>1, <2>1, <2>2
<1>4. \A d \in Nat : d \in T
  <2> HIDE DEF T
  <2>. QED
    BY <1>2, <1>3, SetInduction
<1>. QED
  BY <1>4

BuildsAll(A, full, b) ==
  b = [d \in Nat |-> IF d <= 1 THEN {Leaf} ELSE Grown(A, b[d - 1], full)]

(* The recursive definition in construction_method has a solution. *)
LEMMA BuiltExists ==
  ASSUME NEW A, NEW full
  PROVE  \E b : BuildsAll(A, full, b)
<1> DEFINE G(n) == CHOOSE c : Builds(A, full, n, c)
           b == [d \in Nat |-> G(d)[d]]
<1>1. \A n \in Nat : Builds(A, full, n, G(n))
  BY BuildsExist
<1> HIDE DEF G
<1>2. ASSUME NEW d \in Nat
      PROVE  G(d)[d] = IF d <= 1 THEN {Leaf} ELSE Grown(A, b[d - 1], full)
  <2>1. Builds(A, full, d, G(d))
    BY <1>1
  <2>2. G(d)[d] = IF d <= 1 THEN {Leaf} ELSE Grown(A, G(d)[d - 1], full)
    <3>1. d \in 0..d
      OBVIOUS
    <3>2. \A e \in 0..d : G(d)[e] = IF e <= 1 THEN {Leaf} ELSE Grown(A, G(d)[e - 1], full)
      BY <2>1 DEF Builds
    <3>. QED
      BY <3>1, <3>2
  <2>3. ASSUME ~(d <= 1)
        PROVE  b[d - 1] = G(d)[d - 1]
    <3>1. d - 1 \in Nat /\ d - 1 <= d
      BY <2>3
    <3>2. Builds(A, full, d - 1, G(d - 1))
      BY <1>1, <3>1
    <3>3. G(d - 1)[d - 1] = G(d)[d - 1]
      BY <2>1, <3>1, <3>2, BuildsAgree
    <3>. QED
      BY <3>1, <3>3
  <2>. QED
    BY <2>2, <2>3
<1>3. b = [d \in Nat |-> IF d <= 1 THEN {Leaf} ELSE Grown(A, b[d - 1], full)]
  <2>1. DOMAIN b = Nat /\ b = [d \in Nat |-> b[d]] /\ \A d \in Nat : b[d] = G(d)[d]
    OBVIOUS
  <2> HIDE DEF b
  <2>. QED
    BY <1>2, <2>1
<1>4. BuildsAll(A, full, b)
  BY <1>3 DEF BuildsAll
<1> HIDE DEF b
<1>. QED
  BY <1>4

(* What construction_method returns: complete trees no deeper than maxDepth,   *)
(* and full ones exactly so deep.                                              *)
LEMMA ConstructionMethod ==
  ASSUME program.arities \in Arities, NEW maxDepth \in Int, NEW full \in BOOLEAN,
         NEW t \in construction_method(maxDepth, full)
  PROVE  /\ Tree(t, program.arities)
         /\ depthOfTree(t) <= (IF maxDepth <= 1 THEN 1 ELSE maxDepth)
         /\ full => depthOfTree(t) = IF maxDepth <= 1 THEN 1 ELSE maxDepth
<1> DEFINE A == program.arities
           built == CHOOSE b : BuildsAll(A, full, b)
           m == IF maxDepth < 0 THEN 0 ELSE maxDepth
<1>1. construction_method(maxDepth, full) = built[m]
  BY DEF construction_method, Grown, BuildsAll
<1>2. BuildsAll(A, full, built)
  BY BuiltExists
<1> HIDE DEF built
<1>3. \A d \in Nat : built[d] = IF d <= 1 THEN {Leaf} ELSE Grown(A, built[d - 1], full)
  BY <1>2 DEF BuildsAll
<1> DEFINE limit(d) == IF d <= 1 THEN 1 ELSE d
           Good(d) == \A s \in built[d] : /\ Tree(s, A)
                                          /\ depthOfTree(s) <= limit(d)
                                          /\ full => depthOfTree(s) = limit(d)
           T == {d \in Nat : Good(d)}
<1>4. ASSUME NEW d \in Nat, d <= 1
      PROVE  Good(d)
  BY <1>3, <1>4, LeafIsTree, DepthOfLeaf
<1>5. ASSUME NEW d \in Nat, Good(d)
      PROVE  Good(d + 1)
  <2>1. CASE d = 0
    BY <1>4, <2>1
  <2>2. CASE d # 0
    <3>1. limit(d) = d /\ limit(d + 1) = d + 1 /\ d \in Nat \ {0}
      BY <2>2
    <3>2. built[d + 1] = Grown(A, built[d], full)
      <4>1. d + 1 \in Nat /\ ~(d + 1 <= 1) /\ (d + 1) - 1 = d
        BY <2>2
      <4>. QED
        BY <1>3, <4>1
    <3>3. \A s \in built[d] : Tree(s, A) /\ depthOfTree(s) <= d /\ (full => depthOfTree(s) = d)
      BY <1>5, <3>1
    <3> HIDE DEF limit
    <3>4. \A s \in Grown(A, built[d], full) :
            Tree(s, A) /\ depthOfTree(s) <= d + 1 /\ (full => depthOfTree(s) = d + 1)
      BY <3>1, <3>3, GrownTree
    <3>. QED
      BY <3>1, <3>2, <3>4
  <2>. QED
    BY <2>1, <2>2
<1>6. \A d \in Nat : Good(d)
  <2> HIDE DEF Good
  <2>1. 0 \in T /\ \A d \in Nat : d \in T => d + 1 \in T
    BY <1>4, <1>5
  <2>2. \A d \in Nat : d \in T
    <3> HIDE DEF T
    <3>. QED
      BY <2>1, SetInduction
  <2>. QED
    BY <2>2
<1>7. m \in Nat /\ limit(m) = IF maxDepth <= 1 THEN 1 ELSE maxDepth
  OBVIOUS
<1> HIDE DEF m, limit
<1>. QED
  BY <1>1, <1>6, <1>7

-----------------------------------------------------------------------------
(* The order of the nodes *)

LEMMA SamePrefix ==
  ASSUME NEW p \in Path, NEW q \in Path, NEW n \in Nat, n <= Len(p), n <= Len(q)
  PROVE  SubSeq(p, 1, n) = SubSeq(q, 1, n) <=> \A j \in 1..n : p[j] = q[j]
<1> DEFINE s == SubSeq(p, 1, n)
           u == SubSeq(q, 1, n)
<1>1. Len(p) \in Nat /\ Len(q) \in Nat
      /\ \A j \in 1..n : p[j] \in Nat /\ q[j] \in Nat
  BY PathLen
<1>2. s \in Path /\ Len(s) = n /\ \A j \in 1..n : s[j] = p[j]
  BY <1>1, SubSeqProperties DEF Path
<1>3. u \in Path /\ Len(u) = n /\ \A j \in 1..n : u[j] = q[j]
  BY <1>1, SubSeqProperties DEF Path
<1> HIDE DEF s, u
<1>4. ASSUME \A j \in 1..n : p[j] = q[j]
      PROVE  s = u
  BY <1>2, <1>3, <1>4, PathEqual
<1>5. ASSUME s = u
      PROVE  \A j \in 1..n : p[j] = q[j]
  BY <1>2, <1>3, <1>5
<1>6. s = u <=> \A j \in 1..n : p[j] = q[j]
  BY <1>4, <1>5
<1>. QED
  BY <1>6 DEF s, u

(* p and q are the same up to step k, where p ends or goes further to the left *)
PartAt(p, q, k) ==
  /\ k <= Len(p) + 1
  /\ \A j \in 1..(k - 1) : p[j] = q[j]
  /\ k = Len(p) + 1 \/ p[k] < q[k]

LEMMA BeforeParts ==
  ASSUME NEW p \in Path, NEW q \in Path
  PROVE  Before(p, q) <=> \E k \in 1..Len(q) : PartAt(p, q, k)
<1>0. DOMAIN p = 1..Len(p) /\ DOMAIN q = 1..Len(q)
  BY PathLen
<1>1. Len(p) \in Nat /\ Len(q) \in Nat
  BY PathLen
<1>2. ASSUME IsStrictPrefix(p, q)
      PROVE  PartAt(p, q, Len(p) + 1) /\ Len(p) + 1 \in 1..Len(q)
  <2>1. Len(p) <= Len(q) /\ SubSeq(p, 1, Len(p)) = SubSeq(q, 1, Len(p)) /\ p # q
    BY <1>2 DEF IsStrictPrefix, IsPrefix
  <2>2. \A j \in 1..Len(p) : p[j] = q[j]
    BY <1>1, <2>1, SamePrefix
  <2>3. Len(p) # Len(q)
    BY <2>1, <2>2, PathEqual
  <2>4. (Len(p) + 1) - 1 = Len(p) /\ Len(p) + 1 \in 1..Len(q)
    <3>1. \A a, b \in Nat : a <= b /\ a # b => (a + 1) - 1 = a /\ a + 1 \in 1..b
      OBVIOUS
    <3>. QED
      BY <1>1, <2>1, <2>3, <3>1
  <2>. QED
    BY <1>1, <2>2, <2>4 DEF PartAt
<1>3. ASSUME NEW k \in DOMAIN p \cap DOMAIN q,
             SubSeq(p, 1, k - 1) = SubSeq(q, 1, k - 1), p[k] < q[k]
      PROVE  PartAt(p, q, k) /\ k \in 1..Len(q)
  <2>1. k - 1 \in Nat /\ k - 1 <= Len(p) /\ k - 1 <= Len(q) /\ k <= Len(p) + 1 /\ k \in 1..Len(q)
    <3>1. k \in 1..Len(p) /\ k \in 1..Len(q)
      BY <1>0
    <3>. QED
      BY <1>1, <3>1
  <2>2. \A j \in 1..(k - 1) : p[j] = q[j]
    BY <1>3, <2>1, SamePrefix
  <2>. QED
    BY <1>3, <2>1, <2>2 DEF PartAt
<1>4. ASSUME NEW k \in 1..Len(q), PartAt(p, q, k)
      PROVE  Before(p, q)
  <2>1. \A j \in 1..(k - 1) : p[j] = q[j]
    BY <1>4 DEF PartAt
  <2>2. CASE k = Len(p) + 1
    <3>1. Len(p) <= Len(q) /\ k - 1 = Len(p) /\ Len(p) # Len(q)
      <4>1. \A a, b \in Nat : \A c \in 1..b : c = a + 1 => a <= b /\ c - 1 = a /\ a # b
        OBVIOUS
      <4>. QED
        BY <1>1, <2>2, <4>1
    <3>2. \A j \in 1..Len(p) : p[j] = q[j]
      BY <2>1, <3>1
    <3>3. SubSeq(p, 1, Len(p)) = SubSeq(q, 1, Len(p))
      BY <1>1, <3>1, <3>2, SamePrefix
    <3>. QED
      BY <3>1, <3>3 DEF Before, IsStrictPrefix, IsPrefix
  <2>3. CASE k # Len(p) + 1
    <3>1. k \in DOMAIN p \cap DOMAIN q /\ p[k] < q[k] /\ k - 1 \in Nat /\ k - 1 <= Len(p) /\ k - 1 <= Len(q)
      <4>1. k \in 1..Len(p)
        BY <1>1, <1>4, <2>3 DEF PartAt
      <4>2. p[k] < q[k]
        BY <1>4, <2>3 DEF PartAt
      <4>3. k - 1 \in Nat /\ k - 1 <= Len(p) /\ k - 1 <= Len(q)
        BY <1>1, <4>1
      <4>. QED
        BY <1>0, <4>1, <4>2, <4>3
    <3>2. SubSeq(p, 1, k - 1) = SubSeq(q, 1, k - 1)
      BY <2>1, <3>1, SamePrefix
    <3>. QED
      BY <3>1, <3>2 DEF Before
  <2>. QED
    BY <2>2, <2>3
<1>. QED
  BY <1>2, <1>3, <1>4 DEF Before

(* No node comes before itself. *)
LEMMA BeforeIrreflexive ==
  ASSUME NEW p \in Path
  PROVE  ~Before(p, p)
<1> SUFFICES ASSUME NEW k \in 1..Len(p), PartAt(p, p, k)
             PROVE  FALSE
  BY BeforeParts
<1>1. Len(p) \in Nat /\ p[k] \in Nat
  BY PathLen
<1>. QED
  BY <1>1 DEF PartAt

LEMMA BeforeTransitive ==
  ASSUME NEW p \in Path, NEW q \in Path, NEW r \in Path, Before(p, q), Before(q, r)
  PROVE  Before(p, r)
<1>1. PICK k \in 1..Len(q) : PartAt(p, q, k)
  BY BeforeParts
<1>2. PICK l \in 1..Len(r) : PartAt(q, r, l)
  BY BeforeParts
<1>3. /\ Len(p) \in Nat /\ Len(q) \in Nat /\ Len(r) \in Nat
      /\ \A i \in 1..Len(p) : p[i] \in Nat
      /\ \A i \in 1..Len(q) : q[i] \in Nat
      /\ \A i \in 1..Len(r) : r[i] \in Nat
  BY PathLen
<1>4. /\ k <= Len(p) + 1 /\ (\A j \in 1..(k - 1) : p[j] = q[j])
      /\ k = Len(p) + 1 \/ p[k] < q[k]
      /\ l <= Len(q) + 1 /\ (\A j \in 1..(l - 1) : q[j] = r[j])
      /\ l = Len(q) + 1 \/ q[l] < r[l]
  BY <1>1, <1>2 DEF PartAt
<1>5. CASE k < l
  <2>1. k \in 1..Len(r) /\ q[k] = r[k]
    BY <1>3, <1>4, <1>5
  <2>2. \A j \in 1..(k - 1) : p[j] = r[j]
    BY <1>4, <1>5
  <2>3. PartAt(p, r, k)
    BY <1>4, <2>1, <2>2 DEF PartAt
  <2>. QED
    BY <2>1, <2>3, BeforeParts
<1>6. CASE l < k
  <2>1. l <= Len(p) /\ l <= Len(q) /\ p[l] = q[l] /\ q[l] < r[l]
    <3>1. \A a, b \in Nat : \A c \in 1..b : \A e \in Nat \ {0} :
            e < c /\ c <= a + 1 => e <= a /\ e <= b /\ e # b + 1 /\ e \in 1..(c - 1)
      OBVIOUS
    <3>2. l \in Nat \ {0}
      OBVIOUS
    <3>3. l <= Len(p) /\ l <= Len(q) /\ l # Len(q) + 1 /\ l \in 1..(k - 1)
      BY <1>3, <1>4, <1>6, <3>1, <3>2
    <3>. QED
      BY <1>4, <3>3
  <2>2. \A j \in 1..(l - 1) : p[j] = r[j]
    BY <1>4, <1>6
  <2>3. PartAt(p, r, l)
    BY <1>3, <2>1, <2>2 DEF PartAt
  <2>. QED
    BY <2>3, BeforeParts
<1>7. CASE l = k
  <2>1. q[k] < r[k] /\ q[k] \in Nat /\ r[k] \in Nat
    BY <1>3, <1>4, <1>7
  <2>2. k = Len(p) + 1 \/ p[k] < r[k]
    <3>1. CASE k = Len(p) + 1
      BY <3>1
    <3>2. CASE k # Len(p) + 1
      <4>1. p[k] < q[k]
        BY <1>4, <3>2
      <4>2. k \in 1..Len(p)
        <5>1. \A a \in Nat : \A c \in Nat \ {0} : c <= a + 1 /\ c # a + 1 => c \in 1..a
          OBVIOUS
        <5>2. k \in Nat \ {0}
          OBVIOUS
        <5>. QED
          BY <1>3, <1>4, <3>2, <5>1, <5>2
      <4>3. p[k] \in Nat
        BY <1>3, <4>2
      <4>. QED
        BY <2>1, <4>1, <4>3
    <3>. QED
      BY <3>1, <3>2
  <2>3. \A j \in 1..(k - 1) : p[j] = r[j]
    BY <1>4, <1>7
  <2>4. PartAt(p, r, k)
    BY <1>4, <2>2, <2>3 DEF PartAt
  <2>. QED
    BY <1>7, <2>4, BeforeParts
<1>. QED
  BY <1>5, <1>6, <1>7

LEMMA BeforeTotal ==
  ASSUME NEW p \in Path, NEW q \in Path, p # q
  PROVE  Before(p, q) \/ Before(q, p)
<1> DEFINE D == {k \in Nat \ {0} : k > Len(p) \/ k > Len(q) \/ p[k] # q[k]}
<1>1. /\ Len(p) \in Nat /\ Len(q) \in Nat
      /\ \A i \in 1..Len(p) : p[i] \in Nat
      /\ \A i \in 1..Len(q) : q[i] \in Nat
  BY PathLen
<1>2. Len(p) + 1 \in D /\ D \subseteq Nat
  BY <1>1
<1>3. PICK k \in D : \A l \in D : k <= l
  <2> HIDE DEF D
  <2>. QED
    BY <1>2, LeastNatural
<1>4. k \in Nat \ {0} /\ (k > Len(p) \/ k > Len(q) \/ p[k] # q[k])
  OBVIOUS
<1>5. \A l \in 1..(k - 1) : l <= Len(p) /\ l <= Len(q) /\ p[l] = q[l]
  <2> SUFFICES ASSUME NEW l \in 1..(k - 1)
               PROVE  l <= Len(p) /\ l <= Len(q) /\ p[l] = q[l]
    OBVIOUS
  <2>1. l \in Nat \ {0} /\ ~(k <= l)
    BY <1>4
  <2>2. l \notin D
    BY <1>3, <2>1
  <2>. QED
    BY <1>1, <2>1, <2>2
<1>6. k <= Len(p) + 1 /\ k <= Len(q) + 1
  <2>1. CASE k = 1
    BY <1>1, <2>1
  <2>2. CASE k # 1
    <3>1. k - 1 \in 1..(k - 1)
      BY <1>4, <2>2
    <3>2. k - 1 <= Len(p) /\ k - 1 <= Len(q)
      BY <1>5, <3>1
    <3>. QED
      BY <1>1, <1>4, <3>2
  <2>. QED
    BY <2>1, <2>2
<1> HIDE DEF D
<1>7. CASE k = Len(p) + 1 /\ k = Len(q) + 1
  <2>1. Len(p) = Len(q) /\ \A i \in 1..Len(p) : p[i] = q[i]
    BY <1>1, <1>5, <1>7
  <2>. QED
    BY <2>1, PathEqual
<1>8. CASE k = Len(p) + 1 /\ k # Len(q) + 1
  <2>1. k \in 1..Len(q) /\ PartAt(p, q, k)
    BY <1>1, <1>4, <1>5, <1>6, <1>8 DEF PartAt
  <2>. QED
    BY <2>1, BeforeParts
<1>9. CASE k # Len(p) + 1 /\ k = Len(q) + 1
  <2>1. k \in 1..Len(p) /\ PartAt(q, p, k)
    BY <1>1, <1>4, <1>5, <1>6, <1>9 DEF PartAt
  <2>. QED
    BY <2>1, BeforeParts
<1>10. CASE k # Len(p) + 1 /\ k # Len(q) + 1
  <2>1. k \in 1..Len(p) /\ k \in 1..Len(q)
    BY <1>1, <1>4, <1>6, <1>10
  <2>2. p[k] \in Nat /\ q[k] \in Nat /\ p[k] # q[k]
    BY <1>1, <1>4, <2>1
  <2>3. p[k] < q[k] \/ q[k] < p[k]
    BY <2>2
  <2>4. p[k] < q[k] => PartAt(p, q, k)
    BY <1>5, <1>6 DEF PartAt
  <2>5. q[k] < p[k] => PartAt(q, p, k)
    BY <1>5, <1>6 DEF PartAt
  <2>. QED
    BY <2>1, <2>3, <2>4, <2>5, BeforeParts
<1>. QED
  BY <1>7, <1>8, <1>9, <1>10

(* Numbered in their order, the nodes of a tree have every number below how many *)
(* they are: pickNthNode finds a node for each.                                  *)
LEMMA PickNthNode ==
  ASSUME NEW A \in Arities, NEW t, Tree(t, A), NEW n \in Nat, n < enumTreeNodes(t)
  PROVE  pickNthNode(t, n) \in Nodes(t)
<1> DEFINE N == Nodes(t)
           c == Cardinality(N)
           rank == [q \in N |-> Cardinality(NodesBefore(t, q))]
<1>1. N \subseteq Path /\ IsFiniteSet(N)
  BY NodesOfTree
<1>2. c \in Nat /\ c = enumTreeNodes(t)
  BY <1>1, FS_CardinalityType DEF enumTreeNodes
<1>3. ASSUME NEW q \in N
      PROVE  /\ NodesBefore(t, q) \subseteq N \ {q}
             /\ IsFiniteSet(NodesBefore(t, q))
             /\ Cardinality(NodesBefore(t, q)) \in 0..(c - 1)
  <2>1. NodesBefore(t, q) \subseteq N \ {q}
    BY <1>1, BeforeIrreflexive DEF NodesBefore
  <2>2. IsFiniteSet(N \ {q}) /\ Cardinality(N \ {q}) = c - 1
    BY <1>1, FS_RemoveElement
  <2>3. IsFiniteSet(NodesBefore(t, q)) /\ Cardinality(NodesBefore(t, q)) <= c - 1
    <3> HIDE DEF N, c
    <3>. QED
      BY <2>1, <2>2, FS_Subset
  <2>4. Cardinality(NodesBefore(t, q)) \in Nat
    BY <2>3, FS_CardinalityType
  <2>. QED
    BY <1>2, <2>1, <2>3, <2>4
<1>4. ASSUME NEW p \in N, NEW q \in N, Before(p, q)
      PROVE  Cardinality(NodesBefore(t, p)) < Cardinality(NodesBefore(t, q))
  <2> DEFINE P == NodesBefore(t, p)
             Q == NodesBefore(t, q)
  <2>1. P \subseteq Q \ {p}
    BY <1>1, <1>4, BeforeTransitive, BeforeIrreflexive DEF NodesBefore
  <2>2. p \in Q
    BY <1>4 DEF NodesBefore
  <2>3. IsFiniteSet(Q) /\ Cardinality(Q) \in Nat /\ Cardinality(P) \in Nat
    BY <1>2, <1>3
  <2> HIDE DEF P, Q
  <2>4. IsFiniteSet(Q \ {p}) /\ Cardinality(Q \ {p}) = Cardinality(Q) - 1
    BY <2>2, <2>3, FS_RemoveElement
  <2>5. Cardinality(P) <= Cardinality(Q \ {p})
    BY <2>1, <2>4, FS_Subset
  <2>6. Cardinality(P) < Cardinality(Q)
    BY <2>3, <2>4, <2>5
  <2>. QED
    BY <2>6 DEF P, Q
<1>5. rank \in [N -> 0..(c - 1)]
  BY <1>3
<1>6. ASSUME NEW p \in N, NEW q \in N, rank[p] = rank[q]
      PROVE  p = q
  <2> SUFFICES ASSUME p # q
               PROVE  FALSE
    OBVIOUS
  <2>1. Before(p, q) \/ Before(q, p)
    BY <1>1, BeforeTotal
  <2>2. /\ Cardinality(NodesBefore(t, p)) = Cardinality(NodesBefore(t, q))
        /\ Cardinality(NodesBefore(t, p)) \in Nat
    BY <1>2, <1>3, <1>6
  <2>. QED
    BY <1>4, <2>1, <2>2
<1>7. IsFiniteSet(0..(c - 1)) /\ Cardinality(0..(c - 1)) = c
  <2>1. 0 \in Int /\ c - 1 \in Int
    BY <1>2
  <2> HIDE DEF c
  <2>2. IsFiniteSet(0..(c - 1)) /\ Cardinality(0..(c - 1)) = IF 0 > c - 1 THEN 0 ELSE (c - 1) - 0 + 1
    BY <2>1, FS_Interval
  <2>. QED
    BY <1>2, <2>2
<1>8. \E q \in N : rank[q] = n
  <2> HIDE DEF rank
  <2>1. rank \in Injection(N, 0..(c - 1))
    BY <1>5, <1>6 DEF Injection, IsInjective
  <2>2. Cardinality(N) = Cardinality(0..(c - 1))
    BY <1>7
  <2>3. rank \in Surjection(N, 0..(c - 1))
    <3> HIDE DEF c, N
    <3>. QED
      BY <1>7, <2>1, <2>2, FS_Injection
  <2>4. n \in 0..(c - 1)
    BY <1>2
  <2>. QED
    BY <2>3, <2>4 DEF Surjection
<1>9. \E q \in Nodes(t) : Cardinality(NodesBefore(t, q)) = n
  BY <1>8
<1>. QED
  BY <1>9 DEF pickNthNode

(* what hangs at a node, and where the node is, make the tree no deeper *)
LEMMA DepthOfSubtree ==
  ASSUME NEW A \in Arities, NEW t, Tree(t, A), NEW p \in Nodes(t)
  PROVE  Len(p) + depthOfTree(Subtree(t, p)) <= depthOfTree(t)
<1> DEFINE s == Subtree(t, p)
<1>1. p \in Path /\ p \in DOMAIN t
  BY NodesOfTree
<1>2. Tree(s, A)
  BY <1>1, SubtreeIsTree
<1>3. \A r \in Path : r \in Nodes(s) <=> p \o r \in Nodes(t)
  BY NodesOfSubtree
<1> HIDE DEF s
<1>4. PICK r \in Nodes(s) : Len(r) + 1 = depthOfTree(s)
  BY <1>2, DepthOfTree
<1>5. r \in Path
  BY <1>2, NodesOfTree
<1>6. Len(p \o r) < depthOfTree(t) /\ depthOfTree(t) \in Nat
  BY <1>3, <1>5, DepthOfTree
<1>7. Len(p \o r) = Len(p) + Len(r) /\ Len(p) \in Nat /\ Len(r) \in Nat
  BY <1>1, <1>5, PathConcat, PathLen
<1>8. Len(p) + depthOfTree(s) <= depthOfTree(t)
  BY <1>4, <1>6, <1>7
<1>. QED
  BY <1>8 DEF s

(* A graft may replace any node, and be the first child of any root. *)
LEMMA GraftableNodes ==
  ASSUME NEW A \in Arities, NEW t, Tree(t, A)
  PROVE  /\ \A p \in Nodes(t) : p \in Path /\ Graftable(t, p)
         /\ <<0>> \in Path /\ Graftable(t, <<0>>)
<1>1. ASSUME NEW p \in Nodes(t)
      PROVE  p \in Path /\ Graftable(t, p)
  <2>1. p \in Path
    BY NodesOfTree
  <2>2. CASE p = Root
    BY <2>1, <2>2 DEF Graftable
  <2>3. CASE \E r \in Path, k \in Nat : p = Append(r, k)
    <3>1. PICK r \in Path, k \in Nat : p = Append(r, k)
      BY <2>3
    <3>2. r \in DOMAIN t /\ k < t[r]
      BY <3>1, NodesOfTree
    <3>. QED
      BY <2>1, <3>1, <3>2 DEF Graftable
  <2>. QED
    BY <2>1, <2>2, <2>3, PathCases
<1>2. <<0>> \in Path /\ <<0>> = Append(Root, 0)
  BY OneStep
<1>3. Root \in DOMAIN t /\ (0 < t[Root] \/ t[Root] = 0)
  BY NodesOfTree
<1>4. Graftable(t, <<0>>)
  BY <1>2, <1>3 DEF Graftable
<1>. QED
  BY <1>1, <1>2, <1>4

-----------------------------------------------------------------------------
(* Behaviours *)

(* all the trees, as a set *)
TreesOf(A) == {t \in UNION {[D -> 0..2] : D \in SUBSET Path} : Tree(t, A)}

LEMMA TreesOfTrees ==
  ASSUME NEW A \in Arities, NEW t
  PROVE  Tree(t, A) <=> t \in TreesOf(A)
<1>1. ASSUME Tree(t, A)
      PROVE  t \in TreesOf(A)
  <2>1. t = [p \in DOMAIN t |-> t[p]] /\ DOMAIN t \in SUBSET Path
    BY <1>1 DEF Tree
  <2>2. \A p \in DOMAIN t : t[p] \in 0..2
    BY <1>1 DEF Tree, Arities
  <2>3. t \in [DOMAIN t -> 0..2]
    BY <2>1, <2>2
  <2>. QED
    BY <1>1, <2>1, <2>3 DEF TreesOf
<1>. QED
  BY <1>1 DEF TreesOf

Controls == {"create", "evolve", "mutate", "choose", "graft", "crashed"}

(* every individual is a tree *)
TypeOK ==
  /\ program \in Programs
  /\ pc \in Controls
  /\ trees \in Seq(TreesOf(program.arities))

(* the individuals and the nodes that were chosen are there *)
ChosenInv ==
  /\ pc = "mutate" => target \in DOMAIN trees /\ stock \in Nodes(trees[target])
  /\ pc \in {"choose", "graft"} => {p1, p2, target} \subseteq DOMAIN trees
  /\ pc = "graft" => stock \in Nodes(T1) /\ graft \in Nodes(T2)

(* a child was found not to be too deep, or the crossover was given up *)
AcceptedInv ==
  pc = "graft" => \/ ChildrenDepth(stock, graft) <= TREE_DEPTH_MAX
                  \/ stock = Root /\ graft = Root

(* the depth of the trees that RAMPED_H_H has made *)
CreatedInv ==
  pc = "create" /\ DepthRange \in 1..program.parentPopulationSize =>
    /\ Len(trees) <= program.parentPopulationSize
    /\ \A i \in 1..Len(trees) :
         depthOfTree(trees[i])
           = program.INIT_TREE_DEPTH_MIN
               + (i - 1) \div (program.parentPopulationSize \div DepthRange)

Inv == TypeOK /\ ChosenInv /\ AcceptedInv /\ CreatedInv

LEMMA ProgramType ==
  ASSUME program \in Programs
  PROVE  /\ program.arities \in Arities
         /\ program.parentPopulationSize \in Nat \ {0}
         /\ program.INIT_TREE_DEPTH_MIN \in Nat \ {0}
         /\ program.INIT_TREE_DEPTH_MAX \in Nat
         /\ program.TREE_DEPTH_MAX \in Nat \ {0}
         /\ DepthRange \in Int
BY ProgramsAssumption DEF Program, Arities, DepthRange

(* the trees of a state *)
LEMMA TreesAt ==
  ASSUME TypeOK
  PROVE  /\ program.arities \in Arities
         /\ DOMAIN trees = 1..Len(trees)
         /\ Len(trees) \in Nat
         /\ \A i \in DOMAIN trees : Tree(trees[i], program.arities)
<1>1. program.arities \in Arities
  BY ProgramType DEF TypeOK
<1>2. DOMAIN trees = 1..Len(trees) /\ Len(trees) \in Nat
      /\ \A i \in 1..Len(trees) : trees[i] \in TreesOf(program.arities)
  BY LenProperties, ElementOfSeq DEF TypeOK
<1>3. \A i \in DOMAIN trees : Tree(trees[i], program.arities)
  BY <1>1, <1>2, TreesOfTrees
<1>. QED
  BY <1>1, <1>2, <1>3

(* An individual is replaced by a tree. *)
LEMMA TreeReplaced ==
  ASSUME TypeOK, NEW i \in DOMAIN trees, NEW t, Tree(t, program.arities)
  PROVE  [trees EXCEPT ![i] = t] \in Seq(TreesOf(program.arities))
<1>1. t \in TreesOf(program.arities) /\ i \in 1..Len(trees)
  BY TreesAt, TreesOfTrees
<1>. QED
  BY <1>1, ExceptSeq DEF TypeOK

(* The nodes that a crossover may take are nodes of the second parent. *)
LEMMA GraftNodesOfTree ==
  ASSUME TypeOK, p1 \in DOMAIN trees, p2 \in DOMAIN trees
  PROVE  GraftNodes \subseteq Nodes(T2)
<1> DEFINE A == program.arities
           N == enumTreeNodes(T1)
           M == enumTreeNodes(T2)
<1>1. A \in Arities /\ Tree(T1, A) /\ Tree(T2, A)
  BY TreesAt DEF T1, T2
<1>2. Root \in Nodes(T2) /\ IsFiniteSet(Nodes(T1)) /\ IsFiniteSet(Nodes(T2))
  BY <1>1, NodesOfTree
<1>3. N \in Nat /\ M \in Nat
  BY <1>2, FS_CardinalityType DEF enumTreeNodes
<1>4. ASSUME NEW n \in 1..(M - 1)
      PROVE  pickNthNode(T2, Min({n, N})) \in Nodes(T2)
  <2> DEFINE m == Min({n, N})
  <2>1. n \in Nat /\ n < M
    BY <1>3
  <2> HIDE DEF N, M
  <2>2. m \in {n, N} /\ m <= n /\ m <= N
    BY <1>3, <2>1, LesserOfTwo
  <2>3. m \in Nat /\ m < M
    BY <1>3, <2>1, <2>2
  <2> HIDE DEF m
  <2>4. pickNthNode(T2, m) \in Nodes(T2)
    BY <1>1, <2>3, PickNthNode DEF M
  <2>. QED
    BY <2>4 DEF m
<1>. QED
  BY <1>2, <1>4 DEF GraftNodes

LEMMA InvInit == Init => Inv
<1> SUFFICES ASSUME Init
             PROVE  Inv
  OBVIOUS
<1>1. trees \in Seq(TreesOf(program.arities)) /\ Len(trees) = 0
  BY EmptySeq DEF Init
<1>2. TypeOK
  BY <1>1 DEF Init, TypeOK, Controls
<1>3. ChosenInv /\ AcceptedInv
  BY DEF Init, ChosenInv, AcceptedInv
<1>4. CreatedInv
  <2>1. program.parentPopulationSize \in Nat
    BY ProgramType DEF Init
  <2>. QED
    BY <1>1, <2>1 DEF CreatedInv
<1>. QED
  BY <1>2, <1>3, <1>4 DEF Inv

(* The depth that RAMPED_H_H asks for is positive. *)
LEMMA InitialDepthType ==
  ASSUME TypeOK, DepthRange \in 1..program.parentPopulationSize
  PROVE  /\ InitialDepth \in Nat \ {0}
         /\ program.parentPopulationSize \div DepthRange \in Nat \ {0}
<1> DEFINE P == program.parentPopulationSize
           R == DepthRange
           n == Len(trees)
           m == program.INIT_TREE_DEPTH_MIN
<1>1. P \in Nat \ {0} /\ m \in Nat \ {0} /\ R \in 1..P /\ n \in Nat
  BY ProgramType, TreesAt DEF TypeOK
<1>2. InitialDepth = m + n \div (P \div R)
  BY DEF InitialDepth
<1> HIDE DEF P, R, n, m
<1>3. P \div R \in Nat \ {0}
  BY <1>1
<1>4. n \div (P \div R) \in Nat
  BY <1>1, <1>3
<1>. QED
  BY <1>1, <1>2, <1>3, <1>4 DEF P, R

LEMMA InvRAMPED_H_H ==
  ASSUME Inv, RAMPED_H_H
  PROVE  Inv'
<1> DEFINE A == program.arities
           P == program.parentPopulationSize
           R == DepthRange
           n == Len(trees)
<1>1. /\ TypeOK /\ CreatedInv /\ pc = "create" /\ n < P /\ R \in 1..P
      /\ program' = program /\ pc' = pc
  BY DEF Inv, RAMPED_H_H
<1>2. PICK t \in construction_method(InitialDepth, TRUE) : trees' = Append(trees, t)
  BY DEF RAMPED_H_H
<1>3. InitialDepth \in Nat \ {0} /\ A \in Arities /\ n \in Nat /\ P \in Nat
  BY <1>1, InitialDepthType, TreesAt, ProgramType DEF TypeOK
<1>4. Tree(t, A) /\ depthOfTree(t) = InitialDepth
  <2> DEFINE d == InitialDepth
  <2>1. A \in Arities /\ d \in Nat \ {0} /\ t \in construction_method(d, TRUE)
    BY <1>2, <1>3
  <2> HIDE DEF d
  <2>2. d \in Int
    BY <2>1
  <2>3. /\ Tree(t, A)
        /\ TRUE => depthOfTree(t) = IF d <= 1 THEN 1 ELSE d
    BY <2>1, <2>2, ConstructionMethod
  <2>4. depthOfTree(t) = d
    BY <2>1, <2>3
  <2>. QED
    BY <2>3, <2>4 DEF d
<1>5. t \in TreesOf(A) /\ trees \in Seq(TreesOf(A))
  BY <1>1, <1>3, <1>4, TreesOfTrees DEF TypeOK
<1>6. /\ trees' \in Seq(TreesOf(A)) /\ Len(trees') = n + 1
      /\ \A i \in 1..n : trees'[i] = trees[i]
      /\ trees'[n + 1] = t
  BY <1>2, <1>5, AppendProperties
<1>7. TypeOK'
  BY <1>1, <1>6 DEF TypeOK
<1>8. ChosenInv' /\ AcceptedInv'
  BY <1>1 DEF ChosenInv, AcceptedInv
<1>9. CreatedInv'
  <2> DEFINE Depth(i) == program.INIT_TREE_DEPTH_MIN + (i - 1) \div (P \div R)
  <2>1. R' = R /\ P' = P /\ program'.INIT_TREE_DEPTH_MIN = program.INIT_TREE_DEPTH_MIN
    BY <1>1 DEF DepthRange
  <2>2. \A i \in 1..n : depthOfTree(trees[i]) = Depth(i)
    BY <1>1 DEF CreatedInv
  <2>3. depthOfTree(t) = Depth(n + 1)
    <3>1. (n + 1) - 1 = n
      BY <1>3
    <3>. QED
      BY <1>4, <3>1 DEF InitialDepth
  <2>4. \A i \in 1..(n + 1) : i \in 1..n \/ i = n + 1
    BY <1>3
  <2> HIDE DEF Depth
  <2>5. \A i \in 1..(n + 1) : depthOfTree(trees'[i]) = Depth(i)
    BY <1>6, <2>2, <2>3, <2>4
  <2>6. Len(trees') <= P
    BY <1>1, <1>3, <1>6
  <2>. QED
    BY <1>6, <2>1, <2>5, <2>6 DEF CreatedInv, Depth
<1>. QED
  BY <1>7, <1>8, <1>9 DEF Inv

(* a step that leaves the individuals and what was chosen alone *)
LEMMA InvPopulationKept ==
  ASSUME Inv, program' = program, trees' = trees,
         pc' \in {"evolve", "crashed"}
  PROVE  Inv'
BY DEF Inv, TypeOK, Controls, ChosenInv, AcceptedInv, CreatedInv

LEMMA InvSelectMutationPoint ==
  ASSUME Inv, SelectMutationPoint
  PROVE  Inv'
<1>1. /\ pc' = "mutate" /\ program' = program /\ trees' = trees
      /\ target' \in DOMAIN trees /\ stock' \in selectNode(trees[target'])
  BY DEF SelectMutationPoint, Goto
<1>2. stock' \in Nodes(trees[target'])
  BY <1>1 DEF selectNode
<1>3. TypeOK'
  BY <1>1 DEF Inv, TypeOK, Controls
<1>4. ChosenInv'
  BY <1>1, <1>2 DEF ChosenInv
<1>5. AcceptedInv' /\ CreatedInv'
  BY <1>1 DEF AcceptedInv, CreatedInv
<1>. QED
  BY <1>3, <1>4, <1>5 DEF Inv

(* a step that replaces an individual by a tree *)
LEMMA InvTreeReplaced ==
  ASSUME Inv, program' = program, pc' = "evolve", NEW i \in DOMAIN trees, NEW t,
         Tree(t, program.arities), trees' = [trees EXCEPT ![i] = t]
  PROVE  Inv'
<1>1. TypeOK
  BY DEF Inv
<1>2. trees' \in Seq(TreesOf(program.arities))
  BY <1>1, TreeReplaced
<1>3. TypeOK'
  BY <1>1, <1>2 DEF TypeOK, Controls
<1>. QED
  BY <1>3 DEF Inv, ChosenInv, AcceptedInv, CreatedInv

(* What simple_mutator leaves in the population: the mutant with a new subtree. *)
LEMMA Mutant ==
  ASSUME Inv, simple_mutator
  PROVE  \E s \in construction_method(TREE_DEPTH_MAX - Len(stock), FALSE) :
           /\ target \in DOMAIN trees /\ stock \in Nodes(trees[target])
           /\ Tree(trees[target], program.arities) /\ Tree(s, program.arities)
           /\ MutationPoint \in Path /\ Graftable(trees[target], MutationPoint)
           /\ depthOfTree(s)
                <= IF TREE_DEPTH_MAX - Len(stock) <= 1 THEN 1 ELSE TREE_DEPTH_MAX - Len(stock)
           /\ trees' = [trees EXCEPT ![target] = Grafted(trees[target], MutationPoint, s)]
<1>1. pc = "mutate" /\ target \in DOMAIN trees /\ stock \in Nodes(trees[target]) /\ TypeOK
  BY DEF Inv, ChosenInv, simple_mutator
<1>2. PICK s \in construction_method(TREE_DEPTH_MAX - Len(stock), FALSE) :
        trees' = [trees EXCEPT ![target] = Grafted(@, MutationPoint, s)]
  BY DEF simple_mutator
<1>3. program.arities \in Arities /\ Tree(trees[target], program.arities)
  BY <1>1, TreesAt
<1>4. stock \in Path
  BY <1>1, <1>3, NodesOfTree
<1>5. TREE_DEPTH_MAX \in Nat /\ Len(stock) \in Nat
  BY <1>1, <1>4, PathLen, ProgramType DEF TypeOK, TREE_DEPTH_MAX
<1>6. TREE_DEPTH_MAX - Len(stock) \in Int
  BY <1>5
<1>7. /\ Tree(s, program.arities)
      /\ depthOfTree(s)
           <= IF TREE_DEPTH_MAX - Len(stock) <= 1 THEN 1 ELSE TREE_DEPTH_MAX - Len(stock)
  BY <1>2, <1>3, <1>6, ConstructionMethod
<1>8. MutationPoint \in Path /\ Graftable(trees[target], MutationPoint)
  BY <1>1, <1>3, GraftableNodes DEF MutationPoint
<1>9. trees' = [trees EXCEPT ![target] = Grafted(trees[target], MutationPoint, s)]
  BY <1>2
<1>. QED
  BY <1>1, <1>2, <1>3, <1>7, <1>8, <1>9

LEMMA InvSimpleMutator ==
  ASSUME Inv, simple_mutator
  PROVE  Inv'
<1>1. PICK s \in construction_method(TREE_DEPTH_MAX - Len(stock), FALSE) :
        /\ target \in DOMAIN trees
        /\ Tree(trees[target], program.arities) /\ Tree(s, program.arities)
        /\ MutationPoint \in Path /\ Graftable(trees[target], MutationPoint)
        /\ trees' = [trees EXCEPT ![target] = Grafted(trees[target], MutationPoint, s)]
  BY Mutant
<1>2. program.arities \in Arities
  BY TreesAt DEF Inv
<1>3. Tree(Grafted(trees[target], MutationPoint, s), program.arities)
  BY <1>1, <1>2, GraftedIsTree
<1>4. program' = program /\ pc' = "evolve"
  BY DEF simple_mutator, Goto
<1>. QED
  BY <1>1, <1>3, <1>4, InvTreeReplaced

LEMMA InvStartCrossOver ==
  ASSUME Inv, StartCrossOver
  PROVE  Inv'
<1>1. /\ pc' = "choose" /\ program' = program /\ trees' = trees
      /\ p1' \in DOMAIN trees /\ p2' \in DOMAIN trees /\ target' \in DOMAIN trees
  BY DEF StartCrossOver, Goto
<1>. QED
  BY <1>1 DEF Inv, TypeOK, Controls, ChosenInv, AcceptedInv, CreatedInv

LEMMA InvChooseNodes ==
  ASSUME Inv, ChooseNodes
  PROVE  Inv'
<1>1. /\ pc = "choose" /\ pc' = "graft" /\ program' = program /\ trees' = trees
      /\ p1' = p1 /\ p2' = p2 /\ target' = target
      /\ stock' \in StockNodes /\ graft' \in GraftNodes /\ Accepted(stock', graft')
  BY DEF ChooseNodes, Goto
<1>2. TypeOK /\ p1 \in DOMAIN trees /\ p2 \in DOMAIN trees /\ target \in DOMAIN trees
  BY <1>1 DEF Inv, ChosenInv
<1>3. stock' \in Nodes(T1) /\ graft' \in Nodes(T2)
  BY <1>1, <1>2, GraftNodesOfTree DEF StockNodes
<1>4. ChildrenDepth(stock', graft') <= TREE_DEPTH_MAX
  BY <1>1 DEF Accepted
<1>5. T1' = T1 /\ T2' = T2 /\ TREE_DEPTH_MAX' = TREE_DEPTH_MAX
  BY <1>1 DEF T1, T2, TREE_DEPTH_MAX
<1>6. TypeOK'
  BY <1>1, <1>2 DEF TypeOK, Controls
<1>7. ChosenInv'
  BY <1>1, <1>2, <1>3, <1>5 DEF ChosenInv
<1>8. AcceptedInv'
  BY <1>4, <1>5 DEF AcceptedInv, ChildrenDepth
<1>9. CreatedInv'
  BY <1>1 DEF CreatedInv
<1>. QED
  BY <1>6, <1>7, <1>8, <1>9 DEF Inv

LEMMA InvChooseAgain ==
  ASSUME Inv, ChooseAgain
  PROVE  Inv'
<1>1. /\ pc = "choose" /\ pc' = "choose" /\ program' = program /\ trees' = trees
      /\ p1' = p1 /\ p2' = p2 /\ target' = target
  BY DEF ChooseAgain
<1>. QED
  BY <1>1 DEF Inv, TypeOK, Controls, ChosenInv, AcceptedInv, CreatedInv

LEMMA InvAbortCrossOver ==
  ASSUME Inv, AbortCrossOver
  PROVE  Inv'
<1>1. /\ pc = "choose" /\ pc' = "graft" /\ program' = program /\ trees' = trees
      /\ p1' = p1 /\ p2' = p2 /\ target' = target
      /\ stock' = Root /\ graft' = Root
  BY DEF AbortCrossOver, Goto
<1>2. TypeOK /\ p1 \in DOMAIN trees /\ p2 \in DOMAIN trees /\ target \in DOMAIN trees
  BY <1>1 DEF Inv, ChosenInv
<1>3. Root \in Nodes(trees[p1]) /\ Root \in Nodes(trees[p2])
  BY <1>2, TreesAt, NodesOfTree
<1>4. TypeOK'
  BY <1>1, <1>2 DEF TypeOK, Controls
<1>5. ChosenInv'
  BY <1>1, <1>2, <1>3 DEF ChosenInv, T1, T2
<1>6. AcceptedInv' /\ CreatedInv'
  BY <1>1 DEF AcceptedInv, CreatedInv
<1>. QED
  BY <1>4, <1>5, <1>6 DEF Inv

(* What simpleCrossOver leaves in the population: the first parent with a      *)
(* subtree of the second.                                                      *)
LEMMA Child ==
  ASSUME Inv, simpleCrossOver
  PROVE  /\ target \in DOMAIN trees
         /\ Tree(T1, program.arities) /\ Tree(T2, program.arities)
         /\ stock \in Nodes(T1) /\ graft \in Nodes(T2)
         /\ stock \in Path /\ Graftable(T1, stock)
         /\ Tree(Subtree(T2, graft), program.arities)
         /\ trees' = [trees EXCEPT ![target] = Grafted(T1, stock, Subtree(T2, graft))]
<1>1. /\ pc = "graft" /\ {p1, p2, target} \subseteq DOMAIN trees
      /\ stock \in Nodes(T1) /\ graft \in Nodes(T2) /\ TypeOK
      /\ trees' = [trees EXCEPT ![target] = Grafted(T1, stock, Subtree(T2, graft))]
  BY DEF Inv, ChosenInv, simpleCrossOver
<1>2. program.arities \in Arities /\ Tree(T1, program.arities) /\ Tree(T2, program.arities)
  BY <1>1, TreesAt DEF T1, T2
<1>3. stock \in Path /\ Graftable(T1, stock)
  BY <1>1, <1>2, GraftableNodes
<1>4. graft \in DOMAIN T2
  BY <1>1, <1>2, NodesOfTree
<1>5. Tree(Subtree(T2, graft), program.arities)
  BY <1>2, <1>4, SubtreeIsTree
<1>. QED
  BY <1>1, <1>2, <1>3, <1>5

LEMMA InvSimpleCrossOver ==
  ASSUME Inv, simpleCrossOver
  PROVE  Inv'
<1>1. /\ target \in DOMAIN trees
      /\ Tree(T1, program.arities) /\ stock \in Path /\ Graftable(T1, stock)
      /\ Tree(Subtree(T2, graft), program.arities)
      /\ trees' = [trees EXCEPT ![target] = Grafted(T1, stock, Subtree(T2, graft))]
  BY Child
<1>2. program.arities \in Arities
  BY TreesAt DEF Inv
<1>3. Tree(Grafted(T1, stock, Subtree(T2, graft)), program.arities)
  BY <1>1, <1>2, GraftedIsTree
<1>4. program' = program /\ pc' = "evolve"
  BY DEF simpleCrossOver, Goto
<1>. QED
  BY <1>1, <1>3, <1>4, InvTreeReplaced

LEMMA InvNext ==
  ASSUME Inv, [Next]_vars
  PROVE  Inv'
<1>1. CASE RAMPED_H_H
  BY <1>1, InvRAMPED_H_H
<1>2. CASE DivisionByZero
  BY <1>2, InvPopulationKept DEF DivisionByZero, Goto
<1>3. CASE Created
  BY <1>3, InvPopulationKept DEF Created, Goto
<1>4. CASE SelectMutationPoint
  BY <1>4, InvSelectMutationPoint
<1>5. CASE simple_mutator
  BY <1>5, InvSimpleMutator
<1>6. CASE StartCrossOver
  BY <1>6, InvStartCrossOver
<1>7. CASE ChooseNodes
  BY <1>7, InvChooseNodes
<1>8. CASE ChooseAgain
  BY <1>8, InvChooseAgain
<1>9. CASE AbortCrossOver
  BY <1>9, InvAbortCrossOver
<1>10. CASE simpleCrossOver
  BY <1>10, InvSimpleCrossOver
<1>11. CASE UNCHANGED vars
  BY <1>11 DEF vars, Inv, TypeOK, ChosenInv, AcceptedInv, CreatedInv, T1, T2, ChildrenDepth,
               TREE_DEPTH_MAX, DepthRange
<1>. QED
  BY <1>1, <1>2, <1>3, <1>4, <1>5, <1>6, <1>7, <1>8, <1>9, <1>10, <1>11 DEF Next

(* In every reachable state the individuals are trees, the nodes that were     *)
(* chosen for an operation are there, a crossover goes on with a child that    *)
(* was found not to be too deep or was given up, and the first population has  *)
(* the depths that RAMPED_H_H asked for.                                       *)
THEOREM Invariance == Spec => []Inv
<1>1. Init => Inv
  BY InvInit
<1>2. Inv /\ [Next]_vars => Inv'
  BY InvNext
<1>. QED
  BY <1>1, <1>2, PTL DEF Spec

(* A tree has every argument its operations read, also after grafts were cut   *)
(* out of copies: no recursive function meets a NULL child.                    *)
THEOREM Complete == Spec => []TreesAreComplete
<1>1. ASSUME Inv
      PROVE  TreesAreComplete
  <2> SUFFICES ASSUME NEW i \in DOMAIN trees
               PROVE  /\ Root \in DOMAIN trees[i]
                      /\ \A p \in Nodes(trees[i]) :
                           /\ trees[i][p] \in {0} \cup program.arities
                           /\ \A k \in 0..(trees[i][p] - 1) : Append(p, k) \in DOMAIN trees[i]
    BY DEF TreesAreComplete
  <2>1. program.arities \in Arities /\ Tree(trees[i], program.arities)
    BY <1>1, TreesAt DEF Inv
  <2>2. Nodes(trees[i]) \subseteq DOMAIN trees[i]
    BY <2>1, NodesOfTree
  <2>. QED
    BY <2>1, <2>2 DEF Tree
<1>. QED
  BY <1>1, Invariance, PTL

(* A child pointer beyond the arity of its node is only ever set under a       *)
(* terminal, as its first one, whatever mutations and crossovers there were.   *)
THEOREM Hidden == Spec => []HiddenUnderLeaves
<1>1. ASSUME Inv
      PROVE  HiddenUnderLeaves
  <2>1. \A i \in DOMAIN trees : program.arities \in Arities /\ Tree(trees[i], program.arities)
    BY <1>1, TreesAt DEF Inv
  <2>. QED
    BY <2>1, HiddenInTree DEF HiddenUnderLeaves
<1>. QED
  BY <1>1, Invariance, PTL

(* A quotient by a rounded quotient: with R parts in P it is below R when they  *)
(* divide P, and otherwise below 2R - 1, since P < R * (m + 1) <= (2R - 1) * m. *)
LEMMA QuotientBelow ==
  ASSUME NEW P \in Nat \ {0}, NEW R \in 1..P
  PROVE  \A n \in 0..(P - 1) :
           n \div (P \div R) \in 0..(R - 1 + IF P % R = 0 THEN 0 ELSE R - 1)
<1> DEFINE m == P \div R
           bound == R + IF P % R = 0 THEN 0 ELSE R - 1
<1>1. P = (R * m) + (P % R) /\ P % R \in 0..(R - 1) /\ m \in Nat
  OBVIOUS
<1> HIDE DEF m
<1>2. m # 0
  <2>1. CASE m = 0
    <3>1. R * m = 0
      BY <2>1
    <3>. QED
      BY <1>1, <3>1
  <2>. QED
    BY <2>1
<1>3. bound \in Nat /\ P <= bound * m
  <2>1. CASE P % R = 0
    BY <1>1, <2>1
  <2>2. CASE P % R # 0
    <3>1. bound = R + (R - 1) /\ bound \in Nat
      BY <2>2
    <3>2. PICK e \in Nat : m = e + 1
      BY <1>1, <1>2
    <3>3. bound * m = (R * m) + ((R - 1) * m)
      BY <1>1, <3>1
    <3>4. (R - 1) * m = ((R - 1) * e) + (R - 1) /\ (R - 1) * e \in Nat
      BY <3>2
    <3>. QED
      BY <1>1, <3>1, <3>3, <3>4
  <2>. QED
    BY <2>1, <2>2
<1>4. ASSUME NEW n \in 0..(P - 1)
      PROVE  n \div m \in 0..(bound - 1)
  <2> DEFINE d == n \div m
  <2> HIDE DEF bound
  <2>1. n = (m * d) + (n % m) /\ n % m \in 0..(m - 1) /\ d \in Nat
    BY <1>1, <1>2
  <2> HIDE DEF d
  <2>2. m * d <= n /\ n < bound * m
    BY <1>1, <1>3, <2>1
  <2>3. ASSUME d >= bound
        PROVE  FALSE
    <3>1. PICK e \in Nat : d = bound + e
      BY <1>3, <2>1, <2>3
    <3>2. m * d = bound * m + m * e /\ m * e \in Nat /\ bound * m \in Nat
      BY <1>1, <1>3, <3>1
    <3>. QED
      BY <1>1, <2>1, <2>2, <3>2
  <2>4. d \in 0..(bound - 1)
    BY <1>3, <2>1, <2>3
  <2>. QED
    BY <2>4 DEF d
<1>5. bound - 1 = R - 1 + IF P % R = 0 THEN 0 ELSE R - 1
  BY DEF bound
<1> HIDE DEF bound
<1>. QED
  BY <1>4, <1>5 DEF m

(* The ramp of initial depths stays between the minimum and one below the      *)
(* maximum when the depths divide the population, and ends less than as many   *)
(* depths again higher when they do not.                                       *)
THEOREM InitialDepths == Spec => []InitialDepthsInRange
<1>1. ASSUME Inv
      PROVE  InitialDepthsInRange
  <2> DEFINE P == program.parentPopulationSize
             R == DepthRange
             min == program.INIT_TREE_DEPTH_MIN
             max == program.INIT_TREE_DEPTH_MAX
             more == IF P % R = 0 THEN 0 ELSE R - 1
  <2> SUFFICES ASSUME pc = "create", R \in 1..P, NEW i \in DOMAIN trees
               PROVE  depthOfTree(trees[i]) \in min..(max - 1 + more)
    BY DEF InitialDepthsInRange
  <2>1. P \in Nat \ {0} /\ min \in Nat /\ max \in Nat /\ R \in Int /\ R = max - min
    BY <1>1, ProgramType DEF Inv, TypeOK, DepthRange
  <2>2. \A n \in 0..(P - 1) : n \div (P \div R) \in 0..(R - 1 + more)
    <3> HIDE DEF P, R, min, max
    <3>. QED
      BY <2>1, QuotientBelow
  <2>3. more \in Nat
    <3> HIDE DEF P, R
    <3>. QED
      BY <2>1
  <2>4. i \in 1..Len(trees) /\ Len(trees) \in Nat
    BY <1>1, TreesAt DEF Inv
  <2>5. Len(trees) <= P /\ depthOfTree(trees[i]) = min + (i - 1) \div (P \div R)
    BY <1>1, <2>4 DEF Inv, CreatedInv
  <2> HIDE DEF P, R, min, max, more
  <2>6. i - 1 \in 0..(P - 1)
    <3>1. \A k, n, l \in Nat : k \in 1..n /\ n <= l => k - 1 \in 0..(l - 1)
      OBVIOUS
    <3>2. i \in Nat
      BY <2>4
    <3>. QED
      BY <2>1, <2>4, <2>5, <3>1, <3>2
  <2>7. (i - 1) \div (P \div R) \in 0..(R - 1 + more)
    BY <2>2, <2>6
  <2> DEFINE q == (i - 1) \div (P \div R)
  <2> HIDE DEF q
  <2>8. min + q \in min..(max - 1 + more)
    BY <2>1, <2>3, <2>7 DEF q
  <2>. QED
    BY <2>5, <2>8 DEF q
<1>. QED
  BY <1>1, Invariance, PTL

LEMMA GreatestOfFour ==
  ASSUME NEW a \in Nat, NEW b \in Nat, NEW c \in Nat, NEW e \in Int
  PROVE  /\ Max({a, b, c, e}) \in Nat
         /\ a <= Max({a, b, c, e}) /\ b <= Max({a, b, c, e})
         /\ c <= Max({a, b, c, e}) /\ e <= Max({a, b, c, e})
<1>0. IsFiniteSet({a, b, c})
  <2>1. {a, b, c} = ({a} \cup {b}) \cup {c}
    OBVIOUS
  <2>2. IsFiniteSet(({a} \cup {b}) \cup {c})
    BY FS_Singleton, FS_AddElement
  <2>. QED
    BY <2>1, <2>2
<1> DEFINE T == {a, b, c}
           S == {a, b, c, e}
<1>1. T \in SUBSET Nat /\ T # {} /\ a \in T /\ b \in T /\ c \in T
  OBVIOUS
<1>2. S = T \cup {e}
  OBVIOUS
<1> HIDE DEF S, T
<1>3. Max(T) \in T /\ \A x \in T : x <= Max(T)
  BY <1>0, <1>1, GreatestNatural DEF T
<1>4. \E x \in S : \A y \in S : y <= x
  <2>1. CASE e <= Max(T)
    BY <1>1, <1>2, <1>3, <2>1
  <2>2. CASE ~(e <= Max(T))
    <3>0. PICK x \in T : x = Max(T) /\ x \in Nat
      BY <1>1, <1>3
    <3>1. e \in S /\ \A y \in T : y \in Nat /\ y <= e
      BY <1>1, <1>2, <1>3, <2>2, <3>0
    <3>. QED
      BY <1>2, <3>1
  <2>. QED
    BY <2>1, <2>2
<1>5. Max(S) \in S /\ \A x \in S : x <= Max(S)
  BY <1>4 DEF Max
<1>6. a \in S /\ b \in S /\ c \in S /\ e \in S /\ S \subseteq Int
  BY <1>1, <1>2
<1>7. Max(S) \in Nat /\ a <= Max(S) /\ b <= Max(S) /\ c <= Max(S) /\ e <= Max(S)
  <2>1. PICK x \in S : x = Max(S)
    BY <1>5
  <2>2. x \in Int /\ a <= x /\ b <= x /\ c <= x /\ e <= x
    BY <1>5, <1>6, <2>1
  <2>3. x \in Nat
    BY <2>2
  <2>. QED
    BY <2>1, <2>2, <2>3
<1>. QED
  BY <1>7 DEF S

(* The depth of a mutant.  A new subtree is bounded by what is left below the  *)
(* node it was measured from, which is one above its place for the root.       *)
LEMMA MutantDepth ==
  ASSUME Inv, simple_mutator
  PROVE  depthOfTree(trees'[target])
           <= Max({TREE_DEPTH_MAX + (IF stock = Root THEN 1 ELSE 0), depthOfTree(trees[target])})
<1> DEFINE t == trees[target]
           d == depthOfTree(t)
           at == MutationPoint
           limit == TREE_DEPTH_MAX
           bound == limit + (IF stock = Root THEN 1 ELSE 0)
           m == Max({bound, d})
<1>1. PICK s \in construction_method(TREE_DEPTH_MAX - Len(stock), FALSE) :
        /\ target \in DOMAIN trees /\ stock \in Nodes(t)
        /\ Tree(t, program.arities) /\ Tree(s, program.arities)
        /\ at \in Path /\ Graftable(t, at)
        /\ depthOfTree(s) <= IF limit - Len(stock) <= 1 THEN 1 ELSE limit - Len(stock)
        /\ trees' = [trees EXCEPT ![target] = Grafted(t, at, s)]
  BY Mutant
<1>2. program.arities \in Arities
  BY TreesAt DEF Inv
<1>3. limit \in Nat \ {0} /\ bound \in Nat
  BY ProgramType DEF Inv, TypeOK, TREE_DEPTH_MAX
<1>4. d \in Nat /\ Len(stock) < d /\ Len(stock) \in Nat /\ depthOfTree(s) \in Nat
  BY <1>1, <1>2, DepthOfTree, NodesOfTree, PathLen
<1>5. m \in Nat /\ bound <= m /\ d <= m
  <2> HIDE DEF bound, d
  <2>. QED
    BY <1>3, <1>4, GreaterOfTwo
<1>6. Len(at) + depthOfTree(s) <= m
  <2>1. CASE stock = Root
    <3>1. Len(stock) = 0 /\ Len(at) = 1 /\ bound = limit + 1
      BY <2>1, RootIsPath DEF MutationPoint
    <3> HIDE DEF at, bound, limit, d, m
    <3>. QED
      BY <1>1, <1>3, <1>4, <1>5, <3>1
  <2>2. CASE stock # Root
    <3>1. at = stock /\ bound = limit
      BY <1>3, <2>2 DEF MutationPoint
    <3> HIDE DEF at, bound, limit, d, m
    <3>. QED
      BY <1>1, <1>3, <1>4, <1>5, <3>1
  <2>. QED
    BY <2>1, <2>2
<1>7. trees'[target] = Grafted(t, at, s)
  BY <1>1
<1>8. depthOfTree(Grafted(t, at, s)) <= m
  <2> HIDE DEF m, t, limit, at
  <2>. QED
    BY <1>1, <1>2, <1>5, <1>6, DepthOfGrafted
<1>. QED
  BY <1>7, <1>8

(* The depth of a child.  The graft is measured where it goes, but for a whole *)
(* second parent, for which the first was measured.                            *)
LEMMA ChildDepth ==
  ASSUME Inv, simpleCrossOver
  PROVE  depthOfTree(trees'[target])
           <= Max({TREE_DEPTH_MAX, depthOfTree(T1), depthOfTree(T2),
                   IF stock # Root /\ graft = Root
                   THEN TREE_DEPTH_MAX + depthOfTree(T2) - depthOfTree(T1) ELSE 0})
<1> DEFINE s == Subtree(T2, graft)
           d1 == depthOfTree(T1)
           d2 == depthOfTree(T2)
           limit == TREE_DEPTH_MAX
           whole == IF stock # Root /\ graft = Root THEN limit + d2 - d1 ELSE 0
           m == Max({limit, d1, d2, whole})
<1>1. /\ target \in DOMAIN trees
      /\ Tree(T1, program.arities) /\ Tree(T2, program.arities)
      /\ stock \in Nodes(T1) /\ graft \in Nodes(T2)
      /\ stock \in Path /\ Graftable(T1, stock)
      /\ Tree(s, program.arities)
      /\ trees' = [trees EXCEPT ![target] = Grafted(T1, stock, s)]
  BY Child
<1>2. program.arities \in Arities /\ pc = "graft"
      /\ (ChildrenDepth(stock, graft) <= limit \/ (stock = Root /\ graft = Root))
  BY TreesAt DEF Inv, simpleCrossOver, AcceptedInv
<1>3. limit \in Nat
  BY ProgramType DEF Inv, TypeOK, TREE_DEPTH_MAX
<1>4. d1 \in Nat /\ d2 \in Nat /\ depthOfTree(s) \in Nat /\ Len(stock) \in Nat /\ Len(graft) \in Nat
  BY <1>1, <1>2, DepthOfTree, NodesOfTree, PathLen
<1>5. Len(graft) + depthOfTree(s) <= d2
  BY <1>1, <1>2, DepthOfSubtree
<1>6. m \in Nat /\ limit <= m /\ d1 <= m /\ d2 <= m /\ whole <= m /\ whole \in Int
  <2>1. whole \in Int
    BY <1>3, <1>4
  <2> HIDE DEF limit, d1, d2, whole
  <2>. QED
    BY <1>3, <1>4, <2>1, GreatestOfFour
<1>7. Len(stock) + depthOfTree(s) <= m
  <2>1. CASE stock = Root
    <3>1. Len(stock) = 0
      BY <2>1, RootIsPath
    <3> HIDE DEF m, d2, s
    <3>. QED
      BY <1>4, <1>5, <1>6, <3>1
  <2>2. CASE stock # Root /\ graft = Root
    <3>1. Len(stock) + d1 <= limit /\ whole = limit + d2 - d1
      BY <1>2, <2>2 DEF ChildrenDepth
    <3> HIDE DEF m, d1, d2, s, limit, whole
    <3>. QED
      BY <1>3, <1>4, <1>5, <1>6, <3>1
  <2>3. CASE stock # Root /\ graft # Root
    <3>1. Len(stock) + depthOfTree(s) <= limit
      BY <1>2, <2>3 DEF ChildrenDepth
    <3> HIDE DEF m, s, limit
    <3>. QED
      BY <1>3, <1>4, <1>6, <3>1
  <2>. QED
    BY <2>1, <2>2, <2>3
<1>8. trees'[target] = Grafted(T1, stock, s)
  BY <1>1
<1>9. depthOfTree(Grafted(T1, stock, s)) <= m
  <2> HIDE DEF m, s
  <2>. QED
    BY <1>1, <1>2, <1>6, <1>7, DepthOfGrafted
<1>. QED
  BY <1>8, <1>9

(* The mutation of a root passes the limit and the individual by one level at  *)
(* most, the graft of a whole second parent passes the limit and the parents   *)
(* by what the second is deeper than the first at most, and nothing else       *)
(* passes them.                                                                *)
THEOREM DepthBounded == Spec => DepthIsBounded
<1> DEFINE Bounded ==
      /\ pc = "mutate" =>
           depthOfTree(trees'[target])
             <= Max({TREE_DEPTH_MAX + (IF stock = Root THEN 1 ELSE 0), depthOfTree(trees[target])})
      /\ pc = "graft" =>
           depthOfTree(trees'[target])
             <= Max({TREE_DEPTH_MAX, depthOfTree(T1), depthOfTree(T2),
                     IF stock # Root /\ graft = Root
                     THEN TREE_DEPTH_MAX + depthOfTree(T2) - depthOfTree(T1) ELSE 0})
<1>1. ASSUME Inv, [Next]_vars
      PROVE  [Bounded]_vars
  <2>1. CASE UNCHANGED vars
    BY <2>1
  <2>2. CASE pc = "mutate" /\ Next
    <3>1. CASE simple_mutator
      BY <1>1, <2>2, <3>1, MutantDepth
    <3>2. CASE ~simple_mutator
      BY <2>1, <2>2, <3>2 DEF Next, RAMPED_H_H, DivisionByZero, Created, SelectMutationPoint,
         StartCrossOver, ChooseNodes, ChooseAgain, AbortCrossOver, simpleCrossOver, Ended
    <3>. QED
      BY <3>1, <3>2
  <2>3. CASE pc = "graft" /\ Next
    <3>1. CASE simpleCrossOver
      BY <1>1, <2>3, <3>1, ChildDepth
    <3>2. CASE ~simpleCrossOver
      BY <2>1, <2>3, <3>2 DEF Next, RAMPED_H_H, DivisionByZero, Created, SelectMutationPoint,
         simple_mutator, StartCrossOver, ChooseNodes, ChooseAgain, AbortCrossOver, Ended
    <3>. QED
      BY <3>1, <3>2
  <2>4. CASE pc # "mutate" /\ pc # "graft"
    BY <2>4
  <2>. QED
    BY <1>1, <2>1, <2>2, <2>3, <2>4
<1>. QED
  BY <1>1, Invariance, PTL DEF Spec, DepthIsBounded

-----------------------------------------------------------------------------
(* The stack of pickNthNode *)

(* the children of the nodes in S *)
Children(t, S) == {c \in Nodes(t) : \E p \in S, k \in Nat : c = Append(p, k)}

(* A node more in S is as many children more as its arity. *)
LEMMA ChildrenOfOneMore ==
  ASSUME NEW A \in Arities, NEW t, Tree(t, A), NEW S \in SUBSET Nodes(t), NEW x \in S
  PROVE  /\ IsFiniteSet(Children(t, S))
         /\ Cardinality(Children(t, S)) \in Nat
         /\ Cardinality(Children(t, S)) = t[x] + Cardinality(Children(t, S \ {x}))
<1> DEFINE C == Children(t, S)
           D == Children(t, S \ {x})
           E == {c \in Nodes(t) : \E k \in Nat : c = Append(x, k)}
           f == [k \in 0..(t[x] - 1) |-> Append(x, k)]
<1>1. x \in Nodes(t) /\ Nodes(t) \subseteq Path /\ IsFiniteSet(Nodes(t)) /\ t[x] \in 0..2
  BY NodesOfTree
<1>2. IsFiniteSet(C) /\ IsFiniteSet(D) /\ IsFiniteSet(E)
  BY <1>1, FS_Subset DEF Children
<1>3. C = D \cup E
  BY DEF Children
<1>4. D \cap E = {}
  <2> SUFFICES ASSUME NEW c \in D, c \in E
               PROVE  FALSE
    OBVIOUS
  <2>1. PICK p \in S \ {x}, k \in Nat : c = Append(p, k)
    BY DEF Children
  <2>2. PICK l \in Nat : c = Append(x, l)
    OBVIOUS
  <2>. QED
    BY <1>1, <2>1, <2>2, PathAppendInjective
<1>5. Cardinality(E) = t[x]
  <2>1. \A k \in Nat : Append(x, k) \in Nodes(t) <=> k < t[x]
    BY <1>1, NodesOfTree
  <2>2. ASSUME NEW k \in 0..(t[x] - 1)
        PROVE  k \in Nat /\ Append(x, k) \in E
    <3>1. k \in Nat /\ k < t[x]
      BY <1>1
    <3>2. Append(x, k) \in Nodes(t)
      BY <2>1, <3>1
    <3>. QED
      BY <3>1, <3>2
  <2>3. ASSUME NEW c \in E
        PROVE  \E k \in 0..(t[x] - 1) : c = Append(x, k)
    <3>1. PICK k \in Nat : c = Append(x, k)
      OBVIOUS
    <3>2. k < t[x]
      BY <2>1, <3>1
    <3>3. k \in 0..(t[x] - 1)
      BY <1>1, <3>2
    <3>. QED
      BY <3>1, <3>3
  <2>4. \A k, l \in 0..(t[x] - 1) : Append(x, k) = Append(x, l) => k = l
    BY <1>1, <2>2, PathAppendInjective
  <2>5. f \in [0..(t[x] - 1) -> E] /\ \A k \in 0..(t[x] - 1) : f[k] = Append(x, k)
    BY <2>2
  <2> HIDE DEF f, E
  <2>6. f \in Surjection(0..(t[x] - 1), E)
    BY <2>3, <2>5 DEF Surjection
  <2>7. f \in Injection(0..(t[x] - 1), E)
    BY <2>4, <2>5 DEF Injection, IsInjective
  <2>8. IsFiniteSet(0..(t[x] - 1)) /\ Cardinality(0..(t[x] - 1)) = t[x]
    <3> DEFINE n == t[x] - 1
    <3>1. n \in Int /\ 0 \in Int /\ t[x] = n + 1 /\ n + 1 >= 0
      BY <1>1
    <3> HIDE DEF n
    <3>2. IsFiniteSet(0..n) /\ Cardinality(0..n) = IF 0 > n THEN 0 ELSE (n - 0) + 1
      BY <3>1, FS_Interval
    <3>3. Cardinality(0..n) = n + 1
      BY <3>1, <3>2
    <3>. QED
      BY <3>1, <3>2, <3>3 DEF n
  <2>. QED
    BY <2>6, <2>7, <2>8, FS_Surjection
<1>6. Cardinality(C) \in Nat /\ Cardinality(D) \in Nat
  BY <1>2, FS_CardinalityType
<1> HIDE DEF C, D, E
<1>7. Cardinality(C) = Cardinality(D) + Cardinality(E) - Cardinality({})
  BY <1>2, <1>3, <1>4, FS_Union
<1>8. Cardinality(C) = t[x] + Cardinality(D)
  BY <1>1, <1>5, <1>6, <1>7, FS_EmptySet
<1>. QED
  BY <1>2, <1>6, <1>8 DEF C, D

(* what the fold in StackPointer asks of the sums g over the subsets of S *)
Gains(t, S, g) ==
  g = [s \in SUBSET S |->
         IF s = {} THEN 0
         ELSE LET x == CHOOSE x \in s : TRUE IN (t[x] - 1) + g[s \ {x}]]

(* the sum over a set of nodes of their arities less one *)
Gain(t, S) == (CHOOSE g : Gains(t, S, g))[S]

(* That sum counts the children of the nodes less the nodes themselves. *)
LEMMA GainsOfNodes ==
  ASSUME NEW A \in Arities, NEW t, Tree(t, A), NEW S \in SUBSET Nodes(t)
  PROVE  Gain(t, S) = Cardinality(Children(t, S)) - Cardinality(S)
<1> DEFINE w == [s \in SUBSET S |-> Cardinality(Children(t, s)) - Cardinality(s)]
           first(s) == CHOOSE x \in s : TRUE
           g == CHOOSE g : Gains(t, S, g)
<1>1. Gain(t, S) = g[S]
  BY DEF Gain
<1>2. /\ IsFiniteSet(Nodes(t)) /\ \A p \in Nodes(t) : t[p] \in 0..2
      /\ \A s \in SUBSET S : IsFiniteSet(s) /\ Cardinality(s) \in Nat
  <2>1. IsFiniteSet(Nodes(t)) /\ \A p \in Nodes(t) : t[p] \in 0..2
    BY NodesOfTree
  <2>2. \A s \in SUBSET S : IsFiniteSet(s)
    BY <2>1, FS_Subset
  <2>. QED
    BY <2>1, <2>2, FS_CardinalityType
<1>3. ASSUME NEW s \in SUBSET S, s # {}
      PROVE  /\ first(s) \in s /\ s \ {first(s)} \in SUBSET S
             /\ w[s] \in Int /\ w[s \ {first(s)}] \in Int
             /\ w[s] = (t[first(s)] - 1) + w[s \ {first(s)}]
             /\ Cardinality(s \ {first(s)}) + 1 = Cardinality(s)
  <2> DEFINE x == first(s)
             r == s \ {x}
  <2>1. x \in s
    BY <1>3
  <2> HIDE DEF x, first
  <2>2. x \in Nodes(t) /\ s \in SUBSET Nodes(t) /\ r \in SUBSET S
    BY <2>1
  <2>3. t[x] \in Nat /\ IsFiniteSet(s) /\ Cardinality(s) \in Nat /\ Cardinality(r) \in Nat
    BY <1>2, <2>2
  <2>4. Cardinality(r) = Cardinality(s) - 1
    BY <2>1, <2>3, FS_RemoveElement
  <2>5. /\ Cardinality(Children(t, s)) \in Nat
        /\ Cardinality(Children(t, s)) = t[x] + Cardinality(Children(t, r))
    BY <2>1, <2>2, ChildrenOfOneMore
  <2>6. Cardinality(Children(t, r)) \in Nat
    <3>1. Children(t, r) \subseteq Nodes(t)
      BY DEF Children
    <3>2. IsFiniteSet(Children(t, r))
      BY <1>2, <3>1, FS_Subset
    <3>. QED
      BY <3>2, FS_CardinalityType
  <2>7. /\ w[s] = Cardinality(Children(t, s)) - Cardinality(s)
        /\ w[r] = Cardinality(Children(t, r)) - Cardinality(r)
    BY <2>2
  <2> HIDE DEF w, r
  <2>8. w[s] \in Int /\ w[r] \in Int /\ w[s] = (t[x] - 1) + w[r] /\ Cardinality(r) + 1 = Cardinality(s)
    BY <2>3, <2>4, <2>5, <2>6, <2>7
  <2>. QED
    BY <2>1, <2>2, <2>8 DEF r, x
<1>4. {} \in SUBSET S /\ w[{}] = 0
  <2>1. Children(t, {}) = {}
    BY DEF Children
  <2>. QED
    BY <2>1, FS_EmptySet
<1>5. w = [s \in SUBSET S |-> w[s]] /\ w[S] = Cardinality(Children(t, S)) - Cardinality(S)
  OBVIOUS
<1> HIDE DEF w
<1>6. Gains(t, S, w)
  <2>1. \A s \in SUBSET S : w[s] = IF s = {} THEN 0 ELSE (t[first(s)] - 1) + w[s \ {first(s)}]
    BY <1>3, <1>4
  <2> HIDE DEF first
  <2>2. w = [s \in SUBSET S |-> IF s = {} THEN 0 ELSE (t[first(s)] - 1) + w[s \ {first(s)}]]
    BY <1>5, <2>1
  <2>. QED
    BY <2>2 DEF Gains, first
<1>7. Gains(t, S, g)
  BY <1>6
<1> HIDE DEF g
<1>8. \A s \in SUBSET S : g[s] = IF s = {} THEN 0 ELSE (t[first(s)] - 1) + g[s \ {first(s)}]
  BY <1>7 DEF Gains
<1> HIDE DEF first
<1> DEFINE Same(n) == \A s \in SUBSET S : Cardinality(s) = n => g[s] = w[s]
           T == {n \in Nat : Same(n)}
<1>9. Same(0)
  <2> SUFFICES ASSUME NEW s \in SUBSET S, Cardinality(s) = 0
               PROVE  g[s] = w[s]
    OBVIOUS
  <2>1. s = {}
    BY <1>2, FS_EmptySet
  <2>. QED
    BY <1>4, <1>8, <2>1
<1>10. ASSUME NEW n \in Nat, Same(n)
       PROVE  Same(n + 1)
  <2> SUFFICES ASSUME NEW s \in SUBSET S, Cardinality(s) = n + 1
               PROVE  g[s] = w[s]
    OBVIOUS
  <2>1. s # {}
    BY FS_EmptySet
  <2> DEFINE r == s \ {first(s)}
  <2>2. r \in SUBSET S /\ w[s] = (t[first(s)] - 1) + w[r] /\ Cardinality(r) + 1 = Cardinality(s)
    BY <1>3, <2>1
  <2>3. Cardinality(r) = n
    <3>1. Cardinality(r) \in Nat
      BY <1>2, <2>2
    <3> HIDE DEF r
    <3>. QED
      BY <2>2, <3>1
  <2>4. g[r] = w[r]
    BY <1>10, <2>2, <2>3
  <2>5. g[s] = (t[first(s)] - 1) + g[r]
    BY <1>8, <2>1
  <2>. QED
    BY <2>2, <2>4, <2>5
<1>11. \A n \in Nat : Same(n)
  <2> HIDE DEF Same
  <2>1. 0 \in T /\ \A n \in Nat : n \in T => n + 1 \in T
    BY <1>9, <1>10
  <2>2. \A n \in Nat : n \in T
    <3> HIDE DEF T
    <3>. QED
      BY <2>1, SetInduction
  <2>. QED
    BY <2>2
<1>12. g[S] = w[S]
  BY <1>2, <1>11
<1>. QED
  BY <1>1, <1>5, <1>12

(* A child of a node that was popped, which was not, is the node q on top of   *)
(* the stack, or the right neighbour of a path to q or of one on the way to q. *)
LEMMA Pending ==
  ASSUME NEW A \in Arities, NEW t, Tree(t, A), NEW q \in Nodes(t),
         NEW c \in Children(t, NodesBefore(t, q)) \ NodesBefore(t, q), c # q
  PROVE  /\ Len(c) \in 1..Len(q)
         /\ c[Len(c)] = 1
         /\ \A j \in 1..(Len(c) - 1) : c[j] = q[j]
<1>1. Nodes(t) \subseteq Path /\ \A p \in Nodes(t) : t[p] \in 0..2
  BY NodesOfTree
<1>2. PICK p \in NodesBefore(t, q), k \in Nat : c = Append(p, k)
  BY DEF Children
<1>3. p \in Nodes(t) /\ p \in Path /\ q \in Path /\ c \in Path /\ c \in Nodes(t) /\ Before(p, q)
  BY <1>1 DEF NodesBefore, Children
<1>4. k < t[p] /\ t[p] \in 0..2
  BY <1>1, <1>2, <1>3, NodesOfTree
<1>5. ~Before(c, q)
  BY <1>3 DEF NodesBefore
<1>6. PICK l \in 1..Len(q) : PartAt(p, q, l)
  BY <1>3, BeforeParts
<1>7. /\ Len(p) \in Nat /\ Len(q) \in Nat /\ Len(c) = Len(p) + 1
      /\ (\A j \in 1..Len(p) : c[j] = p[j]) /\ c[Len(p) + 1] = k
      /\ \A j \in 1..Len(q) : q[j] \in Nat
  BY <1>2, <1>3, PathAppend, PathLen
<1>8. /\ l <= Len(p) + 1 /\ (\A j \in 1..(l - 1) : p[j] = q[j])
      /\ l = Len(p) + 1 \/ p[l] < q[l]
  BY <1>6 DEF PartAt
<1>9. \A j \in 1..(l - 1) : j \in 1..Len(p) /\ c[j] = q[j]
  BY <1>7, <1>8
<1>10. l = Len(p) + 1
  <2> SUFFICES ASSUME l # Len(p) + 1
               PROVE  FALSE
    OBVIOUS
  <2>1. l \in 1..Len(p) /\ p[l] < q[l]
    BY <1>7, <1>8
  <2>2. c[l] < q[l] /\ l <= Len(c) + 1
    BY <1>7, <2>1
  <2>3. PartAt(c, q, l)
    BY <1>9, <2>2 DEF PartAt
  <2>. QED
    BY <1>3, <1>5, <2>3, BeforeParts
<1>11. Len(c) = l /\ c[l] = k /\ l <= Len(c) + 1
  BY <1>7, <1>10
<1>12. ~(k < q[l])
  <2> SUFFICES ASSUME k < q[l]
               PROVE  FALSE
    OBVIOUS
  <2>1. PartAt(c, q, l)
    BY <1>9, <1>11 DEF PartAt
  <2>. QED
    BY <1>3, <1>5, <2>1, BeforeParts
<1>13. k # q[l]
  <2> SUFFICES ASSUME k = q[l]
               PROVE  FALSE
    OBVIOUS
  <2>1. \A j \in 1..l : j \in 1..(l - 1) \/ j = l
    OBVIOUS
  <2>2. \A j \in 1..l : c[j] = q[j]
    BY <1>9, <1>11, <2>1
  <2>3. l # Len(q)
    BY <1>3, <1>11, <2>2, PathEqual
  <2>4. l + 1 \in 1..Len(q) /\ l + 1 = Len(c) + 1 /\ l + 1 <= Len(c) + 1 /\ (l + 1) - 1 = l
    BY <1>7, <1>11, <2>3
  <2>5. PartAt(c, q, l + 1)
    BY <2>2, <2>4 DEF PartAt
  <2>. QED
    BY <1>3, <1>5, <2>4, <2>5, BeforeParts
<1>14. k = 1
  <2>1. q[l] \in Nat
    BY <1>7
  <2>. QED
    BY <1>4, <1>12, <1>13, <2>1
<1>. QED
  BY <1>9, <1>11, <1>14

(* Where pickNthNode has popped the nodes before q, its stack is no larger than *)
(* the depth of the tree.                                                       *)
LEMMA StackBound ==
  ASSUME NEW A \in Arities, NEW t, Tree(t, A), NEW q \in Nodes(t)
  PROVE  StackPointer(t, q) <= depthOfTree(t)
<1> DEFINE S == NodesBefore(t, q)
           C == Children(t, S)
           F == C \ S
<1>1. /\ Nodes(t) \subseteq Path /\ IsFiniteSet(Nodes(t)) /\ Root \in Nodes(t)
      /\ \A p \in Path, k \in Nat : Append(p, k) \in Nodes(t) <=> p \in Nodes(t) /\ k < t[p]
  BY NodesOfTree
<1>2. S \in SUBSET Nodes(t) /\ C \in SUBSET Nodes(t) /\ F \in SUBSET Nodes(t)
  BY DEF NodesBefore, Children
<1>3. /\ IsFiniteSet(S) /\ IsFiniteSet(C) /\ IsFiniteSet(F)
      /\ Cardinality(S) \in Nat /\ Cardinality(C) \in Nat /\ Cardinality(F) \in Nat
  <2> HIDE DEF S, C, F
  <2>1. IsFiniteSet(S) /\ IsFiniteSet(C) /\ IsFiniteSet(F)
    BY <1>1, <1>2, FS_Subset
  <2>. QED
    BY <2>1, FS_CardinalityType
<1>4. StackPointer(t, q) = 1 + (Cardinality(C) - Cardinality(S))
  <2>1. StackPointer(t, q) = 1 + Gain(t, S)
    BY DEF StackPointer, MapThenSumSet, MapThenFoldSet, Gains, Gain
  <2> HIDE DEF S
  <2>. QED
    BY <1>2, <2>1, GainsOfNodes
<1>5. Len(q) \in Nat /\ Len(q) < depthOfTree(t) /\ depthOfTree(t) \in Nat
  BY <1>1, DepthOfTree, PathLen
<1>6. CASE q = Root
  <2>1. S = {}
    <3> SUFFICES ASSUME NEW p \in S
                 PROVE  FALSE
      OBVIOUS
    <3>1. p \in Path /\ Before(p, Root)
      BY <1>1, <1>6 DEF NodesBefore
    <3>2. \E k \in 1..Len(Root) : PartAt(p, Root, k)
      BY <3>1, RootIsPath, BeforeParts
    <3>. QED
      BY <3>2, RootIsPath
  <2>2. C = {}
    BY <2>1 DEF Children
  <2>3. Cardinality(S) = 0 /\ Cardinality(C) = 0
    BY <2>1, <2>2, FS_EmptySet
  <2>. QED
    BY <1>4, <1>5, <2>3
<1>7. CASE q # Root
  <2>1. q \in Path /\ Len(q) # 0
    BY <1>1, <1>7, RootIsPath, PathCases, PathAppend, PathLen
  <2>2. Root \in S
    <3>1. 1 \in 1..Len(q) /\ PartAt(Root, q, 1)
      BY <1>5, <2>1, RootIsPath DEF PartAt
    <3>2. Before(Root, q)
      BY <2>1, <3>1, RootIsPath, BeforeParts
    <3>. QED
      BY <1>1, <3>2 DEF NodesBefore
  <2>3. C \cap S = S \ {Root}
    <3>1. ASSUME NEW p \in S, p # Root
          PROVE  p \in C
      <4>1. p \in Nodes(t) /\ p \in Path /\ Before(p, q)
        BY <1>1 DEF NodesBefore
      <4>2. PICK r \in Path, k \in Nat : p = Append(r, k)
        BY <3>1, <4>1, PathCases
      <4>3. r \in Nodes(t)
        BY <1>1, <4>1, <4>2
      <4>4. Before(r, p)
        <5>1. Len(r) + 1 \in 1..Len(p) /\ (Len(r) + 1) - 1 = Len(r) /\ Len(r) + 1 <= Len(r) + 1
          BY <4>2, PathAppend, PathLen
        <5>2. PartAt(r, p, Len(r) + 1)
          BY <4>2, <5>1, PathAppend DEF PartAt
        <5>. QED
          BY <4>1, <5>1, <5>2, BeforeParts
      <4>5. r \in S
        BY <2>1, <4>1, <4>3, <4>4, BeforeTransitive DEF NodesBefore
      <4>. QED
        BY <4>1, <4>2, <4>5 DEF Children
    <3>2. Root \notin C
      BY <1>1, PathAppend DEF Children, NodesBefore
    <3>. QED
      BY <3>1, <3>2
  <2>4. Cardinality(C \cap S) = Cardinality(S) - 1
    <3> HIDE DEF S, C
    <3>. QED
      BY <1>3, <2>2, <2>3, FS_RemoveElement
  <2>5. Cardinality(F) = Cardinality(C) - Cardinality(C \cap S)
    <3> HIDE DEF S, C
    <3>. QED
      BY <1>3, FS_Difference
  <2>6. StackPointer(t, q) = Cardinality(F)
    <3> HIDE DEF S, C, F
    <3>. QED
      BY <1>3, <1>4, <2>4, <2>5
  <2> DEFINE f == [c \in F |-> IF c = q THEN 0 ELSE Len(c)]
  <2>7. \A c \in F : c # q => /\ Len(c) \in 1..Len(q) /\ c[Len(c)] = 1
                              /\ \A j \in 1..(Len(c) - 1) : c[j] = q[j]
    BY Pending
  <2>8. F \subseteq Path
    BY <1>1, <1>2
  <2> HIDE DEF F
  <2>9. f \in [F -> 0..Len(q)]
    BY <1>5, <2>7
  <2>10. ASSUME NEW c \in F, NEW d \in F, f[c] = f[d]
         PROVE  c = d
    <3>1. CASE c = q \/ d = q
      <4>1. c # q => Len(c) # 0
        BY <2>7
      <4>2. d # q => Len(d) # 0
        BY <2>7
      <4>. QED
        BY <2>10, <3>1, <4>1, <4>2
    <3>2. CASE c # q /\ d # q
      <4>1. Len(c) = Len(d)
        BY <2>10, <3>2
      <4>2. \A j \in 1..(Len(c) - 1) : c[j] = d[j]
        BY <2>7, <3>2, <4>1
      <4>3. c[Len(c)] = d[Len(c)] /\ Len(c) \in Nat
        BY <2>7, <3>2, <4>1
      <4>4. \A j \in 1..Len(c) : j \in 1..(Len(c) - 1) \/ j = Len(c)
        BY <4>3
      <4>5. \A j \in 1..Len(c) : c[j] = d[j]
        BY <4>2, <4>3, <4>4
      <4>. QED
        BY <2>8, <4>1, <4>5, PathEqual
    <3>. QED
      BY <3>1, <3>2
  <2> HIDE DEF f
  <2>11. f \in Injection(F, 0..Len(q))
    BY <2>9, <2>10 DEF Injection, IsInjective
  <2>12. IsFiniteSet(0..Len(q)) /\ Cardinality(0..Len(q)) = Len(q) + 1
    <3>1. Len(q) \in Int /\ 0 \in Int
      BY <1>5
    <3>2. IsFiniteSet(0..Len(q)) /\ Cardinality(0..Len(q)) = IF 0 > Len(q) THEN 0 ELSE (Len(q) - 0) + 1
      BY <3>1, FS_Interval
    <3>. QED
      BY <1>5, <3>2
  <2>13. Cardinality(F) <= Len(q) + 1
    BY <2>11, <2>12, FS_Injection
  <2>. QED
    BY <1>3, <1>5, <2>6, <2>13
<1>. QED
  BY <1>6, <1>7

(* The stack of pickNthNode, whose size is fixed at TREE_DEPTH_MAX * MAX_ARITY, *)
(* never holds more than the depth of the tree, wide as it may be.             *)
THEOREM StackBounded == Spec => []StackBoundedByDepth
<1>1. ASSUME Inv
      PROVE  StackBoundedByDepth
  <2>1. \A i \in DOMAIN trees : program.arities \in Arities /\ Tree(trees[i], program.arities)
    BY <1>1, TreesAt DEF Inv
  <2>. QED
    BY <2>1, StackBound DEF StackBoundedByDepth
<1>. QED
  BY <1>1, Invariance, PTL
=============================================================================
