------------------------------ MODULE GPTrees ------------------------------
(***************************************************************************)
(* The trees of the genetic programming template: their construction       *)
(* (libeasea/CGPNode.cpp), simple_mutator and simpleCrossOver (tpl/GP.tpl, *)
(* the same in tpl/CUDA_GP.tpl), on a population of trees.                 *)
(*                                                                         *)
(* A node is the path to it, the sequence of child indices from the root,  *)
(* and a tree maps its paths to the arity of their operation, 0 for a      *)
(* terminal.  A C++ node always has two child pointers, of which it uses   *)
(* as many as its arity: a path may belong to a tree and be out of reach.  *)
(* What an operation computes is not modelled.                             *)
(***************************************************************************)
EXTENDS Integers, Sequences, FiniteSets, FiniteSetsExt, SequencesExt

CONSTANTS
  Programs,       \* the parameters, see Program
  MaxOperations   \* a bound on the crossovers and mutations of a behaviour

Program ==
  [parentPopulationSize : Nat \ {0}, INIT_TREE_DEPTH_MIN : Nat \ {0},
   INIT_TREE_DEPTH_MAX : Nat, TREE_DEPTH_MAX : Nat \ {0}, arities : SUBSET (1..2) \ {{}}]

ASSUME ProgramsAssumption == Programs \subseteq Program
ASSUME MaxOperationsAssumption == MaxOperations \in Nat

VARIABLES
  program,      \* fixed at the start
  pc,           \* "create", "evolve", "mutate", "choose", "graft" or "crashed"
  trees,        \* the root of each individual
  target,       \* the individual that is mutated, or that the child replaces
  p1, p2,       \* the parents of a crossover
  stock,        \* the node of the first parent, or of the mutant, to replace
  graft,        \* the node of the second parent to put there
  leaves,       \* stockCouldBeTerminal and graftCouldBeTerminal
  tries,        \* the turns of the loop that chooses the two
  operations    \* the crossovers and mutations done

locals == <<target, p1, p2, stock, graft, leaves, tries>>
vars == <<program, pc, trees, target, p1, p2, stock, graft, leaves, tries, operations>>

Root == <<>>
Leaf == [p \in {Root} |-> 0]
TREE_DEPTH_MAX == program.TREE_DEPTH_MAX

-----------------------------------------------------------------------------
(* Trees *)

(* the nodes that the recursive functions visit: children up to the arity *)
Nodes(t) == {p \in DOMAIN t : \A k \in DOMAIN p : p[k] < t[SubSeq(p, 1, k - 1)]}

depthOfTree(t) == 1 + Max({Len(p) : p \in Nodes(t)})

enumTreeNodes(t) == Cardinality(Nodes(t))

Subtree(t, p) ==
  [q \in {SubSeq(r, Len(p) + 1, Len(r)) : r \in {r \in DOMAIN t : IsPrefix(p, r)}} |-> t[p \o q]]

(* t without what hangs at p *)
Cut(t, p) == [q \in {q \in DOMAIN t : ~IsPrefix(p, q)} |-> t[q]]

(* children[...] = s, what was there being deleted *)
Grafted(t, p, s) ==
  LET new == {p \o q : q \in DOMAIN s}
      old == DOMAIN Cut(t, p)
  IN  [q \in old \cup new |-> IF q \in old THEN t[q] ELSE s[SubSeq(q, Len(p) + 1, Len(q))]]

(* an operation and its arguments: kids[1] is children[0] *)
Operation(kids) ==
  LET below == UNION {{<<k - 1>> \o q : q \in DOMAIN kids[k]} : k \in DOMAIN kids}
  IN  [p \in {Root} \cup below |->
         IF p = Root THEN Len(kids) ELSE kids[p[1] + 1][Tail(p)]]

(* mutant of construction_method: the terminals come one level later *)
constructionOneDeeper(maxDepth, full) ==
  LET built[d \in Nat] ==
        IF d = 0 THEN {Leaf}
        ELSE (UNION {{Operation(kids) : kids \in [1..a -> built[d - 1]]} : a \in program.arities})
             \cup (IF full THEN {} ELSE {Leaf})
  IN  built[IF maxDepth < 0 THEN 0 ELSE maxDepth]

(* The trees that construction_method may return when it is called with a     *)
(* currentDepth of 1: grow draws any operation above maxDepth, full none that  *)
(* is a terminal, and a terminal is all that is left at maxDepth.              *)
construction_method(maxDepth, full) ==
  LET built[d \in Nat] ==
        IF d <= 1 THEN {Leaf}
        ELSE (UNION {{Operation(kids) : kids \in [1..a -> built[d - 1]]} : a \in program.arities})
             \cup (IF full THEN {} ELSE {Leaf})
  IN  built[IF maxDepth < 0 THEN 0 ELSE maxDepth]

(* p comes before q in the order in which pickNthNode pops the nodes *)
Before(p, q) ==
  \/ IsStrictPrefix(p, q)
  \/ \E k \in DOMAIN p \cap DOMAIN q :
       /\ SubSeq(p, 1, k - 1) = SubSeq(q, 1, k - 1)
       /\ p[k] < q[k]

NodesBefore(t, q) == {p \in Nodes(t) : Before(p, q)}

(* mutant of StackPointer: both child pointers of a node are pushed *)
StackPointerAllChildren(t, q) == 1 + Cardinality(NodesBefore(t, q))

(* the size of pickNthNode's stack when q is on top of it: each node popped   *)
(* before it left as many as its arity                                        *)
StackPointer(t, q) == 1 + MapThenSumSet(LAMBDA p : t[p] - 1, NodesBefore(t, q))

(* pickNthNode: the parent and the child index are the path itself *)
pickNthNode(t, n) == CHOOSE q \in Nodes(t) : Cardinality(NodesBefore(t, q)) = n

-----------------------------------------------------------------------------
Goto(l) == pc' = l

Init ==
  /\ program \in Programs
  /\ pc = "create"
  /\ trees = <<>>
  /\ target = 1 /\ p1 = 1 /\ p2 = 1
  /\ stock = Root /\ graft = Root
  /\ leaves = [stock |-> FALSE, graft |-> FALSE]
  /\ tries = 0 /\ operations = 0

DepthRange == program.INIT_TREE_DEPTH_MAX - program.INIT_TREE_DEPTH_MIN

(* ramped: the depth goes with the number of individuals created before *)
InitialDepth ==
  program.INIT_TREE_DEPTH_MIN
    + Len(trees) \div (program.parentPopulationSize \div DepthRange)

(* RAMPED_H_H, called with a ratio of 0: every tree is full *)
RAMPED_H_H ==
  /\ pc = "create"
  /\ Len(trees) < program.parentPopulationSize
  /\ DepthRange \in 1..program.parentPopulationSize
  /\ \E t \in construction_method(InitialDepth, TRUE) : trees' = Append(trees, t)
  /\ UNCHANGED <<program, pc, locals, operations>>

(* The divisions of RAMPED_H_H: a range of 0, or more depths than individuals; *)
(* a negative range, being unsigned, is more than any number of them.          *)
DivisionByZero ==
  /\ pc = "create"
  /\ Len(trees) < program.parentPopulationSize
  /\ DepthRange \notin 1..program.parentPopulationSize
  /\ Goto("crashed")
  /\ UNCHANGED <<program, trees, locals, operations>>

Created ==
  /\ pc = "create"
  /\ Len(trees) = program.parentPopulationSize
  /\ Goto("evolve")
  /\ UNCHANGED <<program, trees, locals, operations>>

-----------------------------------------------------------------------------
(* Mutation *)

(* selectNode: a depth, then a node of that depth.  Root stands for NULL. *)
selectNode(t) == UNION {{p \in Nodes(t) : Len(p) = d} : d \in 0..(depthOfTree(t) - 1)}

SelectMutationPoint ==
  /\ pc = "evolve"
  /\ operations < MaxOperations
  /\ Goto("mutate")
  /\ target' \in DOMAIN trees
  /\ stock' \in selectNode(trees[target'])
  /\ operations' = operations + 1
  /\ UNCHANGED <<program, trees, p1, p2, graft, leaves, tries>>

(* mutant of MutationPoint: the last child pointer of the root is overwritten *)
MutationPointLastChild == IF stock = Root THEN <<1>> ELSE stock

(* where the new subtree goes: for the root its first child, used or not *)
MutationPoint == IF stock = Root THEN <<0>> ELSE stock

(* simple_mutator *)
simple_mutator ==
  /\ pc = "mutate"
  /\ Goto("evolve")
  /\ \E s \in construction_method(TREE_DEPTH_MAX - Len(stock), FALSE) :
       trees' = [trees EXCEPT ![target] = Grafted(@, MutationPoint, s)]
  /\ stock' = Root
  /\ UNCHANGED <<program, target, p1, p2, graft, leaves, tries, operations>>

-----------------------------------------------------------------------------
(* Crossover *)

T1 == trees[p1]
T2 == trees[p2]

StartCrossOver ==
  /\ pc = "evolve"
  /\ operations < MaxOperations
  /\ Goto("choose")
  /\ p1' \in DOMAIN trees /\ p2' \in DOMAIN trees /\ target' \in DOMAIN trees
  /\ leaves' \in [stock : BOOLEAN, graft : BOOLEAN]
  /\ tries' = 1
  /\ operations' = operations + 1
  /\ UNCHANGED <<program, trees, stock, graft>>

(* the draw of Np1, and the node it stands for *)
StockNodes == Nodes(T1)

(* the draw of Np2: the node is number MIN(Np2,nbNodeP1) of the second parent *)
GraftNodes ==
  {Root} \cup {pickNthNode(T2, Min({n, enumTreeNodes(T1)})) : n \in 1..(enumTreeNodes(T2) - 1)}

(* the two tests that go back to choose_node *)
RightKind(s, g) ==
  /\ s # Root /\ T1[s] = 0 => leaves.stock
  /\ g # Root /\ T2[g] = 0 => leaves.graft

(* mutant of ChildrenDepth: the parent of the stock is not counted *)
ChildrenDepthOffByOne(s, g) ==
  CASE s # Root /\ g # Root -> Len(s) - 1 + depthOfTree(Subtree(T2, g))
    [] s # Root /\ g = Root -> Len(s) + depthOfTree(T1)
    [] s = Root             -> depthOfTree(Subtree(T2, g))

(* childrenDepth.  Where the whole second parent is the graft, it is the depth *)
(* of the first parent that is added.                                          *)
ChildrenDepth(s, g) ==
  CASE s # Root /\ g # Root -> Len(s) + depthOfTree(Subtree(T2, g))
    [] s # Root /\ g = Root -> Len(s) + depthOfTree(T1)
    [] s = Root             -> depthOfTree(Subtree(T2, g))

Accepted(s, g) == RightKind(s, g) /\ ChildrenDepth(s, g) <= TREE_DEPTH_MAX

(* a turn of the loop that ends it *)
ChooseNodes ==
  /\ pc = "choose"
  /\ tries < 10
  /\ Goto("graft")
  /\ stock' \in StockNodes /\ graft' \in GraftNodes
  /\ Accepted(stock', graft')
  /\ UNCHANGED <<program, trees, target, p1, p2, leaves, tries, operations>>

(* a turn whose nodes are refused *)
ChooseAgain ==
  /\ pc = "choose"
  /\ tries < 10
  /\ \E s \in StockNodes, g \in GraftNodes : ~Accepted(s, g)
  /\ tries' = tries + 1
  /\ UNCHANGED <<program, pc, trees, target, p1, p2, stock, graft, leaves, operations>>

(* the tenth turn gives up: the child is the second parent *)
AbortCrossOver ==
  /\ pc = "choose"
  /\ tries = 10
  /\ Goto("graft")
  /\ stock' = Root /\ graft' = Root
  /\ UNCHANGED <<program, trees, target, p1, p2, leaves, tries, operations>>

(* mutant of simpleCrossOver: the graft is taken out of the population *)
simpleCrossOverTakesGraft ==
  /\ pc = "graft"
  /\ Goto("evolve")
  /\ trees' = [trees EXCEPT ![p2] = IF graft = Root THEN @ ELSE Cut(@, graft),
                            ![target] = Grafted(T1, stock, Subtree(T2, graft))]
  /\ stock' = Root /\ graft' = Root /\ tries' = 0
  /\ leaves' = [stock |-> FALSE, graft |-> FALSE]
  /\ UNCHANGED <<program, target, p1, p2, operations>>

(* The end of simpleCrossOver.  It works on copies of the parents, and the     *)
(* graft is cut out of one; the child replaces some individual.                *)
simpleCrossOver ==
  /\ pc = "graft"
  /\ Goto("evolve")
  /\ trees' = [trees EXCEPT ![target] = Grafted(T1, stock, Subtree(T2, graft))]
  /\ stock' = Root /\ graft' = Root /\ tries' = 0
  /\ leaves' = [stock |-> FALSE, graft |-> FALSE]
  /\ UNCHANGED <<program, target, p1, p2, operations>>

Ended == pc = "crashed" \/ (pc = "evolve" /\ operations = MaxOperations)

Next ==
  \/ RAMPED_H_H \/ DivisionByZero \/ Created
  \/ SelectMutationPoint \/ simple_mutator
  \/ StartCrossOver \/ ChooseNodes \/ ChooseAgain \/ AbortCrossOver \/ simpleCrossOver
  \/ Ended /\ UNCHANGED vars

Spec == Init /\ [][Next]_vars
-----------------------------------------------------------------------------
(* Properties *)

(* A tree has every argument its operations read, also after grafts were cut   *)
(* out of copies: no recursive function meets a NULL child.                    *)
TreesAreComplete ==
  \A i \in DOMAIN trees :
    /\ Root \in DOMAIN trees[i]
    /\ \A p \in Nodes(trees[i]) :
         /\ trees[i][p] \in {0} \cup program.arities
         /\ \A k \in 0..(trees[i][p] - 1) : Append(p, k) \in DOMAIN trees[i]

(* A child pointer beyond the arity of its node is only ever set under a       *)
(* terminal, as its first one: it gets there when the root is chosen for a     *)
(* mutation and is a terminal, and crossover carries it on.                    *)
HiddenUnderLeaves ==
  \A i \in DOMAIN trees :
    \A p \in DOMAIN trees[i] \ Nodes(trees[i]) :
      \E k \in DOMAIN p : p[k] = 0 /\ trees[i][SubSeq(p, 1, k - 1)] = 0

(* The ramp of depths stays between the minimum and one below the maximum,     *)
(* "max init tree depth" itself being left out, when the depths divide the     *)
(* population.  When they do not, the quotient of RAMPED_H_H is rounded down   *)
(* and the ramp is steeper: it ends less than as many depths again higher.     *)
InitialDepthsInRange ==
  pc = "create" /\ DepthRange \in 1..program.parentPopulationSize =>
    \A i \in DOMAIN trees :
      depthOfTree(trees[i]) \in program.INIT_TREE_DEPTH_MIN..
        (program.INIT_TREE_DEPTH_MAX - 1
           + IF program.parentPopulationSize % DepthRange = 0 THEN 0 ELSE DepthRange - 1)

(* The stack of pickNthNode, which has room for TREE_DEPTH_MAX * MAX_ARITY     *)
(* nodes, never holds more than the tree is deep, wide as it may be: only a    *)
(* tree that is deeper than that room can overflow it.                         *)
StackBoundedByDepth ==
  \A i \in DOMAIN trees : \A q \in Nodes(trees[i]) :
    StackPointer(trees[i], q) <= depthOfTree(trees[i])

(* What holds of TREE_DEPTH_MAX.  A mutant is deeper than the limit and than  *)
(* the individual it is made of by one level at most, and that when the root   *)
(* was chosen: its subtree is measured from the root and hung below it.  A     *)
(* child is deeper than the limit and than its parents only when all of the    *)
(* second parent is grafted, and by what the second parent is deeper than the  *)
(* first at most: the test counts the depth of the first.                      *)
DepthIsBounded ==
  [][/\ pc = "mutate" =>
          depthOfTree(trees'[target])
            <= Max({TREE_DEPTH_MAX + (IF stock = Root THEN 1 ELSE 0), depthOfTree(trees[target])})
     /\ pc = "graft" =>
          depthOfTree(trees'[target])
            <= Max({TREE_DEPTH_MAX, depthOfTree(T1), depthOfTree(T2),
                    IF stock # Root /\ graft = Root
                    THEN TREE_DEPTH_MAX + depthOfTree(T2) - depthOfTree(T1) ELSE 0})]_vars
=============================================================================
