----------------------------- MODULE Selection -----------------------------
(***************************************************************************)
(* What the generation loop relies on when it asks a selection operator    *)
(* for individuals: every answer is a member of the pool, and a reduction  *)
(* takes it out of the pool, once.                                         *)
(***************************************************************************)
EXTENDS Bags, Sequences

VARIABLES
  reducing,   \* whether what is selected leaves the pool
  pool,       \* the bag of the fitness values to select from
  selected    \* the values selected, in order

vars == <<reducing, pool, selected>>

Init == reducing \in BOOLEAN /\ IsABag(pool) /\ selected = <<>>

Select(f) ==
  /\ BagIn(f, pool)
  /\ selected' = Append(selected, f)
  /\ pool' = IF reducing THEN pool (-) SetToBag({f}) ELSE pool
  /\ UNCHANGED reducing

Next == \E f \in BagToSet(pool) : Select(f)

Spec == Init /\ [][Next]_vars
=============================================================================
