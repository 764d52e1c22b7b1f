-------------------------- MODULE GenerationReport --------------------------
(***************************************************************************)
(* What a run promises to whoever reads its statistics (the GEN, EVAL and  *)
(* BEST columns that showPopulationStats prints and saves): a row for      *)
(* generation 0 and one for each generation that follows, fewer than nbGen *)
(* generations after the first, the evaluations counted for every          *)
(* generation, and, with elitism and no immigration, a best fitness that   *)
(* never gets worse.                                                       *)
(***************************************************************************)
EXTENDS Integers

CONSTANTS Settings, Fitness, None

VARIABLES params, row, over

vars == <<params, row, over>>

Worse(f, g) == IF params.minimizing THEN f > g ELSE f < g

KeepsBest ==
  /\ params.elitSize \in 1..params.parentPopulationSize
  /\ ~params.remoteIslandModel

Init == params \in Settings /\ row = None /\ over \in BOOLEAN

FirstRow ==
  /\ ~over /\ row = None
  /\ \E f \in Fitness :
       row' = [gen |-> 0, eval |-> params.parentPopulationSize, best |-> f]
  /\ UNCHANGED <<params, over>>

NextRow ==
  /\ ~over /\ row # None
  /\ row.gen + 1 < params.nbGen
  /\ \E f \in Fitness :
       /\ row' = [gen  |-> row.gen + 1,
                  eval |-> row.eval + params.offspringPopulationSize,
                  best |-> f]
       /\ KeepsBest => ~Worse(f, row.best)
  /\ UNCHANGED <<params, over>>

Stop == ~over /\ over' = TRUE /\ UNCHANGED <<params, row>>

Next == FirstRow \/ NextRow \/ Stop

Spec == Init /\ [][Next]_vars
=============================================================================
