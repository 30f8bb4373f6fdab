----------------------------- MODULE MCAlnsLoop -----------------------------
(***************************************************************************)
(* AlnsLoop for TLC: three objective values, as many addresses as solutions *)
(* live at once, short loops, and scripts with and without operators.      *)
(***************************************************************************)
EXTENDS AlnsLoop

MCObjs == 0 .. 2

Limits(maxIter, maxSub, maxUnimproved, ruins, repairs) ==
  [max_iter |-> maxIter, max_sub_iter |-> maxSub, max_unimproved_iter |-> maxUnimproved,
   ruin_operator_count |-> ruins, repair_operator_count |-> repairs]

\* Every way a script may name operators, and no iteration at all.
MCConfigs ==
  {Limits(4, 2, 1, 1, 2), Limits(3, 1, 0, 2, 1), Limits(0, 1, 1, 1, 1),
   Limits(2, 0, 1, 0, 0), Limits(2, 1, 1, 0, 0), Limits(2, 1, 1, 0, 2),
   Limits(2, 1, 1, 2, 0)}

\* A limit of one iteration, for the operators to reach.
MCLimitConfigs == {Limits(4, 1, 1, 1, 1)}
=============================================================================
