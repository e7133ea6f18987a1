------------------------------ MODULE MCRollout ------------------------------
(***************************************************************************)
(* Small instances of Rollout.  Two replicas and one deploy need four IDs; *)
(* a second deploy needs two more, or three when the first left one of its *)
(* containers behind: 2 + 1 + 3.  A second deploy that finds four          *)
(* containers would need eight; with six it stops at the scale-up.         *)
(***************************************************************************)
EXTENDS Rollout, TLC

Symmetry == Permutations(Ids)

OneRound == 0..1
TwoRounds == 0..2

=============================================================================
