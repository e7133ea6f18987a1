---------------------------- MODULE MCJobService ----------------------------
(***************************************************************************)
(* Small instances of JobService: two requests and a buffer of one, so     *)
(* that with one job running and one queued the buffer is full, and a      *)
(* second request before the worker takes the first is refused; two        *)
(* process starts, so that one restart meets rows left by the first        *)
(* process.                                                                *)
(***************************************************************************)
EXTENDS JobService, TLC

Symmetry == Permutations(Jobs)

=============================================================================
