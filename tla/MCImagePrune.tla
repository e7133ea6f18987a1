---------------------------- MODULE MCImagePrune ----------------------------
(***************************************************************************)
(* Four images, two ages and Keep = 1: images of one age, more than one    *)
(* image to remove, and a deployed image at every position all occur.      *)
(***************************************************************************)
EXTENDS ImagePrune, TLC

Symmetry == Permutations(Images)

=============================================================================
