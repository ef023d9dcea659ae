---------------------------- MODULE MCOtaSpiDisk ----------------------------
(* Three blocks of two sectors: a request may cover part of its first and  *)
(* last block and all of the one between.  The values are interchangeable. *)
EXTENDS OtaSpiDisk, TLC

CONSTANTS x, y

Symmetry == Permutations({x, y})
=============================================================================
