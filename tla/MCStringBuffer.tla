---------------------------- MODULE MCStringBuffer ----------------------------
(***************************************************************************)
(* StringBuffer on two buffers: texts shorter and longer than the spare    *)
(* room of a new block, sums that pass the first two sizes, and values     *)
(* that just fit the first block or just do not.                           *)
(***************************************************************************)
EXTENDS StringBuffer, TLC

(* The buffers are alike.                                                  *)
Symmetry == Permutations(Buffers)
=============================================================================
