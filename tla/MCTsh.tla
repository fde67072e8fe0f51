------------------------------- MODULE MCTsh -------------------------------
(* Model-checking instances of module Tsh. *)
EXTENDS Tsh, TLC

Symmetry == Permutations(Pids)

=============================================================================
