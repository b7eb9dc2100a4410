----------------------------- MODULE MCTWebServ -----------------------------
(* Instances of TWebServ for TLC. *)
EXTENDS TWebServ, TLC

Symmetry == Permutations(Conns)
=============================================================================
