----------------------------- MODULE MCSimulator -----------------------------
(* Symmetry for checking Simulator. *)
EXTENDS Simulator

Symmetry == Permutations(Users) \cup Permutations(Reels)
=============================================================================
