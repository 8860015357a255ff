---------------------------- MODULE MCEventRunner ----------------------------
(* Model values and symmetry for checking EventRunner. *)
EXTENDS EventRunnerRefinement, TLC

Symmetry == Permutations(Reels)
UserAndReelSymmetry == Permutations(Users) \cup Permutations(Reels)
=============================================================================
