--------------------------- MODULE MCEventRecording ---------------------------
(* Symmetry for checking EventRecording. *)
EXTENDS EventRecording, TLC

Symmetry == Permutations(Users) \cup Permutations(Reels)
=============================================================================
