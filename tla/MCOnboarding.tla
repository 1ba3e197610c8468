---------------------------- MODULE MCOnboarding ----------------------------
(* Instances of Onboarding for TLC. *)
EXTENDS Onboarding, TLC

Interchangeable == Permutations(Threads) \cup Permutations(Evaluations) \cup Permutations(Admins)
=============================================================================
