------------------------------ MODULE MCAccess ------------------------------
(* Instances of Access for TLC. *)
EXTENDS Access, TLC

Interchangeable == Permutations(Threads) \cup Permutations(Tokens) \cup Permutations(Users \ Admins)
=============================================================================
