----------------------------- MODULE MCIssuance -----------------------------
(* Instances of Issuance for TLC. *)
EXTENDS Issuance, TLC

\* An order paid with real money after review, its release deferred, and a free one
\* that was checked out before review.
SomeKinds ==
  {[free |-> FALSE, early |-> FALSE, live |-> TRUE,  deferred |-> TRUE],
   [free |-> TRUE,  early |-> TRUE,  live |-> FALSE, deferred |-> FALSE]}

\* Late money comes to a live deployment with nothing else in the way: neither the
\* impediments nor the mode read the attempts.
Lanes == order.late => order.blockers = {} /\ mode = "live"

Interchangeable == Permutations(Items) \cup Permutations(Docs)
=============================================================================
