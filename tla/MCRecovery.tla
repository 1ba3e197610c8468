----------------------------- MODULE MCRecovery -----------------------------
(* Instances of Recovery for TLC; ids, pages and contents are interchangeable. *)
EXTENDS Recovery, TLC

Interchangeable ==
  Permutations(OrderIds) \cup Permutations(QuoteIds) \cup Permutations(Tabs)
  \cup Permutations(Files) \cup Permutations(Contents)

\* The cases explored: orders with their quotes, without copies; and copies of new
\* drafts, which may be deleted.
New    == \A o \in OrderIds : order[o].version <= 1
Quoted == \E q \in QuoteIds : quote[q] # NoQuote
Copied == \E c \in Tabs : known[c].order # "none"
Lanes  == Copied => New /\ ~Quoted
=============================================================================
