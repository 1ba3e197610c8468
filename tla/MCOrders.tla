------------------------------ MODULE MCOrders ------------------------------
(***************************************************************************)
(* Instances of Orders for TLC.  Ids, pages and files are interchangeable, *)
(* so the runs reduce by their permutations; none of them checks liveness. *)
(***************************************************************************)
EXTENDS Orders, FiniteSets, TLC

Interchangeable ==
  Permutations(OrderIds) \cup Permutations(QuoteIds) \cup Permutations(Tabs)
  \cup Permutations(Desks) \cup Permutations(Files)
  \cup Permutations(Contents) \cup Permutations(Details)

\* The cases explored: one order, edited at most once, whose versions beyond the fifth
\* are for the late ends of payments, while record, catalog and deployment rest; and,
\* once it is cancelled, the new draft of a second one beside it.
Started == {o \in OrderIds : order[o].status # "none"}
Lanes ==
  /\ Cardinality(Started) > 1 =>
       /\ catalog.version = 0 /\ \E o \in OrderIds : order[o].status = "cancelled"
       /\ \E o \in OrderIds : order[o].status = "draft" /\ order[o].version = 2
  /\ \A o \in OrderIds :
       /\ order[o].status = "draft" => order[o].version <= 3
       /\ order[o].version > 5 =>
            /\ Tried(order[o]) > 0 /\ setting = order[o].policy
            /\ record.version <= 2 /\ catalog.version = 0 /\ catalog.approved
=============================================================================
