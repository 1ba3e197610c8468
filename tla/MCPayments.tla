----------------------------- MODULE MCPayments -----------------------------
(* Instances of Payments for TLC. *)
EXTENDS Payments, FiniteSets, TLC

\* M-Pesa attempts, and request threads, are interchangeable.
Symmetry == Permutations(Mpesa) \cup Permutations(Threads)

\* The cases explored: one card payment; two M-Pesa attempts handled one request
\* at a time, of which every result comes out plainly; one M-Pesa attempt with two
\* requests at once.
Started == {p \in Attempts : db.att[p].status # "none"}
Busy    == {t \in Threads : task[t] # Idle}
Odd(k)  == k \in {"other", "rev_timeout"}
Plain   == /\ \A p \in Started, k \in Kinds : Odd(k) => db.inbox[p][k] = "absent"
           /\ \A t \in Busy : ~(task[t].op = "webhook" /\ Odd(task[t].arg))
Lanes   == \/ Started \subseteq Stripe /\ Cardinality(Busy) <= 1
           \/ Started \subseteq Mpesa /\ Cardinality(Busy) <= 1 /\ Plain
           \/ Started \subseteq Mpesa /\ Cardinality(Started) <= 1

\* Collection without refunds, with the worker's fairness.
CheckoutNext == Handlers \/ Fulfilment \/ Providers

CheckoutSpec == /\ Init /\ [][CheckoutNext]_vars
                /\ \A p \in Attempts : WF_vars(TruthfulPoll(p))
=============================================================================
