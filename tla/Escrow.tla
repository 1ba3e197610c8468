------------------------------- MODULE Escrow -------------------------------
(***************************************************************************)
(* What the collection of one order's fee promises, without any of its     *)
(* rows: providers take and return money on their own; the ledger follows  *)
(* them, charge by charge, and never runs ahead of them; a charge is asked *)
(* for only while no other could come or is held; the order is opened to   *)
(* the institution, and documents leave, on exactly one charge.            *)
(* Payments.tla implements it.                                             *)
(***************************************************************************)
EXTENDS Integers

CONSTANTS Charges, Amount

VARIABLES
  taken,     \* charges the customer paid
  given,     \* what was sent back of each
  asked,     \* charges that were asked for
  due,       \* charges that may still be paid, as far as is known
  credited,  \* charges in the ledger
  debited,   \* what the ledger says was sent back of each
  opened,    \* the order is with the institution
  gone       \* documents have left

vars == <<taken, given, asked, due, credited, debited, opened, gone>>

\* Money that can pay for the order.
Held == {c \in credited : debited[c] < Amount}

Take(c) ==
  /\ c \in asked \ taken
  /\ taken' = taken \cup {c}
  /\ UNCHANGED <<given, asked, due, credited, debited, opened, gone>>

Return(c) ==
  /\ c \in taken
  /\ \E n \in given[c] + 1 .. Amount : given' = [given EXCEPT ![c] = n]
  /\ UNCHANGED <<taken, asked, due, credited, debited, opened, gone>>

\* A new charge replaces what was due; nothing may be held.
Ask(c) ==
  /\ c \notin asked /\ Held = {}
  /\ asked' = asked \cup {c} /\ due' = {c}
  /\ UNCHANGED <<taken, given, credited, debited, opened, gone>>

\* News of a charge: it may be due or not, and the ledger catches up with it.
Hear(c) ==
  /\ c \in asked
  /\ due' \in {due \cup {c}, due \ {c}}
  /\ \/ UNCHANGED <<credited, debited>>
     \/ /\ c \in taken
        /\ credited' = credited \cup {c}
        /\ \E n \in debited[c] .. given[c] : debited' = [debited EXCEPT ![c] = n]
  /\ \/ UNCHANGED opened
     \/ opened' /\ due' = {} /\ \E x \in Charges : Held' = {x}
  /\ UNCHANGED <<taken, given, asked, gone>>

Leave ==
  /\ opened /\ due = {}
  /\ \E c \in Charges : Held = {c} /\ debited[c] = 0
  /\ gone' = TRUE
  /\ UNCHANGED <<taken, given, asked, due, credited, debited, opened>>

Init ==
  /\ taken = {} /\ given = [c \in Charges |-> 0]
  /\ asked = {} /\ due = {}
  /\ credited = {} /\ debited = [c \in Charges |-> 0]
  /\ opened \in BOOLEAN /\ gone = FALSE

Next == \/ \E c \in Charges : Take(c) \/ Return(c) \/ Ask(c) \/ Hear(c)
        \/ Leave

Spec == Init /\ [][Next]_vars
=============================================================================
