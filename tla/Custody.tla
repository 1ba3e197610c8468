------------------------------ MODULE Custody ------------------------------
(***************************************************************************)
(* What document issuance promises, without any of its conditions: the     *)
(* institution takes a document into custody, lets it out once, and may    *)
(* withdraw it for good; only a document that is out is ever opened.       *)
(* Issuance.tla implements it.                                             *)
(***************************************************************************)
EXTENDS Naturals

CONSTANT Docs

VARIABLES
  place,   \* where each document is
  opened   \* how often its recipient got it

Places == {"nowhere", "held", "out", "withdrawn"}

Move(d, from, to) ==
  /\ place[d] \in from
  /\ place' = [place EXCEPT ![d] = to]
  /\ UNCHANGED opened

Open(d) ==
  /\ place[d] = "out"
  /\ opened' = [opened EXCEPT ![d] = @ + 1]
  /\ UNCHANGED place

Init == /\ place = [d \in Docs |-> "nowhere"]
        /\ opened = [d \in Docs |-> 0]

Next == \E d \in Docs : \/ Move(d, {"nowhere"}, "held")
                        \/ Move(d, {"held"}, "out")
                        \/ Move(d, {"held", "out"}, "withdrawn")
                        \/ Open(d)

Spec == Init /\ [][Next]_<<place, opened>>
=============================================================================
