----------------------------- MODULE JobsProofs -----------------------------
(***************************************************************************)
(* Proofs about Jobs for any number of messages, workers and faults, and   *)
(* for both ways to lock and to order the rows: no mail is repeated, and   *)
(* runs do not overlap.                                                    *)
(***************************************************************************)
EXTENDS Jobs, FiniteSetTheorems, TLAPS

\* A row that was not sent, and is not between its mail and its commit, may be mailed.
Unmailed == \A i \in Rows :
  ~row[i].sent /\ (\A c \in Copies : run[c].held = i => run[c].mail # "accepted")
    => row[i].mails < row[i].allowed

\* So may a row that a run has locked to mail it.
Due == \A c \in Copies, i \in Rows :
  run[c].held = i /\ run[c].mail = "unsent" => row[i].mails < row[i].allowed

\* No two runs lock the same row.
Alone == \A c, d \in Copies : run[c].held \in Rows /\ run[c].held = run[d].held => c = d

IInv == TypeOK /\ NoSecondMail /\ Unmailed /\ Due /\ Alone

-----------------------------------------------------------------------------

LEMMA HeldRow ==
  ASSUME NEW s \in Run \cup {Idle}, s.held \in Rows \cup {"none"}
  PROVE  s \in Run
BY NoneIsNoRow DEF Run, Idle

LEMMA RunIsNotIdle == \A s \in Run : s # Idle
<1> SUFFICES ASSUME NEW s \in Run, s = Idle PROVE FALSE
  OBVIOUS
<1>1. s.held \in Rows \cup {"none"}
  BY DEF Run
<1>2. s.held = "idle"
  BY DEF Idle
<1> QED
  BY <1>1, <1>2, NoneIsNoRow

LEMMA IdleHoldsNothing == Idle.held \notin Rows \cup {"none"}
BY NoneIsNoRow DEF Idle

LEMMA BatchTyped == BoundedSeq(Rows, Limit) \subseteq Seq(Rows)
BY NaturalLimits DEF BoundedSeq, SeqOf

LEMMA RowsCounted == Cardinality(Rows) \in Nat
BY FiniteRows, FS_CardinalityType

LEMMA MovedTyped ==
  ASSUME TypeOK, NEW i \in Rows
  PROVE  Moved(i) \in [Rows -> Int]
BY RowsCounted DEF TypeOK, Moved

LEMMA RestedTyped ==
  ASSUME TypeOK
  PROVE  /\ Rested \in [Rows -> Row]
         /\ \A i \in Rows : /\ Rested[i].sent = row[i].sent
                            /\ Rested[i].mails = row[i].mails
                            /\ Rested[i].allowed = row[i].allowed
<1>1. \A i \in Rows : [row[i] EXCEPT !.rest = IF @ > 0 THEN @ - 1 ELSE 0] \in Row
  BY DEF TypeOK, Row
<1>2. \A i \in Rows : row[i] \in Row
  BY DEF TypeOK
<1> QED
  BY <1>1, <1>2 DEF Rested, Row

LEMMA FaultCounted ==
  ASSUME TypeOK, Fault
  PROVE  faults' \in 0..MaxFaults
BY NaturalLimits DEF TypeOK, Fault

\* A state of a run that locks nothing keeps the rest of the invariant.
LEMMA LetsGo ==
  ASSUME IInv, NEW c \in Copies, NEW s, s.held \notin Rows,
         run[c].held \in Rows => run[c].mail # "accepted",
         Goto(c, s), UNCHANGED row
  PROVE  NoSecondMail' /\ Unmailed' /\ Due' /\ Alone'
<1>1. run' = [run EXCEPT ![c] = s] /\ c \in DOMAIN run
  BY DEF Goto, IInv, TypeOK
<1>2. \A d \in Copies : run'[d] = IF d = c THEN s ELSE run[d]
  BY <1>1 DEF IInv, TypeOK
<1>3. NoSecondMail'
  BY DEF IInv, NoSecondMail
<1>4. Unmailed'
  <2> SUFFICES ASSUME NEW i \in Rows, ~row[i].sent,
                      \A d \in Copies : run'[d].held = i => run'[d].mail # "accepted"
               PROVE  row[i].mails < row[i].allowed
    BY DEF Unmailed
  <2>1. \A d \in Copies : run[d].held = i => run[d].mail # "accepted"
    BY <1>2
  <2> QED
    BY <2>1 DEF IInv, Unmailed
<1>5. Due'
  BY <1>2 DEF IInv, Due
<1>6. Alone'
  BY <1>2 DEF IInv, Alone
<1> QED
  BY <1>3, <1>4, <1>5, <1>6

-----------------------------------------------------------------------------

LEMMA Initially == Init => IInv
<1> SUFFICES ASSUME Init PROVE IInv
  OBVIOUS
<1>1. [sent |-> FALSE, rest |-> 0, mails |-> 0, allowed |-> 1] \in Row
  BY DEF Row
<1>2. turn \in [Rows -> Int]
  BY RowsCounted DEF Init, Bijection, Injection, Surjection, IsInjective
<1>3. TypeOK
  BY <1>1, <1>2, NaturalLimits DEF Init, TypeOK
<1>4. \A c \in Copies : run[c].held \notin Rows
  BY IdleHoldsNothing DEF Init
<1>5. NoSecondMail /\ Unmailed
  BY DEF Init, NoSecondMail, Unmailed
<1> QED
  BY <1>3, <1>4, <1>5 DEF IInv, Due, Alone

LEMMA BeginKeeps ==
  ASSUME IInv, NEW c \in Copies, Begin(c)
  PROVE  IInv'
<1> PICK b \in BoundedSeq(Rows, Limit) :
      Goto(c, [todo |-> b, tried |-> {}, held |-> "none", mail |-> "unsent"])
  BY DEF Begin
<1> DEFINE s == [todo |-> b, tried |-> {}, held |-> "none", mail |-> "unsent"]
<1>1. s \in Run
  BY BatchTyped DEF Run
<1>2. run[c] = Idle
  BY DEF Begin, Running
<1>3. run' = [run EXCEPT ![c] = s]
  BY DEF Goto
<1>4. \A d \in Copies : run'[d] = IF d = c THEN s ELSE run[d]
  BY <1>3 DEF IInv, TypeOK
<1>5. TypeOK'
  BY <1>1, <1>3, RestedTyped DEF IInv, TypeOK, Begin
<1>6. \A i \in Rows : /\ row'[i].sent = row[i].sent
                      /\ row'[i].mails = row[i].mails
                      /\ row'[i].allowed = row[i].allowed
  BY RestedTyped DEF Begin, IInv
<1>7. s.held \notin Rows
  BY NoneIsNoRow
<1>8. NoSecondMail'
  BY <1>6 DEF IInv, NoSecondMail
<1> HIDE DEF s
<1>9. Unmailed'
  <2> SUFFICES ASSUME NEW i \in Rows, ~row'[i].sent,
                      \A d \in Copies : run'[d].held = i => run'[d].mail # "accepted"
               PROVE  row'[i].mails < row'[i].allowed
    BY DEF Unmailed
  <2>1. \A d \in Copies : run[d].held = i => run[d].mail # "accepted"
    BY <1>4, <1>2, IdleHoldsNothing
  <2> QED
    BY <2>1, <1>6 DEF IInv, Unmailed
<1>10. Due'
  BY <1>4, <1>6, <1>7 DEF IInv, Due
<1>11. Alone'
  BY <1>4, <1>7 DEF IInv, Alone
<1> QED
  BY <1>5, <1>8, <1>9, <1>10, <1>11 DEF IInv

LEMMA TakeKeeps ==
  ASSUME IInv, NEW c \in Copies, Take(c)
  PROVE  IInv'
<1> DEFINE i == Head(run[c].todo)
           s == [run[c] EXCEPT !.held = i]
<1>1. run[c] \in Run /\ run[c].held = "none" /\ run[c].todo # <<>>
  BY HeldRow DEF IInv, TypeOK, Take, AtRow
<1>2. run[c].todo \in Seq(Rows) /\ i \in Rows
  BY <1>1 DEF Run
<1>3. ~Held(i) /\ ~row[i].sent /\ run' = [run EXCEPT ![c] = s]
  BY DEF Take, Goto, Untouched
<1>4. s \in Run /\ s.held = i /\ s.mail = run[c].mail
  BY <1>1, <1>2 DEF Run
<1> HIDE DEF i, s
<1>5. \A d \in Copies : run'[d] = IF d = c THEN s ELSE run[d]
  BY <1>3 DEF IInv, TypeOK
<1>6. row' = row
  BY DEF Take
<1>7. TypeOK'
  BY <1>3, <1>4 DEF IInv, TypeOK, Take
<1>8. \A d \in Copies : run[d].held # i
  BY <1>3 DEF Held
<1>9. row[i].mails < row[i].allowed
  BY <1>2, <1>3, <1>8 DEF IInv, Unmailed
<1>10. NoSecondMail'
  BY <1>6 DEF IInv, NoSecondMail
<1>11. Unmailed'
  <2> SUFFICES ASSUME NEW j \in Rows, ~row[j].sent,
                      \A d \in Copies : run'[d].held = j => run'[d].mail # "accepted"
               PROVE  row[j].mails < row[j].allowed
    BY <1>6 DEF Unmailed
  <2>1. CASE j = i
    BY <2>1, <1>9
  <2>2. CASE j # i
    <3>1. \A d \in Copies : run[d].held = j => run[d].mail # "accepted"
      BY <2>2, <1>5, <1>1, NoneIsNoRow
    <3> QED
      BY <3>1 DEF IInv, Unmailed
  <2> QED
    BY <2>1, <2>2
<1>12. Due'
  BY <1>4, <1>5, <1>6, <1>9 DEF IInv, Due
<1>13. Alone'
  BY <1>4, <1>5, <1>8 DEF IInv, Alone
<1> QED
  BY <1>7, <1>10, <1>11, <1>12, <1>13 DEF IInv

LEMMA SkipKeeps ==
  ASSUME IInv, NEW c \in Copies, Skip(c)
  PROVE  IInv'
<1> DEFINE s == [run[c] EXCEPT !.todo = Tail(@)]
<1>1. run[c] \in Run /\ run[c].held = "none" /\ run[c].todo # <<>>
  BY HeldRow DEF IInv, TypeOK, Skip, AtRow
<1>2. Tail(run[c].todo) \in Seq(Rows)
  BY <1>1 DEF Run
<1>3. s \in Run /\ s.held = "none"
  BY <1>1, <1>2 DEF Run
<1>4. Goto(c, s) /\ row' = row
  BY DEF Skip
<1> HIDE DEF s
<1>5. TypeOK'
  BY <1>3, <1>4 DEF IInv, TypeOK, Skip, Goto
<1>6. s.held \notin Rows /\ run[c].held \notin Rows
  BY <1>1, <1>3, NoneIsNoRow
<1> QED
  BY <1>4, <1>5, <1>6, LetsGo DEF IInv

\* The mail server answers for the row i, and its counts stay in order.
LEMMA Answered ==
  ASSUME IInv, NEW c \in Copies, NEW i \in Rows, NEW r \in Row,
         NEW answer \in {"accepted", "refused"},
         run[c].held = i, run[c].mail = "unsent",
         run' = [run EXCEPT ![c] = [run[c] EXCEPT !.mail = answer]],
         row' = [row EXCEPT ![i] = r],
         r.sent = row[i].sent, r.mails <= r.allowed,
         answer = "refused" => r.mails < r.allowed,
         UNCHANGED <<turn, lock, stray>>, faults' \in 0..MaxFaults
  PROVE  IInv'
<1> DEFINE s == [run[c] EXCEPT !.mail = answer]
<1>1. run[c] \in Run
  BY HeldRow DEF IInv, TypeOK
<1>2. s \in Run /\ s.held = i /\ s.mail = answer
  BY <1>1 DEF Run
<1> HIDE DEF s
<1>3. run' = [run EXCEPT ![c] = s]
  BY DEF s
<1>4. \A d \in Copies : run'[d] = IF d = c THEN s ELSE run[d]
  BY <1>3 DEF IInv, TypeOK
<1>5. \A j \in Rows : row'[j] = IF j = i THEN r ELSE row[j]
  BY DEF IInv, TypeOK
<1>6. TypeOK'
  BY <1>2, <1>3 DEF IInv, TypeOK
<1>7. NoSecondMail'
  BY <1>5 DEF IInv, NoSecondMail
<1>8. Unmailed'
  <2> SUFFICES ASSUME NEW j \in Rows, ~row'[j].sent,
                      \A d \in Copies : run'[d].held = j => run'[d].mail # "accepted"
               PROVE  row'[j].mails < row'[j].allowed
    BY DEF Unmailed
  <2>1. CASE j = i
    BY <2>1, <1>2, <1>4, <1>5
  <2>2. CASE j # i
    <3>1. \A d \in Copies : run[d].held = j => run[d].mail # "accepted"
      BY <2>2, <1>4
    <3> QED
      BY <3>1, <2>2, <1>5 DEF IInv, Unmailed
  <2> QED
    BY <2>1, <2>2
<1>9. Due'
  <2> SUFFICES ASSUME NEW d \in Copies, NEW j \in Rows, run'[d].held = j,
                      run'[d].mail = "unsent"
               PROVE  row'[j].mails < row'[j].allowed
    BY DEF Due
  <2>1. d # c
    BY <1>2, <1>4
  <2>2. j # i
    BY <2>1, <1>4 DEF IInv, Alone
  <2> QED
    BY <2>1, <2>2, <1>4, <1>5 DEF IInv, Due
<1>10. Alone'
  BY <1>2, <1>4 DEF IInv, Alone
<1> QED
  BY <1>6, <1>7, <1>8, <1>9, <1>10 DEF IInv

LEMMA DeliverKeeps ==
  ASSUME IInv, NEW c \in Copies, Deliver(c) \/ DeliverUnanswered(c)
  PROVE  IInv'
<1> DEFINE i == run[c].held
<1>1. i \in Rows /\ run[c].mail = "unsent" /\ row[i] \in Row
  BY DEF Deliver, DeliverUnanswered, AtMail, IInv, TypeOK
<1>2. row[i].mails < row[i].allowed
  BY <1>1 DEF IInv, Due
<1>3. row[i].mails \in Nat /\ row[i].allowed \in Nat
  BY <1>1 DEF Row
<1>4. CASE Deliver(c) /\ i \in Dead
  <2>1. run' = [run EXCEPT ![c] = [run[c] EXCEPT !.mail = "refused"]]
    BY <1>4 DEF Deliver, Goto
  <2>2. row' = [row EXCEPT ![i] = row[i]]
    BY <1>1, <1>4 DEF Deliver, IInv, TypeOK
  <2>3. UNCHANGED <<turn, lock, stray, faults>>
    BY <1>4 DEF Deliver
  <2>4. faults' \in 0..MaxFaults
    BY <2>3 DEF IInv, TypeOK
  <2>5. row[i].mails <= row[i].allowed
    BY <1>2, <1>3
  <2> HIDE DEF i
  <2>6. run[c].held = i
    BY DEF i
  <2> QED
    BY <1>1, <1>2, <2>1, <2>2, <2>3, <2>4, <2>5, <2>6, Answered
<1>5. CASE Deliver(c) /\ i \notin Dead
  <2> DEFINE r == [row[i] EXCEPT !.mails = @ + 1]
  <2>1. run' = [run EXCEPT ![c] = [run[c] EXCEPT !.mail = "accepted"]]
    BY <1>5 DEF Deliver, Goto
  <2>2. row' = [row EXCEPT ![i] = r]
    BY <1>5 DEF Deliver
  <2>3. UNCHANGED <<turn, lock, stray, faults>>
    BY <1>5 DEF Deliver
  <2>4. r \in Row /\ r.sent = row[i].sent /\ r.mails <= r.allowed
    BY <1>1, <1>2, <1>3 DEF Row
  <2> HIDE DEF r
  <2> QED
    BY <1>1, <2>1, <2>2, <2>3, <2>4, Answered DEF IInv, TypeOK
<1>6. CASE DeliverUnanswered(c)
  <2> DEFINE p == [row[i] EXCEPT !.mails = @ + 1]
             r == [p EXCEPT !.allowed = @ + 1]
  <2>1. run' = [run EXCEPT ![c] = [run[c] EXCEPT !.mail = "refused"]]
    BY <1>6 DEF DeliverUnanswered, Goto
  <2>2. row' = [row EXCEPT ![i] = r]
    BY <1>1, <1>6 DEF DeliverUnanswered, IInv, TypeOK
  <2>3. UNCHANGED <<turn, lock, stray>> /\ faults' \in 0..MaxFaults
    BY <1>6, NaturalLimits DEF DeliverUnanswered, Fault, IInv, TypeOK
  <2>4. /\ r \in Row /\ r.sent = row[i].sent
        /\ r.mails = row[i].mails + 1 /\ r.allowed = row[i].allowed + 1
    <3>1. p \in Row /\ p.sent = row[i].sent /\ p.mails = row[i].mails + 1
          /\ p.allowed = row[i].allowed
      BY <1>1 DEF Row
    <3> HIDE DEF p
    <3> QED
      BY <3>1 DEF Row
  <2>5. r.mails < r.allowed /\ r.mails <= r.allowed
    BY <1>2, <1>3, <2>4
  <2> HIDE DEF r
  <2> QED
    BY <1>1, <2>1, <2>2, <2>3, <2>4, <2>5, Answered
<1> QED
  BY <1>4, <1>5, <1>6

LEMMA SaveKeeps ==
  ASSUME IInv, NEW c \in Copies, Save(c)
  PROVE  IInv'
<1> DEFINE i == run[c].held
           r == [[row[i] EXCEPT !.sent = @ \/ run[c].mail = "accepted"] EXCEPT !.rest = Rest]
           s == [[[run[c] EXCEPT !.todo = IF @ # <<>> THEN Tail(@) ELSE @]
                   EXCEPT !.held = "none"] EXCEPT !.mail = "unsent"]
<1>1. i \in Rows /\ run[c].mail # "unsent" /\ row[i] \in Row
  BY DEF Save, IInv, TypeOK
<1>2. run[c] \in Run
  BY <1>1, HeldRow DEF IInv, TypeOK
<1>3. run[c].todo # <<>> => Tail(run[c].todo) \in Seq(Rows)
  BY <1>2 DEF Run
<1>4. s \in Run /\ s.held = "none"
  BY <1>2, <1>3 DEF Run
<1>5. r \in Row /\ r.mails = row[i].mails /\ r.allowed = row[i].allowed
      /\ r.sent = (row[i].sent \/ run[c].mail = "accepted")
  BY <1>1, NaturalLimits DEF Row
<1>6. \A j \in Rows : row'[j] = IF j = i THEN r ELSE row[j]
  BY <1>1 DEF Save, IInv, TypeOK
<1>7. row' \in [Rows -> Row]
  <2>1. row' = [row EXCEPT ![i] = r]
    BY <1>1 DEF Save, IInv, TypeOK
  <2> HIDE DEF r
  <2> QED
    BY <2>1, <1>5 DEF IInv, TypeOK
<1>8. /\ run'[c] = s
      /\ \A d \in Copies \ {c} :
           run'[d] = IF Running(d) THEN [run[d] EXCEPT !.tried = @ \cup {i}] ELSE Idle
      /\ run' = [d \in Copies |-> run'[d]]
  BY <1>2 DEF Save
<1> HIDE DEF i, r, s
<1>9. \A d \in Copies \ {c} :
        /\ run'[d] \in Run \cup {Idle}
        /\ run'[d].held = run[d].held
        /\ run[d].held \in Rows => run'[d].mail = run[d].mail
  <2> TAKE d \in Copies \ {c}
  <2>1. CASE Running(d)
    <3>1. run[d] \in Run
      BY <2>1 DEF Running, IInv, TypeOK
    <3> QED
      BY <3>1, <2>1, <1>8, <1>1 DEF Run
  <2>2. CASE ~Running(d)
    BY <2>2, <1>8 DEF Running
  <2> QED
    BY <2>1, <2>2
<1>10. TypeOK'
  <2>1. run' \in [Copies -> Run \cup {Idle}]
    BY <1>4, <1>8, <1>9
  <2> QED
    BY <2>1, <1>1, <1>7, MovedTyped DEF Save, IInv, TypeOK, i
<1>11. \A d \in Copies \ {c} : run[d].held # i
  BY <1>1 DEF IInv, Alone, i
<1>12. NoSecondMail'
  BY <1>5, <1>6 DEF IInv, NoSecondMail
<1>13. Unmailed'
  <2> SUFFICES ASSUME NEW j \in Rows, ~row'[j].sent,
                      \A d \in Copies : run'[d].held = j => run'[d].mail # "accepted"
               PROVE  row'[j].mails < row'[j].allowed
    BY DEF Unmailed
  <2>1. \A d \in Copies : run[d].held = j => run[d].mail # "accepted"
    BY <1>5, <1>6, <1>9, <1>1 DEF i
  <2> QED
    BY <2>1, <1>5, <1>6 DEF IInv, Unmailed
<1>14. Due'
  <2> SUFFICES ASSUME NEW d \in Copies, NEW j \in Rows, run'[d].held = j,
                      run'[d].mail = "unsent"
               PROVE  row'[j].mails < row'[j].allowed
    BY DEF Due
  <2>1. d # c
    BY <1>4, <1>8, NoneIsNoRow
  <2> QED
    BY <2>1, <1>6, <1>9, <1>11 DEF IInv, Due
<1>15. Alone'
  BY <1>4, <1>8, <1>9, NoneIsNoRow DEF IInv, Alone
<1> QED
  BY <1>10, <1>12, <1>13, <1>14, <1>15 DEF IInv

LEMMA EndKeeps ==
  ASSUME IInv, NEW c \in Copies, End(c)
  PROVE  IInv'
<1>1. Goto(c, Idle) /\ UNCHANGED row /\ run[c].held = "none"
  BY DEF End
<1>2. TypeOK'
  BY <1>1 DEF IInv, TypeOK, End, Goto, ReleasedBy
<1>3. Idle.held \notin Rows /\ run[c].held \notin Rows
  BY <1>1, IdleHoldsNothing, NoneIsNoRow
<1> QED
  BY <1>1, <1>2, <1>3, LetsGo DEF IInv

LEMMA DieKeeps ==
  ASSUME IInv, NEW c \in Copies, Die(c)
  PROVE  IInv'
<1>1. Goto(c, Idle) /\ run[c] \in Run
  BY DEF Die, Running, IInv, TypeOK
<1>2. \A d \in Copies : run'[d] = IF d = c THEN Idle ELSE run[d]
  BY <1>1 DEF Goto, IInv, TypeOK
<1>3. Idle.held \notin Rows
  BY IdleHoldsNothing
<1>4. ASSUME row' = row, run[c].held \in Rows => run[c].mail # "accepted"
      PROVE  IInv'
  <2>1. TypeOK'
    <3>1. faults' \in 0..MaxFaults
      BY FaultCounted DEF Die, IInv
    <3>2. run' \in [Copies -> Run \cup {Idle}]
      BY <1>1 DEF Goto, IInv, TypeOK
    <3> QED
      BY <1>4, <3>1, <3>2 DEF IInv, TypeOK, Die
  <2> QED
    BY <1>1, <1>3, <1>4, <2>1, LetsGo DEF IInv
<1>5. ASSUME NEW i \in Rows, run[c].held = i,
             row' = [row EXCEPT ![i].allowed = @ + 1]
      PROVE  IInv'
  <2> DEFINE r == [row[i] EXCEPT !.allowed = @ + 1]
  <2>1. row[i] \in Row
    BY DEF IInv, TypeOK
  <2>2. /\ r \in Row /\ r.sent = row[i].sent
        /\ r.mails = row[i].mails /\ r.allowed = row[i].allowed + 1
    BY <2>1 DEF Row
  <2>3. \A j \in Rows : row'[j] = IF j = i THEN r ELSE row[j]
    BY <1>5 DEF IInv, TypeOK
  <2>4. row' = [row EXCEPT ![i] = r]
    BY <1>5
  <2> HIDE DEF r
  <2>5. TypeOK'
    <3>1. faults' \in 0..MaxFaults
      BY FaultCounted DEF Die, IInv
    <3>2. run' \in [Copies -> Run \cup {Idle}]
      BY <1>1 DEF Goto, IInv, TypeOK
    <3>3. row' \in [Rows -> Row]
      BY <2>2, <2>4 DEF IInv, TypeOK
    <3> QED
      BY <3>1, <3>2, <3>3 DEF IInv, TypeOK, Die
  <2>6. row[i].mails <= row[i].allowed /\ row[i].mails \in Nat /\ row[i].allowed \in Nat
    BY <2>1 DEF IInv, NoSecondMail, Row
  <2>7. r.mails < r.allowed /\ r.mails <= r.allowed
    BY <2>2, <2>6
  <2>8. NoSecondMail'
    BY <2>3, <2>7 DEF IInv, NoSecondMail
  <2>9. Unmailed'
    <3> SUFFICES ASSUME NEW j \in Rows, ~row'[j].sent,
                        \A d \in Copies : run'[d].held = j => run'[d].mail # "accepted"
                 PROVE  row'[j].mails < row'[j].allowed
      BY DEF Unmailed
    <3>1. CASE j = i
      BY <3>1, <2>3, <2>7
    <3>2. CASE j # i
      <4>1. \A d \in Copies : run[d].held = j => run[d].mail # "accepted"
        BY <3>2, <1>2, <1>5
      <4> QED
        BY <3>2, <4>1, <2>3 DEF IInv, Unmailed
    <3> QED
      BY <3>1, <3>2
  <2>10. Due'
    BY <1>2, <1>3, <2>3, <2>7 DEF IInv, Due
  <2>11. Alone'
    BY <1>2, <1>3 DEF IInv, Alone
  <2> QED
    BY <2>5, <2>8, <2>9, <2>10, <2>11 DEF IInv
<1>6. CASE run[c].mail = "accepted" /\ run[c].held \in Rows
  <2>1. row' = [row EXCEPT ![run[c].held].allowed = @ + 1]
    BY <1>6 DEF Die
  <2> QED
    BY <1>5, <1>6, <2>1
<1>7. CASE run[c].held = "none"
  <2>1. row' = row \/ row' = [row EXCEPT !["none"].allowed = @ + 1]
    BY <1>7 DEF Die
  <2>2. "none" \notin DOMAIN row
    BY NoneIsNoRow DEF IInv, TypeOK
  <2>3. row' = row
    BY <2>1, <2>2 DEF IInv, TypeOK
  <2> QED
    BY <1>4, <1>7, <2>3, NoneIsNoRow
<1>8. CASE run[c].mail # "accepted"
  BY <1>4, <1>8 DEF Die
<1>9. run[c].held \in Rows \cup {"none"}
  BY <1>1 DEF Run
<1> QED
  BY <1>6, <1>7, <1>8, <1>9

LEMMA NotifyKeeps ==
  ASSUME IInv, NEW c \in Copies, NEW i \in Rows, Notify(c, i)
  PROVE  IInv'
<1> DEFINE s == [todo |-> <<>>, tried |-> {}, held |-> i, mail |-> "unsent"]
           r == [row[i] EXCEPT !.allowed = @ + 1]
<1>1. s \in Run /\ s.held = i /\ s.mail = "unsent"
  BY DEF Run
<1>2. row[i] \in Row
  BY DEF IInv, TypeOK
<1>3. /\ r \in Row /\ r.sent = row[i].sent
      /\ r.mails = row[i].mails /\ r.allowed = row[i].allowed + 1
  BY <1>2 DEF Row
<1>4. row' = [row EXCEPT ![i] = r] /\ run' = [run EXCEPT ![c] = s]
  BY DEF Notify, Goto
<1>5. run[c] = Idle /\ \A d \in Copies : run[d].held # i
  BY DEF Notify, Running, Held
<1> HIDE DEF r, s
<1>6. \A d \in Copies : run'[d] = IF d = c THEN s ELSE run[d]
  BY <1>4 DEF IInv, TypeOK
<1>7. \A j \in Rows : row'[j] = IF j = i THEN r ELSE row[j]
  BY <1>4 DEF IInv, TypeOK
<1>8. TypeOK'
  <2>1. faults' \in 0..MaxFaults
    BY FaultCounted DEF Notify, IInv
  <2>2. run' \in [Copies -> Run \cup {Idle}]
    BY <1>1, <1>4 DEF IInv, TypeOK
  <2>3. row' \in [Rows -> Row]
    BY <1>3, <1>4 DEF IInv, TypeOK
  <2> QED
    BY <2>1, <2>2, <2>3 DEF IInv, TypeOK, Notify
<1>9. row[i].mails <= row[i].allowed /\ row[i].mails \in Nat /\ row[i].allowed \in Nat
  BY <1>2 DEF IInv, NoSecondMail, Row
<1>10. r.mails < r.allowed /\ r.mails <= r.allowed
  BY <1>3, <1>9
<1>11. NoSecondMail'
  BY <1>7, <1>10 DEF IInv, NoSecondMail
<1>12. Unmailed'
  <2> SUFFICES ASSUME NEW j \in Rows, ~row'[j].sent,
                      \A d \in Copies : run'[d].held = j => run'[d].mail # "accepted"
               PROVE  row'[j].mails < row'[j].allowed
    BY DEF Unmailed
  <2>1. CASE j = i
    BY <2>1, <1>7, <1>10
  <2>2. CASE j # i
    <3>1. \A d \in Copies : run[d].held = j => run[d].mail # "accepted"
      BY <2>2, <1>5, <1>6, IdleHoldsNothing
    <3> QED
      BY <3>1, <2>2, <1>7 DEF IInv, Unmailed
  <2> QED
    BY <2>1, <2>2
<1>13. Due'
  BY <1>1, <1>6, <1>7, <1>10 DEF IInv, Due
<1>14. Alone'
  BY <1>1, <1>5, <1>6 DEF IInv, Alone
<1> QED
  BY <1>8, <1>11, <1>12, <1>13, <1>14 DEF IInv

LEMMA LocksKeep ==
  ASSUME IInv, LockExpires \/ LockIsLost \/ UNCHANGED vars
  PROVE  IInv'
<1>1. row' = row /\ run' = run
  BY DEF LockExpires, LockIsLost, vars
<1>2. TypeOK'
  BY <1>1, FaultCounted DEF IInv, TypeOK, LockExpires, LockIsLost, vars
<1> QED
  BY <1>1, <1>2 DEF IInv, NoSecondMail, Unmailed, Due, Alone

LEMMA StepKeeps == IInv /\ [Next]_vars => IInv'
<1> SUFFICES ASSUME IInv, [Next]_vars PROVE IInv'
  OBVIOUS
<1>1. ASSUME NEW c \in Copies,
             Begin(c) \/ Step(c) \/ DeliverUnanswered(c) \/ Die(c)
      PROVE  IInv'
  BY <1>1, BeginKeeps, TakeKeeps, SkipKeeps, DeliverKeeps, SaveKeeps, EndKeeps, DieKeeps
     DEF Step
<1> QED
  BY <1>1, NotifyKeeps, LocksKeep DEF Next

\* The variables keep their types in every behavior of a scheduled mail job.
THEOREM JobsTyped == Spec => []TypeOK
<1>1. IInv => TypeOK
  BY DEF IInv
<1> QED
  BY <1>1, Initially, StepKeeps, PTL DEF Spec

\* A receipt or notification is mailed once, whatever workers do at the same time, and
\* once more for each mail that no commit remembers (receipt_worker, notify_delivery).
THEOREM MailedOnce == Spec => []NoSecondMail
<1>1. IInv => NoSecondMail
  BY DEF IInv
<1> QED
  BY <1>1, Initially, StepKeeps, PTL DEF Spec

\* Only runs that lost the lock run beside the one that holds it (run_exclusive).
THEOREM RunsExclude == Spec => []OneAtATime
<1> DEFINE I == TypeOK /\ OneAtATime
<1>1. Init => OneAtATime
  BY DEF Init, OneAtATime, Running
<1>2. I /\ TypeOK' /\ [Next]_vars => OneAtATime'
  <2> SUFFICES ASSUME I, TypeOK', [Next]_vars, NEW c \in Copies, Running(c)'
               PROVE  c = lock' \/ c \in stray'
    BY DEF OneAtATime
  <2>0. Running(c) => c = lock \/ c \in stray
    BY DEF OneAtATime
  <2>1. ASSUME NEW d \in Copies, Begin(d)
        PROVE  c = lock' \/ c \in stray'
    <3>1. c # d => Running(c)
      BY <2>1 DEF Begin, Goto, Running, TypeOK
    <3> QED
      BY <2>0, <2>1, <3>1, FreeIsNoCopy DEF Begin
  <2>2. ASSUME NEW d \in Copies,
               Take(d) \/ Skip(d) \/ Deliver(d) \/ DeliverUnanswered(d) \/ Save(d)
        PROVE  c = lock' \/ c \in stray'
    <3>1. UNCHANGED <<lock, stray>>
      BY <2>2 DEF Take, Skip, Deliver, DeliverUnanswered, Save
    <3>2. run[d].held \in Rows \cup {"none"}
      BY <2>2 DEF Take, Skip, Deliver, DeliverUnanswered, Save, AtRow, AtMail
    <3>3. run[d] # Idle
      BY <3>2, IdleHoldsNothing
    <3>4. c = d \/ run'[c] = run[c] \/ (Save(d) /\ Running(c))
      BY <2>2 DEF Take, Skip, Deliver, DeliverUnanswered, Save, Goto, Running, TypeOK
    <3> QED
      BY <2>0, <3>1, <3>3, <3>4 DEF Running
  <2>3. ASSUME NEW d \in Copies, End(d) \/ Die(d)
        PROVE  c = lock' \/ c \in stray'
    <3>1. c # d /\ Running(c)
      BY <2>3 DEF End, Die, Goto, Running, TypeOK
    <3> QED
      BY <2>0, <2>3, <3>1 DEF End, Die, ReleasedBy
  <2>4. ASSUME NEW d \in Copies, NEW i \in Rows, Notify(d, i)
        PROVE  c = lock' \/ c \in stray'
    <3>1. c = d \/ Running(c)
      BY <2>4 DEF Notify, Goto, Running, TypeOK
    <3> QED
      BY <2>0, <2>4, <3>1 DEF Notify
  <2>5. CASE LockExpires \/ LockIsLost \/ UNCHANGED vars
    BY <2>0, <2>5 DEF LockExpires, LockIsLost, Running, vars
  <2> QED
    BY <2>1, <2>2, <2>3, <2>4, <2>5 DEF Next, Step
<1> QED
  BY <1>1, <1>2, JobsTyped, PTL DEF Spec
=============================================================================
