-------------------------------- MODULE Jobs --------------------------------
(***************************************************************************)
(* A scheduled mail job: payment receipts or document notifications.  From *)
(* tasks.py, receipt_worker.py, delivery_worker.py, notify_delivery and    *)
(* services/mail.py.                                                       *)
(*                                                                         *)
(* A run takes the Redis lock of its job, picks a batch of rows from the   *)
(* database, and handles them one by one: lock the row, check it again,    *)
(* mail, commit.  The process may die between any two steps, the mail      *)
(* server may take a mail and not say so, and the Redis lock may be lost   *)
(* under a run; a one-shot command beside the scheduled job is like that.  *)
(* Time passes with the runs: a row that was tried rests for a number of   *)
(* them, its retry delay over the interval of the schedule.                *)
(***************************************************************************)
EXTENDS Integers, FiniteSets, SequencesExt

CONSTANTS
  Rows,       \* messages to send, as payment_receipt_emails or document_deliveries
  Dead,       \* those whose mail is always refused
  Copies,     \* worker processes that may run the job
  Limit,      \* size of a batch
  Rest,       \* runs that a row rests after an attempt
  SkipLocked, \* rows locked by others are left out, as receipt_worker does
  ByAttempt,  \* rows go by last attempt, as in delivery_worker; or else by creation
  MaxFaults   \* bound: deaths, lost answers, lost locks and resends

ASSUME DeadRows == Dead \subseteq Rows
ASSUME NaturalLimits == Limit \in Nat \ {0} /\ Rest \in Nat /\ MaxFaults \in Nat
ASSUME Flags == SkipLocked \in BOOLEAN /\ ByAttempt \in BOOLEAN
ASSUME FreeIsNoCopy == "free" \notin Copies
ASSUME NoneIsNoRow == {"none", "idle"} \cap Rows = {}
ASSUME FiniteRows == IsFiniteSet(Rows)

VARIABLES
  row,   \* the rows, and what happened to them
  turn,  \* the place of each row in the order of selection
  lock,  \* who holds the Redis lock
  stray, \* history: runs that go on without the lock they took
  run,   \* what each copy is doing
  faults

vars == <<row, turn, lock, stray, run, faults>>

-----------------------------------------------------------------------------

\* mails: accepted by the mail server.  allowed: one, and one more for each mail that
\* was accepted without a commit to remember it, or that a registrar asked for.
Row == [sent : BOOLEAN, rest : Nat, mails : Nat, allowed : Nat]

\* tried: rows with an attempt since the run computed its cutoff
Run == [todo  : Seq(Rows),
        tried : SUBSET Rows,
        held  : Rows \cup {"none"},
        mail  : {"unsent", "accepted", "refused"}]

Idle == [held |-> "idle"]

TypeOK == /\ row \in [Rows -> Row]
          /\ turn \in [Rows -> Int]
          /\ lock \in Copies \cup {"free"}
          /\ stray \subseteq Copies
          /\ run \in [Copies -> Run \cup {Idle}]
          /\ faults \in 0..MaxFaults

Running(c) == run[c] # Idle
Held(i)    == \E c \in Copies : run[c].held = i

Fault == faults < MaxFaults /\ faults' = faults + 1

Goto(c, state) == run' = [run EXCEPT ![c] = state]

-----------------------------------------------------------------------------
(* A run *)

Rested == [i \in Rows |-> [row[i] EXCEPT !.rest = IF @ > 0 THEN @ - 1 ELSE 0]]

Eligible(i) == ~row[i].sent /\ row[i].rest <= 1

\* The first rows that are eligible, in their order
InTurn(b) ==
  /\ \A m \in DOMAIN b : Eligible(b[m])
  /\ \A m, n \in DOMAIN b : m < n => turn[b[m]] < turn[b[n]]
  /\ \A i \in Rows : Eligible(i) /\ ~Contains(b, i) =>
       Len(b) = Limit /\ \A m \in DOMAIN b : turn[b[m]] < turn[i]

\* run_exclusive, and the selection of _run.  An interval has passed since the last run.
Begin(c) ==
  /\ ~Running(c) /\ lock = "free"
  /\ lock' = c
  /\ row' = Rested
  /\ \E b \in BoundedSeq(Rows, Limit) :
       InTurn(b) /\ Goto(c, [todo |-> b, tried |-> {}, held |-> "none", mail |-> "unsent"])
  /\ UNCHANGED <<turn, stray, faults>>

\* Fault: the row is not checked again under its lock.
UntouchedUnchecked(c, i) == i \in Rows

\* The checks repeated under the lock of the row, with the cutoff of the run.
Untouched(c, i) == ~row[i].sent /\ i \notin run[c].tried

AtRow(c) == Running(c) /\ run[c].held = "none" /\ run[c].todo # <<>>

Take(c) ==
  /\ AtRow(c)
  /\ LET i == Head(run[c].todo)
     IN ~Held(i) /\ Untouched(c, i) /\ Goto(c, [run[c] EXCEPT !.held = i])
  /\ UNCHANGED <<row, turn, lock, stray, faults>>

Skip(c) ==
  /\ AtRow(c)
  /\ LET i == Head(run[c].todo)
     IN IF Held(i) THEN SkipLocked ELSE ~Untouched(c, i)
  /\ Goto(c, [run[c] EXCEPT !.todo = Tail(@)])
  /\ UNCHANGED <<row, turn, lock, stray, faults>>

AtMail(c) == run[c].held \in Rows /\ run[c].mail = "unsent"

\* Mailer._deliver
Deliver(c) ==
  /\ AtMail(c)
  /\ LET i == run[c].held
     IN IF i \in Dead
        THEN Goto(c, [run[c] EXCEPT !.mail = "refused"]) /\ UNCHANGED row
        ELSE /\ Goto(c, [run[c] EXCEPT !.mail = "accepted"])
             /\ row' = [row EXCEPT ![i].mails = @ + 1]
  /\ UNCHANGED <<turn, lock, stray, faults>>

\* The server takes the mail, and the connection ends before it says so.
DeliverUnanswered(c) ==
  /\ AtMail(c) /\ run[c].held \notin Dead /\ Fault
  /\ Goto(c, [run[c] EXCEPT !.mail = "refused"])
  /\ row' = [row EXCEPT ![run[c].held].mails = @ + 1, ![run[c].held].allowed = @ + 1]
  /\ UNCHANGED <<turn, lock, stray>>

\* Fault: a row that was tried keeps its place.
MovedNever(i) == turn

\* By last attempt, the row that was tried goes behind the others.
Moved(i) == IF ~ByAttempt THEN turn
            ELSE [j \in Rows |-> IF j = i THEN Cardinality(Rows)
                                ELSE IF turn[j] > turn[i] THEN turn[j] - 1 ELSE turn[j]]

\* The commit of a row: sent, or tried in vain.
Save(c) ==
  /\ run[c].held \in Rows /\ run[c].mail # "unsent"
  /\ LET i == run[c].held
     IN /\ row' = [row EXCEPT ![i].sent = @ \/ run[c].mail = "accepted", ![i].rest = Rest]
        /\ turn' = Moved(i)
        /\ run' = [d \in Copies |->
             IF d = c THEN [run[c] EXCEPT !.todo = IF @ # <<>> THEN Tail(@) ELSE @,
                                          !.held = "none", !.mail = "unsent"]
             ELSE IF Running(d) THEN [run[d] EXCEPT !.tried = @ \cup {i}] ELSE Idle]
  /\ UNCHANGED <<lock, stray, faults>>

\* Fault: the lock is deleted, whoever holds it.
ReleasedFor(c) == "free"

\* lock.release, which fails unless c owns the lock
ReleasedBy(c) == IF lock = c THEN "free" ELSE lock

End(c) ==
  /\ Running(c) /\ run[c].held = "none" /\ run[c].todo = <<>>
  /\ Goto(c, Idle)
  /\ lock' = ReleasedBy(c) /\ stray' = stray \ {c}
  /\ UNCHANGED <<row, turn, faults>>

-----------------------------------------------------------------------------
(* Faults *)

\* The process dies or reaches its time limit: the open transaction is rolled back.
Die(c) ==
  /\ Running(c) /\ Fault
  /\ Goto(c, Idle)
  /\ row' = IF run[c].mail = "accepted"
            THEN [row EXCEPT ![run[c].held].allowed = @ + 1] ELSE row
  /\ stray' = stray \ {c}
  /\ UNCHANGED <<turn, lock>>

\* Leases outlast the longest run: only the lock of a dead run expires.
LockExpires ==
  /\ lock \in Copies /\ ~Running(lock)
  /\ lock' = "free"
  /\ UNCHANGED <<row, turn, stray, run, faults>>

\* Redis loses the lock of a run.
LockIsLost ==
  /\ lock \in Copies /\ Running(lock) /\ Fault
  /\ lock' = "free" /\ stray' = stray \cup {lock}
  /\ UNCHANGED <<row, turn, run>>

\* notify: a registrar sends the notification of a document now, sent or not.
Notify(c, i) ==
  /\ ~SkipLocked /\ ~Running(c) /\ ~Held(i) /\ Fault
  /\ Goto(c, [todo |-> <<>>, tried |-> {}, held |-> i, mail |-> "unsent"])
  /\ row' = [row EXCEPT ![i].allowed = @ + 1]
  /\ stray' = stray \cup {c}
  /\ UNCHANGED <<turn, lock>>

-----------------------------------------------------------------------------

Init ==
  /\ row = [i \in Rows |-> [sent |-> FALSE, rest |-> 0, mails |-> 0, allowed |-> 1]]
  /\ turn \in Bijection(Rows, 1..Cardinality(Rows))
  /\ lock = "free" /\ stray = {}
  /\ run = [c \in Copies |-> Idle]
  /\ faults = 0

Step(c) == Take(c) \/ Skip(c) \/ Deliver(c) \/ Save(c) \/ End(c)

Next ==
  \/ \E c \in Copies : \/ Begin(c) \/ Step(c) \/ DeliverUnanswered(c) \/ Die(c)
                       \/ \E i \in Rows : Notify(c, i)
  \/ LockExpires \/ LockIsLost

Spec == Init /\ [][Next]_vars

\* The scheduler goes on, every run gets to its end or dies, and locks expire.
Fairness == /\ WF_vars(\E c \in Copies : Begin(c))
            /\ \A c \in Copies : WF_vars(Step(c))
            /\ WF_vars(LockExpires)

FairSpec == Spec /\ Fairness

-----------------------------------------------------------------------------
(* What must hold *)

\* A message goes out twice only when the first mail was accepted and no commit could
\* remember it, or somebody asked for it, however many runs overlap
\* (docs/payment-receipts.md:15-17).
NoSecondMail == \A i \in Rows : row[i].mails <= row[i].allowed

\* A run without the lock is one that lost it: runs that overlap by one loss do not let
\* others overlap as well (run_exclusive; docs/background-jobs.md:87-88).
OneAtATime == \A c \in Copies : Running(c) => c = lock \/ c \in stray

\* Messages that can be delivered are, although others fail for ever and fill every
\* batch (docs/background-jobs.md:94-95).
EveryRowIsSent == \A i \in Rows \ Dead : <>row[i].sent
=============================================================================
