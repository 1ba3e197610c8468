--------------------------- MODULE PaymentsProofs ---------------------------
(***************************************************************************)
(* What the provers establish about Payments for any sets of attempts and  *)
(* threads and any amount.                                                 *)
(*                                                                         *)
(* The argument goes from the rows up.  DbInv says that a database is well *)
(* typed and that every ledger agrees with its attempt; Follows(d, e) says *)
(* that e satisfies it and that nothing d had confirmed is undone in e.    *)
(* Follows is transitive, so a handler follows from the writes it is made  *)
(* of, and one step of the system is one use of StepFollows.               *)
(***************************************************************************)
EXTENDS Payments, TLAPS

\* A database in which every ledger agrees with its attempt.
DbInv(d) == d \in Db /\ \A p \in Attempts : Booked(d.att[p], d.ledger[p])

\* Settled attempts stay settled, refunded totals do not fall, marks stay.
Grows(d, e) ==
  \A p \in Attempts : /\ Settled(d, p) => Settled(e, p)
                      /\ e.att[p].refunded >= d.att[p].refunded
                      /\ d.att[p].dispatched => e.att[p].dispatched
                      /\ d.refund[p].dispatched => e.refund[p].dispatched

\* What a write, and a handler made of writes, may do to the database.
Follows(d, e) == DbInv(e) /\ Grows(d, e)

-----------------------------------------------------------------------------

\* Every part of a well-typed database is a well-typed row.
LEMMA Rows ==
  ASSUME NEW d \in Db, NEW p \in Attempts
  PROVE  /\ d.order \in OrderRow /\ d.att[p] \in AttemptRow
         /\ d.refund[p] \in RefundRow /\ d.ledger[p] \in LedgerRow
         /\ d.inbox[p] \in [Messages -> {"absent", "received", "processed"}]
  BY DEF Db

\* A database that satisfies the invariant has a well-typed order row.
LEMMA OrderOfDb == ASSUME NEW d, DbInv(d) PROVE d \in Db /\ d.order \in OrderRow
  BY DEF DbInv, Db

\* A handler that writes nothing keeps the invariant.
LEMMA FollowsSelf ==
  ASSUME NEW d, DbInv(d) PROVE Follows(d, d)
  BY Rows DEF Follows, Grows, DbInv, AttemptRow

\* What one write may do and the next may do, both together may do.
LEMMA FollowsTrans ==
  ASSUME NEW d, NEW e, NEW f, DbInv(d), Follows(d, e), Follows(e, f)
  PROVE  Follows(d, f)
<1>1. \A p \in Attempts : /\ d.att[p].refunded \in Nat /\ e.att[p].refunded \in Nat
                          /\ f.att[p].refunded \in Nat
  BY Rows, AmountPositive DEF Follows, DbInv, AttemptRow
<1> QED BY <1>1 DEF Follows, Grows

\* Writing the order row moves no money.
LEMMA OrderSet ==
  ASSUME NEW d, DbInv(d), NEW o \in OrderRow PROVE Follows(d, [d EXCEPT !.order = o])
<1> DEFINE e == [d EXCEPT !.order = o]
<1>1. e \in Db /\ e.att = d.att /\ e.ledger = d.ledger /\ e.refund = d.refund
  BY DEF DbInv, Db
<1>2. DbInv(e)
  BY <1>1 DEF DbInv
<1>3. Grows(d, e)
  BY <1>1, Rows, AmountPositive DEF Grows, DbInv, Settled, AttemptRow
<1> QED BY <1>2, <1>3 DEF Follows

\* Writing a refund row moves no money, as long as dispatched_at stays.
LEMMA RefundSet ==
  ASSUME NEW d, DbInv(d), NEW p \in Attempts, NEW r \in RefundRow,
         d.refund[p].dispatched => r.dispatched
  PROVE  Follows(d, [d EXCEPT !.refund[p] = r])
<1> DEFINE e == [d EXCEPT !.refund[p] = r]
<1>1. e \in Db /\ e.att = d.att /\ e.ledger = d.ledger
      /\ \A q \in Attempts : e.refund[q] = IF q = p THEN r ELSE d.refund[q]
  BY DEF DbInv, Db
<1>2. DbInv(e)
  BY <1>1 DEF DbInv
<1>3. Grows(d, e)
  BY <1>1, Rows, AmountPositive DEF Grows, DbInv, Settled, AttemptRow
<1> QED BY <1>2, <1>3 DEF Follows

\* Writing the inbox moves no money.
LEMMA InboxSet ==
  ASSUME NEW d, DbInv(d), NEW p \in Attempts, NEW k \in Messages,
         NEW s \in {"absent", "received", "processed"}
  PROVE  Follows(d, [d EXCEPT !.inbox[p][k] = s])
<1> DEFINE e == [d EXCEPT !.inbox[p][k] = s]
<1>1. e \in Db /\ e.att = d.att /\ e.ledger = d.ledger /\ e.refund = d.refund
  BY DEF DbInv, Db
<1>2. DbInv(e)
  BY <1>1 DEF DbInv
<1>3. Grows(d, e)
  BY <1>1, Rows, AmountPositive DEF Grows, DbInv, Settled, AttemptRow
<1> QED BY <1>2, <1>3 DEF Follows

\* Writing an attempt and its ledger together keeps the invariant, if they agree.
LEMMA MoneySet ==
  ASSUME NEW d, DbInv(d), NEW p \in Attempts, NEW a \in AttemptRow, NEW l \in LedgerRow,
         Booked(a, l), Settled(d, p) => a.status \in SETTLED,
         a.refunded >= d.att[p].refunded, d.att[p].dispatched => a.dispatched
  PROVE  Follows(d, [d EXCEPT !.att[p] = a, !.ledger[p] = l])
<1> DEFINE e == [d EXCEPT !.att[p] = a, !.ledger[p] = l]
<1>1. /\ e \in Db /\ e.refund = d.refund
      /\ \A q \in Attempts : /\ e.att[q] = IF q = p THEN a ELSE d.att[q]
                             /\ e.ledger[q] = IF q = p THEN l ELSE d.ledger[q]
  BY DEF DbInv, Db
<1>2. DbInv(e)
  BY <1>1 DEF DbInv
<1>3. Grows(d, e)
  BY <1>1, Rows, AmountPositive DEF Grows, DbInv, Settled, AttemptRow
<1> QED BY <1>2, <1>3 DEF Follows

\* Writing an attempt that keeps its money and its side of SETTLED is safe.
LEMMA AttSet ==
  ASSUME NEW d, DbInv(d), NEW p \in Attempts, NEW a \in AttemptRow,
         a.paid = d.att[p].paid, a.refunded = d.att[p].refunded,
         Settled(d, p) => a.status \in SETTLED, d.att[p].dispatched => a.dispatched
  PROVE  Follows(d, [d EXCEPT !.att[p] = a])
<1>1. Booked(a, d.ledger[p])
  BY DEF DbInv, Booked, Settled
<1>2. a.refunded >= d.att[p].refunded
  BY AmountPositive DEF AttemptRow
<1>3. Follows(d, [d EXCEPT !.att[p] = a, !.ledger[p] = d.ledger[p]])
  BY <1>1, <1>2, MoneySet, Rows DEF DbInv
<1>4. [d EXCEPT !.att[p] = a, !.ledger[p] = d.ledger[p]] = [d EXCEPT !.att[p] = a]
  BY DEF DbInv, Db
<1> QED BY <1>3, <1>4
-----------------------------------------------------------------------------

\* aggregate_status returns a payment status.
LEMMA AggregateType ==
  ASSUME NEW d PROVE Aggregate(d) \in {"not_started", "pending", "paid"} \cup Blocked
  BY DEF Aggregate, Blocked

\* Deriving payment_status again moves no money.
LEMMA AggregatedFollows ==
  ASSUME NEW d, DbInv(d) PROVE Follows(d, Aggregated(d))
<1> DEFINE o == [d.order EXCEPT !.payment = Aggregate(d)]
<1>1. o \in OrderRow
  BY AggregateType, OrderOfDb DEF OrderRow
<1>2. Aggregated(d) = [d EXCEPT !.order = o]
  BY DEF Aggregated, DbInv, Db
<1> QED BY <1>1, <1>2, OrderSet

\* release_order moves no money.
LEMMA ReleaseFollows ==
  ASSUME NEW d, DbInv(d) PROVE Follows(d, Release(d))
<1> DEFINE o == [d.order EXCEPT !.status = "submitted", !.released = TRUE,
                                !.items = "awaiting_review"]
<1>1. o \in OrderRow
  BY OrderOfDb DEF OrderRow
<1>2. CASE d.order.released
  BY <1>2, FollowsSelf DEF Release
<1>3. CASE ~d.order.released
  <2>1. Release(d) = [d EXCEPT !.order = o]
    BY <1>3 DEF Release, DbInv, Db
  <2> QED BY <1>1, <2>1, OrderSet
<1> QED BY <1>2, <1>3

\* Neither does the release at the end of apply_observation.
LEMMA ReleaseIfPaidFollows ==
  ASSUME NEW d, DbInv(d) PROVE Follows(d, ReleaseIfPaid(d))
<1>1. Follows(d, Release(d)) /\ Follows(d, d)
  BY ReleaseFollows, FollowsSelf
<1>2. ReleaseIfPaid(d) = Release(d) \/ ReleaseIfPaid(d) = d
  BY Zenon DEF ReleaseIfPaid
<1> QED BY <1>1, <1>2

\* An attempt that is not settled can be closed.
LEMMA CloseFollows ==
  ASSUME NEW d, DbInv(d), NEW p \in Attempts, NEW s \in CLOSED, ~Settled(d, p)
  PROVE  Follows(d, Close(d, p, s))
<1> DEFINE a == [d.att[p] EXCEPT !.status = s, !.active = FALSE]
           e == [d EXCEPT !.att[p] = a]
<1>0. d.att[p] \in AttemptRow
  BY Rows DEF DbInv
<1>1. a \in AttemptRow /\ a.paid = d.att[p].paid /\ a.refunded = d.att[p].refunded
      /\ a.dispatched = d.att[p].dispatched
  BY <1>0 DEF AttemptRow, CLOSED
<1>2. Follows(d, e)
  BY <1>1, AttSet
<1>3. Close(d, p, s) = Aggregated(e)
  BY DEF Close, DbInv, Db
<1> QED BY <1>2, <1>3, AggregatedFollows, FollowsTrans DEF Follows

\* OPEN and SETTLED are disjoint.
LEMMA OpenNotSettled ==
  ASSUME NEW d, NEW p PROVE Open(d, p) => ~Settled(d, p)
  BY DEF Open, Settled, OPEN, SETTLED

\* A refund can take any status without moving money.
LEMMA RefundStatusSet ==
  ASSUME NEW d, DbInv(d), NEW p \in Attempts,
         NEW s \in {"requested", "rejected", "initiating", "unknown",
                    "pending", "failed", "succeeded"}
  PROVE  Follows(d, [d EXCEPT !.refund[p].status = s])
<1> DEFINE r == [d.refund[p] EXCEPT !.status = s]
<1>1. r \in RefundRow /\ r.dispatched = d.refund[p].dispatched
  BY Rows DEF DbInv, RefundRow
<1>2. [d EXCEPT !.refund[p].status = s] = [d EXCEPT !.refund[p] = r]
  BY DEF DbInv, Db
<1> QED BY <1>1, <1>2, RefundSet

\* Completing a refund and cancelling the order moves no money by itself.
LEMMA RefundedFollows ==
  ASSUME NEW d, DbInv(d), NEW p \in Attempts, NEW live \in BOOLEAN
  PROVE  Follows(d, Refunded(d, p, live))
<1> DEFINE r == IF d.refund[p].status = "none" THEN d
                ELSE [d EXCEPT !.refund[p].status = "succeeded"]
           o == [r.order EXCEPT !.status = "cancelled", !.items = "cancelled"]
<1>1. Follows(d, r)
  <2>1. Follows(d, d) /\ Follows(d, [d EXCEPT !.refund[p].status = "succeeded"])
    BY FollowsSelf, RefundStatusSet
  <2> QED BY <2>1
<1>2. CASE live
  BY <1>1, <1>2 DEF Refunded
<1>3. CASE ~live
  <2>0. r.order \in OrderRow /\ r \in Db
    BY <1>1, OrderOfDb DEF Follows, DbInv
  <2>1. o \in OrderRow
    <3> HIDE DEF r
    <3> QED BY <2>0 DEF OrderRow
  <2>2. Refunded(d, p, live) = [r EXCEPT !.order = o]
    BY <1>3, <2>0 DEF Refunded, Db
  <2>3. Follows(r, [r EXCEPT !.order = o])
    BY <1>1, <2>1, OrderSet DEF Follows
  <2> QED BY <1>1, <2>2, <2>3, FollowsTrans
<1> QED BY <1>2, <1>3

-----------------------------------------------------------------------------
(* apply_observation *)

Observation == [status : OPEN \cup SETTLED \cup CLOSED, refunded : 0..Amount, txref : BOOLEAN]

\* What a caller has to know of an observation before applying it.
Applicable(d, p, o) ==
  /\ o \in Observation
  /\ o.status \in SETTLED => o.refunded >= d.att[p].refunded
  /\ o.status \notin SETTLED => o.refunded = 0

\* What ledger_entry returns: it adds its key, and its amount only once.
LEMMA LedgerEntryType ==
  ASSUME NEW l \in LedgerRow, NEW k \in 0..Amount, NEW n \in Int
  PROVE  /\ LedgerEntry(l, k, n) \in LedgerRow
         /\ LedgerEntry(l, k, n).keys = l.keys \cup {k}
         /\ LedgerEntry(l, k, n).net = IF k \in l.keys THEN l.net ELSE l.net + n
  BY DEF LedgerEntry, LedgerRow

\* The status an observation leaves is settled exactly when it books money.
LEMMA FinalType ==
  ASSUME NEW o \in Observation
  PROVE  /\ Final(o) \in OPEN \cup SETTLED \cup CLOSED
         /\ o.status \in SETTLED => Final(o) \in SETTLED
         /\ o.status \notin SETTLED /\ o.refunded = 0 => Final(o) \notin SETTLED
  BY AmountPositive DEF Observation, Final, OPEN, SETTLED, CLOSED

\* What apply_observation makes of an attempt.
LEMMA ObservedRowType ==
  ASSUME NEW a \in AttemptRow, NEW o \in Observation
  PROVE  /\ ObservedRow(a, o) \in AttemptRow
         /\ ObservedRow(a, o).status = Final(o)
         /\ ObservedRow(a, o).refunded = o.refunded
         /\ ObservedRow(a, o).dispatched = a.dispatched
         /\ ObservedRow(a, o).paid = (a.paid \/ o.status \in SETTLED)
<1>1. Final(o) \in {"none"} \cup OPEN \cup SETTLED \cup CLOSED /\ o.refunded \in 0..Amount
  BY FinalType DEF Observation
<1> DEFINE final == Final(o)
           booked == o.status \in SETTLED
           txref == a.txref \/ (booked /\ o.txref)
           active == a.active /\ final \notin CLOSED
           paid == a.paid \/ booked
           receipt == a.receipt \/ (final = "succeeded" /\ a.status \notin SETTLED)
           b == [a EXCEPT !.status = final, !.refunded = o.refunded, !.paid = paid,
                          !.txref = txref, !.active = active, !.receipt = receipt]
<1>2. b = ObservedRow(a, o)
  BY DEF ObservedRow
<1>3. txref \in BOOLEAN /\ active \in BOOLEAN /\ paid \in BOOLEAN /\ receipt \in BOOLEAN
  OBVIOUS
<1> HIDE DEF final, txref, active, paid, receipt
<1>4. b.status = final /\ b.refunded = o.refunded /\ b.paid = paid
      /\ b.dispatched = a.dispatched
  BY DEF AttemptRow
<1>5. final \in {"none"} \cup OPEN \cup SETTLED \cup CLOSED
  BY <1>1 DEF final
<1>6. b \in AttemptRow
  BY <1>1, <1>3, <1>5 DEF AttemptRow
<1>7. final = Final(o) /\ paid = (a.paid \/ o.status \in SETTLED)
  BY DEF final, paid
<1> HIDE DEF b
<1> QED BY <1>2, <1>4, <1>6, <1>7

\* The heart of the ledger argument: an observation that does not lower the
\* refunded total is booked once, whatever was booked before.
LEMMA ObservedBooked ==
  ASSUME NEW a \in AttemptRow, NEW l \in LedgerRow, Booked(a, l), NEW o \in Observation,
         o.status \in SETTLED => o.refunded >= a.refunded,
         o.status \notin SETTLED => o.refunded = 0 /\ a.status \notin SETTLED
  PROVE  /\ ObservedLedger(l, a, o) \in LedgerRow
         /\ Booked(ObservedRow(a, o), ObservedLedger(l, a, o))
<1> DEFINE b == ObservedRow(a, o)
           charged == LedgerEntry(l, 0, Amount)
           m == ObservedLedger(l, a, o)
<1>1. b.status = Final(o) /\ b.refunded = o.refunded /\ b.paid = (a.paid \/ o.status \in SETTLED)
  BY ObservedRowType
<1>2. a.refunded \in 0..Amount /\ o.refunded \in 0..Amount /\ l.net \in Int /\ Amount \in Nat
      /\ a.paid \in BOOLEAN /\ l.keys \subseteq 0..Amount
  BY AmountPositive DEF AttemptRow, Observation, LedgerRow
<1>3. CASE o.status \notin SETTLED
  <2>1. m = l /\ ~a.paid
    BY <1>3 DEF ObservedLedger, Booked
  <2>2. ~b.paid
    BY <1>1, <1>3, <2>1
  <2> QED BY <1>1, <1>2, <1>3, <2>1, <2>2 DEF Booked
<1>4. CASE o.status \in SETTLED
  <2>1. /\ charged \in LedgerRow /\ charged.keys = l.keys \cup {0}
        /\ charged.net = IF 0 \in l.keys THEN l.net ELSE l.net + Amount
    <3>1. 0 \in 0..Amount /\ Amount \in Int
      BY <1>2
    <3> QED BY <3>1, LedgerEntryType
  <2>2. charged.net = Amount - a.refunded
    BY <2>1, <1>2 DEF Booked
  <2>3. \A k \in charged.keys : k \in 0..Amount /\ k <= a.refunded
    BY <2>1, <1>2 DEF Booked
  <2>4. b.paid /\ b.status \in SETTLED
    BY <1>1, <1>2, <1>4, FinalType
  <2>5. CASE o.refunded > a.refunded
    <3>1. m = LedgerEntry(charged, o.refunded, a.refunded - o.refunded)
      BY <1>4, <2>5 DEF ObservedLedger
    <3>2. o.refunded \notin charged.keys
      BY <2>3, <2>5, <1>2
    <3>3. m \in LedgerRow /\ m.keys = charged.keys \cup {o.refunded}
          /\ m.net = charged.net + (a.refunded - o.refunded)
      <4>1. a.refunded - o.refunded \in Int /\ o.refunded \in 0..Amount
        BY <1>2
      <4> HIDE DEF charged, m
      <4> QED BY <3>1, <3>2, <2>1, <4>1, LedgerEntryType
    <3>4. m.net = Amount - o.refunded
      BY <3>3, <2>2, <1>2
    <3>5. \A k \in m.keys : k <= o.refunded
      BY <3>3, <2>3, <2>5, <1>2
    <3>6. 0 \in m.keys
      BY <3>3, <2>1
    <3> QED BY <1>1, <2>4, <3>3, <3>4, <3>5, <3>6 DEF Booked
  <2>6. CASE ~(o.refunded > a.refunded)
    <3>1. m = charged /\ o.refunded = a.refunded
      BY <1>2, <1>4, <2>6 DEF ObservedLedger
    <3> QED BY <1>1, <2>1, <2>2, <2>3, <2>4, <3>1 DEF Booked
  <2> QED BY <2>5, <2>6
<1> QED BY <1>3, <1>4

\* An observation that is not refused moves the attempt and its ledger together.
LEMMA ObservedFollows ==
  ASSUME NEW d, DbInv(d), NEW p \in Attempts, NEW o, Applicable(d, p, o),
         Settled(d, p) => o.status \in SETTLED
  PROVE  Follows(d, Observed(d, p, o))
<1> DEFINE a == d.att[p]
           l == d.ledger[p]
           seen == [d EXCEPT !.att[p] = ObservedRow(a, o), !.ledger[p] = ObservedLedger(l, a, o)]
<1>0. o \in Observation /\ a \in AttemptRow /\ l \in LedgerRow /\ Booked(a, l) /\ d \in Db
  BY Rows DEF DbInv, Applicable
<1>1. ObservedLedger(l, a, o) \in LedgerRow /\ Booked(ObservedRow(a, o), ObservedLedger(l, a, o))
  BY <1>0, ObservedBooked DEF Applicable, Settled
<1>2. ObservedRow(a, o) \in AttemptRow /\ ObservedRow(a, o).dispatched = a.dispatched
  BY <1>0, ObservedRowType
<1>3. Settled(d, p) => ObservedRow(a, o).status \in SETTLED
  BY <1>0, ObservedRowType, FinalType
<1>4. ObservedRow(a, o).refunded >= a.refunded
  <2>1. CASE o.status \in SETTLED
    BY <2>1, <1>0, ObservedRowType DEF Applicable
  <2>2. CASE o.status \notin SETTLED
    <3>1. ~a.paid
      BY <2>2, <1>0 DEF Booked, Settled
    <3> QED BY <3>1, <2>2, <1>0, ObservedRowType DEF Booked, Applicable
  <2> QED BY <2>1, <2>2
<1>5. Follows(d, seen)
  BY <1>1, <1>2, <1>3, <1>4, MoneySet
<1>6. Observed(d, p, o) = seen
  BY <1>0 DEF Observed, Db
<1> QED BY <1>5, <1>6

\* apply_observation keeps the invariant and undoes nothing.
LEMMA ApplyFollows ==
  ASSUME NEW d, DbInv(d), NEW p \in Attempts, NEW o, Applicable(d, p, o)
  PROVE  Follows(d, Apply(d, p, o))
<1> DEFINE seen   == Observed(d, p, o)
           closed == IF Final(o) = "refunded" THEN Refunded(seen, p, OtherLive(d, p)) ELSE seen
<1>1. CASE Settled(d, p) /\ o.status \notin SETTLED
  BY <1>1, FollowsSelf DEF Apply
<1>2. CASE ~(Settled(d, p) /\ o.status \notin SETTLED)
  <2>1. Follows(d, seen)
    BY <1>2, ObservedFollows
  <2>2. OtherLive(d, p) \in BOOLEAN
    BY DEF OtherLive
  <2>3. Follows(seen, closed)
    BY <2>1, <2>2, FollowsSelf, RefundedFollows DEF Follows
  <2>4. Follows(closed, Aggregated(closed))
    BY <2>3, AggregatedFollows DEF Follows
  <2>5. Follows(Aggregated(closed), ReleaseIfPaid(Aggregated(closed)))
    BY <2>4, ReleaseIfPaidFollows DEF Follows
  <2>6. Apply(d, p, o) = ReleaseIfPaid(Aggregated(closed))
    BY <1>2 DEF Apply
  <2>7. Follows(d, closed)
    BY <2>1, <2>3, FollowsTrans
  <2>8. Follows(d, Aggregated(closed))
    BY <2>7, <2>4, FollowsTrans
  <2> QED
    BY <2>8, <2>5, <2>6, FollowsTrans
<1> QED BY <1>1, <1>2
-----------------------------------------------------------------------------

\* So does the replay of a received M-Pesa success.
LEMMA SettleFollows ==
  ASSUME NEW d, DbInv(d), NEW p \in Attempts
  PROVE  Follows(d, Settle(d, p))
<1> DEFINE seen == [status   |-> IF Settled(d, p) THEN d.att[p].status ELSE "succeeded",
                    refunded |-> d.att[p].refunded, txref |-> TRUE]
           e == Apply(d, p, seen)
<1>1. d.att[p] \in AttemptRow
  BY Rows DEF DbInv
<1>2. seen.status \in SETTLED /\ seen \in Observation
  BY <1>1 DEF Settled, SETTLED, Observation, AttemptRow
<1>3. Applicable(d, p, seen)
  BY <1>1, <1>2, AmountPositive DEF Applicable, AttemptRow
<1>4. Follows(d, e)
  BY <1>3, ApplyFollows
<1>5. Follows(e, [e EXCEPT !.inbox[p]["success"] = "processed"])
  BY <1>4, InboxSet DEF Follows, Messages, Callbacks
<1> QED BY <1>4, <1>5, FollowsTrans DEF Settle

\* So does finish_refund, whatever the outcome.
LEMMA FinishRefundFollows ==
  ASSUME NEW d, DbInv(d), NEW p \in Attempts, NEW status
  PROVE  Follows(d, FinishRefund(d, p, status))
<1> DEFINE o == [status |-> "refunded", refunded |-> Amount, txref |-> FALSE]
           e == Apply(d, p, o)
<1>1. CASE d.refund[p].status = "succeeded"
  BY <1>1, FollowsSelf DEF FinishRefund
<1>2. CASE d.refund[p].status # "succeeded" /\ status = "succeeded"
  <2>1. o \in Observation /\ o.status \in SETTLED
    BY AmountPositive DEF Observation, SETTLED
  <2>2. o.refunded >= d.att[p].refunded
    BY Rows, AmountPositive DEF DbInv, AttemptRow
  <2>3. Follows(d, e)
    BY <2>1, <2>2, ApplyFollows DEF Applicable
  <2>4. Follows(e, [e EXCEPT !.refund[p].status = "succeeded"])
    BY <2>3, RefundStatusSet DEF Follows
  <2> QED BY <1>2, <2>3, <2>4, FollowsTrans DEF FinishRefund
<1>3. CASE d.refund[p].status # "succeeded" /\ status # "succeeded" /\ status = "failed"
  <2> DEFINE f == [d EXCEPT !.refund[p].status = "failed"]
  <2>1. Follows(d, f)
    BY RefundStatusSet
  <2>2. Follows(f, Aggregated(f))
    BY <2>1, AggregatedFollows DEF Follows
  <2> QED BY <1>3, <2>1, <2>2, FollowsTrans DEF FinishRefund
<1>4. CASE d.refund[p].status # "succeeded" /\ status # "succeeded" /\ status # "failed"
  BY <1>4, RefundStatusSet DEF FinishRefund
<1> QED BY <1>1, <1>2, <1>3, <1>4

\* A record of the three fields is an observation.
LEMMA ObservationType ==
  ASSUME NEW s \in OPEN \cup SETTLED \cup CLOSED, NEW r \in 0..Amount, NEW b \in BOOLEAN
  PROVE  [status |-> s, refunded |-> r, txref |-> b] \in Observation
  BY DEF Observation

\* What Acceptable leaves of the answers of a status query can be applied.
LEMMA ObservationApplicable ==
  ASSUME TypeOK, NEW p \in Attempts, NEW o \in Observations(db, p), Acceptable(db, p, o)
  PROVE  Applicable(db, p, o)
<1>1. prov[p] \in ProviderRow /\ db.att[p] \in AttemptRow
  BY Rows DEF TypeOK
<1>2. o \in Observation /\ (o.status \notin SETTLED => o.refunded = 0)
  <2> DEFINE v == prov[p]
  <2>1. v.refunded \in 0..Amount /\ v.disputed \in BOOLEAN /\ db.att[p].refunded \in 0..Amount
        /\ db.att[p].txref \in BOOLEAN /\ 0 \in 0..Amount
    BY <1>1, AmountPositive DEF ProviderRow, AttemptRow
  <2>2. CASE p \in Mpesa
    <3>1. \/ o = [status |-> "pending", refunded |-> 0, txref |-> FALSE]
          \/ o = [status |-> "succeeded", refunded |-> db.att[p].refunded, txref |-> db.att[p].txref]
          \/ v.state \in CLOSED /\ o = [status |-> v.state, refunded |-> 0, txref |-> FALSE]
      BY <2>2 DEF Observations
    <3>2. {"pending", "succeeded", "expired"} \cup CLOSED \cup SETTLED
            \subseteq OPEN \cup SETTLED \cup CLOSED
      BY DEF OPEN, SETTLED, CLOSED
    <3>3. o \in Observation
      BY <3>1, <3>2, <2>1, ObservationType
    <3> QED BY <3>1, <3>3 DEF SETTLED, CLOSED
  <2>3. CASE p \notin Mpesa
    <3>1. \/ \E s \in {"expired", "pending"} : o = [status |-> s, refunded |-> 0, txref |-> FALSE]
          \/ \E s \in SETTLED : o = [status |-> s, refunded |-> v.refunded, txref |-> TRUE]
      BY <2>3 DEF Observations, SETTLED
    <3>2. {"pending", "succeeded", "expired"} \cup CLOSED \cup SETTLED
            \subseteq OPEN \cup SETTLED \cup CLOSED
      BY DEF OPEN, SETTLED, CLOSED
    <3>3. o \in Observation
      BY <3>1, <3>2, <2>1, ObservationType
    <3> QED BY <3>1, <3>3 DEF SETTLED, CLOSED
  <2> QED BY <2>2, <2>3
<1> QED BY <1>2 DEF Acceptable, Applicable

\* So does reconcile.
LEMMA ReconcileFollows ==
  ASSUME NEW d, DbInv(d), NEW p \in Attempts, NEW o, Applicable(d, p, o)
  PROVE  Follows(d, Reconcile(d, p, o))
<1> DEFINE seen == Apply(d, p, o)
<1>1. CASE HasSuccess(d, p)
  BY <1>1, SettleFollows DEF Reconcile
<1>2. CASE ~HasSuccess(d, p) /\ ~d.att[p].ref
  <2>1. CanExpire(d, p) => ~Settled(d, p)
    BY OpenNotSettled DEF CanExpire
  <2> QED BY <1>2, <2>1, CloseFollows, FollowsSelf DEF Reconcile, CLOSED
<1>3. CASE ~HasSuccess(d, p) /\ d.att[p].ref
  <2>1. Follows(d, seen)
    BY ApplyFollows
  <2>2. Follows(seen, FinishRefund(seen, p, RefundStatus(p)))
    BY <2>1, FinishRefundFollows DEF Follows
  <2> QED BY <1>3, <2>1, <2>2, FollowsTrans DEF Reconcile
<1> QED BY <1>1, <1>2, <1>3

\* So does consume_reversal.
LEMMA ConsumeReversalFollows ==
  ASSUME NEW d, DbInv(d), NEW p \in Attempts, NEW k \in Reversals
  PROVE  Follows(d, ConsumeReversal(d, p, k))
<1> DEFINE r == CASE k = "rev_done"    -> FinishRefund(d, p, "succeeded")
                  [] k = "rev_failed"  -> FinishRefund(d, p, "failed")
                  [] k = "rev_timeout" ->
                       IF d.refund[p].status \in {"succeeded", "failed"} THEN d
                       ELSE [d EXCEPT !.refund[p].status = "unknown"]
<1>1. CASE d.inbox[p][k] # "received" \/ ~d.refund[p].ref
  BY <1>1, FollowsSelf DEF ConsumeReversal
<1>2. CASE ~(d.inbox[p][k] # "received" \/ ~d.refund[p].ref)
  <2>1. Follows(d, r)
    BY FinishRefundFollows, FollowsSelf, RefundStatusSet DEF Reversals
  <2>2. Follows(r, [r EXCEPT !.inbox[p][k] = "processed"])
    BY <2>1, InboxSet DEF Follows, Messages
  <2>3. ConsumeReversal(d, p, k) = [r EXCEPT !.inbox[p][k] = "processed"]
    BY <1>2 DEF ConsumeReversal
  <2> QED BY <2>1, <2>2, <2>3, FollowsTrans
<1> QED BY <1>1, <1>2

\* Learning a transaction reference moves no money.
LEMMA TxrefSet ==
  ASSUME NEW d, DbInv(d), NEW p \in Attempts, NEW b \in BOOLEAN
  PROVE  Follows(d, [d EXCEPT !.att[p].txref = @ \/ b])
<1> DEFINE t == d.att[p].txref \/ b
           a == [d.att[p] EXCEPT !.txref = t]
<1>1. t \in BOOLEAN
  OBVIOUS
<1> HIDE DEF t
<1>2. a \in AttemptRow /\ a.paid = d.att[p].paid /\ a.refunded = d.att[p].refunded
      /\ a.dispatched = d.att[p].dispatched
      /\ a.status = d.att[p].status
  BY <1>1, Rows DEF DbInv, AttemptRow
<1>3. Follows(d, [d EXCEPT !.att[p] = a])
  BY <1>2, AttSet DEF Settled
<1>4. [d EXCEPT !.att[p].txref = @ \/ b] = [d EXCEPT !.att[p] = a]
  BY DEF DbInv, Db, t
<1> QED BY <1>3, <1>4

\* So does process_mpesa.
LEMMA MpesaResultFollows ==
  ASSUME NEW d, DbInv(d), NEW p \in Attempts, NEW k \in Callbacks, NEW o, Applicable(d, p, o)
  PROVE  Follows(d, MpesaResult(d, p, k, o))
<1> DEFINE f == [status |-> "failed", refunded |-> 0, txref |-> FALSE]
           r == CASE k = "failure" -> Apply(d, p, f)
                  [] k = "success" -> IF HasSuccess(d, p) THEN Settle(d, p) ELSE d
                  [] k = "other"   -> Reconcile(d, p, o)
           b == k = "success" /\ Settled(r, p) /\ r.att[p].status # "disputed"
           named == [r EXCEPT !.att[p].txref = @ \/ b]
<1>1. Applicable(d, p, f)
  BY AmountPositive DEF Applicable, Observation, OPEN, SETTLED, CLOSED
<1>2. Follows(d, r)
  BY <1>1, ApplyFollows, SettleFollows, FollowsSelf, ReconcileFollows DEF Callbacks
<1>3. b \in BOOLEAN
  OBVIOUS
<1> HIDE DEF r, b
<1>4. Follows(r, named)
  BY <1>2, <1>3, TxrefSet DEF Follows
<1>5. Follows(d, named)
  BY <1>2, <1>4, FollowsTrans
<1>6. Follows(named, [named EXCEPT !.inbox[p][k] = "processed"])
  BY <1>5, InboxSet DEF Follows, Messages
<1>7. MpesaResult(d, p, k, o) = IF Open(r, p) THEN named ELSE [named EXCEPT !.inbox[p][k] = "processed"]
  BY DEF MpesaResult, r, b
<1> QED BY <1>5, <1>6, <1>7, FollowsTrans

\* So does the handler of any provider message.
LEMMA HandleMessageFollows ==
  ASSUME NEW d, DbInv(d), NEW p \in Attempts, NEW k \in Messages, NEW o, Applicable(d, p, o)
  PROVE  Follows(d, HandleMessage(d, p, k, o))
<1>1. CASE k \in Reversals
  BY <1>1, ConsumeReversalFollows DEF HandleMessage
<1>2. CASE k \notin Reversals /\ k \in Callbacks
  BY <1>2, MpesaResultFollows DEF HandleMessage
<1>3. CASE k \notin Reversals /\ k \notin Callbacks
  <2> DEFINE e == Reconcile(d, p, o)
  <2>1. Follows(d, e)
    BY ReconcileFollows
  <2>2. Follows(e, [e EXCEPT !.inbox[p][k] = "processed"])
    BY <2>1, InboxSet DEF Follows
  <2> QED BY <1>3, <2>1, <2>2, FollowsTrans DEF HandleMessage
<1> QED BY <1>1, <1>2, <1>3
-----------------------------------------------------------------------------
(* One lemma for each handler that writes rows. *)

\* The rows of an attempt that is still open can be written freely.
LEMMA OpenAttSet ==
  ASSUME NEW d, DbInv(d), NEW p \in Attempts, NEW a \in AttemptRow, ~Settled(d, p),
         a.paid = d.att[p].paid, a.refunded = d.att[p].refunded,
         d.att[p].dispatched => a.dispatched
  PROVE  Follows(d, [d EXCEPT !.att[p] = a])
  BY AttSet

\* A new attempt holds no money.
LEMMA CreatedFollows ==
  ASSUME NEW d, DbInv(d), NEW p \in Attempts, ~Settled(d, p)
  PROVE  Follows(d, Created(d, p))
<1> DEFINE a == [d.att[p] EXCEPT !.status = "initiating", !.active = TRUE]
           e == [d EXCEPT !.att[p] = a]
           o == [e.order EXCEPT !.payment = "pending"]
<1>1. a \in AttemptRow /\ a.paid = d.att[p].paid /\ a.refunded = d.att[p].refunded
      /\ a.dispatched = d.att[p].dispatched
  BY Rows DEF DbInv, AttemptRow, OPEN
<1>2. Follows(d, e)
  BY <1>1, OpenAttSet
<1>3. o \in OrderRow
  BY <1>2, OrderOfDb DEF Follows, OrderRow
<1>4. Follows(e, [e EXCEPT !.order = o])
  BY <1>2, <1>3, OrderSet DEF Follows
<1>5. Created(d, p) = [e EXCEPT !.order = o]
  BY DEF Created, DbInv, Db
<1> QED BY <1>2, <1>4, <1>5, FollowsTrans

\* The first half of dispatch only marks an open attempt.
LEMMA BeginDispatchFollows ==
  ASSUME TypeOK, DbInv(db), NEW t \in Threads, NEW p \in Attempts, BeginDispatch(t, p)
  PROVE  Follows(db, db')
<1> DEFINE a == [db.att[p] EXCEPT !.dispatched = TRUE, !.status = "unknown"]
<1>1. a \in AttemptRow /\ a.paid = db.att[p].paid /\ a.refunded = db.att[p].refunded
      /\ (db.att[p].dispatched => a.dispatched)
  BY Rows DEF DbInv, AttemptRow, OPEN
<1>2. db' = [db EXCEPT !.att[p] = a]
  BY DEF BeginDispatch, DbInv, Db
<1>3. ~Settled(db, p)
  BY OpenNotSettled DEF BeginDispatch
<1> QED BY <1>1, <1>2, <1>3, OpenAttSet

\* The second half of dispatch never touches a settled attempt's status.
LEMMA EndDispatchFollows ==
  ASSUME TypeOK, DbInv(db), NEW t \in Threads, EndDispatch(t)
  PROVE  Follows(db, db')
<1> DEFINE p == task[t].pay
           status == IF Open(db, p) THEN "pending" ELSE db.att[p].status
           a == [db.att[p] EXCEPT !.ref = TRUE, !.status = status]
<1>0. p \in Attempts
  BY DEF EndDispatch, TypeOK, Task, Idle
<1>1. CASE task[t].arg = "rejected"
  BY <1>0, <1>1, CloseFollows, OpenNotSettled, FollowsSelf DEF EndDispatch, CLOSED
<1>2. CASE task[t].arg # "rejected"
  <2>1. status \in {"none"} \cup OPEN \cup SETTLED \cup CLOSED
    BY <1>0, Rows DEF DbInv, AttemptRow, OPEN
  <2>2. Settled(db, p) => status \in SETTLED
    BY OpenNotSettled DEF Settled
  <2>3. db' = [db EXCEPT !.att[p] = a]
    BY <1>0, <1>2 DEF EndDispatch, DbInv, Db
  <2> HIDE DEF status
  <2>4. db.att[p] \in AttemptRow
    BY <1>0, Rows DEF DbInv
  <2>5. a \in AttemptRow /\ a.paid = db.att[p].paid /\ a.refunded = db.att[p].refunded
      /\ (db.att[p].dispatched => a.dispatched)
        /\ a.status = status
    BY <2>1, <2>4 DEF AttemptRow
  <2> QED BY <1>0, <2>2, <2>3, <2>5, AttSet
<1> QED BY <1>1, <1>2

\* Recording a message may supply a reference, nothing else.
LEMMA ReceiveMessageFollows ==
  ASSUME TypeOK, DbInv(db), NEW t \in Threads, NEW p \in Attempts, NEW k \in Messages,
         ReceiveMessage(t, p, k)
  PROVE  Follows(db, db')
<1> DEFINE e == [db EXCEPT !.inbox[p][k] = "received"]
           ref == e.att[p].ref \/ k \notin Reversals
           a == [e.att[p] EXCEPT !.ref = ref]
<1>1. Follows(db, e)
  BY InboxSet
<1>2. ref \in BOOLEAN
  OBVIOUS
<1>3. db' = [e EXCEPT !.att[p] = a]
  BY DEF ReceiveMessage, DbInv, Db
<1> HIDE DEF ref
<1>4. a \in AttemptRow /\ a.paid = e.att[p].paid /\ a.refunded = e.att[p].refunded
      /\ (e.att[p].dispatched => a.dispatched)
      /\ a.status = e.att[p].status
  BY <1>1, <1>2, Rows DEF Follows, DbInv, AttemptRow
<1>5. Follows(e, [e EXCEPT !.att[p] = a])
  BY <1>1, <1>4, AttSet DEF Follows, Settled
<1> QED BY <1>1, <1>3, <1>5, FollowsTrans

\* request_refund sets the refund row of p and blocks the order in one write.
Asks(d, x, p, s, b) == x = [d EXCEPT !.refund[p].status = s, !.order.payment = b]

\* request_refund in both its forms.
LEMMA RefundAndOrderSet ==
  ASSUME NEW d, DbInv(d), NEW p \in Attempts, NEW x,
         NEW s \in {"requested", "initiating"}, NEW b \in {"refund_requested", "refund_pending"},
         Asks(d, x, p, s, b)
  PROVE  Follows(d, x)
<1> DEFINE e == [d EXCEPT !.refund[p].status = s]
           o == [e.order EXCEPT !.payment = b]
<1>1. Follows(d, e)
  BY RefundStatusSet
<1>2. o \in OrderRow
  BY <1>1, OrderOfDb DEF Follows, OrderRow, Blocked
<1>3. Follows(e, [e EXCEPT !.order = o])
  BY <1>1, <1>2, OrderSet DEF Follows
<1>4. x = [e EXCEPT !.order = o]
  BY DEF Asks, DbInv, Db
<1> QED BY <1>1, <1>3, <1>4, FollowsTrans

\* The first half of dispatch_refund only marks the refund.
LEMMA BeginRefundFollows ==
  ASSUME TypeOK, DbInv(db), NEW t \in Threads, BeginRefund(t)
  PROVE  Follows(db, db')
<1> DEFINE p == task[t].pay
           r == [db.refund[p] EXCEPT !.dispatched = TRUE, !.status = "unknown"]
<1>0. p \in Attempts
  BY DEF BeginRefund, TypeOK, Task, Idle
<1>1. CASE db' = db
  BY <1>1, FollowsSelf
<1>2. CASE db' = [db EXCEPT !.refund[p].dispatched = TRUE, !.refund[p].status = "unknown"]
  <2>1. db.refund[p] \in RefundRow
    BY <1>0, Rows DEF DbInv
  <2>2. r \in RefundRow /\ (db.refund[p].dispatched => r.dispatched)
    BY <2>1 DEF RefundRow
  <2>3. db' = [db EXCEPT !.refund[p] = r]
    BY <1>0, <1>2 DEF DbInv, Db
  <2> QED BY <1>0, <2>2, <2>3, RefundSet
<1> QED BY <1>1, <1>2 DEF BeginRefund

\* The second half finishes the refund or leaves it pending.
LEMMA EndRefundFollows ==
  ASSUME TypeOK, DbInv(db), NEW t \in Threads, EndRefund(t)
  PROVE  Follows(db, db')
<1> DEFINE p == task[t].pay
           r == [db.refund[p] EXCEPT !.ref = TRUE]
           e == [db EXCEPT !.refund[p] = r]
<1>0. p \in Attempts
  BY DEF EndRefund, TypeOK, Task, Idle
<1>1. CASE task[t].arg = "rejected"
  BY <1>0, <1>1, FinishRefundFollows DEF EndRefund
<1>2. CASE task[t].arg # "rejected"
  <2>1. db.refund[p] \in RefundRow
    BY <1>0, Rows DEF DbInv
  <2>2. r \in RefundRow /\ (db.refund[p].dispatched => r.dispatched)
    BY <2>1 DEF RefundRow
  <2>3. Follows(db, e)
    BY <1>0, <2>2, RefundSet
  <2>4. [db EXCEPT !.refund[p].ref = TRUE] = e
    BY <1>0 DEF DbInv, Db
  <2>5. db' = FinishRefund(e, p, task[t].arg)
    BY <1>2, <2>4 DEF EndRefund
  <2>6. Follows(e, FinishRefund(e, p, task[t].arg))
    BY <1>0, <2>3, FinishRefundFollows DEF Follows
  <2> QED BY <2>3, <2>5, <2>6, FollowsTrans
<1> QED BY <1>1, <1>2

\* Early reversal results are consumed one after the other.
LEMMA ConsumeEarlyFollows ==
  ASSUME TypeOK, DbInv(db), NEW t \in Threads, ConsumeEarly(t)
  PROVE  Follows(db, db')
<1> DEFINE p == task[t].pay
           done == ConsumeReversal(db, p, "rev_done")
           failed == ConsumeReversal(done, p, "rev_failed")
<1>0. p \in Attempts
  BY DEF ConsumeEarly, TypeOK, Task, Idle
<1>1. Follows(db, done)
  BY <1>0, ConsumeReversalFollows DEF Reversals
<1>2. Follows(done, failed)
  BY <1>0, <1>1, ConsumeReversalFollows DEF Reversals, Follows
<1>3. Follows(failed, ConsumeReversal(failed, p, "rev_timeout"))
  BY <1>0, <1>2, ConsumeReversalFollows DEF Reversals, Follows
<1>4. db' = ConsumeReversal(failed, p, "rev_timeout")
  BY DEF ConsumeEarly
<1> QED BY <1>1, <1>2, <1>3, <1>4, FollowsTrans

\* Registrars and cancellation write the order row only.
LEMMA FulfilmentFollows ==
  ASSUME TypeOK, DbInv(db), Fulfilment PROVE Follows(db, db')
<1>0. db.order \in OrderRow
  BY OrderOfDb
<1>1. CASE ItemDecision
  <2>1. PICK move \in ItemMoves : db' = [db EXCEPT !.order.items = move[2]]
    BY <1>1 DEF ItemDecision
  <2> DEFINE o == [db.order EXCEPT !.items = move[2]]
  <2>2. move[2] \in {"awaiting_review", "processing", "ready", "rejected"}
    BY DEF ItemMoves
  <2>3. o \in OrderRow
    BY <1>0, <2>2 DEF OrderRow
  <2>4. db' = [db EXCEPT !.order = o]
    BY <2>1 DEF DbInv, Db
  <2> QED BY <2>3, <2>4, OrderSet
<1>2. CASE IssueDocument
  <2> DEFINE o == [db.order EXCEPT !.items = "issued", !.issued = TRUE]
  <2>1. o \in OrderRow /\ db' = [db EXCEPT !.order = o]
    BY <1>0, <1>2 DEF IssueDocument, OrderRow, DbInv, Db
  <2> QED BY <2>1, OrderSet
<1>3. CASE RequestCancellation
  <2> DEFINE s == IF db.order.status = "awaiting_payment" THEN "cancelled" ELSE "cancellation_requested"
             o == [db.order EXCEPT !.status = s]
  <2>1. o \in OrderRow
    BY <1>0 DEF OrderRow
  <2>2. db' = [db EXCEPT !.order = o]
    BY <1>3 DEF RequestCancellation, DbInv, Db
  <2> QED BY <2>1, <2>2, OrderSet
<1>4. CASE DecideCancellation
  <2> DEFINE granted == [db.order EXCEPT !.status = "cancelled", !.items = "cancelled"]
             refused == [db.order EXCEPT !.status = "submitted"]
  <2>1. granted \in OrderRow /\ refused \in OrderRow
    BY <1>0 DEF OrderRow
  <2>2. db' = [db EXCEPT !.order = granted] \/ db' = [db EXCEPT !.order = refused]
    BY <1>4 DEF DecideCancellation, DbInv, Db
  <2> QED BY <2>1, <2>2, OrderSet
<1> QED BY <1>1, <1>2, <1>3, <1>4 DEF Fulfilment

-----------------------------------------------------------------------------

\* Every collection handler keeps the invariant and undoes nothing.
LEMMA HandlersFollow ==
  ASSUME TypeOK, DbInv(db), Handlers PROVE Follows(db, db')
<1>1. ASSUME NEW p \in Attempts, CreateAttempt(p) PROVE Follows(db, db')
  BY <1>1, CreatedFollows DEF CreateAttempt, Settled, SETTLED
<1>2. ASSUME NEW p \in Attempts, CheckPayment(p) PROVE Follows(db, db')
  BY <1>2, ObservationApplicable, ReconcileFollows DEF CheckPayment
<1>3. ASSUME NEW p \in Attempts, NoPaymentReview(p) PROVE Follows(db, db')
  BY <1>3, CloseFollows DEF NoPaymentReview, Settled, SETTLED, CLOSED
<1>4. ASSUME NEW p \in Attempts, NEW q \in Attempts, RetryPrompt(q, p) PROVE Follows(db, db')
  <2> DEFINE e == Close(db, q, "expired")
  <2>1. Follows(db, e)
    BY <1>4, CloseFollows, OpenNotSettled DEF RetryPrompt, CanExpire, CLOSED
  <2>2. e.att[p].status \in {"none", "expired"}
    BY <1>4 DEF RetryPrompt, Close, Aggregated, DbInv, Db
  <2>3. Follows(e, Created(e, p))
    BY <2>1, <2>2, CreatedFollows DEF Follows, Settled, SETTLED
  <2> QED BY <1>4, <2>1, <2>3, FollowsTrans DEF RetryPrompt
<1>5. ASSUME NEW p \in Attempts, NEW o \in Observations(db, p), WorkerPoll(p, o)
      PROVE Follows(db, db')
  BY <1>5, ObservationApplicable, ReconcileFollows DEF WorkerPoll
<1>6. ASSUME NEW p \in Attempts, NEW k \in Messages, RedeliverMessage(p, k)
      PROVE Follows(db, db')
  BY <1>6, ObservationApplicable, HandleMessageFollows DEF RedeliverMessage
<1>7. ASSUME NEW t \in Threads, FinishMessage(t) PROVE Follows(db, db')
  <2>1. task[t].pay \in Attempts /\ task[t].arg \in Messages
    BY <1>7 DEF FinishMessage, TypeOK, Task, Idle
  <2> QED BY <1>7, <2>1, ObservationApplicable, HandleMessageFollows DEF FinishMessage
<1>8. ASSUME NEW t \in Threads, LoseThread(t) PROVE Follows(db, db')
  BY <1>8, FollowsSelf DEF LoseThread
<1> QED
  BY <1>1, <1>2, <1>3, <1>4, <1>5, <1>6, <1>7, <1>8, BeginDispatchFollows,
     ReceiveMessageFollows, EndDispatchFollows, KnownKinds DEF Handlers

\* Every refund handler keeps the invariant and undoes nothing.
LEMMA RefundHandlersFollow ==
  ASSUME TypeOK, DbInv(db), RefundHandlers PROVE Follows(db, db')
<1>1. ASSUME NEW p \in Attempts, RequestRefund(p) PROVE Follows(db, db')
  <2>1. Asks(db, db', p, "requested", "refund_requested")
    BY <1>1 DEF RequestRefund, Asks
  <2> QED BY <2>1, RefundAndOrderSet
<1>2. ASSUME NEW p \in Attempts, RejectRefund(p) PROVE Follows(db, db')
  <2> DEFINE e == [db EXCEPT !.refund[p].status = "rejected"]
  <2>1. Follows(db, e)
    BY RefundStatusSet
  <2>2. Follows(e, Aggregated(e))
    BY <2>1, AggregatedFollows DEF Follows
  <2> QED BY <1>2, <2>1, <2>2, FollowsTrans DEF RejectRefund
<1>3. ASSUME NEW t \in Threads, NEW p \in Attempts, ApproveRefund(t, p) PROVE Follows(db, db')
  <2>1. db' = db \/ Asks(db, db', p, "initiating", "refund_pending")
    BY <1>3 DEF ApproveRefund, Asks
  <2> QED BY <2>1, RefundAndOrderSet, FollowsSelf
<1> QED
  BY <1>1, <1>2, <1>3, BeginRefundFollows, EndRefundFollows, ConsumeEarlyFollows
  DEF RefundHandlers

\* The providers do not write the database.
LEMMA ProvidersFollow ==
  ASSUME TypeOK, DbInv(db), Providers PROVE Follows(db, db')
<1>1. db' = db
  BY DEF Providers, GatewayInitiate, GatewayRefund, ProviderCharges, ProviderGivesUp,
         ProviderRefunds, DashboardRefund, Dispute
<1> QED BY <1>1, FollowsSelf
\* One step of the system, seen from the rows.
LEMMA StepFollows ==
  ASSUME TypeOK, LedgerMatches, [Next]_vars PROVE Follows(db, db')
<1>1. DbInv(db)
  BY DEF TypeOK, LedgerMatches, DbInv
<1>2. CASE UNCHANGED vars
  BY <1>1, <1>2, FollowsSelf DEF vars
<1> QED
  BY <1>1, <1>2, HandlersFollow, RefundHandlersFollow, FulfilmentFollows, ProvidersFollow
  DEF Next
-----------------------------------------------------------------------------
(* Threads and providers *)

\* What a busy thread carries.
LEMMA TaskType ==
  ASSUME NEW t \in Threads, TypeOK
  PROVE  /\ task[t] \in Task
         /\ task[t].op # "idle" => task[t].pay \in Attempts
         /\ task[t].op = "initiate" => task[t] \in [op : {"initiate"}, pay : Attempts,
                                                    arg : {"sending", "ok", "rejected"}]
         /\ task[t].op = "refund" => task[t] \in [op : {"refund"}, pay : Attempts,
                                    arg : {"sending", "pending", "succeeded", "rejected"}]
  BY DEF TypeOK, Task, Idle

\* Giving a thread another task keeps the threads well typed.
LEMMA TaskSet ==
  ASSUME TypeOK, NEW t \in Threads, NEW x \in Task
  PROVE  [task EXCEPT ![t] = x] \in [Threads -> Task]
  BY DEF TypeOK

\* Changing one provider row keeps the providers well typed.
LEMMA ProvSet ==
  ASSUME TypeOK, NEW p \in Attempts, NEW v \in ProviderRow
  PROVE  [prov EXCEPT ![p] = v] \in [Attempts -> ProviderRow]
  BY DEF TypeOK

\* Idle is a task.
LEMMA IdleTask == Idle \in Task
  BY DEF Task

\* Collection handlers keep threads and providers well typed.
LEMMA HandlersTypes ==
  ASSUME TypeOK, Handlers
  PROVE  task' \in [Threads -> Task] /\ prov' \in [Attempts -> ProviderRow]
<1>1. CASE UNCHANGED <<task, prov>>
  BY <1>1 DEF TypeOK
<1>2. ASSUME NEW t \in Threads, EndDispatch(t) \/ FinishMessage(t) \/ LoseThread(t)
      PROVE  task' = [task EXCEPT ![t] = Idle] /\ prov' = prov
  BY <1>2 DEF EndDispatch, FinishMessage, LoseThread
<1>3. ASSUME NEW t \in Threads, NEW p \in Attempts, BeginDispatch(t, p)
      PROVE  task' \in [Threads -> Task] /\ prov' = prov
  <2> DEFINE x == [op |-> "initiate", pay |-> p, arg |-> "sending"]
  <2>1. x \in Task
    BY DEF Task
  <2> QED BY <1>3, <2>1, TaskSet DEF BeginDispatch
<1>4. ASSUME NEW t \in Threads, NEW p \in Attempts, NEW k \in Messages, ReceiveMessage(t, p, k)
      PROVE  task' \in [Threads -> Task] /\ prov' = prov
  <2> DEFINE x == [op |-> "webhook", pay |-> p, arg |-> k]
  <2>1. x \in Task
    BY DEF Task
  <2> QED BY <1>4, <2>1, TaskSet DEF ReceiveMessage
<1>5. \/ UNCHANGED <<task, prov>>
      \/ \E t \in Threads : EndDispatch(t) \/ FinishMessage(t) \/ LoseThread(t)
      \/ \E t \in Threads, p \in Attempts : BeginDispatch(t, p)
      \/ \E t \in Threads, p \in Attempts, k \in Messages : ReceiveMessage(t, p, k)
  BY KnownKinds DEF Handlers, CreateAttempt, CheckPayment, NoPaymentReview, RetryPrompt,
                    WorkerPoll, RedeliverMessage
<1> QED BY <1>1, <1>2, <1>3, <1>4, <1>5, IdleTask, TaskSet DEF TypeOK

\* Refund handlers keep threads well typed and leave the providers alone.
LEMMA RefundHandlersTypes ==
  ASSUME TypeOK, RefundHandlers
  PROVE  task' \in [Threads -> Task] /\ prov' = prov
<1>1. ASSUME NEW t \in Threads, NEW p \in Attempts, ApproveRefund(t, p)
      PROVE  task' \in [Threads -> Task] /\ prov' = prov
  <2> DEFINE x == [op |-> "approved", pay |-> p, arg |-> "none"]
  <2>1. x \in Task
    BY DEF Task
  <2> QED BY <1>1, <2>1, TaskSet DEF ApproveRefund
<1>2. ASSUME NEW t \in Threads, BeginRefund(t)
      PROVE  task' \in [Threads -> Task] /\ prov' = prov
  <2> DEFINE x == [op |-> "refund", pay |-> task[t].pay, arg |-> "sending"]
  <2>1. x \in Task
    BY <1>2, TaskType DEF BeginRefund, Task
  <2> QED BY <1>2, <2>1, IdleTask, TaskSet DEF BeginRefund
<1>3. ASSUME NEW t \in Threads, EndRefund(t)
      PROVE  task' \in [Threads -> Task] /\ prov' = prov
  <2> DEFINE x == [op |-> "early", pay |-> task[t].pay, arg |-> "none"]
  <2>1. x \in Task
    BY <1>3, TaskType DEF EndRefund, Task
  <2>2. task' = [task EXCEPT ![t] = Idle] \/ task' = [task EXCEPT ![t] = x]
    BY <1>3 DEF EndRefund
  <2> QED BY <1>3, <2>1, <2>2, IdleTask, TaskSet DEF EndRefund
<1>4. ASSUME NEW t \in Threads, ConsumeEarly(t)
      PROVE  task' \in [Threads -> Task] /\ prov' = prov
  BY <1>4, IdleTask, TaskSet DEF ConsumeEarly
<1>5. ASSUME NEW p \in Attempts, RequestRefund(p) \/ RejectRefund(p)
      PROVE  task' \in [Threads -> Task] /\ prov' = prov
  BY <1>5 DEF RequestRefund, RejectRefund, TypeOK
<1> QED BY <1>1, <1>2, <1>3, <1>4, <1>5 DEF RefundHandlers

\* A charge request ends in an answer and counts at most once.
LEMMA GatewayInitiateEffect ==
  ASSUME TypeOK, NEW t \in Threads, GatewayInitiate(t)
  PROVE  /\ task[t].pay \in Attempts /\ task[t].op = "initiate" /\ task[t].arg = "sending"
         /\ \E x \in Task : /\ task' = [task EXCEPT ![t] = x]
                            /\ x.arg # "sending"
         /\ \E v \in ProviderRow :
              /\ prov' = [prov EXCEPT ![task[t].pay] = v]
              /\ v.reversals = prov[task[t].pay].reversals
              /\ v.sent <= prov[task[t].pay].sent + 1
<1> DEFINE p == task[t].pay
           ok == [task[t] EXCEPT !.arg = "ok"]
           no == [task[t] EXCEPT !.arg = "rejected"]
           n  == IF prov[p].sent < 2 THEN prov[p].sent + 1 ELSE prov[p].sent
           taken == [prov[p] EXCEPT !.state = "open", !.sent = n]
           refused == [prov[p] EXCEPT !.state = "refused"]
<1>1. task[t].op = "initiate" /\ task[t].arg = "sending" /\ p \in Attempts
  BY TaskType DEF GatewayInitiate
<1>2. prov[p] \in ProviderRow
  BY <1>1 DEF TypeOK
<1>3. ok \in Task /\ no \in Task /\ ok.arg # "sending" /\ no.arg # "sending"
  BY <1>1, TaskType DEF Task
<1>4. n \in 0..2 /\ n <= prov[p].sent + 1
  BY <1>2 DEF ProviderRow
<1> HIDE DEF n
<1>5. /\ taken \in ProviderRow /\ taken.reversals = prov[p].reversals
      /\ taken.sent <= prov[p].sent + 1
  BY <1>2, <1>4 DEF ProviderRow
<1>6. /\ refused \in ProviderRow /\ refused.reversals = prov[p].reversals
      /\ refused.sent <= prov[p].sent + 1
  BY <1>2 DEF ProviderRow
<1>7. prov[p].sent <= prov[p].sent + 1
  BY <1>2 DEF ProviderRow
<1>8. prov = [prov EXCEPT ![p] = prov[p]]
  BY DEF TypeOK
<1>9. task' = [task EXCEPT ![t] = ok] \/ task' = [task EXCEPT ![t] = no]
  BY DEF GatewayInitiate, TypeOK
<1>10. \/ prov' = prov \/ prov' = [prov EXCEPT ![p] = taken] \/ prov' = [prov EXCEPT ![p] = refused]
  BY DEF GatewayInitiate, TypeOK, n
<1>11. \E x \in Task : task' = [task EXCEPT ![t] = x] /\ x.arg # "sending"
  BY <1>3, <1>9
<1>12. \E v \in ProviderRow : /\ prov' = [prov EXCEPT ![p] = v]
                             /\ v.reversals = prov[p].reversals
                             /\ v.sent <= prov[p].sent + 1
  <2> HIDE DEF taken, refused
  <2> QED BY <1>2, <1>5, <1>6, <1>7, <1>8, <1>10
<1> QED BY <1>1, <1>11, <1>12

\* A refund request ends in an answer and counts at most once.
LEMMA GatewayRefundEffect ==
  ASSUME TypeOK, NEW t \in Threads, GatewayRefund(t)
  PROVE  /\ task[t].pay \in Attempts /\ task[t].op = "refund" /\ task[t].arg = "sending"
         /\ \E x \in Task : /\ task' = [task EXCEPT ![t] = x]
                            /\ x.arg # "sending"
         /\ \E v \in ProviderRow :
              /\ prov' = [prov EXCEPT ![task[t].pay] = v]
              /\ v.sent = prov[task[t].pay].sent
              /\ v.reversals <= prov[task[t].pay].reversals + 1
<1> DEFINE p == task[t].pay
           known == p \in Stripe /\ prov[p].reply # "none"
<1>1. task[t].op = "refund" /\ task[t].arg = "sending" /\ p \in Attempts
  BY TaskType DEF GatewayRefund
<1>2. prov[p] \in ProviderRow
  BY <1>1 DEF TypeOK
<1>3. PICK reply : /\ reply \in {"pending", "succeeded", "rejected"}
                   /\ task' = [task EXCEPT ![t].arg = reply]
                   /\ prov' = IF known THEN prov
                              ELSE [prov EXCEPT
                                ![p].reply     = reply,
                                ![p].reversals = IF reply # "rejected" /\ @ < 2 THEN @ + 1 ELSE @,
                                ![p].refund    = CASE reply = "succeeded" -> "succeeded"
                                                   [] reply = "pending"   -> "processing"
                                                   [] reply = "rejected"  -> @,
                                ![p].refunded  = IF reply = "succeeded" THEN Amount ELSE @]
  <2> DEFINE answers == IF known THEN {prov[p].reply}
                        ELSE IF p \in Mpesa THEN {"pending", "rejected"}
                        ELSE IF prov[p].refunded = 0 THEN {"pending", "succeeded", "rejected"}
                        ELSE {"rejected"}
  <2>1. prov[p].reply \in {"none", "pending", "succeeded", "rejected"}
    BY <1>2 DEF ProviderRow
  <2>2. answers \subseteq {"pending", "succeeded", "rejected"}
    BY <2>1
  <2> HIDE DEF answers
  <2>3. \A reply \in answers : reply \in {"pending", "succeeded", "rejected"}
    BY <2>2
  <2> QED BY <2>3, ZenonT(60) DEF GatewayRefund, answers
<1> DEFINE x == [task[t] EXCEPT !.arg = reply]
           n == IF reply # "rejected" /\ prov[p].reversals < 2 THEN prov[p].reversals + 1
                ELSE prov[p].reversals
           r == CASE reply = "succeeded" -> "succeeded"
                  [] reply = "pending"   -> "processing"
                  [] reply = "rejected"  -> prov[p].refund
           m == IF reply = "succeeded" THEN Amount ELSE prov[p].refunded
           v == [prov[p] EXCEPT !.reply = reply, !.reversals = n, !.refund = r, !.refunded = m]
<1>4. x \in Task /\ x.arg # "sending"
  BY <1>1, <1>3, TaskType DEF Task
<1>5. task' = [task EXCEPT ![t] = x]
  BY <1>3 DEF TypeOK
<1>6. n \in 0..2 /\ n <= prov[p].reversals + 1 /\ m \in 0..Amount
  BY <1>2, AmountPositive DEF ProviderRow
<1>7. r \in {"none", "processing", "succeeded", "failed"}
  BY <1>2, <1>3 DEF ProviderRow
<1>8. prov' = prov \/ prov' = [prov EXCEPT ![p] = v]
  BY <1>3 DEF TypeOK
<1> HIDE DEF n, r, m
<1>9. v \in ProviderRow /\ v.sent = prov[p].sent /\ v.reversals <= prov[p].reversals + 1
  BY <1>2, <1>3, <1>6, <1>7 DEF ProviderRow
<1>10. prov = [prov EXCEPT ![p] = prov[p]] /\ prov[p].reversals <= prov[p].reversals + 1
  BY <1>2 DEF TypeOK, ProviderRow
<1> HIDE DEF v, x
<1>11. \E w \in ProviderRow : /\ prov' = [prov EXCEPT ![p] = w]
                             /\ w.sent = prov[p].sent
                             /\ w.reversals <= prov[p].reversals + 1
  BY <1>2, <1>8, <1>9, <1>10
<1> QED BY <1>1, <1>4, <1>5, <1>11

\* What a provider does by itself takes no request.
LEMMA ProviderStepEffect ==
  ASSUME TypeOK, NEW p \in Attempts,
         ProviderCharges(p) \/ ProviderGivesUp(p) \/ ProviderRefunds(p)
           \/ DashboardRefund(p) \/ Dispute(p)
  PROVE  /\ task' = task
         /\ \E v \in ProviderRow : /\ prov' = [prov EXCEPT ![p] = v]
                                  /\ v.sent = prov[p].sent
                                  /\ v.reversals = prov[p].reversals
<1>1. prov[p] \in ProviderRow
  BY DEF TypeOK
<1>2. CASE ProviderCharges(p) \/ ProviderGivesUp(p)
  <2>1. PICK s \in {"charged", "expired", "failed"} : prov' = [prov EXCEPT ![p].state = s]
    BY <1>2 DEF ProviderCharges, ProviderGivesUp
  <2> DEFINE v == [prov[p] EXCEPT !.state = s]
  <2>2. v \in ProviderRow /\ v.sent = prov[p].sent /\ v.reversals = prov[p].reversals
    BY <1>1 DEF ProviderRow
  <2>3. prov' = [prov EXCEPT ![p] = v]
    BY <2>1 DEF TypeOK
  <2> QED BY <1>2, <2>2, <2>3 DEF ProviderCharges, ProviderGivesUp
<1>3. CASE ProviderRefunds(p)
  <2> DEFINE done == [prov[p] EXCEPT !.refund = "succeeded", !.refunded = Amount]
             failed == [prov[p] EXCEPT !.refund = "failed"]
  <2>0. Amount \in 0..Amount
    BY AmountPositive
  <2>4. done \in ProviderRow /\ done.sent = prov[p].sent /\ done.reversals = prov[p].reversals
    BY <1>1, <2>0 DEF ProviderRow
  <2>5. failed \in ProviderRow /\ failed.sent = prov[p].sent
        /\ failed.reversals = prov[p].reversals
    BY <1>1 DEF ProviderRow
  <2>1. done \in ProviderRow /\ done.sent = prov[p].sent /\ done.reversals = prov[p].reversals
        /\ failed \in ProviderRow /\ failed.sent = prov[p].sent
        /\ failed.reversals = prov[p].reversals
    BY <2>4, <2>5
  <2>2. prov' = [prov EXCEPT ![p] = done] \/ prov' = [prov EXCEPT ![p] = failed]
    BY <1>3 DEF ProviderRefunds, TypeOK
  <2> QED BY <1>3, <2>1, <2>2 DEF ProviderRefunds
<1>4. CASE DashboardRefund(p)
  <2> DEFINE v == [prov[p] EXCEPT !.refunded = @ + 1]
  <2>1. v \in ProviderRow /\ v.sent = prov[p].sent /\ v.reversals = prov[p].reversals
    BY <1>1, <1>4, AmountPositive DEF ProviderRow, DashboardRefund
  <2>2. prov' = [prov EXCEPT ![p] = v]
    BY <1>4 DEF DashboardRefund, TypeOK
  <2> QED BY <1>4, <2>1, <2>2 DEF DashboardRefund
<1>5. CASE Dispute(p)
  <2> DEFINE v == [prov[p] EXCEPT !.disputed = ~@]
  <2>1. v \in ProviderRow /\ v.sent = prov[p].sent /\ v.reversals = prov[p].reversals
    BY <1>1 DEF ProviderRow
  <2>2. prov' = [prov EXCEPT ![p] = v]
    BY <1>5 DEF Dispute, TypeOK
  <2> QED BY <1>5, <2>1, <2>2 DEF Dispute
<1> QED BY <1>2, <1>3, <1>4, <1>5

\* Every step keeps threads and providers well typed.
LEMMA StepTypes ==
  ASSUME TypeOK, [Next]_vars
  PROVE  task' \in [Threads -> Task] /\ prov' \in [Attempts -> ProviderRow]
<1>1. CASE UNCHANGED vars
  BY <1>1 DEF vars, TypeOK
<1>2. CASE Handlers
  BY <1>2, HandlersTypes
<1>3. CASE RefundHandlers
  BY <1>3, RefundHandlersTypes DEF TypeOK
<1>4. CASE Fulfilment
  BY <1>4 DEF Fulfilment, ItemDecision, IssueDocument, RequestCancellation,
              DecideCancellation, TypeOK
<1>5. CASE Providers
  <2>1. ASSUME NEW t \in Threads, GatewayInitiate(t) \/ GatewayRefund(t)
        PROVE  task' \in [Threads -> Task] /\ prov' \in [Attempts -> ProviderRow]
    BY <2>1, GatewayInitiateEffect, GatewayRefundEffect, TaskSet, ProvSet
  <2>2. ASSUME NEW p \in Attempts,
               ProviderCharges(p) \/ ProviderGivesUp(p) \/ ProviderRefunds(p)
                 \/ DashboardRefund(p) \/ Dispute(p)
        PROVE  task' \in [Threads -> Task] /\ prov' \in [Attempts -> ProviderRow]
    BY <2>2, ProviderStepEffect, ProvSet DEF TypeOK
  <2> QED BY <1>5, <2>1, <2>2 DEF Providers
<1> QED BY <1>1, <1>2, <1>3, <1>4, <1>5 DEF Next

-----------------------------------------------------------------------------
(* The rows: types, the ledger, and what a step never undoes *)

\* A submitted order has no attempts, no money and an empty inbox.
LEMMA InitInv == Init => TypeOK /\ LedgerMatches
<1> SUFFICES ASSUME Init PROVE TypeOK /\ LedgerMatches
  OBVIOUS
<1>1. PICK policy \in Policies :
        db = [order |-> [policy   |-> policy,
                         status   |-> IF policy = "before_review" THEN "awaiting_payment"
                                      ELSE "submitted",
                         payment  |-> "not_started",
                         released |-> policy = "after_review",
                         items    |-> IF policy = "before_review" THEN "draft"
                                      ELSE "awaiting_review",
                         issued   |-> FALSE],
              att |-> [p \in Attempts |->
                         [status |-> "none", active |-> FALSE, dispatched |-> FALSE,
                          ref |-> FALSE, txref |-> FALSE, paid |-> FALSE,
                          refunded |-> 0, receipt |-> FALSE]],
              refund |-> [p \in Attempts |->
                         [status |-> "none", dispatched |-> FALSE, ref |-> FALSE]],
              ledger |-> [p \in Attempts |-> [keys |-> {}, net |-> 0]],
              inbox |-> [p \in Attempts |-> [k \in Messages |-> "absent"]]]
  BY DEF Init
<1>2. policy \in {"before_review", "after_review"} /\ 0 \in 0..Amount
  BY KnownPolicies, AmountPositive
<1>3. db.order \in OrderRow
  BY <1>1, <1>2 DEF OrderRow
<1>4. \A p \in Attempts : db.att[p] \in AttemptRow
  BY <1>1, <1>2 DEF AttemptRow
<1>5. \A p \in Attempts : db.refund[p] \in RefundRow
  BY <1>1 DEF RefundRow
<1>6. \A p \in Attempts : db.ledger[p] \in LedgerRow
  BY <1>1 DEF LedgerRow
<1>7. db \in Db
  BY <1>1, <1>3, <1>4, <1>5, <1>6 DEF Db
<1>8. task \in [Threads -> Task]
  BY IdleTask DEF Init
<1>9. prov \in [Attempts -> ProviderRow]
  BY <1>2 DEF Init, ProviderRow
<1>10. LedgerMatches
  BY <1>1 DEF LedgerMatches, Booked
<1> QED BY <1>7, <1>8, <1>9, <1>10 DEF TypeOK

\* TypeOK and LedgerMatches are inductive together.
LEMMA StepInv ==
  ASSUME TypeOK, LedgerMatches, [Next]_vars PROVE TypeOK' /\ LedgerMatches'
<1>1. DbInv(db')
  BY StepFollows DEF Follows
<1>2. task' \in [Threads -> Task] /\ prov' \in [Attempts -> ProviderRow]
  BY StepTypes
<1> QED BY <1>1, <1>2 DEF DbInv, TypeOK, LedgerMatches

\* The inductive invariant holds in every reachable state.
LEMMA Invariance == Spec => [](TypeOK /\ LedgerMatches)
<1>1. Init => TypeOK /\ LedgerMatches
  BY InitInv
<1>2. TypeOK /\ LedgerMatches /\ [Next]_vars => (TypeOK /\ LedgerMatches)'
  BY StepInv
<1> QED BY <1>1, <1>2, PTL DEF Spec

\* TypeOK holds in every behaviour, for any number of attempts and threads:
\* no handler leaves a status, a refunded total or a task outside its type.
THEOREM TypeCorrect == Spec => []TypeOK
  BY Invariance, PTL

\* The ledger of every attempt adds up to what its row collected less what it
\* refunded, however often webhooks, polls and refunds report the same movement
\* (apply_observation and ledger_entry in services/payments.py).
THEOREM LedgerSafe == Spec => []LedgerMatches
  BY Invariance, PTL

\* A confirmed payment is never overwritten by a late failure, an expiry or a
\* rejected dispatch, and a refunded total never falls.
THEOREM SettledForever == Spec => SettledStays
<1> DEFINE Stays == \A p \in Attempts :
                      /\ Settled(db, p) => Settled(db, p)'
                      /\ db'.att[p].refunded >= db.att[p].refunded
<1>1. TypeOK /\ LedgerMatches /\ [Next]_vars => Stays
  BY StepFollows DEF Follows, Grows, Settled
<1>2. TypeOK /\ LedgerMatches /\ [Next]_vars => [Stays]_vars
  BY <1>1
<1>3. Spec => [][Stays]_vars
  BY <1>2, Invariance, PTL DEF Spec
<1> QED BY <1>3 DEF SettledStays

-----------------------------------------------------------------------------
(* At most one request to an M-Pesa customer *)

\* Thread t is about to send the request op of attempt p.
Sending(t, op, p) == task[t].op = op /\ task[t].pay = p /\ task[t].arg = "sending"

\* A request is sent by one thread at most, only once it is marked as dispatched,
\* and counted only after that: so it is counted once.
OnceOnly(op, p, marked, n) ==
  /\ n <= 1
  /\ marked \/ n = 0
  /\ \A t \in Threads : Sending(t, op, p) => marked /\ n = 0
  /\ \A t, u \in Threads : Sending(t, op, p) /\ Sending(u, op, p) => t = u

PromptInv   == \A p \in Mpesa : OnceOnly("initiate", p, db.att[p].dispatched, prov[p].sent)
ReversalInv == \A p \in Mpesa : OnceOnly("refund", p, db.refund[p].dispatched, prov[p].reversals)

\* The provider takes no further request of p, thread t starts no request.
Counts(p) == prov'[p].sent = prov[p].sent /\ prov'[p].reversals = prov[p].reversals

Silent(t) == task'[t] = task[t] \/ task'[t] = Idle \/ task'[t].arg # "sending"

\* Only a thread that is given a request to send starts sending.
LEMMA SilentSends ==
  ASSUME NEW t \in Threads, Silent(t), NEW op \in {"initiate", "refund"}, NEW p, Sending(t, op, p)'
  PROVE  Sending(t, op, p)
  BY DEF Silent, Sending, Idle

\* Giving one thread a task that sends nothing makes no thread send.
LEMMA TaskSetSilent ==
  ASSUME TypeOK, NEW t \in Threads, NEW x \in Task, x = Idle \/ x.arg # "sending",
         task' = [task EXCEPT ![t] = x]
  PROVE  \A u \in Threads : Silent(u)
  BY DEF TypeOK, Silent

QuietStep == (\A t \in Threads : Silent(t)) /\ (\A p \in Attempts : Counts(p))

\* Among the collection handlers only dispatch starts a request.
LEMMA HandlersClass ==
  ASSUME TypeOK, Handlers
  PROVE  QuietStep \/ \E t \in Threads, p \in Attempts : BeginDispatch(t, p)
<1>1. CASE UNCHANGED <<task, prov>>
  BY <1>1 DEF QuietStep, Silent, Counts
<1>2. ASSUME NEW t \in Threads, EndDispatch(t) \/ FinishMessage(t) \/ LoseThread(t)
      PROVE  QuietStep
  <2>1. task' = [task EXCEPT ![t] = Idle] /\ prov' = prov
    BY <1>2 DEF EndDispatch, FinishMessage, LoseThread
  <2> QED BY <2>1, IdleTask, TaskSetSilent DEF QuietStep, Counts
<1>3. ASSUME NEW t \in Threads, NEW p \in Attempts, NEW k \in Messages, ReceiveMessage(t, p, k)
      PROVE  QuietStep
  <2> DEFINE x == [op |-> "webhook", pay |-> p, arg |-> k]
  <2>1. x \in Task /\ x.arg # "sending"
    BY DEF Task, Messages, Callbacks, Reversals
  <2>2. task' = [task EXCEPT ![t] = x] /\ prov' = prov
    BY <1>3 DEF ReceiveMessage
  <2> HIDE DEF x
  <2> QED BY <2>1, <2>2, TaskSetSilent DEF QuietStep, Counts
<1>4. \/ UNCHANGED <<task, prov>>
      \/ \E t \in Threads : EndDispatch(t) \/ FinishMessage(t) \/ LoseThread(t)
      \/ \E t \in Threads, p \in Attempts : BeginDispatch(t, p)
      \/ \E t \in Threads, p \in Attempts, k \in Messages : ReceiveMessage(t, p, k)
  BY KnownKinds DEF Handlers, CreateAttempt, CheckPayment, NoPaymentReview, RetryPrompt,
                    WorkerPoll, RedeliverMessage
<1> QED BY <1>1, <1>2, <1>3, <1>4

\* Among the refund handlers only dispatch_refund starts a request.
LEMMA RefundHandlersClass ==
  ASSUME TypeOK, RefundHandlers
  PROVE  \/ QuietStep
         \/ \E t \in Threads : BeginRefund(t) /\ task' # [task EXCEPT ![t] = Idle]
<1>1. ASSUME NEW t \in Threads, NEW p \in Attempts, ApproveRefund(t, p)
      PROVE  QuietStep
  <2> DEFINE x == [op |-> "approved", pay |-> p, arg |-> "none"]
  <2>1. x \in Task /\ x.arg # "sending"
    BY DEF Task
  <2>2. task' = [task EXCEPT ![t] = x] /\ prov' = prov
    BY <1>1 DEF ApproveRefund
  <2> HIDE DEF x
  <2> QED BY <2>1, <2>2, TaskSetSilent DEF QuietStep, Counts
<1>2. ASSUME NEW t \in Threads, EndRefund(t)
      PROVE  QuietStep
  <2> DEFINE x == [op |-> "early", pay |-> task[t].pay, arg |-> "none"]
  <2>1. x \in Task /\ x.arg # "sending"
    BY <1>2, TaskType DEF EndRefund, Task
  <2>2. (task' = [task EXCEPT ![t] = Idle] \/ task' = [task EXCEPT ![t] = x]) /\ prov' = prov
    BY <1>2 DEF EndRefund
  <2> HIDE DEF x
  <2> QED BY <2>1, <2>2, IdleTask, TaskSetSilent DEF QuietStep, Counts
<1>3. ASSUME NEW t \in Threads, task' = [task EXCEPT ![t] = Idle], prov' = prov
      PROVE  QuietStep
  BY <1>3, IdleTask, TaskSetSilent DEF QuietStep, Counts
<1>4. ASSUME NEW p \in Attempts, RequestRefund(p) \/ RejectRefund(p)
      PROVE  QuietStep
  BY <1>4 DEF RequestRefund, RejectRefund, QuietStep, Silent, Counts
<1>5. ASSUME NEW t \in Threads, ConsumeEarly(t)
      PROVE  task' = [task EXCEPT ![t] = Idle] /\ prov' = prov
  BY <1>5 DEF ConsumeEarly
<1>6. ASSUME NEW t \in Threads, BeginRefund(t)
      PROVE  prov' = prov
  BY <1>6 DEF BeginRefund
<1> QED BY <1>1, <1>2, <1>3, <1>4, <1>5, <1>6 DEF RefundHandlers

\* A step starts a request, is a request reaching the provider, or is quiet.
LEMMA StepClass ==
  ASSUME TypeOK, [Next]_vars
  PROVE  \/ QuietStep
         \/ \E t \in Threads, p \in Attempts : BeginDispatch(t, p)
         \/ \E t \in Threads : BeginRefund(t) /\ task' # [task EXCEPT ![t] = Idle]
         \/ \E t \in Threads : GatewayInitiate(t) \/ GatewayRefund(t)
<1>1. CASE UNCHANGED vars
  BY <1>1 DEF vars, QuietStep, Silent, Counts
<1>2. CASE Fulfilment
  BY <1>2 DEF Fulfilment, ItemDecision, IssueDocument, RequestCancellation,
              DecideCancellation, QuietStep, Silent, Counts
<1>3. ASSUME NEW p \in Attempts,
             ProviderCharges(p) \/ ProviderGivesUp(p) \/ ProviderRefunds(p)
               \/ DashboardRefund(p) \/ Dispute(p)
      PROVE  QuietStep
  <2>1. task' = task
    BY <1>3, ProviderStepEffect
  <2>2. PICK v \in ProviderRow : /\ prov' = [prov EXCEPT ![p] = v]
                                 /\ v.sent = prov[p].sent
                                 /\ v.reversals = prov[p].reversals
    BY <1>3, ProviderStepEffect
  <2> QED BY <2>1, <2>2 DEF TypeOK, QuietStep, Silent, Counts
<1> QED BY <1>1, <1>2, <1>3, HandlersClass, RefundHandlersClass DEF Next, Providers

-----------------------------------------------------------------------------

\* dispatched_at is never cleared.
LEMMA Dispatched ==
  ASSUME TypeOK, LedgerMatches, [Next]_vars, NEW p \in Attempts
  PROVE  /\ db.att[p].dispatched => db'.att[p].dispatched
         /\ db.refund[p].dispatched => db'.refund[p].dispatched
  BY StepFollows DEF Follows, Grows

\* Nothing is sent at first.
LEMMA InitOnce == Init => PromptInv /\ ReversalInv
  BY DEF Init, PromptInv, ReversalInv, OnceOnly, Sending, Idle, Attempts

\* dispatched_at and the one thread that set it guard the prompt.
LEMMA PromptStep ==
  ASSUME TypeOK, LedgerMatches, PromptInv, [Next]_vars PROVE PromptInv'
<1> SUFFICES ASSUME NEW p \in Mpesa
             PROVE  OnceOnly("initiate", p, db.att[p].dispatched, prov[p].sent)'
  BY DEF PromptInv
<1> p \in Attempts /\ p \notin Stripe
  BY ProvidersDisjoint DEF Attempts
<1>1. OnceOnly("initiate", p, db.att[p].dispatched, prov[p].sent)
  BY DEF PromptInv
<1>2. db.att[p].dispatched => db'.att[p].dispatched
  BY Dispatched
<1>3. ASSUME prov'[p].sent = prov[p].sent,
             \A t \in Threads : Sending(t, "initiate", p)' => Sending(t, "initiate", p)
      PROVE  OnceOnly("initiate", p, db.att[p].dispatched, prov[p].sent)'
  BY <1>1, <1>2, <1>3 DEF OnceOnly
<1>4. CASE QuietStep
  BY <1>3, <1>4, SilentSends DEF QuietStep, Counts
<1>5. ASSUME NEW t \in Threads, NEW q \in Attempts, BeginDispatch(t, q)
      PROVE  OnceOnly("initiate", p, db.att[p].dispatched, prov[p].sent)'
  <2>1. \A u \in Threads \ {t} : task'[u] = task[u]
    BY <1>5 DEF BeginDispatch, TypeOK
  <2>2. prov' = prov /\ task'[t] = [op |-> "initiate", pay |-> q, arg |-> "sending"]
    BY <1>5 DEF BeginDispatch, TypeOK
  <2>3. CASE q # p
    BY <1>3, <2>1, <2>2, <2>3 DEF Sending
  <2>4. CASE q = p
    <3>1. ~db.att[p].dispatched
      BY <1>5, <2>4 DEF BeginDispatch, Resendable
    <3>2. prov[p].sent = 0 /\ \A u \in Threads : ~Sending(u, "initiate", p)
      BY <1>1, <3>1 DEF OnceOnly
    <3>3. db'.att[p].dispatched
      BY <1>5, <2>4 DEF BeginDispatch, TypeOK, Db, AttemptRow
    <3>4. \A u \in Threads : Sending(u, "initiate", p)' => u = t
      BY <2>1, <3>2 DEF Sending
    <3> QED BY <2>2, <3>2, <3>3, <3>4 DEF OnceOnly
  <2> QED BY <2>3, <2>4
<1>6. ASSUME NEW t \in Threads, BeginRefund(t)
      PROVE  OnceOnly("initiate", p, db.att[p].dispatched, prov[p].sent)'
  <2>1. prov' = prov /\ (task'[t] = Idle \/ task'[t].op = "refund")
    BY <1>6 DEF BeginRefund, TypeOK
  <2>2. \A u \in Threads \ {t} : task'[u] = task[u]
    BY <1>6 DEF BeginRefund, TypeOK
  <2> QED BY <1>3, <2>1, <2>2 DEF Sending, Idle
<1>7. ASSUME NEW t \in Threads, GatewayInitiate(t)
      PROVE  OnceOnly("initiate", p, db.att[p].dispatched, prov[p].sent)'
  <2>1. PICK x \in Task : task' = [task EXCEPT ![t] = x] /\ x.arg # "sending"
    BY <1>7, GatewayInitiateEffect
  <2>2. PICK v \in ProviderRow : /\ prov' = [prov EXCEPT ![task[t].pay] = v]
                                 /\ v.sent <= prov[task[t].pay].sent + 1
    BY <1>7, GatewayInitiateEffect
  <2>3. task[t].pay \in Attempts /\ task[t].op = "initiate" /\ task[t].arg = "sending"
    BY <1>7, GatewayInitiateEffect
  <2>4. \A u \in Threads : Sending(u, "initiate", p)' => u # t /\ Sending(u, "initiate", p)
    BY <2>1 DEF Sending, TypeOK
  <2>5. CASE task[t].pay # p
    <3>1. prov'[p] = prov[p]
      BY <2>2, <2>5 DEF TypeOK
    <3> QED BY <1>3, <2>4, <3>1
  <2>6. CASE task[t].pay = p
    <3>1. Sending(t, "initiate", p)
      BY <2>3, <2>6 DEF Sending
    <3>2. db.att[p].dispatched /\ prov[p].sent = 0
      BY <1>1, <3>1 DEF OnceOnly
    <3>3. \A u \in Threads : ~Sending(u, "initiate", p)'
      BY <1>1, <2>4, <3>1 DEF OnceOnly
    <3>4. prov'[p].sent <= 1
      BY <2>2, <2>6, <3>2 DEF TypeOK
    <3> QED BY <1>2, <3>2, <3>3, <3>4 DEF OnceOnly
  <2> QED BY <2>5, <2>6
<1>8. ASSUME NEW t \in Threads, GatewayRefund(t)
      PROVE  OnceOnly("initiate", p, db.att[p].dispatched, prov[p].sent)'
  <2>1. PICK x \in Task : task' = [task EXCEPT ![t] = x] /\ x.arg # "sending"
    BY <1>8, GatewayRefundEffect
  <2>2. PICK v \in ProviderRow : /\ prov' = [prov EXCEPT ![task[t].pay] = v]
                                 /\ v.sent = prov[task[t].pay].sent
    BY <1>8, GatewayRefundEffect
  <2>3. prov'[p].sent = prov[p].sent
    BY <2>2 DEF TypeOK
  <2> QED BY <1>3, <2>1, <2>3, TaskSetSilent, SilentSends
<1> QED BY <1>4, <1>5, <1>6, <1>7, <1>8, StepClass

\* The same guard on the refund.
LEMMA ReversalStep ==
  ASSUME TypeOK, LedgerMatches, ReversalInv, [Next]_vars PROVE ReversalInv'
<1> SUFFICES ASSUME NEW p \in Mpesa
             PROVE  OnceOnly("refund", p, db.refund[p].dispatched, prov[p].reversals)'
  BY DEF ReversalInv
<1> p \in Attempts /\ p \notin Stripe
  BY ProvidersDisjoint DEF Attempts
<1>1. OnceOnly("refund", p, db.refund[p].dispatched, prov[p].reversals)
  BY DEF ReversalInv
<1>2. db.refund[p].dispatched => db'.refund[p].dispatched
  BY Dispatched
<1>3. ASSUME prov'[p].reversals = prov[p].reversals,
             \A t \in Threads : Sending(t, "refund", p)' => Sending(t, "refund", p)
      PROVE  OnceOnly("refund", p, db.refund[p].dispatched, prov[p].reversals)'
  BY <1>1, <1>2, <1>3 DEF OnceOnly
<1>4. CASE QuietStep
  BY <1>3, <1>4, SilentSends DEF QuietStep, Counts
<1>5. ASSUME NEW t \in Threads, NEW q \in Attempts, BeginDispatch(t, q)
      PROVE  OnceOnly("refund", p, db.refund[p].dispatched, prov[p].reversals)'
  <2>1. prov' = prov /\ task'[t] = [op |-> "initiate", pay |-> q, arg |-> "sending"]
    BY <1>5 DEF BeginDispatch, TypeOK
  <2>2. \A u \in Threads \ {t} : task'[u] = task[u]
    BY <1>5 DEF BeginDispatch, TypeOK
  <2> QED BY <1>3, <2>1, <2>2 DEF Sending
<1>6. ASSUME NEW t \in Threads, BeginRefund(t), task' # [task EXCEPT ![t] = Idle]
      PROVE  OnceOnly("refund", p, db.refund[p].dispatched, prov[p].reversals)'
  <2> DEFINE q == task[t].pay
  <2>1. \A u \in Threads \ {t} : task'[u] = task[u]
    BY <1>6 DEF BeginRefund, TypeOK
  <2>2. /\ prov' = prov /\ Dispatchable(db, q)
        /\ task'[t] = [op |-> "refund", pay |-> q, arg |-> "sending"]
    BY <1>6 DEF BeginRefund, TypeOK
  <2>3. CASE q # p
    BY <1>3, <2>1, <2>2, <2>3 DEF Sending
  <2>4. CASE q = p
    <3>1. ~db.refund[p].dispatched
      BY <2>2, <2>4 DEF Dispatchable
    <3>2. prov[p].reversals = 0 /\ \A u \in Threads : ~Sending(u, "refund", p)
      BY <1>1, <3>1 DEF OnceOnly
    <3>3. db'.refund[p].dispatched
      <4>1. task' # [task EXCEPT ![t] = Idle] /\ q = p
        BY <1>6, <2>4
      <4>2. db' = [db EXCEPT !.refund[q].dispatched = TRUE, !.refund[q].status = "unknown"]
        BY <1>6, <4>1, Zenon DEF BeginRefund
      <4>3. db \in Db /\ db.refund[p] \in RefundRow
        BY Rows DEF TypeOK
      <4> HIDE DEF q
      <4> QED BY <4>1, <4>2, <4>3 DEF Db, RefundRow
    <3>4. \A u \in Threads : Sending(u, "refund", p)' => u = t
      BY <2>1, <3>2 DEF Sending
    <3> QED BY <2>2, <3>2, <3>3, <3>4 DEF OnceOnly
  <2> QED BY <2>3, <2>4
<1>7. ASSUME NEW t \in Threads, GatewayRefund(t)
      PROVE  OnceOnly("refund", p, db.refund[p].dispatched, prov[p].reversals)'
  <2>1. PICK x \in Task : task' = [task EXCEPT ![t] = x] /\ x.arg # "sending"
    BY <1>7, GatewayRefundEffect
  <2>2. PICK v \in ProviderRow : /\ prov' = [prov EXCEPT ![task[t].pay] = v]
                                 /\ v.reversals <= prov[task[t].pay].reversals + 1
    BY <1>7, GatewayRefundEffect
  <2>3. task[t].pay \in Attempts /\ task[t].op = "refund" /\ task[t].arg = "sending"
    BY <1>7, GatewayRefundEffect
  <2>4. \A u \in Threads : Sending(u, "refund", p)' => u # t /\ Sending(u, "refund", p)
    BY <2>1 DEF Sending, TypeOK
  <2>5. CASE task[t].pay # p
    <3>1. prov'[p] = prov[p]
      BY <2>2, <2>5 DEF TypeOK
    <3> QED BY <1>3, <2>4, <3>1
  <2>6. CASE task[t].pay = p
    <3>1. Sending(t, "refund", p)
      BY <2>3, <2>6 DEF Sending
    <3>2. db.refund[p].dispatched /\ prov[p].reversals = 0
      BY <1>1, <3>1 DEF OnceOnly
    <3>3. \A u \in Threads : ~Sending(u, "refund", p)'
      BY <1>1, <2>4, <3>1 DEF OnceOnly
    <3>4. prov'[p].reversals <= 1
      BY <2>2, <2>6, <3>2 DEF TypeOK
    <3> QED BY <1>2, <3>2, <3>3, <3>4 DEF OnceOnly
  <2> QED BY <2>5, <2>6
<1>8. ASSUME NEW t \in Threads, GatewayInitiate(t)
      PROVE  OnceOnly("refund", p, db.refund[p].dispatched, prov[p].reversals)'
  <2>1. PICK x \in Task : task' = [task EXCEPT ![t] = x] /\ x.arg # "sending"
    BY <1>8, GatewayInitiateEffect
  <2>2. PICK v \in ProviderRow : /\ prov' = [prov EXCEPT ![task[t].pay] = v]
                                 /\ v.reversals = prov[task[t].pay].reversals
    BY <1>8, GatewayInitiateEffect
  <2>3. prov'[p].reversals = prov[p].reversals
    BY <2>2 DEF TypeOK
  <2> QED BY <1>3, <2>1, <2>3, TaskSetSilent, SilentSends
<1> QED BY <1>4, <1>5, <1>6, <1>7, <1>8, StepClass

\* An M-Pesa customer never gets a second prompt for one attempt: dispatch commits
\* dispatched_at before it calls the provider, and a request that may have been
\* taken is never sent again, whichever threads crash or retry.
THEOREM OnePrompt == Spec => []PromptOnce
<1>1. TypeOK /\ LedgerMatches /\ PromptInv /\ [Next]_vars => PromptInv'
  BY PromptStep
<1>2. PromptInv => PromptOnce
  BY DEF PromptInv, PromptOnce, OnceOnly
<1> QED BY <1>1, <1>2, InitOnce, Invariance, PTL DEF Spec

\* No refund of an M-Pesa payment is sent twice: dispatch_refund commits
\* dispatched_at before it calls the provider and an uncertain one is not repeated.
THEOREM OneReversal == Spec => []ReversalOnce
<1>1. TypeOK /\ LedgerMatches /\ ReversalInv /\ [Next]_vars => ReversalInv'
  BY ReversalStep
<1>2. ReversalInv => ReversalOnce
  BY DEF ReversalInv, ReversalOnce, OnceOnly
<1> QED BY <1>1, <1>2, InitOnce, Invariance, PTL DEF Spec

\* Neither prompts nor reversals are repeated, whatever crashes or retries.
THEOREM OneRequest == Spec => []RequestsOnce
<1>1. PromptOnce /\ ReversalOnce => RequestsOnce
  BY DEF RequestsOnce
<1> QED BY <1>1, OnePrompt, OneReversal, PTL
=============================================================================
