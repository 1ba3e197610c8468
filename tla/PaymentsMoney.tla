---------------------------- MODULE PaymentsMoney ----------------------------
(***************************************************************************)
(* What the provers establish about the money of an order: nothing is      *)
(* booked that no provider did, nobody is asked for a second charge, the   *)
(* order goes on only while exactly one charge is uncontested, and a       *)
(* document leaves only against a charge that stays.  The last part shows  *)
(* that collection implements Escrow.                                      *)
(*                                                                         *)
(* The rows follow the providers with a delay and out of order, so none of *)
(* this is inductive by itself.  Sound(d, v) relates the rows d to the     *)
(* providers v, attempt by attempt; Derived(d, v) says what is left of     *)
(* aggregate_status in the stored payment_status.  A handler is a series   *)
(* of writes to the rows of one attempt, each of which keeps Sound; one    *)
(* that may break Derived is followed, in the same transaction, by a new   *)
(* derivation.  Keeps(d, e, v, p) is what a handler of attempt p does.     *)
(***************************************************************************)
EXTENDS PaymentsProofs
-----------------------------------------------------------------------------
(* The rows and the providers *)

\* Nothing of the refund has gone out yet.
FRESH == {"none", "requested", "rejected"}

\* What is booked for an attempt a, or reported in its inbox i, the provider w did.
Real(p, a, i, w) ==
  /\ a.paid => w.state = "charged"
  /\ a.refunded <= w.refunded
  /\ a.status \in SETTLED => a.paid
  /\ a.status = "refunded" => a.refunded = Amount
  /\ i["success"] # "absent" => w.state = "charged"
  /\ i["rev_done"] # "absent" => w.refund = "succeeded"
  /\ i["rev_failed"] # "absent" => w.refund = "failed"
  /\ i["rev_timeout"] # "absent" => p \in Mpesa
  /\ a.status = "none" => w.state = "none" /\ \A k \in Messages : i[k] = "absent"

\* The provider was asked for a refund, and its answer moved no money.
Spent(w) == w.reply # "none" /\ w.refund \in {"none", "failed"}

\* The refund row r of attempt p is of a confirmed charge of a submitted order,
\* and its status agrees with whether it was sent and with what became of it.
RefundTrue(a, r, released, w) ==
  /\ r.status # "none" => a.status \in SETTLED /\ released
  /\ r.status \in FRESH => ~r.dispatched /\ w.reply = "none"
  /\ ~r.dispatched => r.status \in FRESH \cup {"initiating", "succeeded"}
  /\ r.dispatched => r.status # "initiating"
  /\ r.ref => r.dispatched
  /\ r.status = "failed" => Spent(w)
  /\ r.status = "succeeded" => a.refunded = Amount

\* Only a released order is with the institution.
OrderOK(d) == d.order.status \in {"submitted", "cancellation_requested"} => d.order.released

Sound(d, v) ==
  /\ DbInv(d)
  /\ OrderOK(d)
  /\ \A p \in Attempts : /\ Real(p, d.att[p], d.inbox[p], v[p])
                         /\ RefundTrue(d.att[p], d.refund[p], d.order.released, v[p])

\* The provider's own books: a request that was taken has an answer, a refund
\* that succeeded sent everything back, and one it refused moved nothing.
Books(p, w) ==
  /\ w.reply = "none" => w.refund = "none"
  /\ w.reply = "rejected" => w.refund = "none"
  /\ w.reply = "succeeded" \/ w.refund = "succeeded" => w.refunded = Amount
  /\ p \in Mpesa /\ w.sent = 0 => w.state \in {"none", "refused"}

-----------------------------------------------------------------------------
(* The stored payment_status *)

\* What aggregate_status says of the attempts, except while it blocks the order.
Standing(d) ==
  d.order.payment \notin Blocked =>
    /\ d.order.payment = "pending" <=> \E p \in Attempts : Open(d, p)
    /\ d.order.payment = "paid" <=> \E p \in Attempts : Funded(d, p)
    /\ \A p, q \in Attempts : Funded(d, p) /\ Funded(d, q) => p = q
    /\ d.order.payment = "paid" => \A p \in Attempts : Funded(d, p) => d.att[p].refunded = 0
    /\ d.order.payment = "not_started" => \A p \in Attempts : d.att[p].refunded = 0
    /\ \A p \in Attempts : d.att[p].status # "disputed"

\* The refund of p may move money, or may be about to.
Contested(d, p) == d.refund[p].status = "requested" \/ RefundLive(d, p)

\* Attempts of which one request at most is at the provider: M-Pesa refunds are
\* not sent again, and a single thread handles one request at a time.
Single(p) == p \in Mpesa \/ \A t, u \in Threads : t = u

\* While the order is not blocked, the refund of what pays for it was never sent
\* or came to nothing; and, if its requests do not overlap, is not under way.
Uncontested(d, v) ==
  d.order.payment \notin Blocked =>
    \A p \in Attempts : Funded(d, p) => /\ d.refund[p].status \in FRESH \/ Spent(v[p])
                                        /\ Single(p) => ~Contested(d, p)

Derived(d, v) == Standing(d) /\ Uncontested(d, v)

-----------------------------------------------------------------------------
(* What a handler of attempt p does *)

\* A write to the rows of p: no other attempt moves, p does not become new again,
\* and a refund that was sent stays sent.
Moves(d, e, p) ==
  /\ \A q \in Attempts \ {p} : /\ e.att[q] = d.att[q] /\ e.refund[q] = d.refund[q]
                                /\ e.inbox[q] = d.inbox[q]
  /\ d.att[p].status # "none" => e.att[p].status # "none"
  /\ d.refund[p].status \notin FRESH => e.refund[p].status \notin FRESH
  /\ e.refund[p].dispatched = d.refund[p].dispatched /\ e.refund[p].ref = d.refund[p].ref
  /\ ~d.refund[p].ref /\ d.refund[p].status \in {"unknown", "succeeded"}
       => e.refund[p].status \in {"unknown", "succeeded"}
  /\ p \in Stripe /\ e.refund[p].status = "unknown" => d.refund[p].status = "unknown"
  /\ \A k \in Messages : d.inbox[p][k] # "absent" => e.inbox[p][k] # "absent"
  /\ d.order.released => e.order.released
  /\ e.order.issued = d.order.issued

\* A handler that brings the order to the institution leaves it paid.
Opens(d, e) == ~d.order.released /\ e.order.released => e.order.payment = "paid"

Keeps(d, e, v, p) == Sound(e, v) /\ Derived(e, v) /\ Moves(d, e, p) /\ Opens(d, e)

\* An observation of what the provider did.
Truthful(d, w, p, o) ==
  /\ Applicable(d, p, o)
  /\ o.status \in SETTLED => w.state = "charged" /\ o.refunded <= w.refunded
  /\ o.status = "refunded" => o.refunded = Amount

-----------------------------------------------------------------------------

\* A handler of one attempt that writes nothing.
LEMMA MovesSelf == ASSUME NEW d, NEW p PROVE Moves(d, d, p)
  BY DEF Moves

\* What one write may do and the next may do, both together may do.
LEMMA MovesTrans ==
  ASSUME NEW d, NEW e, NEW f, NEW p, Moves(d, e, p), Moves(e, f, p) PROVE Moves(d, f, p)
  BY DEF Moves

\* Rows of one attempt are written: the others need not be looked at.
LEMMA SoundSet ==
  ASSUME NEW d, NEW e, NEW v, Sound(d, v), NEW p \in Attempts, DbInv(e), OrderOK(e),
         \A q \in Attempts \ {p} : /\ e.att[q] = d.att[q] /\ e.refund[q] = d.refund[q]
                                   /\ e.inbox[q] = d.inbox[q],
         d.order.released => e.order.released,
         Real(p, e.att[p], e.inbox[p], v[p]),
         RefundTrue(e.att[p], e.refund[p], e.order.released, v[p])
  PROVE  Sound(e, v)
<1>1. ASSUME NEW q \in Attempts
      PROVE  /\ Real(q, e.att[q], e.inbox[q], v[q])
             /\ RefundTrue(e.att[q], e.refund[q], e.order.released, v[q])
  <2>1. CASE q = p
    BY <2>1
  <2>2. CASE q # p
    <3>1. e.att[q] = d.att[q] /\ e.refund[q] = d.refund[q] /\ e.inbox[q] = d.inbox[q]
      BY <2>2
    <3>2. /\ Real(q, d.att[q], d.inbox[q], v[q])
          /\ RefundTrue(d.att[q], d.refund[q], d.order.released, v[q])
      BY DEF Sound
    <3> QED BY <3>1, <3>2 DEF RefundTrue
  <2> QED BY <2>1, <2>2
<1> QED BY <1>1 DEF Sound

\* What is known of the rows of an attempt.
LEMMA SoundRows ==
  ASSUME NEW d, NEW v, Sound(d, v), NEW p \in Attempts
  PROVE  /\ d \in Db /\ DbInv(d) /\ d.att[p] \in AttemptRow /\ d.refund[p] \in RefundRow
         /\ d.order \in OrderRow /\ Booked(d.att[p], d.ledger[p])
         /\ Real(p, d.att[p], d.inbox[p], v[p])
         /\ RefundTrue(d.att[p], d.refund[p], d.order.released, v[p])
  BY Rows DEF Sound, DbInv

\* Only the order row is written, and the order is not taken back from the institution.
LEMMA SoundOrder ==
  ASSUME NEW d, NEW e, NEW v, Sound(d, v), Follows(d, e), OrderOK(e),
         e.att = d.att, e.refund = d.refund, e.inbox = d.inbox,
         d.order.released => e.order.released
  PROVE  Sound(e, v)
<1>1. ASSUME NEW q \in Attempts
      PROVE  /\ Real(q, e.att[q], e.inbox[q], v[q])
             /\ RefundTrue(e.att[q], e.refund[q], e.order.released, v[q])
  BY DEF Sound, RefundTrue
<1> QED BY <1>1 DEF Sound, Follows

-----------------------------------------------------------------------------
(* aggregate_status and release_order *)

\* What it means that aggregate_status does not block the order.
LEMMA AggregateOpens ==
  ASSUME NEW d, Aggregate(d) \notin Blocked
  PROVE  /\ Aggregate(d) = "pending" <=> \E p \in Attempts : Open(d, p)
         /\ Aggregate(d) = "paid" <=> \E p \in Attempts : Funded(d, p)
         /\ \A p, q \in Attempts : Funded(d, p) /\ Funded(d, q) => p = q
         /\ \A p \in Attempts : d.att[p].status # "disputed"
         /\ \A p \in Attempts : Funded(d, p) => ~Contested(d, p) /\ ~(d.att[p].refunded > 0)
         /\ Aggregate(d) = "not_started" => \A p \in Attempts : ~(d.att[p].refunded > 0)
<1> DEFINE funded == {p \in Attempts : Funded(d, p)}
           open   == {p \in Attempts : Open(d, p)}
<1>1. /\ \A p \in Attempts : d.att[p].status # "disputed"
      /\ \A p, q \in funded : p = q
      /\ ~(funded # {} /\ open # {})
  BY DEF Aggregate, Blocked
<1>2. CASE open # {}
  <2>1. Aggregate(d) = "pending" /\ funded = {}
    BY <1>1, <1>2 DEF Aggregate
  <2> QED BY <1>1, <1>2, <2>1
<1>3. CASE open = {}
  <2>1. \A p \in funded : ~(d.att[p].refunded > 0)
    BY <1>1, <1>3 DEF Aggregate, Blocked
  <2>2. \A p \in funded : d.refund[p].status # "requested"
    BY <1>1, <1>3, <2>1 DEF Aggregate, Blocked
  <2>3. \A p \in funded : ~RefundLive(d, p)
    BY <1>1, <1>3, <2>1, <2>2 DEF Aggregate, Blocked
  <2>4. CASE funded # {}
    <3>1. Aggregate(d) = "paid"
      BY <1>1, <1>3, <2>1, <2>2, <2>3, <2>4 DEF Aggregate
    <3> QED BY <1>1, <1>3, <2>1, <2>2, <2>3, <2>4, <3>1 DEF Contested
  <2>5. CASE funded = {}
    <3>1. Aggregate(d) = "not_started" /\ \A p \in Attempts : ~(d.att[p].refunded > 0)
      BY <1>1, <1>3, <2>5 DEF Aggregate, Blocked
    <3> QED BY <1>1, <1>3, <2>5, <3>1
  <2> QED BY <2>4, <2>5
<1> QED BY <1>2, <1>3

\* Deriving payment_status again makes it agree with the rows.
LEMMA AggregatedKeeps ==
  ASSUME NEW d, NEW v, Sound(d, v), NEW p
  PROVE  /\ Sound(Aggregated(d), v) /\ Derived(Aggregated(d), v)
         /\ Moves(d, Aggregated(d), p)
         /\ Aggregated(d).order.released = d.order.released
         /\ Aggregated(d).att = d.att
<1> DEFINE e == Aggregated(d)
<1>0. d \in Db /\ d.order \in OrderRow /\ DbInv(d)
  BY OrderOfDb DEF Sound
<1>1. /\ e.att = d.att /\ e.refund = d.refund /\ e.inbox = d.inbox
      /\ e.order = [d.order EXCEPT !.payment = Aggregate(d)]
  BY <1>0 DEF Aggregated, Db
<1>2. /\ e.order.payment = Aggregate(d) /\ e.order.released = d.order.released
      /\ e.order.status = d.order.status /\ e.order.issued = d.order.issued
  BY <1>0, <1>1 DEF OrderRow
<1>3. Follows(d, e)
  BY <1>0, AggregatedFollows
<1> HIDE DEF e
<1>4. Sound(e, v)
  BY <1>1, <1>2, <1>3, SoundOrder DEF Sound, OrderOK
<1>5. \A q \in Attempts : /\ Open(e, q) = Open(d, q) /\ Funded(e, q) = Funded(d, q)
                          /\ Contested(e, q) = Contested(d, q)
  BY <1>1 DEF Open, Funded, Contested, RefundLive
<1>6. \A q \in Attempts : d.att[q].refunded \in Nat
  BY <1>0, Rows, AmountPositive DEF AttemptRow
<1>7. Standing(e)
  BY <1>1, <1>2, <1>5, <1>6, AggregateOpens DEF Standing
<1>8. Uncontested(e, v)
  <2> SUFFICES ASSUME Aggregate(d) \notin Blocked, NEW q \in Attempts, Funded(d, q)
               PROVE  /\ d.refund[q].status \in FRESH \/ Spent(v[q])
                      /\ ~Contested(d, q)
    BY <1>1, <1>2, <1>5 DEF Uncontested
  <2>1. ~Contested(d, q)
    BY AggregateOpens
  <2>2. d.refund[q].status # "succeeded"
    BY <1>6, SoundRows, AmountPositive DEF RefundTrue, Funded
  <2>3. d.refund[q].status \in {"none", "rejected", "failed"}
    BY <2>1, <2>2, SoundRows DEF RefundRow, Contested, RefundLive
  <2> QED BY <2>1, <2>3, SoundRows DEF RefundTrue, FRESH
<1>9. Moves(d, e, p)
  BY <1>1, <1>2 DEF Moves
<1> QED BY <1>1, <1>2, <1>4, <1>7, <1>8, <1>9 DEF Derived, e

\* Writes after which the stored payment_status is as good as before.
Calm(d, e) ==
  /\ e.order.payment = d.order.payment
  /\ \A p \in Attempts :
       /\ e.att[p].status = d.att[p].status \/ (Open(e, p) /\ Open(d, p))
       /\ e.att[p].paid = d.att[p].paid /\ e.att[p].refunded = d.att[p].refunded
       /\ e.refund[p].status \notin FRESH => d.refund[p].status \notin FRESH
       /\ Single(p) /\ Contested(e, p) => Contested(d, p)

LEMMA CalmDerived ==
  ASSUME NEW d, NEW e, NEW v, Derived(d, v), Calm(d, e) PROVE Derived(e, v)
<1>1. \A p \in Attempts : /\ Open(e, p) = Open(d, p) /\ Funded(e, p) = Funded(d, p)
                          /\ e.att[p].refunded = d.att[p].refunded
                          /\ e.att[p].status = "disputed" => d.att[p].status = "disputed"
  BY DEF Calm, Open, Funded, OPEN
<1>2. Standing(e)
  BY <1>1 DEF Derived, Standing, Calm
<1>3. \A p \in Attempts : Funded(d, p) => Funded(e, p)
  BY <1>1
<1>4. Uncontested(e, v)
  BY <1>1 DEF Derived, Uncontested, Calm
<1> QED BY <1>2, <1>4 DEF Derived

\* A write that blocks the order keeps it derived.
LEMMA BlockedDerived ==
  ASSUME NEW e, NEW v, e.order.payment \in Blocked PROVE Derived(e, v)
  BY DEF Derived, Standing, Uncontested

\* release_order brings a paid order to the institution and writes nothing else.
LEMMA ReleaseIfPaidKeeps ==
  ASSUME NEW d, NEW v, Sound(d, v), Derived(d, v), NEW p
  PROVE  /\ Keeps(d, ReleaseIfPaid(d), v, p)
         /\ ReleaseIfPaid(d).att = d.att /\ ReleaseIfPaid(d).refund = d.refund
<1> DEFINE e == ReleaseIfPaid(d)
<1>0. d \in Db /\ d.order \in OrderRow /\ DbInv(d)
  BY OrderOfDb DEF Sound
<1>1. CASE e = d
  BY <1>1, MovesSelf DEF Keeps, Opens
<1>2. CASE e # d
  <2> DEFINE o == [d.order EXCEPT !.status = "submitted", !.released = TRUE,
                                  !.items = "awaiting_review"]
  <2>0. o.payment = d.order.payment /\ o.issued = d.order.issued /\ o.released
    BY <1>0 DEF OrderRow
  <2>1. e = [d EXCEPT !.order = o] /\ d.order.payment = "paid"
    BY <1>0, <1>2 DEF ReleaseIfPaid, Release, Db
  <2> HIDE DEF o
  <2>2. /\ e.att = d.att /\ e.refund = d.refund /\ e.inbox = d.inbox
        /\ e.order.payment = d.order.payment /\ e.order.issued = d.order.issued
        /\ e.order.released
    BY <1>0, <2>0, <2>1 DEF Db
  <2>3. Follows(d, e)
    BY <1>0, ReleaseIfPaidFollows
  <2> HIDE DEF e
  <2>4. Sound(e, v)
    BY <2>2, <2>3, SoundOrder DEF OrderOK
  <2>5. Calm(d, e) /\ Moves(d, e, p) /\ Opens(d, e)
    BY <2>1, <2>2 DEF Calm, Moves, Opens, Contested, RefundLive
  <2> QED BY <2>2, <2>4, <2>5, CalmDerived DEF Keeps, e
<1> QED BY <1>1, <1>2

\* An attempt that is over without a charge gives the order back.
LEMMA CloseKeeps ==
  ASSUME NEW d, NEW v, Sound(d, v), NEW p \in Attempts, NEW s \in CLOSED, Open(d, p),
         v \in [Attempts -> ProviderRow]
  PROVE  /\ Keeps(d, Close(d, p, s), v, p) /\ Close(d, p, s).order.released = d.order.released
         /\ Close(d, p, s).att[p].status = s
<1> DEFINE a == [d.att[p] EXCEPT !.status = s, !.active = FALSE]
           c == [d EXCEPT !.att[p] = a]
<1>0. /\ d \in Db /\ DbInv(d) /\ d.att[p] \in AttemptRow
      /\ Real(p, d.att[p], d.inbox[p], v[p])
      /\ RefundTrue(d.att[p], d.refund[p], d.order.released, v[p])
  BY SoundRows
<1>1. /\ a \in AttemptRow /\ a.paid = d.att[p].paid /\ a.refunded = d.att[p].refunded
      /\ a.dispatched = d.att[p].dispatched /\ a.status = s
  BY <1>0 DEF AttemptRow, CLOSED
<1>2. ~Settled(d, p) /\ s \notin SETTLED /\ s # "none"
  BY OpenNotSettled DEF CLOSED, SETTLED
<1>3. Follows(d, c)
  BY <1>0, <1>1, <1>2, AttSet
<1>4. /\ c.order = d.order /\ c.refund = d.refund /\ c.inbox = d.inbox
      /\ c.att[p] = a /\ \A q \in Attempts \ {p} : c.att[q] = d.att[q]
  BY <1>0 DEF Db
<1>5. Close(d, p, s) = Aggregated(c)
  BY <1>0 DEF Close, Db
<1> HIDE DEF a, c
<1>6. Real(p, a, c.inbox[p], v[p])
  BY <1>0, <1>1, <1>2, <1>4 DEF Real, SETTLED
<1>7. RefundTrue(a, c.refund[p], c.order.released, v[p])
  BY <1>0, <1>1, <1>2, <1>4 DEF RefundTrue, Settled
<1>8. DbInv(c) /\ OrderOK(c)
  BY <1>3, <1>4 DEF Follows, Sound, OrderOK
<1>9. Sound(c, v)
  BY <1>4, <1>6, <1>7, <1>8, SoundSet
<1>10. Moves(d, c, p)
  BY <1>1, <1>2, <1>4 DEF Moves
<1>11. /\ Sound(Aggregated(c), v) /\ Derived(Aggregated(c), v) /\ Moves(c, Aggregated(c), p)
       /\ Aggregated(c).order.released = d.order.released /\ Aggregated(c).att = c.att
  BY <1>9, <1>4, AggregatedKeeps
<1> QED BY <1>1, <1>4, <1>5, <1>10, <1>11, MovesTrans DEF Keeps, Opens

-----------------------------------------------------------------------------
(* apply_observation *)

\* Booking what a truthful observation reports.
LEMMA ObservedSound ==
  ASSUME NEW d, NEW v, Sound(d, v), NEW p \in Attempts, NEW o, Truthful(d, v[p], p, o),
         v \in [Attempts -> ProviderRow],
         d.att[p].status # "none", Settled(d, p) => o.status \in SETTLED
  PROVE  LET e == Observed(d, p, o) IN
         /\ Sound(e, v) /\ Moves(d, e, p) /\ e.order = d.order /\ e.refund = d.refund
         /\ Final(o) = "refunded" => e.att[p].refunded = Amount /\ Settled(e, p)
<1> DEFINE e == Observed(d, p, o)
           a == ObservedRow(d.att[p], o)
           w == v[p]
<1>0. /\ d \in Db /\ DbInv(d) /\ d.att[p] \in AttemptRow /\ d.refund[p] \in RefundRow
      /\ o \in Observation /\ Real(p, d.att[p], d.inbox[p], w) /\ w \in ProviderRow
      /\ RefundTrue(d.att[p], d.refund[p], d.order.released, w)
  BY SoundRows DEF Truthful, Applicable
<1>1. Follows(d, e)
  BY <1>0, ObservedFollows DEF Truthful
<1>2. /\ e.order = d.order /\ e.refund = d.refund /\ e.inbox = d.inbox /\ e.att[p] = a
      /\ \A q \in Attempts \ {p} : e.att[q] = d.att[q]
  BY <1>0 DEF Observed, Db
<1>3. /\ a.status = Final(o) /\ a.refunded = o.refunded
      /\ a.paid = (d.att[p].paid \/ o.status \in SETTLED)
  BY <1>0, ObservedRowType
<1>4. /\ Final(o) \in OPEN \cup SETTLED \cup CLOSED /\ Final(o) # "none"
      /\ Final(o) \in SETTLED <=> o.status \in SETTLED
      /\ Final(o) = "refunded" => o.refunded = Amount
  BY <1>0, FinalType DEF Truthful, Applicable, Final, OPEN, SETTLED, CLOSED
<1>5. o.refunded \in Nat /\ d.att[p].refunded \in Nat /\ w.refunded \in Nat
  BY <1>0, AmountPositive DEF Observation, AttemptRow, ProviderRow
<1> HIDE DEF e, a, w
<1>6. Real(p, a, e.inbox[p], w)
  <2>1. o.refunded <= w.refunded
    BY <1>5 DEF Truthful, Applicable, w
  <2>2. a.paid => w.state = "charged"
    BY <1>0, <1>3 DEF Truthful, Real, w
  <2> QED BY <1>0, <1>2, <1>3, <1>4, <2>1, <2>2 DEF Real
<1>7. RefundTrue(a, e.refund[p], e.order.released, w)
  <2>1. d.att[p].refunded = Amount => a.refunded = Amount
    <3>1. o.refunded \in 0..Amount /\ (d.att[p].refunded = Amount => Settled(d, p))
      BY <1>0, SoundRows, AmountPositive DEF Observation, Booked, Settled
    <3> QED BY <1>3, <1>5, <3>1, AmountPositive DEF Truthful, Applicable
  <2> QED BY <1>0, <1>2, <1>3, <1>4, <2>1 DEF RefundTrue, Settled
<1>8. DbInv(e) /\ OrderOK(e)
  BY <1>1, <1>2 DEF Follows, Sound, OrderOK
<1>9. Sound(e, v)
  BY <1>2, <1>6, <1>7, <1>8, SoundSet DEF w
<1>10. Moves(d, e, p)
  BY <1>2, <1>3, <1>4 DEF Moves
<1>11. Final(o) = "refunded" => e.att[p].refunded = Amount /\ Settled(e, p)
  BY <1>2, <1>3, <1>4 DEF Settled, SETTLED
<1> QED BY <1>2, <1>9, <1>10, <1>11 DEF e

\* A full refund completes the refund row, and cancels the order unless it is live.
LEMMA RefundedSound ==
  ASSUME NEW d, NEW v, Sound(d, v), NEW p \in Attempts, NEW live \in BOOLEAN,
         d.att[p].refunded = Amount
  PROVE  LET e == Refunded(d, p, live) IN
         /\ Sound(e, v) /\ Moves(d, e, p) /\ e.att = d.att
         /\ e.order.released = d.order.released
         /\ d.refund[p].status # "none" => e.refund[p].status = "succeeded"
<1> DEFINE e == Refunded(d, p, live)
           s == IF d.refund[p].status = "none" THEN "none" ELSE "succeeded"
           r == [d.refund[p] EXCEPT !.status = s]
           o == IF live THEN d.order
                ELSE [d.order EXCEPT !.status = "cancelled", !.items = "cancelled"]
<1>0. /\ d \in Db /\ DbInv(d) /\ d.order \in OrderRow /\ d.refund[p] \in RefundRow
      /\ Real(p, d.att[p], d.inbox[p], v[p])
      /\ RefundTrue(d.att[p], d.refund[p], d.order.released, v[p])
  BY SoundRows
<1>1. r.status = s /\ r.dispatched = d.refund[p].dispatched /\ r.ref = d.refund[p].ref
  BY <1>0 DEF RefundRow
<1>2. /\ o.released = d.order.released /\ o.issued = d.order.issued
      /\ o.status \in {d.order.status, "cancelled"}
  BY <1>0 DEF OrderRow
<1> DEFINE c == IF d.refund[p].status = "none" THEN d ELSE [d EXCEPT !.refund[p].status = "succeeded"]
<1>10. c = [d EXCEPT !.refund[p] = r]
  <2>1. CASE d.refund[p].status = "none"
    <3>1. r = d.refund[p]
      BY <1>0, <2>1 DEF RefundRow
    <3> QED BY <1>0, <2>1, <3>1 DEF Db
  <2>2. CASE d.refund[p].status # "none"
    <3>1. r = [d.refund[p] EXCEPT !.status = "succeeded"]
      BY <2>2
    <3> HIDE DEF r
    <3> QED BY <1>0, <2>2, <3>1 DEF Db
  <2> QED BY <2>1, <2>2
<1>11. e = IF live THEN c ELSE [c EXCEPT !.order.status = "cancelled", !.order.items = "cancelled"]
  BY DEF Refunded
<1> HIDE DEF c, r
<1>3. e = [d EXCEPT !.order = o, !.refund[p] = r]
  BY <1>0, <1>10, <1>11 DEF Db
<1> HIDE DEF e, o
<1>4. /\ e.att = d.att /\ e.inbox = d.inbox /\ e.order = o /\ e.refund[p] = r
      /\ \A q \in Attempts \ {p} : e.refund[q] = d.refund[q]
  BY <1>0, <1>3 DEF Db
<1>5. RefundTrue(d.att[p], r, o.released, v[p])
  BY <1>0, <1>1, <1>2 DEF RefundTrue, FRESH
<1>6. DbInv(e)
  BY <1>0, RefundedFollows DEF Follows, e
<1>7. OrderOK(e)
  BY <1>2, <1>4 DEF Sound, OrderOK
<1>8. Sound(e, v)
  BY <1>0, <1>2, <1>4, <1>5, <1>6, <1>7, SoundSet
<1>9. Moves(d, e, p)
  BY <1>1, <1>2, <1>4 DEF Moves, FRESH
<1> QED BY <1>1, <1>2, <1>4, <1>8, <1>9 DEF e

\* Handlers one after the other: the order is released by the first, or before.
LEMMA KeepsTrans ==
  ASSUME NEW d, NEW e, NEW f, NEW v, NEW p, Keeps(d, e, v, p), Keeps(e, f, v, p),
         d.order.released \/ f.order = e.order
  PROVE  Keeps(d, f, v, p)
  BY MovesTrans DEF Keeps, Opens, Moves

\* A handler that writes nothing.
LEMMA KeepsSelf ==
  ASSUME NEW d, NEW v, NEW p, Sound(d, v), Derived(d, v) PROVE Keeps(d, d, v, p)
  BY MovesSelf DEF Keeps, Opens

\* apply_observation books what the provider did, derives payment_status again
\* and releases an order that is paid now.
LEMMA ApplyKeeps ==
  ASSUME NEW d, NEW v, Sound(d, v), Derived(d, v), NEW p \in Attempts, NEW o,
         Truthful(d, v[p], p, o), v \in [Attempts -> ProviderRow], d.att[p].status # "none"
  PROVE  LET e == Apply(d, p, o) IN
         /\ Keeps(d, e, v, p)
         /\ o.status \in SETTLED /\ Final(o) = "refunded" =>
               /\ e.att[p].refunded = Amount
               /\ d.refund[p].status # "none" => e.refund[p].status = "succeeded"
<1> DEFINE seen   == Observed(d, p, o)
           closed == IF Final(o) = "refunded" THEN Refunded(seen, p, OtherLive(d, p)) ELSE seen
           agg    == Aggregated(closed)
           e      == Apply(d, p, o)
<1>1. CASE Settled(d, p) /\ o.status \notin SETTLED
  BY <1>1, KeepsSelf DEF Apply
<1>2. CASE ~(Settled(d, p) /\ o.status \notin SETTLED)
  <2>0. e = ReleaseIfPaid(agg)
    BY <1>2 DEF Apply
  <2>1. /\ Sound(seen, v) /\ Moves(d, seen, p) /\ seen.order = d.order
        /\ seen.refund = d.refund
        /\ Final(o) = "refunded" => seen.att[p].refunded = Amount
    BY <1>2, ObservedSound
  <2> HIDE DEF seen
  <2>2. /\ Sound(closed, v) /\ Moves(seen, closed, p) /\ closed.att = seen.att
        /\ closed.order.released = seen.order.released
        /\ Final(o) = "refunded" /\ seen.refund[p].status # "none" =>
              closed.refund[p].status = "succeeded"
    <3>1. OtherLive(d, p) \in BOOLEAN
      BY DEF OtherLive
    <3>2. CASE Final(o) = "refunded"
      BY <2>1, <3>1, <3>2, RefundedSound
    <3>3. CASE Final(o) # "refunded"
      BY <2>1, <3>3, MovesSelf
    <3> QED BY <3>2, <3>3
  <2> HIDE DEF closed
  <2>3. /\ Sound(agg, v) /\ Derived(agg, v) /\ Moves(closed, agg, p)
        /\ agg.order.released = closed.order.released /\ agg.att = closed.att
        /\ agg.refund = closed.refund
    <3>1. closed \in Db
      BY <2>2 DEF Sound, DbInv
    <3> QED BY <2>2, <3>1, AggregatedKeeps DEF Aggregated, Db
  <2> HIDE DEF agg
  <2>4. Keeps(agg, e, v, p) /\ e.att = agg.att /\ e.refund = agg.refund
    BY <2>0, <2>3, ReleaseIfPaidKeeps
  <2> HIDE DEF e
  <2>5. Moves(d, closed, p)
    BY <2>1, <2>2, MovesTrans
  <2>6. Moves(d, agg, p)
    BY <2>3, <2>5, MovesTrans
  <2>7. Moves(d, e, p)
    BY <2>4, <2>6, MovesTrans DEF Keeps
  <2>8. Keeps(d, e, v, p)
    BY <2>1, <2>2, <2>3, <2>4, <2>7 DEF Keeps, Opens
  <2> QED BY <2>1, <2>2, <2>3, <2>4, <2>8 DEF e
<1> QED BY <1>1, <1>2

-----------------------------------------------------------------------------
(* The handlers of one attempt *)

\* Marking a message as processed.
LEMMA InboxKeeps ==
  ASSUME NEW d, NEW v, Sound(d, v), Derived(d, v), NEW p \in Attempts, NEW k \in Messages,
         d.inbox[p][k] # "absent"
  PROVE  LET e == [d EXCEPT !.inbox[p][k] = "processed"] IN
         Keeps(d, e, v, p) /\ e.order = d.order
<1> DEFINE e == [d EXCEPT !.inbox[p][k] = "processed"]
<1>0. /\ d \in Db /\ DbInv(d)
      /\ Real(p, d.att[p], d.inbox[p], v[p])
      /\ RefundTrue(d.att[p], d.refund[p], d.order.released, v[p])
  BY SoundRows
<1>1. /\ e.att = d.att /\ e.refund = d.refund /\ e.order = d.order
      /\ \A q \in Attempts \ {p} : e.inbox[q] = d.inbox[q]
      /\ \A j \in Messages : e.inbox[p][j] = IF j = k THEN "processed" ELSE d.inbox[p][j]
  BY <1>0 DEF Db
<1>2. DbInv(e)
  BY <1>0, InboxSet DEF Follows
<1> HIDE DEF e
<1>3. \A j \in Messages : e.inbox[p][j] = "absent" <=> d.inbox[p][j] = "absent"
  BY <1>1
<1>4. Real(p, e.att[p], e.inbox[p], v[p])
  <2>1. {"success", "rev_done", "rev_failed", "rev_timeout"} \subseteq Messages
    BY DEF Messages, Callbacks, Reversals
  <2> QED BY <1>0, <1>1, <1>3, <2>1 DEF Real
<1>5. Sound(e, v)
  BY <1>0, <1>1, <1>2, <1>4, SoundSet DEF Sound, OrderOK
<1>6. Calm(d, e) /\ Moves(d, e, p) /\ Opens(d, e)
  BY <1>1, <1>3 DEF Calm, Moves, Opens, Contested, RefundLive
<1> QED BY <1>1, <1>5, <1>6, CalmDerived DEF Keeps, e

\* Learning the reference of a transaction.
LEMMA TxrefKeeps ==
  ASSUME NEW d, NEW v, Sound(d, v), Derived(d, v), NEW p \in Attempts, NEW b \in BOOLEAN
  PROVE  LET e == [d EXCEPT !.att[p].txref = @ \/ b] IN
         Keeps(d, e, v, p) /\ e.order = d.order
<1> DEFINE e == [d EXCEPT !.att[p].txref = @ \/ b]
<1>0. /\ d \in Db /\ DbInv(d) /\ d.att[p] \in AttemptRow
      /\ Real(p, d.att[p], d.inbox[p], v[p])
      /\ RefundTrue(d.att[p], d.refund[p], d.order.released, v[p])
  BY SoundRows
<1>1. /\ e.refund = d.refund /\ e.order = d.order /\ e.inbox = d.inbox
      /\ \A q \in Attempts \ {p} : e.att[q] = d.att[q]
      /\ e.att[p].status = d.att[p].status /\ e.att[p].paid = d.att[p].paid
      /\ e.att[p].refunded = d.att[p].refunded
  BY <1>0 DEF Db, AttemptRow
<1>2. DbInv(e)
  BY <1>0, TxrefSet DEF Follows
<1> HIDE DEF e
<1>4. /\ Real(p, e.att[p], e.inbox[p], v[p])
      /\ RefundTrue(e.att[p], e.refund[p], e.order.released, v[p])
  BY <1>0, <1>1 DEF Real, RefundTrue
<1>5. Sound(e, v)
  BY <1>1, <1>2, <1>4, SoundSet DEF Sound, OrderOK
<1>6. Calm(d, e) /\ Moves(d, e, p) /\ Opens(d, e)
  BY <1>1 DEF Calm, Moves, Opens, Contested, RefundLive
<1> QED BY <1>1, <1>5, <1>6, CalmDerived DEF Keeps, e

\* Replaying the success in the inbox books a charge the provider made.
LEMMA SettleKeeps ==
  ASSUME NEW d, NEW v, Sound(d, v), Derived(d, v), NEW p \in Attempts,
         v \in [Attempts -> ProviderRow], HasSuccess(d, p)
  PROVE  Keeps(d, Settle(d, p), v, p)
<1> DEFINE seen == [status   |-> IF Settled(d, p) THEN d.att[p].status ELSE "succeeded",
                    refunded |-> d.att[p].refunded, txref |-> TRUE]
           e == Apply(d, p, seen)
<1>0. /\ DbInv(d) /\ d.att[p] \in AttemptRow /\ Real(p, d.att[p], d.inbox[p], v[p])
      /\ d.inbox[p]["success"] = "received" /\ "success" \in Messages
  BY SoundRows DEF HasSuccess, Messages, Callbacks
<1>1. v[p].state = "charged" /\ d.att[p].status # "none" /\ d.att[p].refunded <= v[p].refunded
  BY <1>0 DEF Real
<1>2. seen.status \in SETTLED /\ (seen.status = "refunded" => seen.refunded = Amount)
  BY <1>0 DEF Settled, SETTLED, Real
<1>3. Truthful(d, v[p], p, seen)
  <2>1. d.att[p].refunded \in 0..Amount /\ d.att[p].refunded >= d.att[p].refunded
    BY <1>0, AmountPositive DEF AttemptRow
  <2>2. seen \in Observation
    BY <1>2, <2>1, ObservationType
  <2> QED BY <1>1, <1>2, <2>1, <2>2 DEF Truthful, Applicable
<1> HIDE DEF seen, e
<1>4. Keeps(d, e, v, p)
  BY <1>1, <1>3, ApplyKeeps DEF e
<1>5. e.inbox[p]["success"] # "absent"
  BY <1>0, <1>4 DEF Keeps, Moves
<1>6. LET f == [e EXCEPT !.inbox[p]["success"] = "processed"] IN
      Keeps(e, f, v, p) /\ f.order = e.order
  BY <1>0, <1>4, <1>5, InboxKeeps DEF Keeps
<1> QED BY <1>4, <1>6, KeepsTrans DEF Settle, e, seen

RefundSetTo(d, p, s) == [d EXCEPT !.refund[p].status = s]

\* Nothing but the status of the refund of p is written, and it is s now.
OnlyRefund(d, e, p, s) ==
  /\ e.att = d.att /\ e.order = d.order /\ e.inbox = d.inbox
  /\ \A q \in Attempts \ {p} : e.refund[q] = d.refund[q]
  /\ e.refund[p].status = s /\ e.refund[p].ref = d.refund[p].ref
  /\ e.refund[p].dispatched = d.refund[p].dispatched

\* The status of a refund that was sent follows what became of it.
LEMMA RefundStatusSound ==
  ASSUME NEW d, NEW v, Sound(d, v), NEW p \in Attempts, NEW s \in {"unknown", "pending", "failed"},
         d.refund[p].dispatched, s = "failed" => Spent(v[p])
  PROVE  Sound(RefundSetTo(d, p, s), v) /\ OnlyRefund(d, RefundSetTo(d, p, s), p, s)
<1> DEFINE e == RefundSetTo(d, p, s)
<1>0. /\ d \in Db /\ DbInv(d) /\ d.refund[p] \in RefundRow
      /\ Real(p, d.att[p], d.inbox[p], v[p])
      /\ RefundTrue(d.att[p], d.refund[p], d.order.released, v[p])
  BY SoundRows
<1>1. OnlyRefund(d, e, p, s)
  BY <1>0 DEF Db, RefundRow, RefundSetTo, OnlyRefund
<1>2. DbInv(e)
  BY <1>0, RefundStatusSet DEF Follows, RefundSetTo
<1> HIDE DEF e
<1>3. RefundTrue(e.att[p], e.refund[p], e.order.released, v[p])
  BY <1>0, <1>1 DEF RefundTrue, FRESH, OnlyRefund
<1>4. Sound(e, v)
  BY <1>0, <1>1, <1>2, <1>3, SoundSet DEF Sound, OrderOK, OnlyRefund
<1> QED BY <1>1, <1>4 DEF e

\* A refund that was sent is released and not fresh.
LEMMA RefIsSent ==
  ASSUME NEW d, NEW v, Sound(d, v), NEW p \in Attempts, d.refund[p].ref \/ d.refund[p].dispatched
  PROVE  /\ d.refund[p].dispatched /\ d.refund[p].status \notin FRESH
         /\ d.refund[p].status # "initiating" /\ d.order.released /\ Settled(d, p)
         /\ d.att[p].status # "none" /\ v[p].state = "charged"
  BY SoundRows DEF RefundTrue, Real, FRESH, SETTLED, Settled

\* A refund whose provider let it be under way, or does not say.
LEMMA RefundStatusKeeps ==
  ASSUME NEW d, NEW v, Sound(d, v), Derived(d, v), NEW p \in Attempts,
         NEW s \in {"unknown", "pending"}, s = "unknown" => p \in Mpesa,
         d.refund[p].ref, Single(p) => Contested(d, p)
  PROVE  Keeps(d, RefundSetTo(d, p, s), v, p)
<1> DEFINE e == RefundSetTo(d, p, s)
<1>0. d.refund[p].dispatched /\ d.refund[p].status \notin FRESH /\ s \notin FRESH
  BY RefIsSent DEF FRESH
<1>1. Sound(e, v) /\ OnlyRefund(d, e, p, s)
  BY <1>0, RefundStatusSound
<1> HIDE DEF e
<1>2. Calm(d, e)
  BY <1>0, <1>1 DEF Calm, Contested, RefundLive, OnlyRefund
<1>3. Moves(d, e, p) /\ Opens(d, e)
  BY <1>0, <1>1, ProvidersDisjoint DEF Moves, Opens, OnlyRefund
<1> QED BY <1>1, <1>2, <1>3, CalmDerived DEF Keeps, e

\* A refund that failed: payment_status is derived again.
FailRefund(d, p) == Aggregated(RefundSetTo(d, p, "failed"))

\* It writes nothing but that status and payment_status.
Failed(d, e, p) ==
  /\ e.att = d.att /\ e.inbox = d.inbox
  /\ e.order.released = d.order.released /\ e.order.issued = d.order.issued
  /\ \A q \in Attempts \ {p} : e.refund[q] = d.refund[q]
  /\ e.refund[p].status = "failed" /\ e.refund[p].ref = d.refund[p].ref
  /\ e.refund[p].dispatched = d.refund[p].dispatched

LEMMA RefundFailed ==
  ASSUME NEW d, NEW v, Sound(d, v), NEW p \in Attempts, d.refund[p].dispatched, Spent(v[p])
  PROVE  /\ Sound(FailRefund(d, p), v) /\ Derived(FailRefund(d, p), v)
         /\ Failed(d, FailRefund(d, p), p)
<1> DEFINE c == RefundSetTo(d, p, "failed")
<1>1. Sound(c, v) /\ OnlyRefund(d, c, p, "failed")
  BY RefundStatusSound
<1> HIDE DEF c
<1>2. /\ Sound(Aggregated(c), v) /\ Derived(Aggregated(c), v) /\ Moves(c, Aggregated(c), p)
      /\ Aggregated(c).order.released = c.order.released
  BY <1>1, AggregatedKeeps
<1>3. /\ Aggregated(c).att = c.att /\ Aggregated(c).refund = c.refund
      /\ Aggregated(c).inbox = c.inbox
  BY <1>1, SoundRows DEF Aggregated, Sound, DbInv, Db
<1> QED BY <1>1, <1>2, <1>3 DEF Moves, OnlyRefund, Failed, c, FailRefund

\* finish_refund of a refund that was acknowledged.
LEMMA FinishRefundKeeps ==
  ASSUME NEW d, NEW v, Sound(d, v), Derived(d, v), NEW p \in Attempts, NEW status,
         v \in [Attempts -> ProviderRow], d.refund[p].ref,
         status = "succeeded" => v[p].refunded = Amount,
         status = "failed" => Spent(v[p]),
         status \notin {"succeeded", "failed"} /\ d.refund[p].status # "succeeded" /\ Single(p)
           => Contested(d, p)
  PROVE  /\ Keeps(d, FinishRefund(d, p, status), v, p)
         /\ FinishRefund(d, p, status).refund[p].status # "unknown"
<1> DEFINE o == [status |-> "refunded", refunded |-> Amount, txref |-> FALSE]
           e == Apply(d, p, o)
<1>0. /\ d.refund[p].dispatched /\ d.refund[p].status \notin FRESH /\ d.order.released
      /\ d.att[p].status # "none" /\ v[p].state = "charged"
  BY RefIsSent
<1>1. CASE d.refund[p].status = "succeeded"
  BY <1>1, KeepsSelf DEF FinishRefund
<1>2. CASE d.refund[p].status # "succeeded" /\ status = "succeeded"
  <2>1. Truthful(d, v[p], p, o)
    <3>1. o \in Observation /\ o.status \in SETTLED
      BY AmountPositive DEF Observation, SETTLED
    <3>2. o.refunded >= d.att[p].refunded /\ o.refunded <= v[p].refunded
      BY <1>2, SoundRows, AmountPositive DEF AttemptRow
    <3> QED BY <1>0, <3>1, <3>2 DEF Truthful, Applicable
  <2>2. o.status \in SETTLED /\ Final(o) = "refunded"
    BY DEF SETTLED, Final
  <2>3. Keeps(d, e, v, p) /\ e.refund[p].status = "succeeded"
    BY <1>0, <2>1, <2>2, ApplyKeeps DEF FRESH
  <2> HIDE DEF e
  <2>4. e \in Db /\ e.refund[p] \in RefundRow
    BY <2>3, SoundRows DEF Keeps
  <2>5. [e EXCEPT !.refund[p].status = "succeeded"] = e
    BY <2>3, <2>4 DEF Db, RefundRow
  <2>6. FinishRefund(d, p, status) = [e EXCEPT !.refund[p].status = "succeeded"]
    BY <1>2 DEF FinishRefund, e
  <2> QED BY <2>3, <2>5, <2>6
<1>3. CASE d.refund[p].status # "succeeded" /\ status = "failed"
  <2> DEFINE f == FailRefund(d, p)
  <2>1. Sound(f, v) /\ Derived(f, v) /\ Failed(d, f, p)
    BY <1>0, <1>3, RefundFailed
  <2>2. FinishRefund(d, p, status) = f
    BY <1>3 DEF FinishRefund, FailRefund, RefundSetTo
  <2> HIDE DEF f
  <2>3. Keeps(d, f, v, p)
    BY <1>0, <2>1 DEF Keeps, Moves, Opens, Failed, FRESH
  <2> QED BY <2>1, <2>2, <2>3 DEF Failed
<1>4. CASE d.refund[p].status # "succeeded" /\ status \notin {"succeeded", "failed"}
  <2> DEFINE f == [d EXCEPT !.refund[p].status = "pending"]
  <2>1. FinishRefund(d, p, status) = f
    BY <1>4 DEF FinishRefund
  <2>2. Keeps(d, f, v, p)
    BY <1>4, RefundStatusKeeps DEF RefundSetTo
  <2>3. f.refund[p].status = "pending"
    BY SoundRows DEF Db, RefundRow
  <2> QED BY <2>1, <2>2, <2>3
<1> QED BY <1>1, <1>2, <1>3, <1>4

\* reconcile: what the provider says is booked, then what became of a card refund.
LEMMA ReconcileKeeps ==
  ASSUME NEW d, Sound(d, prov), Derived(d, prov), NEW p \in Attempts, NEW o,
         prov \in [Attempts -> ProviderRow], Books(p, prov[p]),
         Truthful(d, prov[p], p, o), d.att[p].status # "none"
  PROVE  Keeps(d, Reconcile(d, p, o), prov, p)
<1> DEFINE seen == Apply(d, p, o)
           end  == FinishRefund(seen, p, RefundStatus(p))
<1>1. CASE HasSuccess(d, p)
  BY <1>1, SettleKeeps DEF Reconcile
<1>2. CASE ~HasSuccess(d, p) /\ ~d.att[p].ref
  <2>1. CanExpire(d, p) => Keeps(d, Close(d, p, "expired"), prov, p)
    BY CloseKeeps DEF CanExpire, CLOSED
  <2> QED BY <1>2, <2>1, KeepsSelf DEF Reconcile
<1>3. CASE ~HasSuccess(d, p) /\ d.att[p].ref
  <2>1. Keeps(d, seen, prov, p)
    BY ApplyKeeps
  <2> HIDE DEF seen
  <2>2. CASE ~(p \in Stripe /\ seen.refund[p].ref /\ seen.refund[p].status \in {"pending", "unknown"})
    BY <1>3, <2>1, <2>2 DEF Reconcile, seen
  <2>3. CASE p \in Stripe /\ seen.refund[p].ref /\ seen.refund[p].status \in {"pending", "unknown"}
    <3>1. Reconcile(d, p, o) = end
      BY <1>3, <2>3 DEF Reconcile, seen
    <3>2. prov[p] \in ProviderRow
      OBVIOUS
    <3>3. /\ RefundStatus(p) = "succeeded" => prov[p].refunded = Amount
          /\ RefundStatus(p) = "failed" => Spent(prov[p])
      BY <3>2 DEF RefundStatus, Books, Spent
    <3>4. Contested(seen, p)
      BY <2>3 DEF Contested, RefundLive
    <3>5. Keeps(seen, end, prov, p)
      BY <2>1, <2>3, <3>3, <3>4, FinishRefundKeeps DEF Keeps
    <3>6. d.order.released
      BY <2>1, <2>3, RefIsSent DEF Keeps, Moves
    <3> QED BY <2>1, <3>1, <3>5, <3>6, KeepsTrans
  <2> QED BY <2>2, <2>3
<1> QED BY <1>1, <1>2, <1>3

\* consume_reversal: what became of an M-Pesa refund that was acknowledged.
LEMMA ConsumeReversalKeeps ==
  ASSUME NEW d, NEW v, Sound(d, v), Derived(d, v), NEW p \in Attempts, NEW k \in Reversals,
         v \in [Attempts -> ProviderRow], Books(p, v[p])
  PROVE  Keeps(d, ConsumeReversal(d, p, k), v, p)
<1> DEFINE r == CASE k = "rev_done"    -> FinishRefund(d, p, "succeeded")
                  [] k = "rev_failed"  -> FinishRefund(d, p, "failed")
                  [] k = "rev_timeout" ->
                       IF d.refund[p].status \in {"succeeded", "failed"} THEN d
                       ELSE [d EXCEPT !.refund[p].status = "unknown"]
           e == [r EXCEPT !.inbox[p][k] = "processed"]
<1>1. CASE d.inbox[p][k] # "received" \/ ~d.refund[p].ref
  BY <1>1, KeepsSelf DEF ConsumeReversal
<1>2. CASE d.inbox[p][k] = "received" /\ d.refund[p].ref
  <2>0. /\ d.order.released /\ k \in Messages /\ Real(p, d.att[p], d.inbox[p], v[p])
        /\ d.refund[p] \in RefundRow /\ d.refund[p].status \notin FRESH
        /\ d.refund[p].status # "initiating"
    BY <1>2, RefIsSent, SoundRows DEF Messages
  <2>1. ASSUME k = "rev_done" PROVE Keeps(d, r, v, p)
    <3>1. v[p].refunded = Amount
      BY <1>2, <2>0, <2>1 DEF Real, Books
    <3> QED BY <1>2, <2>1, <3>1, FinishRefundKeeps
  <2>2. ASSUME k = "rev_failed" PROVE Keeps(d, r, v, p)
    <3>1. Spent(v[p])
      BY <1>2, <2>0, <2>2 DEF Real, Books, Spent
    <3> QED BY <1>2, <2>2, <3>1, FinishRefundKeeps
  <2>3. ASSUME k = "rev_timeout" PROVE Keeps(d, r, v, p)
    <3>1. p \in Mpesa
      BY <1>2, <2>0, <2>3 DEF Real
    <3>2. d.refund[p].status \notin {"succeeded", "failed"} => Contested(d, p)
      BY <2>0 DEF RefundRow, FRESH, Contested, RefundLive
    <3> QED BY <1>2, <2>3, <3>1, <3>2, RefundStatusKeeps, KeepsSelf DEF RefundSetTo
  <2>4. Keeps(d, r, v, p)
    BY <2>1, <2>2, <2>3 DEF Reversals
  <2>5. ConsumeReversal(d, p, k) = e
    BY <1>2 DEF ConsumeReversal
  <2> HIDE DEF r
  <2>6. r.inbox[p][k] # "absent"
    BY <1>2, <2>0, <2>4 DEF Keeps, Moves
  <2>7. Keeps(r, e, v, p)
    BY <2>0, <2>4, <2>6, InboxKeeps DEF Keeps
  <2> QED BY <2>0, <2>4, <2>5, <2>7, KeepsTrans
<1> QED BY <1>1, <1>2

\* process_mpesa of a message that is in the inbox.
LEMMA MpesaResultKeeps ==
  ASSUME NEW d, Sound(d, prov), Derived(d, prov), NEW p \in Attempts, NEW k \in Callbacks, NEW o,
         prov \in [Attempts -> ProviderRow], Books(p, prov[p]),
         Truthful(d, prov[p], p, o), d.att[p].status # "none", d.inbox[p][k] # "absent"
  PROVE  Keeps(d, MpesaResult(d, p, k, o), prov, p)
<1> DEFINE f == [status |-> "failed", refunded |-> 0, txref |-> FALSE]
           r == CASE k = "failure" -> Apply(d, p, f)
                  [] k = "success" -> IF HasSuccess(d, p) THEN Settle(d, p) ELSE d
                  [] k = "other"   -> Reconcile(d, p, o)
           b == k = "success" /\ Settled(r, p) /\ r.att[p].status # "disputed"
           named == [r EXCEPT !.att[p].txref = @ \/ b]
           done  == [named EXCEPT !.inbox[p][k] = "processed"]
<1>1. Truthful(d, prov[p], p, f)
  BY AmountPositive DEF Truthful, Applicable, Observation, OPEN, SETTLED, CLOSED
<1>2. Keeps(d, r, prov, p)
  BY <1>1, ApplyKeeps, SettleKeeps, KeepsSelf, ReconcileKeeps DEF Callbacks
<1>3. b \in BOOLEAN /\ k \in Messages
  BY DEF Messages
<1>4. MpesaResult(d, p, k, o) = IF Open(r, p) THEN named ELSE done
  BY DEF MpesaResult
<1> HIDE DEF r, b
<1>5. Keeps(r, named, prov, p) /\ named.order = r.order
  BY <1>2, <1>3, TxrefKeeps DEF Keeps
<1> HIDE DEF named
<1>6. Keeps(d, named, prov, p)
  BY <1>2, <1>5, KeepsTrans
<1>7. named.inbox[p][k] # "absent"
  BY <1>3, <1>6 DEF Keeps, Moves
<1>8. Keeps(named, done, prov, p) /\ done.order = named.order
  BY <1>3, <1>6, <1>7, InboxKeeps DEF Keeps
<1> HIDE DEF done
<1>9. Keeps(d, done, prov, p)
  BY <1>6, <1>8, KeepsTrans
<1> QED BY <1>4, <1>6, <1>9

\* Whatever the message is about.
LEMMA HandleMessageKeeps ==
  ASSUME NEW d, Sound(d, prov), Derived(d, prov), NEW p \in Attempts, NEW k \in Messages, NEW o,
         prov \in [Attempts -> ProviderRow], Books(p, prov[p]),
         Truthful(d, prov[p], p, o), d.inbox[p][k] # "absent"
  PROVE  Keeps(d, HandleMessage(d, p, k, o), prov, p) /\ d.att[p].status # "none"
<1>0. d.att[p].status # "none"
  BY SoundRows DEF Real
<1>1. CASE k \in Reversals
  BY <1>0, <1>1, ConsumeReversalKeeps DEF HandleMessage
<1>2. CASE k \notin Reversals /\ k \in Callbacks
  BY <1>0, <1>2, MpesaResultKeeps DEF HandleMessage
<1>3. CASE k \notin Reversals /\ k \notin Callbacks
  <2> DEFINE e == Reconcile(d, p, o)
             f == [e EXCEPT !.inbox[p][k] = "processed"]
  <2>1. Keeps(d, e, prov, p)
    BY <1>0, ReconcileKeeps
  <2>2. HandleMessage(d, p, k, o) = f
    BY <1>3 DEF HandleMessage
  <2> HIDE DEF e
  <2>3. e.inbox[p][k] # "absent"
    BY <2>1 DEF Keeps, Moves
  <2>4. Keeps(e, f, prov, p) /\ f.order = e.order
    BY <2>1, <2>3, InboxKeeps DEF Keeps
  <2> QED BY <1>0, <2>1, <2>2, <2>4, KeepsTrans
<1> QED BY <1>1, <1>2, <1>3

\* What a status query answers is what the provider did.
LEMMA ObservationTruthful ==
  ASSUME TypeOK, Sound(db, prov), NEW p \in Attempts, NEW o \in Observations(db, p),
         Acceptable(db, p, o)
  PROVE  Truthful(db, prov[p], p, o)
<1>0. /\ prov[p] \in ProviderRow /\ db.att[p] \in AttemptRow
      /\ Real(p, db.att[p], db.inbox[p], prov[p])
  BY SoundRows DEF TypeOK
<1>1. Applicable(db, p, o)
  BY ObservationApplicable
<1>2. o.status \in SETTLED => prov[p].state = "charged" /\ o.refunded <= prov[p].refunded
  <2>1. CASE p \in Mpesa
    BY <1>0, <2>1 DEF Observations, Real, SETTLED, CLOSED
  <2>2. CASE p \notin Mpesa
    BY <1>0, <2>2, AmountPositive DEF Observations, SETTLED, ProviderRow
  <2> QED BY <2>1, <2>2
<1>3. o.status = "refunded" => o.refunded = Amount
  BY <1>0 DEF Observations, CLOSED
<1> QED BY <1>1, <1>2, <1>3 DEF Truthful

-----------------------------------------------------------------------------
(* The threads: the invariant of the whole system *)

\* What a thread still knows of the rows and of the answer it holds: whatever
\* other threads did since its last transaction, the attempt exists, its message
\* is in the inbox, its refund was sent and the answer is the provider's.
TaskTrue(x, d, v) ==
  x.op # "idle" =>
    /\ d.att[x.pay].status # "none"
    /\ x.op = "webhook" => d.inbox[x.pay][x.arg] # "absent"
    /\ x.op \in {"approved", "refund", "early"} => d.refund[x.pay].status \notin FRESH
    /\ x.op = "refund" => d.refund[x.pay].dispatched
    /\ x.op = "refund" /\ x.arg # "sending" => v[x.pay].reply = x.arg

\* Thread t has a refund request of attempt p under way.
Refunding(k, t, p) == k[t].op = "refund" /\ k[t].pay = p

\* Refund requests: nothing was asked before dispatched_at was set, an M-Pesa
\* reversal is not asked for again, and where one request at most is under way the
\* row still says that its outcome is not known.
Asked(d, v, k, p) ==
  /\ ~d.refund[p].dispatched => v[p].reply = "none"
  /\ p \in Mpesa =>
       \A t \in Threads : Refunding(k, t, p) /\ k[t].arg = "sending" => v[p].reply = "none"
  /\ p \in Stripe /\ d.refund[p].ref => d.refund[p].status # "unknown"
  /\ Single(p) => /\ \A t, u \in Threads : Refunding(k, t, p) /\ Refunding(k, u, p) => t = u
                  /\ \A t \in Threads : Refunding(k, t, p) =>
                        ~d.refund[p].ref /\ d.refund[p].status \in {"unknown", "succeeded"}

\* The refund of p came to nothing, or nobody is about to ask for one.
Stays(v, k, p) ==
  /\ v[p].state = "charged"
  /\ \/ Spent(v[p])
     \/ /\ v[p].refund = "none"
        /\ \A t \in Threads : k[t].op \in {"approved", "refund"} => k[t].pay # p

\* A document left against a charge that stays.
Backed(d, v, k) == d.order.issued => \E p \in Attempts : Stays(v, k, p)

Money(d, v, k) ==
  /\ Sound(d, v) /\ Derived(d, v)
  /\ \A p \in Attempts : Books(p, v[p]) /\ Asked(d, v, k, p)
  /\ \A t \in Threads : TaskTrue(k[t], d, v)
  /\ Backed(d, v, k)

-----------------------------------------------------------------------------
(* Writes to the rows, with the threads and the providers as they are *)

\* The rows of p are written, in one transaction or in several.
Writes(d, e, p) ==
  /\ \A q \in Attempts \ {p} : /\ e.att[q] = d.att[q] /\ e.refund[q] = d.refund[q]
                                /\ e.inbox[q] = d.inbox[q]
  /\ d.att[p].status # "none" => e.att[p].status # "none"
  /\ d.refund[p].status \notin FRESH => e.refund[p].status \notin FRESH
  /\ e.refund[p].dispatched = d.refund[p].dispatched
  /\ \A k \in Messages : d.inbox[p][k] # "absent" => e.inbox[p][k] # "absent"
  /\ e.order.issued = d.order.issued
  /\ p \in Stripe /\ e.refund[p].ref => e.refund[p].status # "unknown"

\* The outcome of the refund of p is unknown to the rows before and after.
Waits(d, e, p) ==
  ~d.refund[p].ref /\ d.refund[p].status \in {"unknown", "succeeded"}
    => ~e.refund[p].ref /\ e.refund[p].status \in {"unknown", "succeeded"}

\* No thread is at the provider with the refund of p, or its outcome stays unknown.
LEMMA MoneyRows ==
  ASSUME NEW d, NEW e, NEW v, NEW k \in [Threads -> Task], Money(d, v, k), NEW p \in Attempts,
         Sound(e, v), Derived(e, v), Writes(d, e, p),
         (Single(p) => \A t \in Threads : ~Refunding(k, t, p)) \/ Waits(d, e, p)
  PROVE  Money(e, v, k)
<1>1. ASSUME NEW q \in Attempts PROVE Books(q, v[q]) /\ Asked(e, v, k, q)
  <2>1. Books(q, v[q]) /\ Asked(d, v, k, q)
    BY DEF Money
  <2>2. CASE q = p
    BY <2>1, <2>2 DEF Asked, Writes, Waits
  <2>3. CASE q # p
    <3>1. e.refund[q] = d.refund[q]
      BY <2>3 DEF Writes
    <3> QED BY <2>1, <3>1 DEF Asked
  <2> QED BY <2>2, <2>3
<1>2. ASSUME NEW t \in Threads PROVE TaskTrue(k[t], e, v)
  <2>1. TaskTrue(k[t], d, v) /\ k[t] \in Task
    BY DEF Money
  <2>2. CASE k[t].op = "idle"
    BY <2>2 DEF TaskTrue
  <2>3. CASE k[t].op # "idle" /\ k[t].pay = p
    <3>1. k[t].op = "webhook" => k[t].arg \in Messages
      BY <2>1 DEF Task, Idle
    <3> QED BY <2>1, <2>3, <3>1 DEF TaskTrue, Writes
  <2>4. CASE k[t].op # "idle" /\ k[t].pay # p
    <3>1. k[t].pay \in Attempts
      BY <2>1, <2>4 DEF Task, Idle
    <3>2. /\ e.att[k[t].pay] = d.att[k[t].pay] /\ e.refund[k[t].pay] = d.refund[k[t].pay]
          /\ e.inbox[k[t].pay] = d.inbox[k[t].pay]
      BY <2>4, <3>1 DEF Writes
    <3> QED BY <2>1, <3>2 DEF TaskTrue
  <2> QED BY <2>2, <2>3, <2>4
<1>3. Backed(e, v, k)
  BY DEF Money, Backed, Writes
<1> QED BY <1>1, <1>2, <1>3 DEF Money

\* What a handler of one attempt does to its rows.
LEMMA MoneyKeeps ==
  ASSUME NEW d, NEW e, NEW v, NEW k \in [Threads -> Task], Money(d, v, k), NEW p \in Attempts,
         Keeps(d, e, v, p)
  PROVE  Money(e, v, k)
<1>1. /\ d.refund[p].ref \in BOOLEAN /\ e.refund[p].ref \in BOOLEAN
      /\ p \in Stripe /\ d.refund[p].ref => d.refund[p].status # "unknown"
  BY SoundRows DEF Money, Asked, Keeps, RefundRow
<1>2. Writes(d, e, p) /\ Waits(d, e, p)
  BY <1>1 DEF Keeps, Moves, Writes, Waits
<1> QED BY <1>2, MoneyRows DEF Keeps

\* The order row is written, payment_status and submitted_at are not.
LEMMA MoneyOrder ==
  ASSUME NEW d, NEW v, NEW k, Money(d, v, k), NEW o \in OrderRow,
         o.payment = d.order.payment, o.released = d.order.released,
         o.status \in {"submitted", "cancellation_requested"} => o.released,
         Backed([d EXCEPT !.order = o], v, k)
  PROVE  LET e == [d EXCEPT !.order = o] IN
         Money(e, v, k) /\ e.att = d.att /\ e.order.released = d.order.released
<1> DEFINE e == [d EXCEPT !.order = o]
<1>0. Sound(d, v) /\ DbInv(d) /\ d \in Db
  BY DEF Money, Sound, DbInv
<1>1. e.order = o /\ e.att = d.att /\ e.refund = d.refund /\ e.inbox = d.inbox
  BY <1>0 DEF Db
<1>2. Follows(d, e)
  BY <1>0, OrderSet
<1>b. Backed(e, v, k)
  OBVIOUS
<1> HIDE DEF e
<1>3. Sound(e, v)
  BY <1>0, <1>1, <1>2, SoundOrder DEF OrderOK
<1>4. Derived(e, v)
  BY <1>1 DEF Money, Derived, Standing, Uncontested, Open, Funded, Contested, RefundLive
<1>5. ASSUME NEW q \in Attempts PROVE Books(q, v[q]) /\ Asked(e, v, k, q)
  BY <1>1 DEF Money, Asked
<1>6. ASSUME NEW t \in Threads PROVE TaskTrue(k[t], e, v)
  BY <1>1 DEF Money, TaskTrue
<1>7. Money(e, v, k)
  BY <1>3, <1>4, <1>5, <1>6, <1>b DEF Money
<1> QED BY <1>1, <1>7 DEF e

\* A thread ends, or goes on with something other than a refund request.
LEMMA MoneyTask ==
  ASSUME NEW d, NEW v, NEW k \in [Threads -> Task], Money(d, v, k),
         NEW t \in Threads, NEW x \in Task, TaskTrue(x, d, v), x.op # "refund",
         x.op = "approved" => ~d.order.issued
  PROVE  Money(d, v, [k EXCEPT ![t] = x])
<1> DEFINE j == [k EXCEPT ![t] = x]
<1>1. j[t] = x /\ \A u \in Threads \ {t} : j[u] = k[u]
  OBVIOUS
<1> HIDE DEF j
<1>2. ASSUME NEW u \in Threads, NEW p, Refunding(j, u, p) PROVE Refunding(k, u, p) /\ j[u] = k[u]
  BY <1>1, <1>2 DEF Refunding
<1>3. ASSUME NEW p \in Attempts PROVE Books(p, v[p]) /\ Asked(d, v, j, p)
  <2>1. Books(p, v[p]) /\ Asked(d, v, k, p)
    BY DEF Money
  <2> QED BY <1>2, <2>1 DEF Asked
<1>4. ASSUME NEW u \in Threads PROVE TaskTrue(j[u], d, v)
  BY <1>1 DEF Money
<1>5. Backed(d, v, j)
  BY <1>1 DEF Money, Backed, Stays
<1> QED BY <1>3, <1>4, <1>5 DEF Money, j

\* A thread that ends holds nothing.
LEMMA MoneyIdle ==
  ASSUME NEW d, NEW v, NEW k \in [Threads -> Task], Money(d, v, k), NEW t \in Threads
  PROVE  Money(d, v, [k EXCEPT ![t] = Idle])
<1>1. Idle.op = "idle"
  BY DEF Idle
<1> QED BY <1>1, IdleTask, MoneyTask DEF TaskTrue

\* A provider does something other than answer a refund request.
LEMMA MoneyProvider ==
  ASSUME NEW d, NEW v \in [Attempts -> ProviderRow], NEW k \in [Threads -> Task],
         Money(d, v, k), NEW p \in Attempts, NEW w \in ProviderRow, Books(p, w),
         v[p].state = "charged" => w.state = "charged",
         w.refunded >= v[p].refunded,
         v[p].refund # "processing" => w.refund = v[p].refund,
         w.reply = v[p].reply,
         d.att[p].status = "none" => w.state = "none"
  PROVE  Money(d, [v EXCEPT ![p] = w], k)
<1> DEFINE u == [v EXCEPT ![p] = w]
<1>1. u[p] = w /\ \A q \in Attempts \ {p} : u[q] = v[q]
  OBVIOUS
<1> HIDE DEF u
<1>2. Spent(v[p]) => Spent(w)
  BY DEF Spent
<1>3. ASSUME NEW q \in Attempts
      PROVE  /\ Real(q, d.att[q], d.inbox[q], u[q])
             /\ RefundTrue(d.att[q], d.refund[q], d.order.released, u[q])
  <2>1. /\ Real(q, d.att[q], d.inbox[q], v[q])
        /\ RefundTrue(d.att[q], d.refund[q], d.order.released, v[q])
        /\ d.att[q] \in AttemptRow
    BY SoundRows DEF Money
  <2>2. CASE q # p
    BY <1>1, <2>1, <2>2
  <2>3. CASE q = p
    <3>1. d.att[p].refunded <= w.refunded
      <4>1. d.att[p].refunded \in Nat /\ w.refunded \in Nat /\ v[p].refunded \in Nat
        BY <2>1, <2>3, AmountPositive DEF AttemptRow, ProviderRow
      <4> QED BY <2>1, <2>3, <4>1 DEF Real
    <3>2. Real(p, d.att[p], d.inbox[p], w)
      BY <2>1, <2>3, <3>1 DEF Real
    <3>3. RefundTrue(d.att[p], d.refund[p], d.order.released, w)
      BY <1>2, <2>1, <2>3 DEF RefundTrue
    <3> QED BY <1>1, <2>3, <3>2, <3>3
  <2> QED BY <2>2, <2>3
<1>4. Sound(d, u)
  BY <1>3 DEF Money, Sound
<1>5. Derived(d, u)
  BY <1>1, <1>2 DEF Money, Derived, Uncontested
<1>6. ASSUME NEW q \in Attempts PROVE Books(q, u[q]) /\ Asked(d, u, k, q)
  BY <1>1 DEF Money, Asked
<1>7. ASSUME NEW t \in Threads PROVE TaskTrue(k[t], d, u)
  <2>1. TaskTrue(k[t], d, v) /\ k[t] \in Task
    BY DEF Money
  <2>2. k[t].op = "refund" => k[t].pay \in Attempts
    BY <2>1 DEF Task, Idle
  <2>3. k[t].op = "refund" => u[k[t].pay].reply = v[k[t].pay].reply
    BY <1>1, <2>2
  <2> QED BY <2>1, <2>3 DEF TaskTrue
<1>8. Backed(d, u, k)
  <2>1. ASSUME NEW q \in Attempts, Stays(v, k, q) PROVE Stays(u, k, q)
    BY <1>1, <1>2, <2>1 DEF Stays
  <2> QED BY <2>1 DEF Money, Backed
<1> QED BY <1>4, <1>5, <1>6, <1>7, <1>8 DEF Money, u

-----------------------------------------------------------------------------
(* The remaining writes, one lemma for each shape *)

\* A write to an attempt that neither opens, closes nor pays it.
LEMMA AttKeeps ==
  ASSUME NEW d, NEW v, Sound(d, v), Derived(d, v), NEW p \in Attempts, NEW a \in AttemptRow,
         a.paid = d.att[p].paid, a.refunded = d.att[p].refunded,
         a.status = d.att[p].status \/ (a.status \in OPEN /\ Open(d, p)),
         d.att[p].dispatched => a.dispatched
  PROVE  Keeps(d, [d EXCEPT !.att[p] = a], v, p)
<1> DEFINE e == [d EXCEPT !.att[p] = a]
<1>0. /\ d \in Db /\ DbInv(d)
      /\ Real(p, d.att[p], d.inbox[p], v[p])
      /\ RefundTrue(d.att[p], d.refund[p], d.order.released, v[p])
  BY SoundRows
<1>1. /\ e.refund = d.refund /\ e.order = d.order /\ e.inbox = d.inbox /\ e.att[p] = a
      /\ \A q \in Attempts \ {p} : e.att[q] = d.att[q]
  BY <1>0 DEF Db
<1>2. Open(d, p) => d.att[p].status # "none" /\ d.att[p].status \notin SETTLED
  BY DEF Open, OPEN, SETTLED
<1>3. a.status \in OPEN => a.status # "none" /\ a.status # "refunded" /\ a.status \notin SETTLED
  BY DEF OPEN, SETTLED
<1>4. DbInv(e)
  BY <1>0, <1>2, AttSet DEF Settled, Follows
<1> HIDE DEF e
<1>5. Real(p, e.att[p], e.inbox[p], v[p])
  BY <1>0, <1>1, <1>2, <1>3 DEF Real
<1>6. RefundTrue(e.att[p], e.refund[p], e.order.released, v[p])
  BY <1>0, <1>1, <1>2, <1>3 DEF RefundTrue
<1>7. Sound(e, v)
  BY <1>0, <1>1, <1>4, <1>5, <1>6, SoundSet DEF Sound, OrderOK
<1>8. Calm(d, e)
  BY <1>1 DEF Calm, Open, Contested, RefundLive
<1>9. Moves(d, e, p) /\ Opens(d, e)
  BY <1>1, <1>2, <1>3 DEF Moves, Opens
<1> QED BY <1>7, <1>8, <1>9, CalmDerived DEF Keeps, e

\* create_attempt: a new attempt of an order that owes money and holds none.
LEMMA CreatedKeeps ==
  ASSUME NEW d, NEW v, Sound(d, v), Derived(d, v), NEW p \in Attempts,
         d.att[p].status = "none", d.order.payment = "not_started",
         v \in [Attempts -> ProviderRow]
  PROVE  LET e == Created(d, p) IN
         /\ Keeps(d, e, v, p) /\ e.order.released = d.order.released
         /\ \A q \in Attempts \ {p} : ~Open(e, q) /\ ~Funded(e, q) /\ e.att[q] = d.att[q]
         /\ e.att[p].status # "none"
<1> DEFINE a == [d.att[p] EXCEPT !.status = "initiating", !.active = TRUE]
           o == [d.order EXCEPT !.payment = "pending"]
           e == Created(d, p)
<1>0. /\ d \in Db /\ DbInv(d) /\ d.att[p] \in AttemptRow /\ d.order \in OrderRow
      /\ Real(p, d.att[p], d.inbox[p], v[p]) /\ v[p] \in ProviderRow
      /\ RefundTrue(d.att[p], d.refund[p], d.order.released, v[p])
  BY SoundRows
<1>1. /\ e.att[p] = a /\ e.order = o /\ e.refund = d.refund /\ e.inbox = d.inbox
      /\ \A q \in Attempts \ {p} : e.att[q] = d.att[q]
  BY <1>0 DEF Db, Created
<1>2. /\ a.status = "initiating" /\ a.paid = d.att[p].paid /\ a.refunded = d.att[p].refunded
      /\ o.payment = "pending" /\ o.released = d.order.released /\ o.status = d.order.status
      /\ o.issued = d.order.issued
  BY <1>0 DEF AttemptRow, OrderRow
<1>3. ~Settled(d, p) /\ ~d.att[p].paid
  BY <1>0, SoundRows DEF Settled, SETTLED, Booked
<1>4. DbInv(e)
  BY <1>0, <1>3, CreatedFollows DEF Follows
<1> HIDE DEF e, a, o
<1>5. \A q \in Attempts : ~Open(d, q) /\ ~Funded(d, q) /\ d.att[q].refunded = 0
                          /\ d.att[q].status # "disputed"
  BY DEF Derived, Standing, Blocked
<1>6. \A q \in Attempts \ {p} : ~Open(e, q) /\ ~Funded(e, q) /\ e.att[q] = d.att[q]
  BY <1>1, <1>5 DEF Open, Funded
<1>7. Real(p, e.att[p], e.inbox[p], v[p])
  BY <1>0, <1>1, <1>2 DEF Real, SETTLED
<1>8. RefundTrue(e.att[p], e.refund[p], e.order.released, v[p])
  BY <1>0, <1>1, <1>2, <1>3 DEF RefundTrue, Settled
<1>9. Sound(e, v)
  BY <1>0, <1>1, <1>2, <1>4, <1>7, <1>8, SoundSet DEF Sound, OrderOK
<1>10. Open(e, p) /\ ~Funded(e, p)
  BY <1>1, <1>2, <1>3 DEF Open, OPEN, Funded
<1>11. \A q \in Attempts : ~Funded(e, q) /\ e.att[q].status # "disputed"
  BY <1>1, <1>2, <1>5, <1>6, <1>10
<1>12. Derived(e, v)
  BY <1>1, <1>2, <1>10, <1>11 DEF Derived, Standing, Uncontested
<1>13. Moves(d, e, p) /\ Opens(d, e)
  BY <1>1, <1>2 DEF Moves, Opens
<1> QED BY <1>1, <1>2, <1>6, <1>9, <1>12, <1>13 DEF Keeps, e

\* A message enters the inbox: the provider did what it reports.
LEMMA ReceivedKeeps ==
  ASSUME NEW d, NEW v, Sound(d, v), Derived(d, v), NEW p \in Attempts, NEW k \in Messages,
         d.att[p].status # "none",
         k = "success" => v[p].state = "charged",
         k = "rev_done" => v[p].refund = "succeeded",
         k = "rev_failed" => v[p].refund = "failed",
         k = "rev_timeout" => p \in Mpesa
  PROVE  LET e == [d EXCEPT !.inbox[p][k] = "received"] IN
         Keeps(d, e, v, p) /\ e.att = d.att /\ e.inbox[p][k] = "received" /\ e.order = d.order
<1> DEFINE e == [d EXCEPT !.inbox[p][k] = "received"]
<1>0. /\ d \in Db /\ DbInv(d) /\ d.inbox[p] \in [Messages -> {"absent", "received", "processed"}]
      /\ Real(p, d.att[p], d.inbox[p], v[p])
      /\ RefundTrue(d.att[p], d.refund[p], d.order.released, v[p])
  BY SoundRows, Rows
<1>1. /\ e.att = d.att /\ e.refund = d.refund /\ e.order = d.order
      /\ \A q \in Attempts \ {p} : e.inbox[q] = d.inbox[q]
      /\ \A j \in Messages : e.inbox[p][j] = IF j = k THEN "received" ELSE d.inbox[p][j]
  BY <1>0 DEF Db
<1>2. DbInv(e)
  BY <1>0, InboxSet DEF Follows
<1> HIDE DEF e
<1>3. \A j \in {"success", "rev_done", "rev_failed", "rev_timeout"} : j \in Messages
  BY DEF Messages, Callbacks, Reversals
<1>4. Real(p, e.att[p], e.inbox[p], v[p])
  BY <1>0, <1>1, <1>3 DEF Real
<1>5. Sound(e, v)
  BY <1>0, <1>1, <1>2, <1>4, SoundSet DEF Sound, OrderOK
<1>6. Calm(d, e)
  BY <1>1 DEF Calm, Contested, RefundLive
<1>7. Moves(d, e, p) /\ Opens(d, e)
  BY <1>1 DEF Moves, Opens
<1> QED BY <1>1, <1>5, <1>6, <1>7, CalmDerived DEF Keeps, e

\* request_refund: the refund of a confirmed charge blocks the order.
LEMMA RequestedKeeps ==
  ASSUME NEW d, NEW v, Sound(d, v), NEW p \in Attempts, NEW e,
         Refundable(d, p), d.refund[p].status \in FRESH,
         NEW s \in {"requested", "initiating"}, NEW b \in {"refund_requested", "refund_pending"},
         Asks(d, e, p, s, b)
  PROVE  Keeps(d, e, v, p) /\ e.refund[p].status = s
<1>0. /\ d \in Db /\ DbInv(d) /\ d.refund[p] \in RefundRow /\ d.order \in OrderRow
      /\ Real(p, d.att[p], d.inbox[p], v[p])
      /\ RefundTrue(d.att[p], d.refund[p], d.order.released, v[p])
  BY SoundRows
<1>1. /\ e.att = d.att /\ e.inbox = d.inbox
      /\ \A q \in Attempts \ {p} : e.refund[q] = d.refund[q]
      /\ e.refund[p].status = s /\ e.refund[p].ref = d.refund[p].ref
      /\ e.refund[p].dispatched = d.refund[p].dispatched
      /\ e.order.payment = b /\ e.order.released = d.order.released
      /\ e.order.status = d.order.status /\ e.order.issued = d.order.issued
  BY <1>0 DEF Asks, Db, RefundRow, OrderRow
<1>2. DbInv(e)
  BY <1>0, RefundAndOrderSet DEF Follows
<1>3. b \in Blocked
  BY DEF Blocked
<1>4. d.att[p].status \in SETTLED /\ d.order.released
  BY DEF Refundable, SETTLED, Sound, OrderOK
<1>5. RefundTrue(e.att[p], e.refund[p], e.order.released, v[p])
  BY <1>0, <1>1, <1>4 DEF RefundTrue, FRESH
<1>6. Sound(e, v)
  BY <1>0, <1>1, <1>2, <1>5, SoundSet DEF Sound, OrderOK
<1>7. Derived(e, v)
  BY <1>1, <1>3, BlockedDerived
<1>8. Moves(d, e, p) /\ Opens(d, e)
  BY <1>1 DEF Moves, Opens, FRESH
<1> QED BY <1>1, <1>6, <1>7, <1>8 DEF Keeps

\* reject_refund: the order is derived again.
LEMMA RejectedKeeps ==
  ASSUME NEW d, NEW v, Sound(d, v), NEW p \in Attempts, d.refund[p].status = "requested"
  PROVE  Keeps(d, Aggregated([d EXCEPT !.refund[p].status = "rejected"]), v, p)
<1> DEFINE c == [d EXCEPT !.refund[p].status = "rejected"]
           e == Aggregated(c)
<1>0. /\ d \in Db /\ DbInv(d) /\ d.refund[p] \in RefundRow
      /\ Real(p, d.att[p], d.inbox[p], v[p])
      /\ RefundTrue(d.att[p], d.refund[p], d.order.released, v[p])
  BY SoundRows
<1>1. OnlyRefund(d, c, p, "rejected")
  BY <1>0 DEF Db, RefundRow, OnlyRefund
<1>2. DbInv(c)
  BY <1>0, RefundStatusSet DEF Follows
<1> HIDE DEF c
<1>3. RefundTrue(c.att[p], c.refund[p], c.order.released, v[p])
  BY <1>0, <1>1 DEF RefundTrue, FRESH, OnlyRefund
<1>4. Sound(c, v)
  BY <1>0, <1>1, <1>2, <1>3, SoundSet DEF Sound, OrderOK, OnlyRefund
<1>5. Sound(e, v) /\ Derived(e, v) /\ Moves(c, e, p) /\ e.order.released = c.order.released
  BY <1>4, AggregatedKeeps
<1>6. Moves(d, c, p)
  BY <1>1 DEF Moves, OnlyRefund, FRESH
<1>7. Moves(d, e, p) /\ Opens(d, e)
  BY <1>1, <1>5, <1>6, MovesTrans DEF Opens, OnlyRefund
<1> QED BY <1>5, <1>7 DEF Keeps, c

-----------------------------------------------------------------------------
(* Every step *)

MoneyInv == Money(db, prov, task)

\* An attempt starts only where no other one is open or holds money.
Started(d, e) ==
  \A p, q \in Attempts : p # q /\ d.att[p].status = "none" /\ e.att[p].status # "none"
                           => ~Open(e, q) /\ ~Funded(e, q)

\* A handler of attempt p, which was created before, writes none of the others.
Handles(d, e, p) ==
  /\ d.att[p].status # "none" /\ e.att[p].status # "none"
  /\ \A q \in Attempts \ {p} : e.att[q] = d.att[q]
  /\ d.order.released => e.order.released
  /\ e.order.issued = d.order.issued

\* Attempt p is created, beside others that hold nothing and are not open.
Creates(d, e, p) ==
  /\ d.att[p].status = "none" /\ Open(e, p)
  /\ \A q \in Attempts \ {p} :
       /\ ~Open(e, q) /\ ~Funded(e, q)
       /\ e.att[q].paid = d.att[q].paid /\ e.att[q].refunded = d.att[q].refunded
       /\ e.att[q].status = "none" <=> d.att[q].status = "none"
  /\ e.order.released = d.order.released /\ e.order.issued = d.order.issued

\* Fulfilment writes no attempt, and issues documents of a paid order only.
Fulfils(d, e) ==
  /\ e.att = d.att /\ e.order.released = d.order.released
  /\ \/ e.order.issued = d.order.issued
     \/ /\ d.order.payment = "paid" /\ d.order.status = "submitted"
        /\ e.order.issued

\* The provider of p moves forward, in one respect.
Supplies(v, u, p) ==
  /\ \A q \in Attempts \ {p} : u[q] = v[q]
  /\ v[p].state = "charged" => u[p].state = "charged"
  /\ u[p].refunded >= v[p].refunded
  /\ u[p].refunded # v[p].refunded => v[p].state = "charged"

\* Whose step it was.
Framed ==
  \/ prov' = prov /\ Fulfils(db, db')
  \/ prov' = prov /\ \E p \in Attempts : Handles(db, db', p) \/ Creates(db, db', p)
  \/ db' = db /\ \E p \in Attempts : Supplies(prov, prov', p)

\* What is proved of each step.
Moved == MoneyInv' /\ Opens(db, db') /\ Started(db, db') /\ Framed

\* A handler of an attempt that exists, in one transaction or in its last one.
LEMMA HandlerStep ==
  ASSUME TypeOK, MoneyInv, NEW p \in Attempts, Keeps(db, db', prov, p),
         db.att[p].status # "none", prov' = prov,
         task' = task \/ \E t \in Threads : task' = [task EXCEPT ![t] = Idle]
  PROVE  Moved
<1>1. task \in [Threads -> Task]
  BY DEF TypeOK
<1>2. Money(db', prov, task)
  BY <1>1, MoneyKeeps DEF MoneyInv
<1>3. Money(db', prov, task')
  BY <1>1, <1>2, MoneyIdle
<1>4. Started(db, db')
  BY DEF Keeps, Moves, Started
<1>5. Framed
  BY DEF Keeps, Moves, Framed, Handles
<1> QED BY <1>3, <1>4, <1>5 DEF Moved, MoneyInv, Keeps

\* create_attempt and the replacement that retry_mpesa_prompt creates.
LEMMA CreateStep ==
  ASSUME TypeOK, MoneyInv, NEW p \in Attempts,
         CreateAttempt(p) \/ \E q \in Attempts : RetryPrompt(q, p)
  PROVE  Moved
<1>0. /\ task \in [Threads -> Task] /\ prov \in [Attempts -> ProviderRow]
      /\ prov' = prov /\ task' = task /\ db.att[p].status = "none"
      /\ Sound(db, prov) /\ Derived(db, prov)
  BY DEF TypeOK, MoneyInv, Money, CreateAttempt, RetryPrompt
<1>1. ASSUME NEW d, Money(d, prov, task), d.att[p].status = "none", Eligible(d),
             db' = Created(d, p), d.order.released = db.order.released,
             d.order.issued = db.order.issued,
             \A q \in Attempts \ {p} : /\ d.att[q].paid = db.att[q].paid
                                       /\ d.att[q].refunded = db.att[q].refunded
                                       /\ d.att[q].status = "none" <=> db.att[q].status = "none"
      PROVE  Moved
  <2>1. Sound(d, prov) /\ Derived(d, prov) /\ d.order.payment = "not_started"
    BY <1>1 DEF Money, Eligible
  <2>2. /\ Keeps(d, db', prov, p) /\ db'.order.released = d.order.released
        /\ \A q \in Attempts \ {p} : ~Open(db', q) /\ ~Funded(db', q) /\ db'.att[q] = d.att[q]
    BY <1>0, <1>1, <2>1, CreatedKeeps
  <2>3. Money(db', prov, task)
    BY <1>0, <1>1, <2>2, MoneyKeeps
  <2>4. Started(db, db')
    BY <1>1, <2>2 DEF Started
  <2>5. d \in Db /\ Open(db', p)
    <3>1. d \in Db
      BY <2>1 DEF Sound, DbInv
    <3>2. db'.att[p].status = "initiating"
      BY <1>1, <3>1 DEF Created, Db
    <3> QED BY <3>1, <3>2 DEF Open, OPEN
  <2>6. db'.order.issued = db.order.issued
    BY <1>1, <2>2 DEF Keeps, Moves
  <2>7. Creates(db, db', p)
    BY <1>0, <1>1, <2>2, <2>5, <2>6 DEF Creates
  <2> QED BY <1>0, <1>1, <2>2, <2>3, <2>4, <2>7 DEF Moved, MoneyInv, Opens, Framed
<1>2. CASE CreateAttempt(p)
  BY <1>0, <1>1, <1>2 DEF CreateAttempt, MoneyInv
<1>3. ASSUME NEW q \in Attempts, RetryPrompt(q, p) PROVE Moved
  <2> DEFINE d == Close(db, q, "expired")
  <2>1. Open(db, q) /\ p # q
    BY <1>0, <1>3 DEF RetryPrompt, CanExpire, Open, OPEN
  <2>2. /\ Keeps(db, d, prov, q) /\ d.order.released = db.order.released
        /\ d.att[q].status = "expired"
    BY <1>0, <2>1, CloseKeeps DEF CLOSED
  <2>3. Eligible(d) /\ db' = Created(d, p)
    BY <1>3 DEF RetryPrompt
  <2> HIDE DEF d
  <2>4. Money(d, prov, task)
    BY <1>0, <2>2, MoneyKeeps DEF MoneyInv
  <2>5. \A r \in Attempts \ {q} : d.att[r] = db.att[r]
    BY <2>2 DEF Keeps, Moves
  <2>6. db.att[q].status # "none"
    BY <2>1 DEF Open, OPEN
  <2>7. /\ d.order.issued = db.order.issued
        /\ d.att[q].paid = db.att[q].paid /\ d.att[q].refunded = db.att[q].refunded
    <3>1. /\ db.att[q] \in AttemptRow /\ Booked(db.att[q], db.ledger[q])
          /\ d.att[q] \in AttemptRow /\ Booked(d.att[q], d.ledger[q])
      BY <1>0, <2>2, SoundRows DEF Keeps, Sound, DbInv
    <3>2. db.att[q].status \notin SETTLED /\ d.att[q].status \notin SETTLED
      BY <2>1, <2>2, OpenNotSettled DEF Settled, SETTLED
    <3>3. ~db.att[q].paid /\ ~d.att[q].paid
      BY <3>1, <3>2 DEF Booked
    <3>4. db.att[q].refunded = 0 /\ d.att[q].refunded = 0
      BY <3>1, <3>3 DEF Booked
    <3>5. db.att[q].paid = FALSE /\ d.att[q].paid = FALSE
      BY <3>1, <3>3 DEF AttemptRow
    <3> QED BY <2>2, <3>4, <3>5 DEF Keeps, Moves
  <2>8. \A r \in Attempts \ {p} : /\ d.att[r].paid = db.att[r].paid
                                  /\ d.att[r].refunded = db.att[r].refunded
                                  /\ d.att[r].status = "none" <=> db.att[r].status = "none"
    <3>1. ASSUME NEW r \in Attempts \ {p}
          PROVE  /\ d.att[r].paid = db.att[r].paid /\ d.att[r].refunded = db.att[r].refunded
                 /\ (d.att[r].status = "none") <=> (db.att[r].status = "none")
      <4>1. CASE r = q
        <5>1. d.att[q].status # "none"
          BY <2>2
        <5> QED BY <2>6, <2>7, <4>1, <5>1
      <4>2. CASE r # q
        BY <2>5, <4>2
      <4> QED BY <4>1, <4>2
    <3> QED BY <3>1
  <2>9. d.att[p].status = "none"
    BY <1>0, <2>1, <2>5
  <2> QED BY <1>1, <2>2, <2>3, <2>4, <2>7, <2>8, <2>9
<1> QED BY <1>2, <1>3

\* reconcile, on request or by the worker, and the redelivery of a message.
LEMMA ReconcileStep ==
  ASSUME TypeOK, MoneyInv, NEW p \in Attempts,
         \/ CheckPayment(p)
         \/ \E o \in Observations(db, p) : WorkerPoll(p, o)
         \/ \E k \in Messages : RedeliverMessage(p, k)
  PROVE  Moved
<1>0. /\ prov \in [Attempts -> ProviderRow] /\ Books(p, prov[p])
      /\ Sound(db, prov) /\ Derived(db, prov)
  BY DEF TypeOK, MoneyInv, Money
<1>1. prov' = prov /\ task' = task
  BY DEF CheckPayment, WorkerPoll, RedeliverMessage
<1>2. CASE CheckPayment(p) \/ \E o \in Observations(db, p) : WorkerPoll(p, o)
  <2>1. PICK o \in Observations(db, p) : Acceptable(db, p, o) /\ db' = Reconcile(db, p, o)
    BY <1>2 DEF CheckPayment, WorkerPoll
  <2>2. db.att[p].status # "none"
    BY <1>2 DEF CheckPayment, WorkerPoll, Selected
  <2>3. Truthful(db, prov[p], p, o)
    BY <1>0, <2>1, ObservationTruthful
  <2>4. Keeps(db, db', prov, p)
    BY <1>0, <2>1, <2>2, <2>3, ReconcileKeeps
  <2> QED BY <1>1, <2>2, <2>4, HandlerStep
<1>3. ASSUME NEW k \in Messages, RedeliverMessage(p, k) PROVE Moved
  <2>1. PICK o \in Observations(db, p) : Acceptable(db, p, o) /\ db' = HandleMessage(db, p, k, o)
    BY <1>3 DEF RedeliverMessage
  <2>2. Truthful(db, prov[p], p, o)
    BY <1>0, <2>1, ObservationTruthful
  <2>3. Keeps(db, db', prov, p) /\ db.att[p].status # "none"
    BY <1>0, <1>3, <2>1, <2>2, HandleMessageKeeps DEF RedeliverMessage
  <2> QED BY <1>1, <2>3, HandlerStep
<1> QED BY <1>2, <1>3

\* The second transaction of a webhook.
LEMMA FinishMessageStep ==
  ASSUME TypeOK, MoneyInv, NEW t \in Threads, FinishMessage(t) PROVE Moved
<1> DEFINE p == task[t].pay
           k == task[t].arg
<1>0. /\ p \in Attempts /\ k \in Messages /\ prov' = prov /\ task' = [task EXCEPT ![t] = Idle]
  BY DEF TypeOK, FinishMessage, Task, Idle
<1>1. /\ prov \in [Attempts -> ProviderRow] /\ Books(p, prov[p])
      /\ Sound(db, prov) /\ Derived(db, prov) /\ TaskTrue(task[t], db, prov)
  BY <1>0 DEF TypeOK, MoneyInv, Money
<1>2. db.inbox[p][k] # "absent"
  BY <1>1 DEF TaskTrue, FinishMessage
<1>3. PICK o \in Observations(db, p) : Acceptable(db, p, o) /\ db' = HandleMessage(db, p, k, o)
  BY DEF FinishMessage
<1> HIDE DEF p, k
<1>4. Truthful(db, prov[p], p, o)
  BY <1>0, <1>1, <1>3, ObservationTruthful
<1>5. Keeps(db, db', prov, p) /\ db.att[p].status # "none"
  BY <1>0, <1>1, <1>2, <1>3, <1>4, HandleMessageKeeps
<1> QED BY <1>0, <1>5, HandlerStep

\* An administrator closes an attempt nobody was charged for.
LEMMA ReviewStep ==
  ASSUME TypeOK, MoneyInv, NEW p \in Attempts, NoPaymentReview(p) PROVE Moved
<1>1. Open(db, p) /\ db.att[p].status # "none"
  BY DEF NoPaymentReview, Open, OPEN
<1>2. Keeps(db, db', prov, p)
  BY <1>1, CloseKeeps DEF NoPaymentReview, CLOSED, MoneyInv, Money, TypeOK
<1> QED BY <1>1, <1>2, HandlerStep DEF NoPaymentReview

\* A process that dies.
LEMMA LoseStep ==
  ASSUME TypeOK, MoneyInv, NEW t \in Threads, LoseThread(t) PROVE Moved
<1>1. Money(db, prov, [task EXCEPT ![t] = Idle])
  BY MoneyIdle DEF TypeOK, MoneyInv
<1>2. db' = db /\ prov' = prov /\ Money(db', prov', task')
  BY <1>1 DEF LoseThread
<1> QED BY <1>2 DEF Moved, MoneyInv, Opens, Started, Framed, Fulfils

\* dispatch up to the call marks the attempt.
LEMMA BeginDispatchStep ==
  ASSUME TypeOK, MoneyInv, NEW t \in Threads, NEW p \in Attempts, BeginDispatch(t, p) PROVE Moved
<1> DEFINE a == [db.att[p] EXCEPT !.dispatched = TRUE, !.status = "unknown"]
           x == [op |-> "initiate", pay |-> p, arg |-> "sending"]
<1>0. /\ db \in Db /\ db.att[p] \in AttemptRow /\ Open(db, p) /\ Sound(db, prov)
      /\ Derived(db, prov) /\ task \in [Threads -> Task] /\ prov' = prov
      /\ task' = [task EXCEPT ![t] = x]
  BY SoundRows DEF TypeOK, MoneyInv, Money, BeginDispatch
<1>1. a \in AttemptRow /\ a.paid = db.att[p].paid /\ a.refunded = db.att[p].refunded
      /\ a.status \in OPEN /\ a.dispatched
  BY <1>0 DEF AttemptRow, OPEN
<1>2. db' = [db EXCEPT !.att[p] = a]
  BY <1>0 DEF BeginDispatch, Db
<1>3. db.att[p].status # "none"
  BY <1>0 DEF Open, OPEN
<1> HIDE DEF a
<1>4. Keeps(db, db', prov, p)
  BY <1>0, <1>1, <1>2, AttKeeps
<1>5. Money(db', prov, task)
  BY <1>0, <1>4, MoneyKeeps DEF MoneyInv
<1>6. x \in Task /\ x.op = "initiate" /\ x.pay = p
  BY DEF Task
<1>7. TaskTrue(x, db', prov)
  BY <1>3, <1>4, <1>6 DEF TaskTrue, Keeps, Moves
<1> HIDE DEF x
<1>8. Money(db', prov, task')
  BY <1>0, <1>5, <1>6, <1>7, MoneyTask
<1> QED BY <1>0, <1>3, <1>4, <1>8 DEF Moved, MoneyInv, Keeps, Moves, Started, Framed, Handles

\* dispatch after the call.
LEMMA EndDispatchStep ==
  ASSUME TypeOK, MoneyInv, NEW t \in Threads, EndDispatch(t) PROVE Moved
<1> DEFINE p == task[t].pay
           status == IF Open(db, p) THEN "pending" ELSE db.att[p].status
           a == [db.att[p] EXCEPT !.ref = TRUE, !.status = status]
<1>0. p \in Attempts /\ prov' = prov /\ task' = [task EXCEPT ![t] = Idle]
  BY DEF EndDispatch, TypeOK, Task, Idle
<1>1. /\ db \in Db /\ db.att[p] \in AttemptRow /\ Sound(db, prov) /\ Derived(db, prov)
      /\ TaskTrue(task[t], db, prov) /\ prov \in [Attempts -> ProviderRow]
  BY <1>0, SoundRows DEF TypeOK, MoneyInv, Money
<1>2. db.att[p].status # "none"
  BY <1>1 DEF TaskTrue, EndDispatch
<1>3. CASE task[t].arg = "rejected"
  <2>1. db' = IF Open(db, p) THEN Close(db, p, "failed") ELSE db
    BY <1>3 DEF EndDispatch
  <2> HIDE DEF p
  <2>2. Keeps(db, db', prov, p)
    BY <1>0, <1>1, <2>1, CloseKeeps, KeepsSelf DEF CLOSED
  <2> QED BY <1>0, <1>2, <2>2, HandlerStep
<1>4. CASE task[t].arg # "rejected"
  <2>1. db' = [db EXCEPT !.att[p] = a]
    BY <1>0, <1>1, <1>4 DEF EndDispatch, Db
  <2>2. /\ status \in {"none"} \cup OPEN \cup SETTLED \cup CLOSED
        /\ status = db.att[p].status \/ (status \in OPEN /\ Open(db, p))
    BY <1>1 DEF AttemptRow, OPEN
  <2> HIDE DEF p, status
  <2>3. a \in AttemptRow /\ a.paid = db.att[p].paid /\ a.refunded = db.att[p].refunded
        /\ a.status = status /\ a.dispatched = db.att[p].dispatched
    BY <1>1, <2>2 DEF AttemptRow
  <2> HIDE DEF a
  <2>4. Keeps(db, db', prov, p)
    BY <1>0, <1>1, <2>1, <2>2, <2>3, AttKeeps
  <2> QED BY <1>0, <1>2, <2>4, HandlerStep
<1> QED BY <1>3, <1>4

\* A message that a provider could send is of an attempt that exists.
LEMMA SendableExists ==
  ASSUME TypeOK, MoneyInv, NEW p \in Attempts, NEW k \in Messages, Sendable(p, k)
  PROVE  /\ db.att[p].status # "none"
         /\ k = "success" => prov[p].state = "charged"
         /\ k = "rev_done" => prov[p].refund = "succeeded"
         /\ k = "rev_failed" => prov[p].refund = "failed"
         /\ k = "rev_timeout" => p \in Mpesa
<1>0. /\ Real(p, db.att[p], db.inbox[p], prov[p]) /\ db.refund[p] \in RefundRow
      /\ RefundTrue(db.att[p], db.refund[p], db.order.released, prov[p])
      /\ Books(p, prov[p]) /\ Asked(db, prov, task, p)
  BY SoundRows DEF MoneyInv, Money
<1>1. k = "success" => prov[p].state = "charged"
  BY DEF Sendable
<1>2. k = "rev_done" => prov[p].refund = "succeeded"
  BY DEF Sendable
<1>3. k = "rev_failed" => prov[p].refund = "failed"
  BY DEF Sendable
<1>4. k = "rev_timeout" => p \in Mpesa /\ prov[p].refund # "none"
  BY DEF Sendable
<1>5. CASE k \in Reversals
  <2>1. prov[p].refund # "none"
    BY <1>2, <1>3, <1>4, <1>5 DEF Reversals
  <2>2. db.refund[p].status # "none"
    BY <1>0, <2>1 DEF Books, RefundTrue, FRESH
  <2>3. db.att[p].status \in SETTLED
    BY <1>0, <2>2 DEF RefundTrue
  <2> QED BY <1>1, <1>2, <1>3, <1>4, <2>3 DEF SETTLED
<1>6. CASE k \in Callbacks \cup {"session"}
  <2>1. prov[p].state # "none"
    BY <1>6 DEF Sendable, Callbacks, CLOSED
  <2> QED BY <1>0, <1>1, <1>2, <1>3, <1>4, <2>1 DEF Real
<1> QED BY <1>5, <1>6 DEF Messages

\* The first transaction of a webhook.
LEMMA ReceiveMessageStep ==
  ASSUME TypeOK, MoneyInv, NEW t \in Threads, NEW p \in Attempts, NEW k \in Messages,
         ReceiveMessage(t, p, k)
  PROVE  Moved
<1> DEFINE e == [db EXCEPT !.inbox[p][k] = "received"]
           ref == e.att[p].ref \/ k \notin Reversals
           a == [e.att[p] EXCEPT !.ref = ref]
           x == [op |-> "webhook", pay |-> p, arg |-> k]
<1>0. /\ db \in Db /\ Sound(db, prov) /\ Derived(db, prov) /\ task \in [Threads -> Task]
      /\ prov' = prov /\ task' = [task EXCEPT ![t] = x] /\ Sendable(p, k)
  BY DEF TypeOK, MoneyInv, Money, ReceiveMessage
<1>1. /\ db.att[p].status # "none"
      /\ k = "success" => prov[p].state = "charged"
      /\ k = "rev_done" => prov[p].refund = "succeeded"
      /\ k = "rev_failed" => prov[p].refund = "failed"
      /\ k = "rev_timeout" => p \in Mpesa
  BY <1>0, SendableExists
<1>2. /\ Keeps(db, e, prov, p) /\ e.att = db.att /\ e.inbox[p][k] = "received"
      /\ e.order = db.order
  BY <1>0, <1>1, ReceivedKeeps
<1>3. db' = [e EXCEPT !.att[p] = a]
  BY <1>0 DEF ReceiveMessage, Db
<1>4. ref \in BOOLEAN
  OBVIOUS
<1> HIDE DEF ref, e
<1>5. e.att[p] \in AttemptRow
  BY <1>2, SoundRows DEF Keeps
<1>6. /\ a \in AttemptRow /\ a.paid = e.att[p].paid /\ a.refunded = e.att[p].refunded
      /\ a.dispatched = e.att[p].dispatched /\ a.status = e.att[p].status
  BY <1>4, <1>5 DEF AttemptRow
<1> HIDE DEF a
<1>7. Keeps(e, db', prov, p)
  BY <1>2, <1>3, <1>6, AttKeeps DEF Keeps
<1>8. db'.order = e.order /\ db'.inbox = e.inbox
  <2>1. e \in Db
    BY <1>2, SoundRows DEF Keeps
  <2> QED BY <1>3, <2>1 DEF Db
<1>9. Keeps(db, db', prov, p)
  BY <1>2, <1>7, <1>8, KeepsTrans
<1>10. Money(db', prov, task)
  BY <1>0, <1>9, MoneyKeeps DEF MoneyInv
<1>11. x \in Task /\ x.op = "webhook" /\ x.pay = p /\ x.arg = k
  BY DEF Task
<1>12. TaskTrue(x, db', prov)
  BY <1>1, <1>2, <1>8, <1>9, <1>11 DEF TaskTrue, Keeps, Moves
<1> HIDE DEF x
<1>13. Money(db', prov, task')
  BY <1>0, <1>10, <1>11, <1>12, MoneyTask
<1> QED BY <1>0, <1>1, <1>9, <1>13 DEF Moved, MoneyInv, Keeps, Moves, Started, Framed, Handles

-----------------------------------------------------------------------------
(* Refunds *)

\* request_refund by the student, and its rejection.
LEMMA RequestStep ==
  ASSUME TypeOK, MoneyInv, NEW p \in Attempts, RequestRefund(p) \/ RejectRefund(p) PROVE Moved
<1>0. Sound(db, prov) /\ prov' = prov /\ task' = task
  BY DEF MoneyInv, Money, RequestRefund, RejectRefund
<1>1. db.att[p].status # "none"
  <2>1. RefundTrue(db.att[p], db.refund[p], db.order.released, prov[p])
    BY <1>0, SoundRows
  <2> QED BY <2>1 DEF RequestRefund, RejectRefund, Refundable, RefundTrue, SETTLED
<1>2. CASE RequestRefund(p)
  <2>1. Keeps(db, db', prov, p)
    <3>1. Asks(db, db', p, "requested", "refund_requested")
      BY <1>2 DEF RequestRefund, Asks
    <3> QED BY <1>0, <1>2, <3>1, RequestedKeeps DEF RequestRefund, FRESH
  <2> QED BY <1>0, <1>1, <2>1, HandlerStep
<1>3. CASE RejectRefund(p)
  <2>1. Keeps(db, db', prov, p)
    BY <1>0, <1>3, RejectedKeeps DEF RejectRefund
  <2> QED BY <1>0, <1>1, <2>1, HandlerStep
<1> QED BY <1>2, <1>3

\* request_refund by an administrator: the refund is approved, not yet sent.
LEMMA ApproveStep ==
  ASSUME TypeOK, MoneyInv, NEW t \in Threads, NEW p \in Attempts, ApproveRefund(t, p) PROVE Moved
<1> DEFINE x == [op |-> "approved", pay |-> p, arg |-> "none"]
<1>0. /\ Sound(db, prov) /\ Derived(db, prov) /\ task \in [Threads -> Task] /\ prov' = prov
      /\ task' = [task EXCEPT ![t] = x] /\ Refundable(db, p)
  BY DEF TypeOK, MoneyInv, Money, ApproveRefund
<1>1. db.att[p].status # "none" /\ ~db.order.issued
  BY <1>0 DEF Refundable
<1>2. Keeps(db, db', prov, p) /\ db'.refund[p].status \notin FRESH
  <2>1. CASE db.refund[p].status \in FRESH
    <3>1. Asks(db, db', p, "initiating", "refund_pending")
      BY <2>1 DEF ApproveRefund, Asks, FRESH
    <3>2. Keeps(db, db', prov, p) /\ db'.refund[p].status = "initiating"
      BY <1>0, <2>1, <3>1, RequestedKeeps
    <3> QED BY <3>1, <3>2 DEF FRESH
  <2>2. CASE db.refund[p].status \notin FRESH
    <3>1. db' = db
      BY <2>2 DEF ApproveRefund, FRESH
    <3> QED BY <1>0, <2>2, <3>1, KeepsSelf
  <2> QED BY <2>1, <2>2
<1>3. Money(db', prov, task)
  BY <1>0, <1>2, MoneyKeeps DEF MoneyInv
<1>4. x \in Task /\ x.op = "approved" /\ x.pay = p
  BY DEF Task
<1>5. TaskTrue(x, db', prov) /\ ~db'.order.issued
  BY <1>1, <1>2, <1>4 DEF TaskTrue, Keeps, Moves
<1> HIDE DEF x
<1>6. Money(db', prov, task')
  BY <1>0, <1>3, <1>4, <1>5, MoneyTask
<1> QED BY <1>0, <1>1, <1>2, <1>6 DEF Moved, MoneyInv, Keeps, Moves, Started, Framed, Handles

\* The first half of dispatch_refund: from here on the outcome is unknown.
LEMMA BeginRefundStep ==
  ASSUME TypeOK, MoneyInv, NEW t \in Threads, BeginRefund(t) PROVE Moved
<1> DEFINE p == task[t].pay
           r == [db.refund[p] EXCEPT !.dispatched = TRUE, !.status = "unknown"]
           x == [op |-> "refund", pay |-> p, arg |-> "sending"]
<1>0. /\ p \in Attempts /\ task[t].op = "approved" /\ prov' = prov /\ task \in [Threads -> Task]
  BY DEF BeginRefund, TypeOK, Task, Idle
<1>1. CASE db' = db /\ task' = [task EXCEPT ![t] = Idle]
  <2>1. Money(db', prov, task')
    BY <1>0, <1>1, MoneyIdle DEF MoneyInv
  <2> QED BY <1>0, <1>1, <2>1 DEF Moved, MoneyInv, Opens, Started, Framed, Fulfils
<1>2. CASE /\ Dispatchable(db, p) /\ task' = [task EXCEPT ![t] = x]
           /\ db' = [db EXCEPT !.refund[p].dispatched = TRUE, !.refund[p].status = "unknown"]
  <2>1. /\ db \in Db /\ DbInv(db) /\ db.refund[p] \in RefundRow /\ Sound(db, prov)
        /\ Real(p, db.att[p], db.inbox[p], prov[p]) /\ Derived(db, prov)
        /\ RefundTrue(db.att[p], db.refund[p], db.order.released, prov[p])
        /\ Asked(db, prov, task, p) /\ TaskTrue(task[t], db, prov) /\ Backed(db, prov, task)
    BY <1>0, SoundRows DEF MoneyInv, Money
  <2>2. db.att[p].status # "none" /\ db.refund[p].status \notin FRESH
    BY <1>0, <2>1 DEF TaskTrue
  <2>3. DbInv(db')
    BY <2>1, BeginRefundFollows DEF Follows
  <2>4. x \in Task /\ x.op = "refund" /\ x.pay = p /\ x.arg = "sending"
    BY <1>0 DEF Task
  <2> HIDE DEF x
  <2>5. task'[t] = x /\ \A u \in Threads \ {t} : task'[u] = task[u]
    BY <1>0, <1>2
  <2> HIDE DEF p
  <2>6. /\ db'.att = db.att /\ db'.inbox = db.inbox /\ db'.order = db.order
        /\ \A q \in Attempts \ {p} : db'.refund[q] = db.refund[q]
        /\ db'.refund[p].status = "unknown" /\ db'.refund[p].dispatched
        /\ db'.refund[p].ref = db.refund[p].ref
    BY <1>0, <1>2, <2>1 DEF Db, RefundRow
  <2>7. RefundTrue(db'.att[p], db'.refund[p], db'.order.released, prov[p])
    BY <2>1, <2>2, <2>6 DEF RefundTrue, FRESH
  <2>8. Sound(db', prov)
    BY <1>0, <2>1, <2>3, <2>6, <2>7, SoundSet DEF Sound, OrderOK
  <2>9. ~db.refund[p].ref
    BY <1>2, <2>1 DEF Dispatchable, RefundTrue, Asked
  <2>10. Derived(db', prov)
    <3>1. ~Contested(db, p) => db.refund[p].status = "succeeded"
      BY <1>2, <2>1, <2>2 DEF Dispatchable, RefundTrue, Contested, RefundLive
    <3>2. Funded(db, p) /\ db.order.payment \notin Blocked => Spent(prov[p]) /\ ~Single(p)
      <4>1. Funded(db, p) => db.refund[p].status # "succeeded"
        BY <2>1, AmountPositive DEF Funded, RefundTrue
      <4> QED BY <1>0, <2>1, <2>2, <3>1, <4>1 DEF Derived, Uncontested
    <3>3. \A q \in Attempts : Funded(db', q) = Funded(db, q) /\ Open(db', q) = Open(db, q)
      BY <2>6 DEF Funded, Open
    <3>4. Standing(db')
      BY <2>1, <2>6, <3>3 DEF Derived, Standing
    <3>5. \A q \in Attempts \ {p} : Contested(db', q) = Contested(db, q)
      BY <2>6 DEF Contested, RefundLive
    <3>6. ASSUME NEW q \in Attempts, db'.order.payment \notin Blocked, Funded(db', q)
          PROVE  /\ db'.refund[q].status \in FRESH \/ Spent(prov[q])
                 /\ Single(q) => ~Contested(db', q)
      <4>1. CASE q = p
        BY <2>6, <3>2, <3>3, <3>6, <4>1
      <4>2. CASE q # p
        BY <2>1, <2>6, <3>3, <3>5, <3>6, <4>2 DEF Derived, Uncontested
      <4> QED BY <4>1, <4>2
    <3> QED BY <3>4, <3>6 DEF Derived, Uncontested
  <2>11. ASSUME NEW u \in Threads, NEW q \in Attempts, Refunding(task', u, q), u # t \/ q # p
         PROVE  u # t /\ Refunding(task, u, q) /\ task'[u] = task[u]
    BY <2>4, <2>5, <2>11 DEF Refunding
  <2>12. ASSUME NEW q \in Attempts PROVE Books(q, prov[q]) /\ Asked(db', prov, task', q)
    <3>0. Books(q, prov[q]) /\ Asked(db, prov, task, q)
      BY DEF MoneyInv, Money
    <3>1. CASE q # p
      BY <2>6, <2>11, <3>0, <3>1 DEF Asked
    <3>2. CASE q = p
      <4>1. p \in Mpesa => ~db.refund[p].dispatched
        BY <1>2, ProvidersDisjoint DEF Dispatchable
      <4>2. p \in Mpesa => \A u \in Threads : Refunding(task', u, p) => u = t
        <5>1. ASSUME NEW u \in Threads, Refunding(task, u, p) PROVE db.refund[p].dispatched
          BY <5>1 DEF MoneyInv, Money, TaskTrue, Refunding
        <5> QED BY <1>0, <2>11, <4>1, <5>1
      <4>3. Single(p) => \A u, w \in Threads : Refunding(task', u, p) /\ Refunding(task', w, p) => u = w
        BY <4>2 DEF Single
      <4>4. p \in Mpesa => prov[p].reply = "none"
        BY <3>0, <3>2, <4>1 DEF Asked
      <4> QED BY <2>6, <2>9, <3>0, <3>2, <4>3, <4>4 DEF Asked
    <3> QED BY <3>1, <3>2
  <2>13. ASSUME NEW u \in Threads PROVE TaskTrue(task'[u], db', prov)
    <3>1. CASE u = t
      BY <2>2, <2>4, <2>5, <2>6, <3>1 DEF TaskTrue, FRESH
    <3>2. CASE u # t
      <4>1. TaskTrue(task[u], db, prov) /\ task'[u] = task[u] /\ task[u] \in Task
        BY <1>0, <2>5, <3>2 DEF MoneyInv, Money
      <4>2. CASE task[u].op = "idle"
        BY <4>1, <4>2 DEF TaskTrue
      <4>3. CASE task[u].op # "idle" /\ task[u].pay = p
        BY <2>6, <4>1, <4>3 DEF TaskTrue, FRESH
      <4>4. CASE task[u].op # "idle" /\ task[u].pay # p
        <5>1. task[u].pay \in Attempts
          BY <4>1, <4>4 DEF Task, Idle
        <5>2. db'.refund[task[u].pay] = db.refund[task[u].pay]
          BY <2>6, <4>4, <5>1
        <5> QED BY <2>6, <4>1, <5>2 DEF TaskTrue
      <4> QED BY <4>2, <4>3, <4>4
    <3> QED BY <3>1, <3>2
  <2>14. Backed(db', prov, task')
    <3>1. ASSUME NEW q \in Attempts, Stays(prov, task, q) PROVE Stays(prov, task', q)
      <4>1. CASE Spent(prov[q])
        BY <3>1, <4>1 DEF Stays
      <4>2. CASE ~Spent(prov[q])
        <5>1. q # p
          BY <1>0, <3>1, <4>2 DEF Stays, p
        <5> QED BY <2>4, <2>5, <3>1, <4>2, <5>1 DEF Stays
      <4> QED BY <4>1, <4>2
    <3> QED BY <2>1, <2>6, <3>1 DEF Backed
  <2>15. Money(db', prov, task')
    BY <2>8, <2>10, <2>12, <2>13, <2>14 DEF Money
  <2> QED BY <1>0, <2>6, <2>15 DEF Moved, MoneyInv, Opens, Started, Framed, Fulfils
<1> QED BY <1>0, <1>1, <1>2 DEF BeginRefund

\* The second half of dispatch_refund: the answer is written to the rows.
LEMMA EndRefundStep ==
  ASSUME TypeOK, MoneyInv, NEW t \in Threads, EndRefund(t) PROVE Moved
<1> DEFINE p == task[t].pay
           reply == task[t].arg
           x == IF reply # "rejected" /\ p \in Mpesa
                THEN [op |-> "early", pay |-> p, arg |-> "none"] ELSE Idle
           r == [db.refund[p] EXCEPT !.ref = TRUE]
           c == [db EXCEPT !.refund[p] = r]
<1>0. /\ p \in Attempts /\ task[t].op = "refund" /\ prov' = prov /\ task \in [Threads -> Task]
      /\ reply \in {"pending", "succeeded", "rejected"} /\ task' = [task EXCEPT ![t] = x]
      /\ prov \in [Attempts -> ProviderRow] /\ reply # "sending"
  BY TaskType DEF EndRefund, TypeOK
<1>1. /\ db \in Db /\ DbInv(db) /\ db.refund[p] \in RefundRow /\ Sound(db, prov)
      /\ RefundTrue(db.att[p], db.refund[p], db.order.released, prov[p])
      /\ Derived(db, prov) /\ TaskTrue(task[t], db, prov)
      /\ Asked(db, prov, task, p) /\ Books(p, prov[p])
  BY <1>0, SoundRows DEF MoneyInv, Money
<1>2. /\ db.att[p].status # "none" /\ db.refund[p].status \notin FRESH
      /\ db.refund[p].dispatched /\ prov[p].reply = reply /\ db.order.released
  BY <1>0, <1>1 DEF TaskTrue, RefundTrue, FRESH
<1>3. x \in Task /\ x.op \notin {"refund", "approved", "webhook"} /\ (x.op # "idle" => x.pay = p)
  BY <1>0 DEF Task, Idle
<1>r. db' = IF reply = "rejected" THEN FinishRefund(db, p, "failed")
            ELSE FinishRefund([db EXCEPT !.refund[p].ref = TRUE], p, reply)
  BY DEF EndRefund
<1>q. Refunding(task, t, p)
  BY <1>0 DEF Refunding
<1> HIDE DEF x, p, reply
<1>4. Money(db, prov, task')
  BY <1>0, <1>2, <1>3, MoneyTask DEF TaskTrue, MoneyInv
<1>5. task' \in [Threads -> Task] /\ task'[t] = x /\ \A u \in Threads \ {t} : task'[u] = task[u]
  BY <1>0, <1>3
<1>6. Single(p) => \A u \in Threads : ~Refunding(task', u, p)
  <2>1. ASSUME NEW u \in Threads, Refunding(task', u, p), Single(p) PROVE u = t
    BY <1>1, <1>5, <1>q, <2>1 DEF Asked, Refunding
  <2> QED BY <1>3, <1>5, <2>1 DEF Refunding
<1>7. CASE reply = "rejected"
  <2> DEFINE e == FailRefund(db, p)
  <2>1. CASE db.refund[p].status = "succeeded"
    <3>1. db' = db
      BY <1>7, <1>r, <2>1 DEF FinishRefund
    <3> QED BY <1>0, <1>4, <3>1 DEF Moved, MoneyInv, Opens, Started, Framed, Fulfils
  <2>2. CASE db.refund[p].status # "succeeded"
    <3>1. Spent(prov[p])
      BY <1>1, <1>2, <1>7 DEF Books, Spent
    <3>2. db' = e
      BY <1>7, <1>r, <2>2 DEF FinishRefund, FailRefund, RefundSetTo
    <3>3. Sound(e, prov) /\ Derived(e, prov) /\ Failed(db, e, p)
      BY <1>0, <1>1, <1>2, <3>1, RefundFailed
    <3> HIDE DEF e
    <3>4. Writes(db, e, p)
      BY <3>3 DEF Writes, Failed, FRESH
    <3>5. Money(e, prov, task')
      BY <1>0, <1>4, <1>5, <1>6, <3>3, <3>4, MoneyRows
    <3> QED BY <1>0, <3>2, <3>3, <3>5 DEF Moved, MoneyInv, Opens, Started, Framed, Fulfils, Failed
  <2> QED BY <2>1, <2>2
<1>8. CASE reply # "rejected"
  <2> DEFINE e == FinishRefund(c, p, reply)
  <2>1. /\ r \in RefundRow /\ r.ref /\ r.dispatched = db.refund[p].dispatched
        /\ r.status = db.refund[p].status
    BY <1>1 DEF RefundRow
  <2>2. DbInv(c)
    BY <1>0, <1>1, <2>1, RefundSet DEF Follows
  <2>3. [db EXCEPT !.refund[p].ref = TRUE] = c
    BY <1>0, <1>1 DEF Db
  <2>4. /\ c.att = db.att /\ c.order = db.order /\ c.inbox = db.inbox /\ c.refund[p] = r
        /\ \A q \in Attempts \ {p} : c.refund[q] = db.refund[q]
    BY <1>0, <1>1 DEF Db
  <2>5. db' = e
    BY <1>8, <1>r, <2>3
  <2> HIDE DEF c, r
  <2>6. RefundTrue(c.att[p], c.refund[p], c.order.released, prov[p])
    BY <1>1, <1>2, <2>1, <2>4 DEF RefundTrue
  <2>7. Sound(c, prov)
    <3>1. Real(p, c.att[p], c.inbox[p], prov[p])
      BY <1>0, <1>1, <2>4, SoundRows
    <3> QED BY <1>0, <1>1, <2>2, <2>4, <2>6, <3>1, SoundSet DEF Sound, OrderOK
  <2>8. Calm(db, c)
    BY <2>1, <2>4 DEF Calm, Contested, RefundLive
  <2>9. Derived(c, prov)
    BY <1>1, <2>8, CalmDerived
  <2>10. reply = "succeeded" => prov[p].refunded = Amount
    BY <1>1, <1>2 DEF Books
  <2>11. reply = "pending" /\ c.refund[p].status # "succeeded" /\ Single(p) => Contested(c, p)
    BY <1>1, <1>q, <2>1, <2>4 DEF Asked, Contested, RefundLive
  <2>12. Keeps(c, e, prov, p) /\ e.refund[p].status # "unknown"
    BY <1>0, <1>8, <2>1, <2>4, <2>7, <2>9, <2>10, <2>11, FinishRefundKeeps
  <2> HIDE DEF e
  <2>13. Money(e, prov, task')
    <3>1. Writes(db, e, p)
      BY <2>1, <2>4, <2>12 DEF Keeps, Moves, Writes
    <3> QED BY <1>0, <1>4, <1>5, <1>6, <2>12, <3>1, MoneyRows DEF Keeps
  <2>14. Opens(db, db') /\ Started(db, db')
    BY <1>2, <2>4, <2>5, <2>12 DEF Keeps, Moves, Opens, Started
  <2>15. Handles(db, db', p)
    BY <1>2, <2>4, <2>5, <2>12 DEF Keeps, Moves, Handles
  <2> QED BY <1>0, <2>5, <2>13, <2>14, <2>15 DEF Moved, MoneyInv, Framed
<1> QED BY <1>7, <1>8

\* Results that overtook the acknowledgement of the request.
LEMMA ConsumeEarlyStep ==
  ASSUME TypeOK, MoneyInv, NEW t \in Threads, ConsumeEarly(t) PROVE Moved
<1> DEFINE p == task[t].pay
           done == ConsumeReversal(db, p, "rev_done")
           failed == ConsumeReversal(done, p, "rev_failed")
           last == ConsumeReversal(failed, p, "rev_timeout")
<1>0. /\ p \in Attempts /\ task[t].op = "early" /\ prov' = prov
      /\ task' = [task EXCEPT ![t] = Idle] /\ db' = last
  BY DEF ConsumeEarly, TypeOK, Task, Idle
<1>1. /\ Sound(db, prov) /\ Derived(db, prov) /\ TaskTrue(task[t], db, prov)
      /\ Books(p, prov[p]) /\ prov \in [Attempts -> ProviderRow]
      /\ RefundTrue(db.att[p], db.refund[p], db.order.released, prov[p])
  BY <1>0, SoundRows DEF MoneyInv, Money, TypeOK
<1>2. db.att[p].status # "none" /\ db.order.released
  BY <1>0, <1>1 DEF TaskTrue, RefundTrue, FRESH
<1> HIDE DEF p
<1>3. Keeps(db, done, prov, p)
  BY <1>0, <1>1, ConsumeReversalKeeps DEF Reversals
<1> HIDE DEF done
<1>4. Keeps(done, failed, prov, p)
  BY <1>0, <1>1, <1>3, ConsumeReversalKeeps DEF Reversals, Keeps
<1> HIDE DEF failed
<1>5. Keeps(failed, last, prov, p)
  BY <1>0, <1>1, <1>4, ConsumeReversalKeeps DEF Reversals, Keeps
<1> HIDE DEF last
<1>6. Keeps(db, failed, prov, p)
  BY <1>2, <1>3, <1>4, KeepsTrans
<1>7. Keeps(db, last, prov, p)
  BY <1>2, <1>5, <1>6, KeepsTrans
<1> QED BY <1>0, <1>2, <1>7, HandlerStep

-----------------------------------------------------------------------------
(* The providers *)

\* The provider answers a refund request: now, or as it did before.
LEMMA MoneyAnswer ==
  ASSUME NEW d, NEW v \in [Attempts -> ProviderRow], NEW u \in [Attempts -> ProviderRow],
         NEW k \in [Threads -> Task], Money(d, v, k), NEW t \in Threads, NEW p \in Attempts,
         Refunding(k, t, p), k[t].arg = "sending",
         NEW x \in Task, x.op = "refund", x.pay = p, x.arg # "sending", u[p].reply = x.arg,
         \A q \in Attempts \ {p} : u[q] = v[q],
         \/ u[p] = v[p]
         \/ /\ v[p].reply = "none" /\ Books(p, u[p])
            /\ u[p].state = v[p].state /\ u[p].refunded >= v[p].refunded
  PROVE  Money(d, u, [k EXCEPT ![t] = x])
<1> DEFINE j == [k EXCEPT ![t] = x]
<1>1. j[t] = x /\ \A s \in Threads \ {t} : j[s] = k[s]
  OBVIOUS
<1> HIDE DEF j
<1>2. /\ Real(p, d.att[p], d.inbox[p], v[p]) /\ d.att[p] \in AttemptRow
      /\ RefundTrue(d.att[p], d.refund[p], d.order.released, v[p])
      /\ Books(p, v[p]) /\ Asked(d, v, k, p) /\ TaskTrue(k[t], d, v)
  BY SoundRows DEF Money
<1>3. d.refund[p].dispatched /\ d.refund[p].status \notin FRESH /\ d.att[p].status # "none"
  BY <1>2 DEF TaskTrue, Refunding
<1>4. ASSUME u[p] # v[p]
      PROVE  v[p].reply = "none" /\ v[p].refund = "none" /\ ~Spent(v[p])
  BY <1>2, <1>4 DEF Books, Spent
<1>5. ASSUME NEW s \in Threads, NEW q \in Attempts
      PROVE  /\ Refunding(j, s, q) = Refunding(k, s, q)
             /\ j[s].arg = "sending" => s # t /\ k[s].arg = "sending"
  BY <1>1 DEF Refunding
<1>6. /\ Real(p, d.att[p], d.inbox[p], u[p])
      /\ RefundTrue(d.att[p], d.refund[p], d.order.released, u[p])
  <2>1. CASE u[p] = v[p]
    BY <1>2, <2>1
  <2>2. CASE u[p] # v[p]
    <3>1. d.att[p].refunded <= u[p].refunded
      <4>1. d.att[p].refunded \in Nat /\ u[p].refunded \in Nat /\ v[p].refunded \in Nat
        BY <1>2, AmountPositive DEF AttemptRow, ProviderRow
      <4> QED BY <1>2, <2>2, <4>1 DEF Real
    <3>2. Real(p, d.att[p], d.inbox[p], u[p])
      BY <1>2, <1>4, <2>2, <3>1 DEF Real
    <3> QED BY <1>2, <1>3, <1>4, <2>2, <3>2 DEF RefundTrue
  <2> QED BY <2>1, <2>2
<1>7. Sound(d, u)
  <2>1. ASSUME NEW q \in Attempts
        PROVE  /\ Real(q, d.att[q], d.inbox[q], u[q])
               /\ RefundTrue(d.att[q], d.refund[q], d.order.released, u[q])
    BY <1>6, SoundRows DEF Money
  <2> QED BY <2>1 DEF Money, Sound
<1>8. Derived(d, u)
  <2>1. ASSUME NEW q \in Attempts, d.order.payment \notin Blocked, Funded(d, q)
        PROVE  d.refund[q].status \in FRESH \/ Spent(u[q])
    <3>1. d.refund[q].status \in FRESH \/ Spent(v[q])
      BY <2>1 DEF Money, Derived, Uncontested
    <3> QED BY <1>3, <1>4, <3>1
  <2> QED BY <2>1 DEF Money, Derived, Uncontested
<1>9. ASSUME NEW q \in Attempts PROVE Books(q, u[q]) /\ Asked(d, u, j, q)
  <2>1. Books(q, v[q]) /\ Asked(d, v, k, q)
    BY DEF Money
  <2>2. CASE q = p
    <3>1. p \in Mpesa => \A s \in Threads : Refunding(j, s, p) => s = t
      BY <1>2, <1>5 DEF Asked, Single
    <3> QED BY <1>2, <1>3, <1>5, <2>1, <2>2, <3>1 DEF Asked
  <2>3. CASE q # p
    BY <1>5, <2>1, <2>3 DEF Asked
  <2> QED BY <2>2, <2>3
<1>10. ASSUME NEW s \in Threads PROVE TaskTrue(j[s], d, u)
  <2>1. CASE s = t
    BY <1>1, <1>3, <2>1 DEF TaskTrue
  <2>2. CASE s # t
    <3>1. TaskTrue(k[s], d, v) /\ k[s] \in Task /\ j[s] = k[s]
      BY <1>1, <2>2 DEF Money
    <3>2. CASE k[s].op # "refund"
      BY <3>1, <3>2 DEF TaskTrue
    <3>3. CASE k[s].op = "refund"
      <4>1. k[s].pay \in Attempts /\ k[s].arg # "none"
        BY <3>1, <3>3 DEF Task, Idle
      <4>2. k[s].arg # "sending" => u[k[s].pay].reply = k[s].arg
        BY <1>4, <3>1, <3>3, <4>1 DEF TaskTrue
      <4> QED BY <3>1, <3>3, <4>2 DEF TaskTrue
    <3> QED BY <3>2, <3>3
  <2> QED BY <2>1, <2>2
<1>11. Backed(d, u, j)
  <2>1. ASSUME NEW q \in Attempts, Stays(v, k, q) PROVE Stays(u, j, q)
    <3>1. CASE q = p
      <4>1. Spent(v[p])
        BY <2>1, <3>1 DEF Stays, Refunding
      <4> QED BY <1>4, <2>1, <3>1, <4>1 DEF Stays
    <3>2. CASE q # p
      BY <1>1, <2>1, <3>2 DEF Stays
    <3> QED BY <3>1, <3>2
  <2> QED BY <2>1 DEF Money, Backed
<1> QED BY <1>7, <1>8, <1>9, <1>10, <1>11 DEF Money, j

\* A refund that was sent is of a charge.
LEMMA SentIsCharged ==
  ASSUME NEW d, NEW v, NEW k \in [Threads -> Task], Money(d, v, k), NEW t \in Threads,
         NEW p \in Attempts, Refunding(k, t, p)
  PROVE  v[p].state = "charged"
<1>1. TaskTrue(k[t], d, v) /\ Real(p, d.att[p], d.inbox[p], v[p])
      /\ RefundTrue(d.att[p], d.refund[p], d.order.released, v[p])
  BY SoundRows DEF Money
<1>2. d.refund[p].status \notin FRESH
  BY <1>1 DEF TaskTrue, Refunding
<1> QED BY <1>1, <1>2 DEF RefundTrue, Real, FRESH

\* Likewise one that the provider has under way.
LEMMA ProcessingIsCharged ==
  ASSUME NEW d, NEW v, NEW k, Money(d, v, k), NEW p \in Attempts, v[p].refund = "processing"
  PROVE  v[p].state = "charged"
<1>1. Books(p, v[p]) /\ Real(p, d.att[p], d.inbox[p], v[p])
      /\ RefundTrue(d.att[p], d.refund[p], d.order.released, v[p])
  BY SoundRows DEF Money
<1>2. d.refund[p].status \notin FRESH
  BY <1>1 DEF Books, RefundTrue
<1> QED BY <1>1, <1>2 DEF RefundTrue, Real, FRESH

\* gateway.refund
LEMMA GatewayRefundStep ==
  ASSUME TypeOK, MoneyInv, NEW t \in Threads, GatewayRefund(t) PROVE Moved
<1> DEFINE p == task[t].pay
           known == p \in Stripe /\ prov[p].reply # "none"
<1>0. /\ p \in Attempts /\ task[t].op = "refund" /\ task[t].arg = "sending" /\ db' = db
      /\ task \in [Threads -> Task] /\ prov \in [Attempts -> ProviderRow]
      /\ prov[p] \in ProviderRow
  BY TaskType DEF GatewayRefund, TypeOK
<1>1. PICK reply : /\ reply \in IF known THEN {prov[p].reply} ELSE {"pending", "succeeded", "rejected"}
                   /\ task' = [task EXCEPT ![t].arg = reply]
                   /\ prov' = IF known THEN prov
                     ELSE [prov EXCEPT
                       ![p].reply     = reply,
                       ![p].reversals = IF reply # "rejected" /\ @ < 2 THEN @ + 1 ELSE @,
                       ![p].refund    = CASE reply = "succeeded" -> "succeeded"
                                          [] reply = "pending"   -> "processing"
                                          [] reply = "rejected"  -> @,
                       ![p].refunded  = IF reply = "succeeded" THEN Amount ELSE @]
  BY DEF GatewayRefund
<1>2. reply \in {"pending", "succeeded", "rejected"}
  BY <1>0, <1>1 DEF ProviderRow
<1> DEFINE x == [task[t] EXCEPT !.arg = reply]
<1>3. /\ x \in Task /\ x.op = "refund" /\ x.pay = p /\ x.arg = reply
      /\ task' = [task EXCEPT ![t] = x]
  BY <1>0, <1>1, <1>2, TaskType DEF Task
<1>4. Refunding(task, t, p) /\ Money(db, prov, task) /\ Asked(db, prov, task, p) /\ Books(p, prov[p])
  BY <1>0 DEF Refunding, MoneyInv, Money
<1> HIDE DEF p, x
<1>5. CASE known
  <2>1. prov' = prov /\ prov[p].reply = reply
    BY <1>1, <1>5
  <2> HIDE DEF known
  <2>2. Money(db, prov, task')
    BY <1>0, <1>2, <1>3, <1>4, <2>1, MoneyAnswer
  <2> QED BY <1>0, <2>1, <2>2 DEF Moved, MoneyInv, Opens, Started, Framed, Fulfils
<1>6. CASE ~known
  <2>1. prov[p].reply = "none"
    BY <1>0, <1>4, <1>6 DEF Asked, Attempts
  <2> HIDE DEF known
  <2>2. prov[p].refund = "none"
    BY <1>4, <2>1 DEF Books
  <2>3. PICK w \in ProviderRow :
          /\ prov' = [prov EXCEPT ![p] = w]
          /\ w.reply = reply /\ w.state = prov[p].state /\ w.sent = prov[p].sent
          /\ w.refunded = IF reply = "succeeded" THEN Amount ELSE prov[p].refunded
          /\ w.refund = CASE reply = "succeeded" -> "succeeded"
                          [] reply = "pending"   -> "processing"
                          [] reply = "rejected"  -> "none"
    <3> DEFINE n == IF reply # "rejected" /\ prov[p].reversals < 2
                    THEN prov[p].reversals + 1 ELSE prov[p].reversals
               f == CASE reply = "succeeded" -> "succeeded"
                      [] reply = "pending"   -> "processing"
                      [] reply = "rejected"  -> prov[p].refund
               m == IF reply = "succeeded" THEN Amount ELSE prov[p].refunded
               w == [prov[p] EXCEPT !.reply = reply, !.reversals = n, !.refund = f, !.refunded = m]
    <3>1. n \in 0..2
      BY <1>0 DEF ProviderRow
    <3>2. f \in {"none", "processing", "succeeded", "failed"}
      BY <1>0, <1>2 DEF ProviderRow
    <3>3. m \in 0..Amount
      BY <1>0, AmountPositive DEF ProviderRow
    <3>4. prov' = [prov EXCEPT ![p] = w]
      BY <1>0, <1>1, <1>6
    <3>5. f = CASE reply = "succeeded" -> "succeeded"
                [] reply = "pending"   -> "processing"
                [] reply = "rejected"  -> "none"
      BY <2>2
    <3> HIDE DEF n, f
    <3>6. /\ w.reply = reply /\ w.state = prov[p].state /\ w.sent = prov[p].sent
          /\ w.refunded = m /\ w.refund = f
      BY <1>0 DEF ProviderRow
    <3>7. w \in ProviderRow
      BY <1>0, <1>2, <3>1, <3>2, <3>3 DEF ProviderRow
    <3> QED BY <3>4, <3>5, <3>6, <3>7
  <2>4. /\ prov' \in [Attempts -> ProviderRow] /\ prov'[p] = w
        /\ \A q \in Attempts \ {p} : prov'[q] = prov[q]
    BY <1>0, <2>3
  <2>5. Books(p, w)
    BY <1>2, <1>4, <2>3 DEF Books
  <2>6. w.refunded >= prov[p].refunded
    BY <1>0, <2>3, AmountPositive DEF ProviderRow
  <2>7. Money(db, prov', task')
    BY <1>0, <1>2, <1>3, <1>4, <2>1, <2>3, <2>4, <2>5, <2>6, MoneyAnswer
  <2>8. Supplies(prov, prov', p)
    <3>1. prov[p].state = "charged"
      BY <1>0, <1>4, SentIsCharged DEF Refunding
    <3> QED BY <2>3, <2>4, <2>6, <3>1 DEF Supplies
  <2> QED BY <1>0, <2>7, <2>8 DEF Moved, MoneyInv, Opens, Started, Framed
<1> QED BY <1>5, <1>6

\* gateway.initiate: a customer who was charged is not asked again.
LEMMA GatewayInitiateStep ==
  ASSUME TypeOK, PromptInv, MoneyInv, NEW t \in Threads, GatewayInitiate(t) PROVE Moved
<1> DEFINE p == task[t].pay
<1>0. /\ p \in Attempts /\ task[t].op = "initiate" /\ task[t].arg = "sending" /\ db' = db
      /\ task \in [Threads -> Task] /\ prov \in [Attempts -> ProviderRow]
      /\ prov[p] \in ProviderRow
  BY TaskType DEF GatewayInitiate, TypeOK
<1>1. /\ Books(p, prov[p]) /\ TaskTrue(task[t], db, prov) /\ Money(db, prov, task)
      /\ db.att[p].status # "none"
  BY <1>0 DEF MoneyInv, Money, TaskTrue
<1>2. PICK x \in Task : /\ task' = [task EXCEPT ![t] = x] /\ x.op = "initiate" /\ x.pay = p
  <2> DEFINE ok == [task[t] EXCEPT !.arg = "ok"]
             no == [task[t] EXCEPT !.arg = "rejected"]
  <2>1. /\ ok \in Task /\ ok.op = "initiate" /\ ok.pay = p
        /\ no \in Task /\ no.op = "initiate" /\ no.pay = p
    BY <1>0, TaskType DEF Task
  <2>2. task' = [task EXCEPT ![t] = ok] \/ task' = [task EXCEPT ![t] = no]
    BY <1>0 DEF GatewayInitiate
  <2> QED BY <2>1, <2>2
<1>3. TaskTrue(x, db, prov)
  BY <1>1, <1>2 DEF TaskTrue
<1>4. Money(db, prov, task') /\ task' \in [Threads -> Task]
  BY <1>0, <1>1, <1>2, <1>3, MoneyTask
<1> HIDE DEF p
<1>5. CASE prov' = prov
  BY <1>0, <1>4, <1>5 DEF Moved, MoneyInv, Opens, Started, Framed, Fulfils
<1>6. ASSUME NEW w \in ProviderRow, prov' = [prov EXCEPT ![p] = w],
             prov[p].state \in {"none", "refused"},
             w.state = "refused" \/ (w.state = "open" /\ w.sent # 0),
             w.refunded = prov[p].refunded, w.refund = prov[p].refund, w.reply = prov[p].reply
      PROVE  Moved
  <2>1. Books(p, w)
    BY <1>1, <1>6 DEF Books
  <2>2. w.refunded >= prov[p].refunded
    BY <1>0, <1>6, AmountPositive DEF ProviderRow
  <2>3. Money(db, prov', task')
    BY <1>0, <1>1, <1>4, <1>6, <2>1, <2>2, MoneyProvider
  <2>4. Supplies(prov, prov', p)
    BY <1>0, <1>6, <2>2 DEF Supplies
  <2> QED BY <1>0, <2>3, <2>4 DEF Moved, MoneyInv, Opens, Started, Framed
<1> DEFINE n == IF prov[p].sent < 2 THEN prov[p].sent + 1 ELSE prov[p].sent
           taken == [prov[p] EXCEPT !.state = "open", !.sent = n]
           refused == [prov[p] EXCEPT !.state = "refused"]
           Known == p \in Stripe /\ prov[p].state # "none"
<1>7. \/ prov' = prov
      \/ ~Known /\ prov' = [prov EXCEPT ![p] = taken]
      \/ prov[p].state \in {"none", "refused"} /\ prov' = [prov EXCEPT ![p] = refused]
  BY <1>0 DEF GatewayInitiate, p
<1>8. CASE ~Known /\ prov' = [prov EXCEPT ![p] = taken]
  <2>1. prov[p].state \in {"none", "refused"}
    <3>1. CASE p \in Stripe
      BY <1>8, <3>1
    <3>2. CASE p \in Mpesa
      <4>1. Sending(t, "initiate", p)
        BY <1>0 DEF Sending, p
      <4>2. prov[p].sent = 0
        BY <3>2, <4>1 DEF PromptInv, OnceOnly
      <4> QED BY <1>1, <3>2, <4>2 DEF Books
    <3> QED BY <1>0, <3>1, <3>2 DEF Attempts
  <2>2. n \in 0..2 /\ n # 0
    BY <1>0 DEF ProviderRow
  <2> HIDE DEF n
  <2>3. /\ taken \in ProviderRow /\ taken.state = "open" /\ taken.sent = n
        /\ taken.refunded = prov[p].refunded /\ taken.refund = prov[p].refund
        /\ taken.reply = prov[p].reply
    BY <1>0, <2>2 DEF ProviderRow
  <2> HIDE DEF taken
  <2> QED BY <1>6, <1>8, <2>1, <2>2, <2>3
<1>9. CASE prov[p].state \in {"none", "refused"} /\ prov' = [prov EXCEPT ![p] = refused]
  <2>1. /\ refused \in ProviderRow /\ refused.state = "refused"
        /\ refused.refunded = prov[p].refunded /\ refused.refund = prov[p].refund
        /\ refused.reply = prov[p].reply
    BY <1>0 DEF ProviderRow
  <2> HIDE DEF refused
  <2> QED BY <1>6, <1>9, <2>1
<1> QED BY <1>5, <1>7, <1>8, <1>9

\* What a provider does of its own accord.
LEMMA ProviderStep ==
  ASSUME TypeOK, MoneyInv, NEW p \in Attempts,
         ProviderCharges(p) \/ ProviderGivesUp(p) \/ ProviderRefunds(p)
           \/ DashboardRefund(p) \/ Dispute(p)
  PROVE  Moved
<1>0. /\ db' = db /\ task' = task /\ prov \in [Attempts -> ProviderRow]
      /\ prov[p] \in ProviderRow /\ task \in [Threads -> Task]
      /\ Books(p, prov[p]) /\ Money(db, prov, task)
      /\ Real(p, db.att[p], db.inbox[p], prov[p])
  BY SoundRows DEF TypeOK, MoneyInv, Money, ProviderCharges, ProviderGivesUp, ProviderRefunds,
                   DashboardRefund, Dispute
<1>1. ASSUME NEW w \in ProviderRow, prov' = [prov EXCEPT ![p] = w], Books(p, w),
             prov[p].state = "charged" => w.state = "charged", w.refunded >= prov[p].refunded,
             prov[p].refund # "processing" => w.refund = prov[p].refund,
             w.reply = prov[p].reply, prov[p].state = "none" => w.state = "none",
             w.refunded # prov[p].refunded => prov[p].state = "charged"
      PROVE  Moved
  <2>1. db.att[p].status = "none" => w.state = "none"
    BY <1>0, <1>1 DEF Real
  <2>2. Money(db, prov', task)
    BY <1>0, <1>1, <2>1, MoneyProvider
  <2>3. Supplies(prov, prov', p)
    BY <1>0, <1>1 DEF Supplies
  <2> QED BY <1>0, <2>2, <2>3 DEF Moved, MoneyInv, Opens, Started, Framed
<1>n. prov[p].refunded \in 0..Amount /\ prov[p].refunded >= prov[p].refunded
  BY <1>0, AmountPositive DEF ProviderRow
<1>2. CASE ProviderCharges(p) \/ ProviderGivesUp(p)
  <2> DEFINE s == IF ProviderCharges(p) THEN "charged"
                  ELSE IF p \in Stripe THEN "expired" ELSE "failed"
             w == [prov[p] EXCEPT !.state = s]
  <2>1. prov' = [prov EXCEPT ![p] = w] /\ prov[p].state = "open"
    BY <1>0, <1>2 DEF ProviderCharges, ProviderGivesUp
  <2>2. s \in {"charged", "expired", "failed"}
    OBVIOUS
  <2> HIDE DEF s
  <2>3. /\ w \in ProviderRow /\ w.refunded = prov[p].refunded /\ w.refund = prov[p].refund
        /\ w.reply = prov[p].reply /\ w.sent = prov[p].sent
    BY <1>0, <2>2 DEF ProviderRow
  <2> HIDE DEF w
  <2>4. Books(p, w)
    BY <1>0, <2>1, <2>3 DEF Books
  <2> QED BY <1>1, <1>n, <2>1, <2>3, <2>4
<1>3. CASE ProviderRefunds(p)
  <2> DEFINE done == [prov[p] EXCEPT !.refund = "succeeded", !.refunded = Amount]
             failed == [prov[p] EXCEPT !.refund = "failed"]
  <2>1. /\ prov' = [prov EXCEPT ![p] = done] \/ prov' = [prov EXCEPT ![p] = failed]
        /\ prov[p].refund = "processing"
    BY <1>0, <1>3 DEF ProviderRefunds
  <2>2. /\ done \in ProviderRow /\ done.state = prov[p].state /\ done.refund = "succeeded"
        /\ done.reply = prov[p].reply /\ done.sent = prov[p].sent /\ done.refunded = Amount
    <3>1. Amount \in 0..Amount
      BY AmountPositive
    <3> QED BY <1>0, <3>1 DEF ProviderRow
  <2>3. /\ failed \in ProviderRow /\ failed.state = prov[p].state /\ failed.refund = "failed"
        /\ failed.reply = prov[p].reply /\ failed.sent = prov[p].sent
        /\ failed.refunded = prov[p].refunded
    BY <1>0 DEF ProviderRow
  <2> HIDE DEF done, failed
  <2>4. Books(p, done) /\ Books(p, failed)
    BY <1>0, <2>1, <2>2, <2>3 DEF Books
  <2>5. /\ done.refunded >= prov[p].refunded /\ failed.refunded >= prov[p].refunded
        /\ prov[p].state = "charged"
    BY <1>0, <1>n, <2>1, <2>2, <2>3, AmountPositive, ProcessingIsCharged
  <2>6. CASE prov' = [prov EXCEPT ![p] = done]
    BY <1>1, <2>1, <2>2, <2>4, <2>5, <2>6
  <2>7. CASE prov' = [prov EXCEPT ![p] = failed]
    BY <1>1, <2>1, <2>3, <2>4, <2>5, <2>7
  <2> QED BY <2>1, <2>6, <2>7
<1>4. CASE DashboardRefund(p)
  <2> DEFINE n == prov[p].refunded + 1
             w == [prov[p] EXCEPT !.refunded = n]
  <2>1. /\ prov' = [prov EXCEPT ![p] = w] /\ n \in 0..Amount /\ n >= prov[p].refunded
        /\ prov[p].refund \in {"none", "failed"} /\ prov[p].refunded # Amount
    BY <1>0, <1>4, <1>n, AmountPositive DEF DashboardRefund
  <2> HIDE DEF n
  <2>2. /\ w \in ProviderRow /\ w.refunded = n /\ w.refund = prov[p].refund
        /\ w.reply = prov[p].reply /\ w.sent = prov[p].sent /\ w.state = prov[p].state
    BY <1>0, <2>1 DEF ProviderRow
  <2> HIDE DEF w
  <2>3. Books(p, w)
    BY <1>0, <2>1, <2>2 DEF Books
  <2>4. prov[p].state = "charged"
    BY <1>4 DEF DashboardRefund
  <2> QED BY <1>1, <2>1, <2>2, <2>3, <2>4
<1>5. CASE Dispute(p)
  <2> DEFINE b == ~prov[p].disputed
             w == [prov[p] EXCEPT !.disputed = b]
  <2>1. prov' = [prov EXCEPT ![p] = w] /\ b \in BOOLEAN
    BY <1>0, <1>5 DEF Dispute
  <2> HIDE DEF b
  <2>2. /\ w \in ProviderRow /\ w.refunded = prov[p].refunded /\ w.refund = prov[p].refund
        /\ w.reply = prov[p].reply /\ w.sent = prov[p].sent /\ w.state = prov[p].state
    BY <1>0, <2>1 DEF ProviderRow
  <2> HIDE DEF w
  <2>3. Books(p, w)
    BY <1>0, <2>2 DEF Books
  <2> QED BY <1>1, <1>n, <2>1, <2>2, <2>3
<1> QED BY <1>2, <1>3, <1>4, <1>5

-----------------------------------------------------------------------------
(* Fulfilment *)

\* Registrars, cancellation and issuance: a document is only issued against a
\* charge whose refund nobody asked for, or came to nothing.
LEMMA FulfilmentStep ==
  ASSUME TypeOK, MoneyInv, Fulfilment PROVE Moved
<1>0. /\ db \in Db /\ db.order \in OrderRow /\ Sound(db, prov) /\ OrderOK(db)
      /\ Money(db, prov, task) /\ Backed(db, prov, task) /\ Derived(db, prov)
      /\ prov' = prov /\ task' = task
  BY OrderOfDb DEF TypeOK, MoneyInv, Money, Sound, Fulfilment, ItemDecision, IssueDocument,
                   RequestCancellation, DecideCancellation
<1>1. ASSUME NEW o \in OrderRow, db' = [db EXCEPT !.order = o],
             o.payment = db.order.payment, o.released = db.order.released,
             o.status \in {"submitted", "cancellation_requested"} => o.released,
             o.issued => \E p \in Attempts : Stays(prov, task, p),
             \/ o.issued = db.order.issued
             \/ o.issued /\ db.order.payment = "paid" /\ db.order.status = "submitted"
      PROVE  Moved
  <2>1. Backed(db', prov, task)
    BY <1>0, <1>1 DEF Backed, Db
  <2>2. Money(db', prov, task) /\ db'.att = db.att /\ db'.order.released = db.order.released
    BY <1>0, <1>1, <2>1, MoneyOrder
  <2>3. Fulfils(db, db')
    BY <1>0, <1>1, <2>2 DEF Fulfils, Db
  <2> QED BY <1>0, <2>2, <2>3 DEF Moved, MoneyInv, Opens, Started, Framed
<1>b. db.order.issued => \E p \in Attempts : Stays(prov, task, p)
  BY <1>0 DEF Backed
<1>2. CASE ItemDecision
  <2>1. PICK i \in {"awaiting_review", "processing", "ready", "rejected"} :
             db' = [db EXCEPT !.order.items = i]
    BY <1>2 DEF ItemDecision, ItemMoves
  <2> DEFINE o == [db.order EXCEPT !.items = i]
  <2>2. /\ o \in OrderRow /\ o.payment = db.order.payment /\ o.released = db.order.released
        /\ o.status = db.order.status /\ o.issued = db.order.issued
    BY <1>0 DEF OrderRow
  <2>3. db' = [db EXCEPT !.order = o]
    BY <1>0, <2>1 DEF Db
  <2> HIDE DEF o
  <2> QED BY <1>0, <1>1, <1>b, <2>2, <2>3 DEF OrderOK
<1>3. CASE RequestCancellation \/ DecideCancellation
  <2>1. PICK s \in {"submitted", "cancellation_requested", "cancelled"} :
             /\ s \in {"submitted", "cancellation_requested"} => db.order.released
             /\ \/ db' = [db EXCEPT !.order.status = s]
                \/ db' = [db EXCEPT !.order.status = s, !.order.items = "cancelled"]
    BY <1>0, <1>3 DEF RequestCancellation, DecideCancellation, OrderOK
  <2> DEFINE o == [db.order EXCEPT !.status = s]
             c == [db.order EXCEPT !.status = s, !.items = "cancelled"]
  <2>2. /\ o \in OrderRow /\ o.payment = db.order.payment /\ o.released = db.order.released
        /\ o.status = s /\ o.issued = db.order.issued
    BY <1>0 DEF OrderRow
  <2>3. /\ c \in OrderRow /\ c.payment = db.order.payment /\ c.released = db.order.released
        /\ c.status = s /\ c.issued = db.order.issued
    BY <1>0 DEF OrderRow
  <2>4. db' = [db EXCEPT !.order = o] \/ db' = [db EXCEPT !.order = c]
    BY <1>0, <2>1 DEF Db
  <2> HIDE DEF o, c
  <2> QED BY <1>0, <1>1, <1>b, <2>1, <2>2, <2>3, <2>4
<1>4. CASE IssueDocument
  <2> DEFINE o == [db.order EXCEPT !.items = "issued", !.issued = TRUE]
  <2>1. /\ o \in OrderRow /\ o.payment = db.order.payment /\ o.released = db.order.released
        /\ o.status = db.order.status /\ o.issued
        /\ db.order.payment = "paid" /\ db.order.status = "submitted"
    BY <1>0, <1>4 DEF OrderRow, IssueDocument, Actionable, VerifiedPayment
  <2>2. db' = [db EXCEPT !.order = o]
    BY <1>0, <1>4 DEF IssueDocument, Db
  <2> HIDE DEF o
  <2>3. PICK p \in Attempts : db.att[p].paid /\ db.att[p].refunded = 0
    BY <1>4 DEF IssueDocument, VerifiedPayment
  <2>4. /\ Real(p, db.att[p], db.inbox[p], prov[p]) /\ Books(p, prov[p])
        /\ RefundTrue(db.att[p], db.refund[p], db.order.released, prov[p])
    BY <1>0, SoundRows DEF Money
  <2>5. Funded(db, p) /\ db.order.payment \notin Blocked
    BY <1>4, <2>3, AmountPositive DEF Funded, IssueDocument, Actionable
  <2>6. db.refund[p].status \in FRESH \/ Spent(prov[p])
    BY <1>0, <2>5 DEF Derived, Uncontested
  <2>7. CASE db.refund[p].status \in FRESH
    <3>1. prov[p].refund = "none"
      BY <2>4, <2>7 DEF RefundTrue, Books
    <3>2. ASSUME NEW t \in Threads, task[t].op \in {"approved", "refund"} PROVE task[t].pay # p
      BY <1>0, <2>7, <3>2 DEF Money, TaskTrue
    <3>3. Stays(prov, task, p)
      BY <2>3, <2>4, <3>1, <3>2 DEF Stays, Real
    <3> QED BY <1>0, <1>1, <2>1, <2>2, <3>3 DEF OrderOK
  <2>8. CASE Spent(prov[p])
    <3>1. Stays(prov, task, p)
      BY <2>3, <2>4, <2>8 DEF Stays, Real
    <3> QED BY <1>0, <1>1, <2>1, <2>2, <3>1 DEF OrderOK
  <2> QED BY <2>6, <2>7, <2>8
<1> QED BY <1>2, <1>3, <1>4 DEF Fulfilment

-----------------------------------------------------------------------------
(* The invariant *)

\* An order that has just been taken holds no money.
LEMMA InitMoney == Init => MoneyInv
<1> SUFFICES ASSUME Init PROVE MoneyInv
  OBVIOUS
<1>0. TypeOK /\ LedgerMatches
  BY InitInv
<1>1. /\ \A p \in Attempts :
           /\ db.att[p].status = "none" /\ ~db.att[p].paid /\ db.att[p].refunded = 0
           /\ db.refund[p].status = "none" /\ ~db.refund[p].dispatched /\ ~db.refund[p].ref
           /\ \A k \in Messages : db.inbox[p][k] = "absent"
           /\ prov[p].state = "none" /\ prov[p].refund = "none" /\ prov[p].reply = "none"
           /\ prov[p].refunded = 0
      /\ db.order.payment = "not_started" /\ ~db.order.issued
      /\ db.order.status \in {"submitted", "cancellation_requested"} => db.order.released
      /\ \A t \in Threads : task[t].op = "idle"
  <2>1. PICK policy \in Policies :
          db = [order |-> [policy   |-> policy,
                           status   |-> IF policy = "before_review" THEN "awaiting_payment"
                                        ELSE "submitted",
                           payment  |-> "not_started",
                           released |-> policy = "after_review",
                           items    |-> IF policy = "before_review" THEN "draft"
                                        ELSE "awaiting_review",
                           issued   |-> FALSE],
                att |-> [p \in Attempts |->
                           [status |-> "none", active |-> FALSE, dispatched |-> FALSE,
                            ref |-> FALSE, txref |-> FALSE, paid |-> FALSE,
                            refunded |-> 0, receipt |-> FALSE]],
                refund |-> [p \in Attempts |->
                           [status |-> "none", dispatched |-> FALSE, ref |-> FALSE]],
                ledger |-> [p \in Attempts |-> [keys |-> {}, net |-> 0]],
                inbox |-> [p \in Attempts |-> [k \in Messages |-> "absent"]]]
    BY DEF Init
  <2>2. policy \in {"before_review", "after_review"}
    BY KnownPolicies
  <2>3. /\ db.order.payment = "not_started" /\ ~db.order.issued
        /\ db.order.status \in {"submitted", "cancellation_requested"} => db.order.released
    BY <2>1, <2>2
  <2>4. ASSUME NEW p \in Attempts
        PROVE  /\ db.att[p].status = "none" /\ ~db.att[p].paid /\ db.att[p].refunded = 0
               /\ db.refund[p].status = "none" /\ ~db.refund[p].dispatched /\ ~db.refund[p].ref
               /\ \A k \in Messages : db.inbox[p][k] = "absent"
    BY <2>1
  <2>5. ASSUME NEW p \in Attempts
        PROVE  /\ prov[p].state = "none" /\ prov[p].refund = "none" /\ prov[p].reply = "none"
               /\ prov[p].refunded = 0
    BY DEF Init
  <2>6. \A t \in Threads : task[t].op = "idle"
    BY DEF Init, Idle
  <2> QED BY <2>3, <2>4, <2>5, <2>6
<1>2. DbInv(db)
  BY <1>0 DEF DbInv, TypeOK, LedgerMatches
<1>3. \A k \in {"success", "rev_done", "rev_failed", "rev_timeout"} : k \in Messages
  BY DEF Messages, Callbacks, Reversals
<1>4. ASSUME NEW p \in Attempts
      PROVE  /\ Real(p, db.att[p], db.inbox[p], prov[p])
             /\ RefundTrue(db.att[p], db.refund[p], db.order.released, prov[p])
             /\ Books(p, prov[p]) /\ Asked(db, prov, task, p)
             /\ ~Open(db, p) /\ ~Funded(db, p) /\ db.att[p].refunded = 0
             /\ db.att[p].status # "disputed"
  <2>1. Real(p, db.att[p], db.inbox[p], prov[p])
    BY <1>1, <1>3 DEF Real, SETTLED
  <2>2. RefundTrue(db.att[p], db.refund[p], db.order.released, prov[p])
    BY <1>1 DEF RefundTrue, FRESH
  <2>3. Books(p, prov[p]) /\ Asked(db, prov, task, p)
    BY <1>1 DEF Books, Asked, Refunding
  <2> QED BY <1>1, <2>1, <2>2, <2>3 DEF Open, OPEN, Funded
<1>5. Sound(db, prov)
  BY <1>1, <1>2, <1>4 DEF Sound, OrderOK
<1>6. Derived(db, prov)
  BY <1>1, <1>4 DEF Derived, Standing, Uncontested
<1> QED BY <1>1, <1>4, <1>5, <1>6 DEF MoneyInv, Money, TaskTrue, Backed

\* Every step keeps the invariant, opens nothing unpaid and starts no second charge.
LEMMA StepMoney ==
  ASSUME TypeOK, PromptInv, MoneyInv, [Next]_vars PROVE Moved
<1>1. CASE UNCHANGED vars
  <2>1. db' = db /\ prov' = prov /\ task' = task
    BY <1>1 DEF vars
  <2> QED BY <2>1 DEF Moved, MoneyInv, Opens, Started, Framed, Fulfils
<1>2. CASE Handlers
  BY <1>2, KnownKinds, CreateStep, ReconcileStep, ReviewStep, BeginDispatchStep,
     ReceiveMessageStep, EndDispatchStep, FinishMessageStep, LoseStep DEF Handlers
<1>3. CASE RefundHandlers
  BY <1>3, RequestStep, ApproveStep, BeginRefundStep, EndRefundStep, ConsumeEarlyStep
     DEF RefundHandlers
<1>4. CASE Fulfilment
  BY <1>4, FulfilmentStep
<1>5. CASE Providers
  BY <1>5, GatewayInitiateStep, GatewayRefundStep, ProviderStep DEF Providers
<1> QED BY <1>1, <1>2, <1>3, <1>4, <1>5 DEF Next

LEMMA MoneyInvariance == Spec => [](TypeOK /\ LedgerMatches /\ PromptInv /\ MoneyInv)
<1>1. TypeOK /\ LedgerMatches /\ PromptInv /\ [Next]_vars => PromptInv'
  BY PromptStep
<1>2. TypeOK /\ PromptInv /\ MoneyInv /\ [Next]_vars => MoneyInv'
  BY StepMoney DEF Moved
<1>3. Init => PromptInv /\ MoneyInv
  BY InitOnce, InitMoney
<1> QED BY <1>1, <1>2, <1>3, Invariance, PTL DEF Spec

-----------------------------------------------------------------------------
(* What follows for the order *)

\* Nothing is booked that no provider did: every paid attempt was charged and no
\* more is recorded as refunded than was sent back, whatever messages are lost,
\* repeated or late and whatever thread dies between two transactions.
THEOREM BookedForReal == Spec => []BookedIsReal
<1>1. MoneyInv => BookedIsReal
  BY SoundRows DEF MoneyInv, Money, Real, BookedIsReal
<1> QED BY <1>1, MoneyInvariance, PTL

\* A document never leaves against money that the application is sending back:
\* some charge of an issued order was made and no refund of it, asked for before
\* or after, is under way or done.
THEOREM IssuedOnKeptMoney == Spec => []IssueKeepsMoney
<1>1. MoneyInv => IssueKeepsMoney
  BY DEF MoneyInv, Money, Backed, Stays, Spent, IssueKeepsMoney
<1> QED BY <1>1, MoneyInvariance, PTL

\* Two charges of one order block it, however the second came about.
THEOREM DoubleChargesBlock == Spec => []DoubleChargeBlocks
<1>1. MoneyInv => DoubleChargeBlocks
  BY DEF MoneyInv, Money, Derived, Standing, DoubleChargeBlocks
<1> QED BY <1>1, MoneyInvariance, PTL

\* A customer is not asked for a second charge while one could still come or is
\* held: create_attempt, and retry_mpesa_prompt after it expired its predecessor,
\* find no other attempt that is open or funded.
THEOREM ChargedOnce == Spec => NoSecondCharge
<1> DEFINE A == \A p, q \in Attempts :
                  p # q /\ db.att[p].status = "none" /\ db'.att[p].status # "none"
                     => ~Open(db', q) /\ ~Funded(db', q)
<1>1. TypeOK /\ PromptInv /\ MoneyInv /\ [Next]_vars => A
  BY StepMoney DEF Moved, Started
<1>2. A => [A]_vars
  OBVIOUS
<1> HIDE DEF A
<1>3. Spec => [][A]_vars
  BY <1>1, <1>2, MoneyInvariance, PTL DEF Spec
<1> QED BY <1>3 DEF NoSecondCharge, A

-----------------------------------------------------------------------------
(* While refund requests of one attempt do not overlap *)

\* What keeps the requests of every attempt apart: M-Pesa reversals are never sent
\* again, and a server with a single worker thread handles one request at a time.
\* Two threads that both hold a card refund may answer one after the other, and
\* the last answer is then not the last word: run refund_blocks shows it.
NoOverlap == Stripe = {} \/ \A t, u \in Threads : t = u

LEMMA SingleAttempts == ASSUME NoOverlap, NEW p \in Attempts PROVE Single(p)
BY DEF NoOverlap, Single, Attempts

\* While the order is not blocked, what pays for it is not contested.
LEMMA NothingContested ==
  ASSUME MoneyInv, NEW p \in Attempts, Single(p), Funded(db, p),
         db.order.payment \notin Blocked
  PROVE  db.refund[p].status # "requested" /\ ~RefundLive(db, p)
BY DEF MoneyInv, Money, Derived, Uncontested, Contested

\* The stored payment_status is the one that aggregate_status would derive now.
LEMMA CurrentInv == ASSUME TypeOK, MoneyInv, NoOverlap PROVE PaymentCurrent
<1> DEFINE funded == {p \in Attempts : Funded(db, p)}
           open   == {p \in Attempts : Open(db, p)}
<1> SUFFICES ASSUME db.order.payment \notin Blocked PROVE db.order.payment = Aggregate(db)
  BY DEF PaymentCurrent
<1>1. db.order.payment \in {"not_started", "pending", "paid"}
  BY DEF TypeOK, Db, OrderRow
<1>2. /\ db.order.payment = "pending" <=> \E p \in Attempts : Open(db, p)
      /\ db.order.payment = "paid" <=> \E p \in Attempts : Funded(db, p)
      /\ \A p, q \in Attempts : Funded(db, p) /\ Funded(db, q) => p = q
      /\ db.order.payment = "paid" =>
           \A p \in Attempts : Funded(db, p) => db.att[p].refunded = 0
      /\ db.order.payment = "not_started" => \A p \in Attempts : db.att[p].refunded = 0
      /\ \A p \in Attempts : db.att[p].status # "disputed"
  BY DEF MoneyInv, Money, Derived, Standing
<1>3. \A p \in funded : db.refund[p].status # "requested" /\ ~RefundLive(db, p)
  BY NothingContested, SingleAttempts
<1>4. ~\E p, q \in funded : p # q
  BY <1>2
<1>5. CASE db.order.payment = "pending"
  <2>1. open # {} /\ funded = {}
    BY <1>2, <1>5
  <2> QED BY <1>2, <1>4, <1>5, <2>1 DEF Aggregate
<1>6. CASE db.order.payment = "paid"
  <2>1. funded # {} /\ open = {} /\ \A p \in funded : ~(db.att[p].refunded > 0)
    BY <1>2, <1>6
  <2> QED BY <1>2, <1>3, <1>4, <1>6, <2>1 DEF Aggregate
<1>7. CASE db.order.payment = "not_started"
  <2>1. funded = {} /\ open = {} /\ \A p \in Attempts : ~(db.att[p].refunded > 0)
    BY <1>2, <1>7
  <2> QED BY <1>2, <1>4, <1>7, <2>1 DEF Aggregate
<1> QED BY <1>1, <1>5, <1>6, <1>7

\* An M-Pesa refund that is under way, or whose outcome is not known, keeps the
\* order blocked, whatever other requests, callbacks and polls do meanwhile.
THEOREM ReversalsBlock ==
  Spec => [](\A p \in Mpesa : Funded(db, p) /\ RefundLive(db, p) => db.order.payment \in Blocked)
<1> DEFINE I == \A p \in Mpesa : Funded(db, p) /\ RefundLive(db, p) => db.order.payment \in Blocked
<1>1. MoneyInv => I
  BY NothingContested DEF Single, Attempts
<1> HIDE DEF I
<1>2. Spec => []I
  BY <1>1, MoneyInvariance, PTL
<1> QED BY <1>2 DEF I

\* While refund requests do not overlap, a second charge and a refund under way
\* both keep the order blocked.
THEOREM ContestedMoneyBlocks == ASSUME NoOverlap PROVE Spec => []ContestedBlocks
<1>1. MoneyInv => RefundBlocks
  BY NothingContested, SingleAttempts DEF RefundBlocks
<1>2. DoubleChargeBlocks /\ RefundBlocks => ContestedBlocks
  BY DEF ContestedBlocks
<1> QED BY <1>1, <1>2, DoubleChargesBlock, MoneyInvariance, PTL

\* While refund requests do not overlap, the stored payment_status that registrars
\* and the documents' release go by is what the attempts and refunds say.
THEOREM StatusCurrent == ASSUME NoOverlap PROVE Spec => []PaymentCurrent
<1>1. TypeOK /\ MoneyInv => PaymentCurrent
  BY CurrentInv
<1> QED BY <1>1, MoneyInvariance, Invariance, PTL

-----------------------------------------------------------------------------
(* Escrow *)

\* What the ledger of an attempt says of it, its row says as well.
LEMMA BookedView ==
  ASSUME NEW a \in AttemptRow, NEW l \in LedgerRow, Booked(a, l)
  PROVE  /\ 0 \in l.keys <=> a.paid
         /\ (IF 0 \in l.keys THEN Amount - l.net ELSE 0) = a.refunded
<1>1. a.refunded \in Int /\ l.net \in Int /\ Amount \in Int
  BY AmountPositive DEF AttemptRow, LedgerRow
<1>2. CASE a.paid
  BY <1>1, <1>2 DEF Booked
<1>3. CASE ~a.paid
  BY <1>1, <1>3 DEF Booked
<1> QED BY <1>2, <1>3

\* The escrow's view of the ledger, before and after a step.
LEMMA EscrowView ==
  ASSUME DbInv(db), DbInv(db')
  PROVE  /\ Credited  = {p \in Attempts : db.att[p].paid}
         /\ Credited' = {p \in Attempts : db'.att[p].paid}
         /\ Debited   = [p \in Attempts |-> db.att[p].refunded]
         /\ Debited'  = [p \in Attempts |-> db'.att[p].refunded]
         /\ Fee!Held  = {p \in Attempts : Funded(db, p)}
         /\ Fee!Held' = {p \in Attempts : Funded(db', p)}
<1>1. \A p \in Attempts : /\ db.att[p] \in AttemptRow /\ db.ledger[p] \in LedgerRow
                          /\ Booked(db.att[p], db.ledger[p])
                          /\ db'.att[p] \in AttemptRow /\ db'.ledger[p] \in LedgerRow
                          /\ Booked(db'.att[p], db'.ledger[p])
  BY Rows DEF DbInv
<1>2. Credited = {p \in Attempts : db.att[p].paid}
  BY <1>1, BookedView DEF Credited
<1>3. Credited' = {p \in Attempts : db'.att[p].paid}
  BY <1>1, BookedView DEF Credited
<1>4. \A p \in Attempts : (IF p \in Credited THEN Amount - db.ledger[p].net ELSE 0)
                            = db.att[p].refunded
  BY <1>1, <1>2, BookedView
<1>5. Debited = [p \in Attempts |-> db.att[p].refunded]
  BY <1>4 DEF Debited
<1>6. \A p \in Attempts : (IF p \in Credited' THEN Amount - db'.ledger[p].net ELSE 0)
                            = db'.att[p].refunded
  BY <1>1, <1>3, BookedView
<1>7. Debited' = [p \in Attempts |-> db'.att[p].refunded]
  BY <1>6 DEF Debited
<1>8. Fee!Held = {p \in Attempts : Funded(db, p)}
  BY <1>2, <1>5 DEF Fee!Held, Funded
<1>9. Fee!Held' = {p \in Attempts : Funded(db', p)}
  BY <1>3, <1>7 DEF Fee!Held, Funded
<1> QED BY <1>2, <1>3, <1>5, <1>7, <1>8, <1>9

\* What the rows of an attempt say together.
LEMMA RowsAgree ==
  ASSUME NEW d, NEW v, Sound(d, v), NEW p \in Attempts
  PROVE  /\ d.att[p] \in AttemptRow
         /\ d.att[p].paid <=> Settled(d, p)
         /\ ~d.att[p].paid => d.att[p].refunded = 0
         /\ d.att[p].paid => v[p].state = "charged"
         /\ d.att[p].refunded <= v[p].refunded
         /\ d.att[p].status = "none" => v[p].state = "none"
         /\ Open(d, p) \/ d.att[p].status = "none" => ~d.att[p].paid
<1>1. /\ d.att[p] \in AttemptRow /\ Booked(d.att[p], d.ledger[p])
      /\ Real(p, d.att[p], d.inbox[p], v[p])
  BY SoundRows
<1>2. /\ d.att[p].paid <=> Settled(d, p)
      /\ ~d.att[p].paid => d.att[p].refunded = 0
  BY <1>1 DEF Booked, Real, Settled
<1>3. Open(d, p) \/ d.att[p].status = "none" => ~Settled(d, p)
  BY DEF Open, Settled, OPEN, SETTLED
<1> QED BY <1>1, <1>2, <1>3 DEF Real

\* The providers charge what was asked for and return what was charged.
LEMMA ProviderEscrow ==
  ASSUME TypeOK, TypeOK', DbInv(db), MoneyInv', db' = db,
         NEW p \in Attempts, Supplies(prov, prov', p)
  PROVE  [Fee!Next]_(Fee!vars)
<1>0. /\ prov[p] \in ProviderRow /\ prov'[p] \in ProviderRow
      /\ db.att[p].status = "none" => prov'[p].state = "none"
  BY RowsAgree DEF TypeOK, MoneyInv, Money
<1>1. /\ AskedFor' = AskedFor /\ Due' = Due /\ Credited' = Credited /\ Debited' = Debited
      /\ db'.order = db.order
  BY DEF AskedFor, Due, Credited, Debited, Open
<1>2. CASE prov'[p].refunded = prov[p].refunded
  <2>1. SentBack' = SentBack
    BY <1>2 DEF SentBack, Supplies
  <2>2. CASE p \in Charged \/ p \notin Charged'
    <3>1. Charged' = Charged
      BY <2>2 DEF Charged, Supplies
    <3> QED BY <1>1, <2>1, <3>1 DEF Fee!vars
  <2>3. CASE p \in Charged' \ Charged
    <3>1. Charged' = Charged \cup {p}
      BY <2>3 DEF Charged, Supplies
    <3>2. p \in AskedFor
      BY <1>0, <2>3 DEF AskedFor, Charged
    <3>3. Fee!Take(p)
      BY <1>1, <2>1, <2>3, <3>1, <3>2 DEF Fee!Take
    <3> QED BY <3>3 DEF Fee!Next
  <2> QED BY <2>2, <2>3
<1>3. CASE prov'[p].refunded # prov[p].refunded
  <2>1. p \in Charged
    BY <1>3 DEF Charged, Supplies
  <2>2. Charged' = Charged
    BY <2>1 DEF Charged, Supplies
  <2>3. SentBack' = [SentBack EXCEPT ![p] = prov'[p].refunded]
    BY DEF SentBack, Supplies
  <2>4. prov'[p].refunded \in SentBack[p] + 1 .. Amount
    BY <1>0, <1>3, AmountPositive DEF SentBack, Supplies, ProviderRow
  <2>5. Fee!Return(p)
    BY <1>1, <2>1, <2>2, <2>3, <2>4 DEF Fee!Return
  <2> QED BY <2>5 DEF Fee!Next
<1> QED BY <1>2, <1>3

\* A handler of an attempt brings news of it, and opens the order on one charge.
LEMMA HandlerEscrow ==
  ASSUME TypeOK, TypeOK', MoneyInv, MoneyInv', DbInv(db), Follows(db, db'), Opens(db, db'),
         prov' = prov, NEW p \in Attempts, Handles(db, db', p)
  PROVE  Fee!Next
<1>0. /\ db.att[p] \in AttemptRow /\ db'.att[p] \in AttemptRow
      /\ db.att[p].paid => db'.att[p].paid
      /\ ~db.att[p].paid => db.att[p].refunded = 0
      /\ ~db'.att[p].paid => db'.att[p].refunded = 0
      /\ db'.att[p].paid => prov[p].state = "charged"
      /\ db.att[p].refunded <= db'.att[p].refunded
      /\ db'.att[p].refunded <= prov[p].refunded
  BY RowsAgree DEF MoneyInv, Money, Follows, Grows
<1>1. /\ AskedFor' = AskedFor /\ p \in AskedFor
      /\ Charged' = Charged /\ SentBack' = SentBack
      /\ db'.order.issued = db.order.issued
  BY DEF Handles, AskedFor, Charged, SentBack
<1>2. Due' \in {Due \cup {p}, Due \ {p}}
  <2>1. \A q \in Attempts \ {p} : Open(db', q) <=> Open(db, q)
    BY DEF Handles, Open
  <2>2. CASE Open(db', p)
    <3>1. Due' = Due \cup {p}
      BY <2>1, <2>2 DEF Due
    <3> QED BY <3>1
  <2>3. CASE ~Open(db', p)
    <3>1. Due' = Due \ {p}
      BY <2>1, <2>3 DEF Due
    <3> QED BY <3>1
  <2> QED BY <2>2, <2>3
<1>3. DbInv(db')
  BY DEF Follows
<1>4. \/ UNCHANGED <<Credited, Debited>>
      \/ /\ p \in Charged
         /\ Credited' = Credited \cup {p}
         /\ \E n \in Debited[p] .. SentBack[p] : Debited' = [Debited EXCEPT ![p] = n]
  <2>1. \A q \in Attempts \ {p} : db'.att[q] = db.att[q]
    BY DEF Handles
  <2>2. Debited' = [Debited EXCEPT ![p] = db'.att[p].refunded]
    BY <1>3, <2>1, EscrowView
  <2>3. CASE db'.att[p].paid
    <3>1. Credited' = Credited \cup {p}
      BY <1>3, <2>1, <2>3, EscrowView
    <3>2. p \in Charged
      BY <1>0, <2>3 DEF Charged
    <3>3. Debited[p] = db.att[p].refunded /\ SentBack[p] = prov[p].refunded
      BY <1>3, EscrowView DEF SentBack
    <3>4. db'.att[p].refunded \in Debited[p] .. SentBack[p]
      BY <1>0, <3>3, AmountPositive DEF AttemptRow
    <3> QED BY <2>2, <3>1, <3>2, <3>4
  <2>4. CASE ~db'.att[p].paid
    <3>1. Credited' = Credited
      BY <1>0, <1>3, <2>1, <2>4, EscrowView
    <3>2. Debited' = Debited
      BY <1>0, <1>3, <2>1, <2>4, EscrowView
    <3> QED BY <3>1, <3>2
  <2> QED BY <2>3, <2>4
<1>5. \/ db'.order.released = db.order.released
      \/ db'.order.released /\ Due' = {} /\ \E x \in Attempts : Fee!Held' = {x}
  <2>1. db.order.released \in BOOLEAN /\ db'.order.released \in BOOLEAN
    BY DEF TypeOK, Db, OrderRow
  <2>2. CASE ~db.order.released /\ db'.order.released
    <3>1. db'.order.payment = "paid" /\ Standing(db')
      BY <2>2 DEF Opens, MoneyInv, Money, Derived
    <3>2. /\ ~\E q \in Attempts : Open(db', q)
          /\ \E q \in Attempts : Funded(db', q)
          /\ \A q, r \in Attempts : Funded(db', q) /\ Funded(db', r) => q = r
      BY <3>1 DEF Standing, Blocked
    <3>3. Due' = {}
      BY <3>2 DEF Due
    <3>4. PICK x \in Attempts : Funded(db', x)
      BY <3>2
    <3>5. Fee!Held' = {x}
      BY <1>3, <3>2, <3>4, EscrowView
    <3> QED BY <2>2, <3>3, <3>5
  <2> QED BY <2>1, <2>2 DEF Handles
<1> HIDE DEF Handles
<1>6. Fee!Hear(p)
  BY <1>1, <1>2, <1>4, <1>5 DEF Fee!Hear
<1> QED BY <1>6 DEF Fee!Next

\* A new attempt is asked for while nothing is held, in place of what was due.
LEMMA CreateEscrow ==
  ASSUME MoneyInv, MoneyInv', DbInv(db), DbInv(db'), prov' = prov,
         NEW p \in Attempts, Creates(db, db', p)
  PROVE  Fee!Next
<1>0. /\ db.att[p] \in AttemptRow /\ db'.att[p] \in AttemptRow
      /\ ~db.att[p].paid /\ ~db'.att[p].paid
      /\ db.att[p].refunded = 0 /\ db'.att[p].refunded = 0
  BY RowsAgree DEF MoneyInv, Money, Creates
<1>1. /\ Charged' = Charged /\ SentBack' = SentBack
      /\ db'.order.issued = db.order.issued /\ db'.order.released = db.order.released
  BY DEF Creates, Charged, SentBack
<1>2. Credited' = Credited /\ Debited' = Debited
  <2>1. \A q \in Attempts : /\ db'.att[q].paid <=> db.att[q].paid
                            /\ db'.att[q].refunded = db.att[q].refunded
    BY <1>0 DEF Creates
  <2> QED BY <2>1, EscrowView
<1>3. Fee!Held = {}
  <2>1. \A q \in Attempts : ~Funded(db, q)
    BY <1>0 DEF Creates, Funded
  <2> QED BY <2>1, EscrowView
<1>4. /\ p \notin AskedFor /\ AskedFor' = AskedFor \cup {p}
      /\ Due' = {p}
  BY DEF Creates, AskedFor, Due, Open, OPEN
<1>5. Fee!Ask(p)
  BY <1>1, <1>2, <1>3, <1>4 DEF Fee!Ask
<1> QED BY <1>5 DEF Fee!Next

\* Documents leave a released order, on the one charge that is held in full.
LEMMA FulfilmentEscrow ==
  ASSUME TypeOK, TypeOK', MoneyInv, DbInv(db), DbInv(db'), prov' = prov, Fulfils(db, db')
  PROVE  [Fee!Next]_(Fee!vars)
<1>1. /\ Charged' = Charged /\ SentBack' = SentBack /\ AskedFor' = AskedFor
      /\ Due' = Due /\ Credited' = Credited /\ Debited' = Debited
      /\ db'.order.released = db.order.released
  BY EscrowView DEF Fulfils, Charged, SentBack, AskedFor, Due, Open
<1>2. CASE db'.order.issued = db.order.issued
  BY <1>1, <1>2 DEF Fee!vars
<1>3. CASE /\ db.order.payment = "paid" /\ db.order.status = "submitted"
           /\ db'.order.issued
  <2>1. db'.order.issued = TRUE
    BY <1>3 DEF TypeOK, Db, OrderRow
  <2>2. db.order.released /\ Standing(db)
    BY <1>3 DEF MoneyInv, Money, Sound, OrderOK, Derived
  <2>3. /\ ~\E q \in Attempts : Open(db, q)
        /\ \E q \in Attempts : Funded(db, q)
        /\ \A q, r \in Attempts : Funded(db, q) /\ Funded(db, r) => q = r
        /\ \A q \in Attempts : Funded(db, q) => db.att[q].refunded = 0
    BY <1>3, <2>2 DEF Standing, Blocked
  <2>4. Due = {}
    BY <2>3 DEF Due
  <2>5. PICK x \in Attempts : Funded(db, x)
    BY <2>3
  <2>6. Fee!Held = {x} /\ Debited[x] = 0
    BY <2>3, <2>5, EscrowView
  <2>7. Fee!Leave
    BY <1>1, <2>1, <2>2, <2>4, <2>6 DEF Fee!Leave
  <2> QED BY <2>7 DEF Fee!Next
<1> QED BY <1>2, <1>3 DEF Fulfils

LEMMA EscrowStep ==
  ASSUME TypeOK, TypeOK', LedgerMatches, PromptInv, MoneyInv, [Next]_vars
  PROVE  [Fee!Next]_(Fee!vars)
<1>1. Moved /\ Follows(db, db')
  BY StepMoney, StepFollows
<1>2. DbInv(db) /\ DbInv(db')
  BY <1>1 DEF DbInv, TypeOK, LedgerMatches, Follows
<1>3. CASE prov' = prov /\ Fulfils(db, db')
  BY <1>1, <1>2, <1>3, FulfilmentEscrow
<1>4. CASE prov' = prov /\ \E p \in Attempts : Handles(db, db', p) \/ Creates(db, db', p)
  BY <1>1, <1>2, <1>4, HandlerEscrow, CreateEscrow DEF Moved
<1>5. CASE db' = db /\ \E p \in Attempts : Supplies(prov, prov', p)
  BY <1>1, <1>2, <1>5, ProviderEscrow DEF Moved
<1> QED BY <1>1, <1>3, <1>4, <1>5 DEF Moved, Framed

\* Before anything was asked for, the escrow is empty.
LEMMA EscrowInit == Init => Fee!Init
<1> SUFFICES ASSUME Init PROVE Fee!Init
  OBVIOUS
<1>0. TypeOK /\ LedgerMatches /\ MoneyInv
  BY InitInv, InitMoney
<1>1. \A p \in Attempts : /\ db.att[p].status = "none" /\ db.ledger[p].keys = {}
                          /\ prov[p].state = "none" /\ prov[p].refunded = 0
  BY DEF Init
<1>2. db.order.released \in BOOLEAN /\ db.order.issued = FALSE
  <2>1. db.order.issued = FALSE
    BY DEF Init
  <2> QED BY <1>0, <2>1 DEF TypeOK, Db, OrderRow
<1>3. Charged = {} /\ AskedFor = {} /\ Due = {} /\ Credited = {}
  BY <1>1 DEF Charged, AskedFor, Due, Open, OPEN, Credited
<1>4. SentBack = [p \in Attempts |-> 0] /\ Debited = [p \in Attempts |-> 0]
  BY <1>1, <1>3 DEF SentBack, Debited
<1> QED BY <1>2, <1>3, <1>4 DEF Fee!Init

\* Collection implements the escrow: nothing is booked that the provider did not do,
\* a charge is asked for only while none is held, replacing what was due, and the
\* order is released to the institution, and documents leave, on exactly one charge.
THEOREM KeptInEscrow == Spec => InEscrow
<1>1. TypeOK /\ TypeOK' /\ LedgerMatches /\ PromptInv /\ MoneyInv /\ [Next]_vars
        => [Fee!Next]_(Fee!vars)
  BY EscrowStep
<1> QED BY <1>1, EscrowInit, MoneyInvariance, PTL DEF Spec, InEscrow, Fee!Spec
=============================================================================
