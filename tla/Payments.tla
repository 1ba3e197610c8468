------------------------------ MODULE Payments ------------------------------
(***************************************************************************)
(* Collection and refund of the fee of one order: its payment attempts,    *)
(* the append-only ledger, the webhook inbox and the refund of an attempt, *)
(* as services/payments.py and api/v1/payments.py keep them, between a     *)
(* student, registrars, administrators, the reconciliation worker and the  *)
(* two payment providers.                                                  *)
(*                                                                         *)
(* Every handler locks the institution and then the order, so each of its  *)
(* transactions is atomic for this order; a handler is split exactly where *)
(* the code commits.  db is the committed database; operators of the form  *)
(* Op(d, ...) are what a service function makes of the rows d it has       *)
(* locked.  A refused request (an HTTP error) rolls back: it is no step.   *)
(***************************************************************************)
EXTENDS Integers

CONSTANTS
  Stripe,    \* attempts that pay by card
  Mpesa,     \* attempts that pay by M-Pesa
  Threads,   \* request threads that can be inside a handler at once
  Amount,    \* total_minor of the submitted snapshot: the fee of every attempt
  Policies,  \* collection policies the order may have been created with
  TestMode,  \* PAYMENT_MODE is "test": unacknowledged prompts may expire locally
  Kinds      \* kinds of provider messages that are sent

Attempts == Stripe \cup Mpesa

ASSUME ProvidersDisjoint == Stripe \cap Mpesa = {}
ASSUME AmountPositive == Amount \in Nat \ {0}
ASSUME KnownPolicies == Policies \subseteq {"before_review", "after_review"}
ASSUME TestModeBoolean == TestMode \in BOOLEAN

VARIABLES
  db,    \* the committed rows of the order
  task,  \* what each request thread still has to do after its last commit
  prov   \* what the providers did: the truth the rows have to follow

vars == <<db, task, prov>>

-----------------------------------------------------------------------------
(* Rows *)

OPEN    == {"initiating", "pending", "unknown"}
SETTLED == {"succeeded", "partially_refunded", "refunded", "disputed"}
CLOSED  == {"failed", "expired"}

\* Payment states in which registrars may not act and documents may not leave.
Blocked == {"refund_requested", "refund_pending", "refunded",
            "partially_refunded", "disputed", "review_required"}

OrderRow ==
  [policy   : {"before_review", "after_review"},
   status   : {"awaiting_payment", "submitted", "cancellation_requested", "cancelled"},
   payment  : {"not_started", "pending", "paid"} \cup Blocked,
   released : BOOLEAN,                        \* submitted_at is set
   items    : {"draft", "awaiting_review", "processing", "ready", "rejected",
               "issued", "cancelled"},        \* fulfillment_status of the items
   issued   : BOOLEAN]                        \* some document has an issued_at

\* status "none": the attempt has not been created yet.
AttemptRow ==
  [status     : {"none"} \cup OPEN \cup SETTLED \cup CLOSED,
   active     : BOOLEAN,      \* active_order_id is set
   dispatched : BOOLEAN,      \* dispatched_at is set
   ref        : BOOLEAN,      \* provider_reference is known
   txref      : BOOLEAN,      \* transaction_reference is known
   paid       : BOOLEAN,      \* paid_at is set
   refunded   : 0..Amount,    \* refunded_minor
   receipt    : BOOLEAN]      \* a receipt email is queued

RefundRow ==
  [status     : {"none", "requested", "rejected", "initiating", "unknown",
                 "pending", "failed", "succeeded"},
   dispatched : BOOLEAN,
   ref        : BOOLEAN]

\* Entry "charge" has key 0 and "refund-total-n" has key n; net is the sum of
\* the amounts of the entries, as the finance report adds them up.
LedgerRow == [keys : SUBSET (0..Amount), net : Int]

\* Kinds of provider messages; every kind has one payload, hence one inbox key.
Callbacks == {"success", "failure", "other"}           \* M-Pesa payment results
Reversals == {"rev_done", "rev_failed", "rev_timeout"} \* M-Pesa reversal results
Messages  == Callbacks \cup Reversals \cup {"session"} \* Stripe checkout.session.*

ASSUME KnownKinds == Kinds \subseteq Messages

Db == [order  : OrderRow,
       att    : [Attempts -> AttemptRow],
       refund : [Attempts -> RefundRow],
       ledger : [Attempts -> LedgerRow],
       inbox  : [Attempts -> [Messages -> {"absent", "received", "processed"}]]]

\* A thread between two transactions: op says which, arg what it carries.
Idle == [op |-> "idle"]
Task == {Idle}
        \cup [op : {"initiate"}, pay : Attempts, arg : {"sending", "ok", "rejected"}]
        \cup [op : {"approved", "early"}, pay : Attempts, arg : {"none"}]
        \cup [op : {"refund"}, pay : Attempts,
              arg : {"sending", "pending", "succeeded", "rejected"}]
        \cup [op : {"webhook"}, pay : Attempts, arg : Messages]

\* The provider's side of an attempt; sent counts the charge requests it took,
\* reversals the refund requests, reply is its answer to the first of those.
ProviderRow ==
  [state     : {"none", "refused", "open", "charged", "failed", "expired"},
   sent      : 0..2,
   refund    : {"none", "processing", "succeeded", "failed"},
   reply     : {"none", "pending", "succeeded", "rejected"},
   reversals : 0..2,
   refunded  : 0..Amount,
   disputed  : BOOLEAN]

TypeOK == /\ db \in Db
          /\ task \in [Threads -> Task]
          /\ prov \in [Attempts -> ProviderRow]

-----------------------------------------------------------------------------
(* What the services compute from the rows *)

Open(d, p)    == d.att[p].status \in OPEN
Settled(d, p) == d.att[p].status \in SETTLED
Funded(d, p)  == d.att[p].paid /\ d.att[p].refunded < Amount

\* Fault: the outcome of a refund is unknown, so it does not count.
RefundLiveIfKnown(d, p) == d.refund[p].status \in {"initiating", "pending"}

RefundLive(d, p) == d.refund[p].status \in {"initiating", "pending", "unknown"}

\* aggregate_status
Aggregate(d) ==
  LET funded == {p \in Attempts : Funded(d, p)}
      open   == {p \in Attempts : Open(d, p)}
  IN IF \E p \in Attempts : d.att[p].status = "disputed" THEN "disputed"
     ELSE IF \/ \E p, q \in funded : p # q
             \/ funded # {} /\ open # {} THEN "review_required"
     ELSE IF open # {} THEN "pending"
     ELSE IF \E p \in funded : d.att[p].refunded > 0 THEN "partially_refunded"
     ELSE IF \E p \in funded : d.refund[p].status = "requested" THEN "refund_requested"
     ELSE IF \E p \in funded : RefundLive(d, p) THEN "refund_pending"
     ELSE IF funded # {} THEN "paid"
     ELSE IF \E p \in Attempts : d.att[p].refunded > 0 THEN "refunded"
     ELSE "not_started"

Aggregated(d) == [d EXCEPT !.order.payment = Aggregate(d)]

\* Fault: the existing entry is not looked for.
LedgerEntryAgain(l, key, amount) == [keys |-> l.keys \cup {key}, net |-> l.net + amount]

\* ledger_entry: an entry whose key exists is not written again.
LedgerEntry(l, key, amount) ==
  IF key \in l.keys THEN l ELSE [keys |-> l.keys \cup {key}, net |-> l.net + amount]

\* release_order
Release(d) ==
  IF d.order.released THEN d
  ELSE [d EXCEPT !.order.status = "submitted", !.order.released = TRUE,
                 !.order.items = "awaiting_review"]

\* Fault: the order's payment_status is not derived again.
CloseRow(d, p, status) == [d EXCEPT !.att[p].status = status, !.att[p].active = FALSE]

\* The attempt is over without a charge: it gives the order back.
Close(d, p, status) ==
  Aggregated([d EXCEPT !.att[p].status = status, !.att[p].active = FALSE])

\* can_expire_test_request, for a request older than two minutes.
CanExpire(d, p) ==
  /\ TestMode /\ p \in Mpesa /\ Open(d, p)
  /\ ~d.att[p].ref /\ ~d.att[p].paid /\ ~d.att[p].txref
  /\ d.att[p].refunded = 0 /\ d.ledger[p].keys = {} /\ d.refund[p].status = "none"

-----------------------------------------------------------------------------
(* apply_observation *)

\* An observation o is [status, refunded, txref].
Final(o) == IF o.refunded = Amount /\ o.status # "disputed" THEN "refunded" ELSE o.status

\* The attempt and its ledger once o is applied to them.
ObservedRow(a, o) ==
  LET booked == o.status \in SETTLED
  IN [a EXCEPT !.status   = Final(o),
               !.refunded = o.refunded,
               !.paid     = @ \/ booked,
               !.txref    = @ \/ (booked /\ o.txref),
               !.active   = @ /\ Final(o) \notin CLOSED,
               !.receipt  = @ \/ (Final(o) = "succeeded" /\ a.status \notin SETTLED)]

ObservedLedger(l, a, o) ==
  LET charged == LedgerEntry(l, 0, Amount)
  IN IF o.status \notin SETTLED THEN l
     ELSE IF o.refunded > a.refunded
     THEN LedgerEntry(charged, o.refunded, a.refunded - o.refunded)
     ELSE charged

OtherLive(d, p) == \E q \in Attempts \ {p} :
                      d.att[q].status \in (OPEN \cup SETTLED) \ {"refunded"}

\* A full refund completes the refund row and, unless another attempt may
\* still hold money, cancels the order.
Refunded(d, p, live) ==
  LET r == IF d.refund[p].status = "none" THEN d
           ELSE [d EXCEPT !.refund[p].status = "succeeded"]
  IN IF live THEN r
     ELSE [r EXCEPT !.order.status = "cancelled", !.order.items = "cancelled"]

\* Fault: any charge releases the order, one too many as well.
ReleaseIfCharged(d) ==
  IF d.order.status = "awaiting_payment" /\ \E p \in Attempts : d.att[p].paid
  THEN Release(d) ELSE d

ReleaseIfPaid(d) ==
  IF d.order.policy = "before_review" /\ d.order.status = "awaiting_payment"
     /\ d.order.payment = "paid"
  THEN Release(d) ELSE d

\* An observation that would lower the refunded total is refused.
Acceptable(d, p, o) ==
  o.refunded >= d.att[p].refunded \/ (Settled(d, p) /\ o.status \notin SETTLED)

Observed(d, p, o) == [d EXCEPT !.att[p]    = ObservedRow(@, o),
                               !.ledger[p] = ObservedLedger(@, d.att[p], o)]

\* Fault: a late answer overwrites a confirmed payment.
ApplyLatest(d, p, o) == ReleaseIfPaid(Aggregated(Observed(d, p, o)))

\* A delayed failure never overwrites a settled attempt.
Apply(d, p, o) ==
  IF Settled(d, p) /\ o.status \notin SETTLED THEN d
  ELSE LET seen   == Observed(d, p, o)
           closed == IF Final(o) = "refunded" THEN Refunded(seen, p, OtherLive(d, p))
                     ELSE seen
       IN ReleaseIfPaid(Aggregated(closed))

\* Fault: every result in the inbox is taken for a success.
HasResult(d, p) ==
  p \in Mpesa /\ d.att[p].ref /\ \E k \in Callbacks : d.inbox[p][k] = "received"

\* settle_received_mpesa_success: replay the success result in the inbox.
HasSuccess(d, p) ==
  p \in Mpesa /\ d.att[p].ref /\ d.inbox[p]["success"] = "received"

Settle(d, p) ==
  LET seen == [status   |-> IF Settled(d, p) THEN d.att[p].status ELSE "succeeded",
               refunded |-> d.att[p].refunded, txref |-> TRUE]
  IN [Apply(d, p, seen) EXCEPT !.inbox[p]["success"] = "processed"]

\* finish_refund
FinishRefund(d, p, status) ==
  IF d.refund[p].status = "succeeded" THEN d
  ELSE IF status = "succeeded"
  THEN [Apply(d, p, [status |-> "refunded", refunded |-> Amount, txref |-> FALSE])
          EXCEPT !.refund[p].status = "succeeded"]
  ELSE IF status = "failed"
  THEN Aggregated([d EXCEPT !.refund[p].status = "failed"])
  ELSE [d EXCEPT !.refund[p].status = "pending"]

-----------------------------------------------------------------------------
(* The providers, from how the gateways talk to them *)

\* Gateways.observe: what a status query may answer.  An M-Pesa query can lag
\* behind the outcome and then reports it as still pending.
Observations(d, p) ==
  LET v == prov[p]
      Seen(status, refunded, tx) == [status |-> status, refunded |-> refunded, txref |-> tx]
  IN IF p \in Mpesa
     THEN {Seen("pending", 0, FALSE)}
          \cup (IF v.state = "charged"
                THEN {Seen("succeeded", d.att[p].refunded, d.att[p].txref)} ELSE {})
          \cup (IF v.state \in CLOSED THEN {Seen(v.state, 0, FALSE)} ELSE {})
     ELSE IF v.state # "charged"
     THEN {Seen(IF v.state = "expired" THEN "expired" ELSE "pending", 0, FALSE)}
     ELSE {Seen(IF v.disputed THEN "disputed"
                ELSE IF v.refunded = Amount THEN "refunded"
                ELSE IF v.refunded > 0 THEN "partially_refunded" ELSE "succeeded",
                v.refunded, TRUE)}

\* Gateways.refund_status, Stripe only.
RefundStatus(p) ==
  IF prov[p].refund = "processing" THEN "pending" ELSE prov[p].refund

\* The customer pays, or the request ends without a charge.
ProviderCharges(p) ==
  /\ prov[p].state = "open"
  /\ prov' = [prov EXCEPT ![p].state = "charged"]
  /\ UNCHANGED <<db, task>>

ProviderGivesUp(p) ==
  /\ prov[p].state = "open"
  /\ prov' = [prov EXCEPT ![p].state = IF p \in Stripe THEN "expired" ELSE "failed"]
  /\ UNCHANGED <<db, task>>

\* A refund request the provider took completes or fails.
ProviderRefunds(p) ==
  /\ prov[p].refund = "processing"
  /\ \/ prov' = [prov EXCEPT ![p].refund = "succeeded", ![p].refunded = Amount]
     \/ prov' = [prov EXCEPT ![p].refund = "failed"]
  /\ UNCHANGED <<db, task>>

\* A refund made at Stripe's dashboard, and a dispute opened or closed there.
DashboardRefund(p) ==
  /\ p \in Stripe /\ prov[p].state = "charged"
  /\ prov[p].refund \in {"none", "failed"} /\ prov[p].refunded < Amount
  /\ prov' = [prov EXCEPT ![p].refunded = @ + 1]
  /\ UNCHANGED <<db, task>>

Dispute(p) ==
  /\ p \in Stripe /\ prov[p].state = "charged"
  /\ prov' = [prov EXCEPT ![p].disputed = ~@]
  /\ UNCHANGED <<db, task>>

-----------------------------------------------------------------------------
(* Starting a payment: create_attempt, then dispatch around the gateway call *)

\* Fault: the order's payment_status is not looked at.
EligibleUnpaid(d) ==
  IF d.order.policy = "before_review" THEN d.order.status = "awaiting_payment"
  ELSE d.order.status = "submitted" /\ d.order.items \in {"processing", "ready"}

\* eligibility, as far as the order's own state decides it.
Eligible(d) ==
  /\ d.order.payment = "not_started"
  /\ IF d.order.policy = "before_review" THEN d.order.status = "awaiting_payment"
     ELSE d.order.status = "submitted" /\ d.order.items \in {"processing", "ready"}

\* The unique index on active_order_id admits one reservation of the order.
Reservable(d) == \A q \in Attempts : ~d.att[q].active

Created(d, p) ==
  [d EXCEPT !.att[p].status = "initiating", !.att[p].active = TRUE,
            !.order.payment = "pending"]

CreateAttempt(p) ==
  /\ db.att[p].status = "none"
  /\ Eligible(db) /\ Reservable(db)
  /\ db' = Created(db, p)
  /\ UNCHANGED <<task, prov>>

\* retry_mpesa_prompt on an unacknowledged test request: it is expired and
\* its replacement created in one transaction.
RetryPrompt(previous, p) ==
  /\ p \in Mpesa /\ db.att[p].status = "none"
  /\ CanExpire(db, previous)
  /\ LET expired == Close(db, previous, "expired")
     IN /\ Eligible(expired) /\ Reservable(expired)
        /\ db' = Created(expired, p)
  /\ UNCHANGED <<task, prov>>

\* Fault: the owner may retry any request without a reference.
ResendableAlways(d, p) == TRUE

\* Only a card request may be sent again (retry, within 23 hours).
Resendable(d, p) == d.att[p].dispatched => p \in Stripe

\* dispatch up to the commit before the provider is called.
BeginDispatch(t, p) ==
  /\ task[t] = Idle
  /\ Open(db, p) /\ ~db.att[p].ref /\ Resendable(db, p)
  /\ db' = [db EXCEPT !.att[p].dispatched = TRUE, !.att[p].status = "unknown"]
  /\ task' = [task EXCEPT ![t] = [op |-> "initiate", pay |-> p, arg |-> "sending"]]
  /\ UNCHANGED prov

\* gateway.initiate.  Stripe repeats its first answer to an idempotency key it
\* knows; every M-Pesa request that is taken is another prompt on the phone.
GatewayInitiate(t) ==
  /\ task[t].op = "initiate" /\ task[t].arg = "sending"
  /\ LET p == task[t].pay
         Known == p \in Stripe /\ prov[p].state # "none"
     IN
     \/ /\ Known => prov[p].state # "refused"
        /\ prov' = IF Known THEN prov
                   ELSE [prov EXCEPT ![p].state = "open",
                                     ![p].sent = IF @ < 2 THEN @ + 1 ELSE @]
        /\ task' = [task EXCEPT ![t].arg = "ok"]
     \/ /\ prov[p].state \in {"none", "refused"}
        /\ prov' = [prov EXCEPT ![p].state = "refused"]
        /\ task' = [task EXCEPT ![t].arg = "rejected"]
  /\ UNCHANGED db

\* dispatch after the call: the second transaction.
EndDispatch(t) ==
  /\ task[t].op = "initiate" /\ task[t].arg # "sending"
  /\ LET p == task[t].pay IN
     db' = IF task[t].arg = "rejected"
           THEN IF Open(db, p) THEN Close(db, p, "failed") ELSE db
           ELSE [db EXCEPT !.att[p].ref = TRUE,
                           !.att[p].status = IF Open(db, p) THEN "pending" ELSE @]
  /\ task' = [task EXCEPT ![t] = Idle]
  /\ UNCHANGED prov

\* The process dies, or the provider's answer never arrives.
LoseThread(t) ==
  /\ task[t] # Idle
  /\ task' = [task EXCEPT ![t] = Idle]
  /\ UNCHANGED <<db, prov>>

-----------------------------------------------------------------------------
(* reconcile: read the provider's current state into the rows *)

Reconcile(d, p, o) ==
  IF HasSuccess(d, p) THEN Settle(d, p)
  ELSE IF ~d.att[p].ref
  THEN IF CanExpire(d, p) THEN Close(d, p, "expired") ELSE d
  ELSE LET seen == Apply(d, p, o)
       IN IF /\ p \in Stripe /\ seen.refund[p].ref
             /\ seen.refund[p].status \in {"pending", "unknown"}
          THEN FinishRefund(seen, p, RefundStatus(p)) ELSE seen

\* The owner, staff or an administrator asks for the status of an attempt.
CheckPayment(p) ==
  /\ db.att[p].status # "none"
  /\ p \in Stripe => db.att[p].ref
  /\ \E o \in Observations(db, p) : Acceptable(db, p, o) /\ db' = Reconcile(db, p, o)
  /\ UNCHANGED <<task, prov>>

\* Faults: the worker forgets attempts that are unknown, confirmed or silent.
SelectedNotUnknown(p) ==
  db.att[p].ref /\ db.att[p].status \notin CLOSED \cup {"none", "refunded", "unknown"}
SelectedOpen(p)       == Open(db, p) /\ (db.att[p].ref \/ p \in Mpesa)
SelectedReferenced(p) == db.att[p].ref /\ db.att[p].status \notin CLOSED \cup {"none", "refunded"}

\* The worker asks for the attempts it selects, one after the other.
Selected(p) ==
  /\ db.att[p].status \notin CLOSED \cup {"none", "refunded"}
  /\ db.att[p].ref \/ (p \in Mpesa /\ Open(db, p))

WorkerPoll(p, o) ==
  /\ Selected(p) /\ Acceptable(db, p, o)
  /\ db' = Reconcile(db, p, o)
  /\ UNCHANGED <<task, prov>>

\* resolve_unconfirmed_payment: an administrator established with the provider
\* that the request is over and nothing was paid.
NoPaymentReview(p) ==
  /\ db.att[p].status = "unknown"
  /\ ~db.att[p].ref /\ ~db.att[p].paid /\ db.att[p].refunded = 0
  /\ db.ledger[p].keys = {} /\ db.refund[p].status = "none"
  /\ prov[p].state \notin {"open", "charged"}
  /\ ~\E t \in Threads : task[t].op = "initiate" /\ task[t].pay = p
  /\ db' = Close(db, p, "failed")
  /\ UNCHANGED <<task, prov>>

-----------------------------------------------------------------------------
(* Webhooks: the message is committed to the inbox, then handled in a second *)
(* transaction; a message whose handling failed is handled on redelivery.    *)

\* What a provider may have told us by now.
Sendable(p, k) ==
  LET v == prov[p] IN
  CASE k = "session"     -> p \in Stripe /\ v.state \in {"charged", "expired"}
    [] k = "success"     -> p \in Mpesa /\ v.state = "charged"
    [] k = "failure"     -> p \in Mpesa /\ v.state \in CLOSED
    [] k = "other"       -> p \in Mpesa /\ v.state \notin {"none", "refused"}
    [] k = "rev_done"    -> p \in Mpesa /\ v.refund = "succeeded"
    [] k = "rev_failed"  -> p \in Mpesa /\ v.refund = "failed"
    [] k = "rev_timeout" -> p \in Mpesa /\ v.refund # "none"

\* Fault: a reversal that timed out is taken for a failed one.
ConsumeReversalOrFail(d, p, k) ==
  IF d.inbox[p][k] # "received" \/ ~d.refund[p].ref THEN d
  ELSE [FinishRefund(d, p, IF k = "rev_done" THEN "succeeded" ELSE "failed")
          EXCEPT !.inbox[p][k] = "processed"]

\* consume_reversal: a result that overtook the acknowledgement of the
\* reversal request waits in the inbox.
ConsumeReversal(d, p, k) ==
  IF d.inbox[p][k] # "received" \/ ~d.refund[p].ref THEN d
  ELSE LET r == CASE k = "rev_done"    -> FinishRefund(d, p, "succeeded")
                  [] k = "rev_failed"  -> FinishRefund(d, p, "failed")
                  [] k = "rev_timeout" ->
                       IF d.refund[p].status \in {"succeeded", "failed"} THEN d
                       ELSE [d EXCEPT !.refund[p].status = "unknown"]
       IN [r EXCEPT !.inbox[p][k] = "processed"]

\* process_mpesa after the inbox commit.
MpesaResult(d, p, k, o) ==
  LET r == CASE k = "failure" ->
                  Apply(d, p, [status |-> "failed", refunded |-> 0, txref |-> FALSE])
             [] k = "success" -> IF HasSuccess(d, p) THEN Settle(d, p) ELSE d
             [] k = "other"   -> Reconcile(d, p, o)
      named == [r EXCEPT !.att[p].txref =
                  @ \/ (k = "success" /\ Settled(r, p) /\ r.att[p].status # "disputed")]
  IN IF Open(r, p) THEN named ELSE [named EXCEPT !.inbox[p][k] = "processed"]

HandleMessage(d, p, k, o) ==
  IF k \in Reversals THEN ConsumeReversal(d, p, k)
  ELSE IF k \in Callbacks THEN MpesaResult(d, p, k, o)
  ELSE [Reconcile(d, p, o) EXCEPT !.inbox[p][k] = "processed"]

\* First transaction.  A payment message also names the provider's reference,
\* which recovers one that was lost with the answer to the request.
ReceiveMessage(t, p, k) ==
  /\ task[t] = Idle
  /\ Sendable(p, k) /\ db.inbox[p][k] = "absent"
  /\ db' = [db EXCEPT !.inbox[p][k] = "received",
                      !.att[p].ref = @ \/ k \notin Reversals]
  /\ task' = [task EXCEPT ![t] = [op |-> "webhook", pay |-> p, arg |-> k]]
  /\ UNCHANGED prov

\* Second transaction; it does not look at the inbox entry again.
FinishMessage(t) ==
  /\ task[t].op = "webhook"
  /\ LET p == task[t].pay IN
     \E o \in Observations(db, p) :
        Acceptable(db, p, o) /\ db' = HandleMessage(db, p, task[t].arg, o)
  /\ task' = [task EXCEPT ![t] = Idle]
  /\ UNCHANGED prov

\* The provider repeats a message that was not processed.
RedeliverMessage(p, k) ==
  /\ db.inbox[p][k] = "received"
  /\ \E o \in Observations(db, p) :
        Acceptable(db, p, o) /\ db' = HandleMessage(db, p, k, o)
  /\ UNCHANGED <<task, prov>>

-----------------------------------------------------------------------------
(* Refunds: request_refund, then dispatch_refund around the gateway call *)

Refundable(d, p) ==
  /\ ~d.order.issued /\ d.order.status = "submitted"
  /\ d.att[p].status = "succeeded" /\ d.att[p].refunded = 0
  /\ d.order.items \in {"awaiting_review", "processing", "ready", "rejected"}

RequestRefund(p) ==
  /\ Refundable(db, p) /\ db.refund[p].status = "none"
  /\ db' = [db EXCEPT !.refund[p].status = "requested",
                      !.order.payment = "refund_requested"]
  /\ UNCHANGED <<task, prov>>

RejectRefund(p) ==
  /\ db.refund[p].status = "requested"
  /\ db' = Aggregated([db EXCEPT !.refund[p].status = "rejected"])
  /\ UNCHANGED <<task, prov>>

\* Approving again finds the refund that exists and goes on to dispatch it.
ApproveRefund(t, p) ==
  /\ task[t] = Idle
  /\ Refundable(db, p)
  /\ \/ /\ db.refund[p].status \in {"none", "requested", "rejected"}
        /\ db.att[p].txref
        /\ db' = [db EXCEPT !.refund[p].status = "initiating",
                            !.order.payment = "refund_pending"]
     \/ /\ db.refund[p].status \notin {"none", "requested", "rejected"}
        /\ UNCHANGED db
  /\ task' = [task EXCEPT ![t] = [op |-> "approved", pay |-> p, arg |-> "none"]]
  /\ UNCHANGED prov

\* Only an uncertain card refund may be sent again (within 23 hours).
Dispatchable(d, p) ==
  ~d.refund[p].dispatched \/ (d.refund[p].status = "unknown" /\ p \in Stripe)

BeginRefund(t) ==
  /\ task[t].op = "approved"
  /\ LET p == task[t].pay IN
     \/ /\ Dispatchable(db, p)
        /\ db' = [db EXCEPT !.refund[p].dispatched = TRUE, !.refund[p].status = "unknown"]
        /\ task' = [task EXCEPT ![t] = [op |-> "refund", pay |-> p, arg |-> "sending"]]
     \/ /\ ~Dispatchable(db, p)
        /\ task' = [task EXCEPT ![t] = Idle]
        /\ UNCHANGED db
  /\ UNCHANGED prov

\* gateway.refund.  Stripe repeats its first answer to a repeated idempotency
\* key and refuses a charge that was refunded elsewhere.
GatewayRefund(t) ==
  /\ task[t].op = "refund" /\ task[t].arg = "sending"
  /\ LET p == task[t].pay
         known == p \in Stripe /\ prov[p].reply # "none"
         answers == IF known THEN {prov[p].reply}
                    ELSE IF p \in Mpesa THEN {"pending", "rejected"}
                    ELSE IF prov[p].refunded = 0 THEN {"pending", "succeeded", "rejected"}
                    ELSE {"rejected"}
     IN \E reply \in answers :
          /\ task' = [task EXCEPT ![t].arg = reply]
          /\ prov' = IF known THEN prov
                     ELSE [prov EXCEPT
                       ![p].reply     = reply,
                       ![p].reversals = IF reply # "rejected" /\ @ < 2 THEN @ + 1 ELSE @,
                       ![p].refund    = CASE reply = "succeeded" -> "succeeded"
                                          [] reply = "pending"   -> "processing"
                                          [] reply = "rejected"  -> @,
                       ![p].refunded  = IF reply = "succeeded" THEN Amount ELSE @]
  /\ UNCHANGED db

EndRefund(t) ==
  /\ task[t].op = "refund" /\ task[t].arg # "sending"
  /\ LET p == task[t].pay IN
     IF task[t].arg = "rejected"
     THEN /\ db' = FinishRefund(db, p, "failed")
          /\ task' = [task EXCEPT ![t] = Idle]
     ELSE /\ db' = FinishRefund([db EXCEPT !.refund[p].ref = TRUE], p, task[t].arg)
          /\ task' = [task EXCEPT ![t] =
                        IF p \in Mpesa THEN [op |-> "early", pay |-> p, arg |-> "none"]
                        ELSE Idle]
  /\ UNCHANGED prov

\* A third transaction consumes the reversal results that came early.
ConsumeEarly(t) ==
  /\ task[t].op = "early"
  /\ LET p == task[t].pay
         done == ConsumeReversal(db, p, "rev_done")
         failed == ConsumeReversal(done, p, "rev_failed")
     IN db' = ConsumeReversal(failed, p, "rev_timeout")
  /\ task' = [task EXCEPT ![t] = Idle]
  /\ UNCHANGED prov

-----------------------------------------------------------------------------
(* What the payment state guards elsewhere: registrars and cancellation *)

Actionable(d) == d.order.payment \notin Blocked /\ d.order.status = "submitted"

ItemMoves == {<<"awaiting_review", "processing">>, <<"awaiting_review", "rejected">>,
              <<"processing", "ready">>, <<"processing", "awaiting_review">>,
              <<"ready", "awaiting_review">>, <<"rejected", "awaiting_review">>}

ItemDecision ==
  /\ Actionable(db)
  /\ \E move \in ItemMoves : db.order.items = move[1]
                             /\ db' = [db EXCEPT !.order.items = move[2]]
  /\ UNCHANGED <<task, prov>>

\* payment_blockers: exactly one unrefunded success, and nothing else open.
VerifiedPayment(d) ==
  /\ d.order.payment = "paid"
  /\ LET good == {p \in Attempts : d.att[p].status = "succeeded" /\ d.att[p].paid
                                   /\ d.att[p].refunded = 0}
     IN \E p \in good : good = {p}

IssueDocument ==
  /\ Actionable(db) /\ VerifiedPayment(db) /\ db.order.items = "ready"
  /\ db' = [db EXCEPT !.order.items = "issued", !.order.issued = TRUE]
  /\ UNCHANGED <<task, prov>>

CanCancel(d) == /\ d.order.payment = "not_started"
                /\ d.order.items \in {"draft", "awaiting_review", "rejected"}

RequestCancellation ==
  /\ db.order.status \in {"awaiting_payment", "submitted"} /\ CanCancel(db)
  /\ db' = [db EXCEPT !.order.status =
              IF @ = "awaiting_payment" THEN "cancelled" ELSE "cancellation_requested"]
  /\ UNCHANGED <<task, prov>>

DecideCancellation ==
  /\ db.order.status = "cancellation_requested"
  /\ \/ /\ CanCancel(db)
        /\ db' = [db EXCEPT !.order.status = "cancelled", !.order.items = "cancelled"]
     \/ db' = [db EXCEPT !.order.status = "submitted"]
  /\ UNCHANGED <<task, prov>>

-----------------------------------------------------------------------------
Init ==
  /\ \E policy \in Policies :
       db = [order |-> [policy   |-> policy,
                        status   |-> IF policy = "before_review" THEN "awaiting_payment"
                                     ELSE "submitted",
                        payment  |-> "not_started",
                        released |-> policy = "after_review",
                        items    |-> IF policy = "before_review" THEN "draft"
                                     ELSE "awaiting_review",
                        issued   |-> FALSE],
             att |-> [p \in Attempts |->
                        [status |-> "none", active |-> FALSE, dispatched |-> FALSE,
                         ref |-> FALSE, txref |-> FALSE, paid |-> FALSE,
                         refunded |-> 0, receipt |-> FALSE]],
             refund |-> [p \in Attempts |->
                        [status |-> "none", dispatched |-> FALSE, ref |-> FALSE]],
             ledger |-> [p \in Attempts |-> [keys |-> {}, net |-> 0]],
             inbox |-> [p \in Attempts |-> [k \in Messages |-> "absent"]]]
  /\ task = [t \in Threads |-> Idle]
  /\ prov = [p \in Attempts |->
               [state |-> "none", sent |-> 0, refund |-> "none", reply |-> "none",
                reversals |-> 0, refunded |-> 0, disputed |-> FALSE]]

Handlers ==
  \/ \E p \in Attempts :
       \/ CreateAttempt(p) \/ CheckPayment(p) \/ NoPaymentReview(p)
       \/ \E q \in Attempts : RetryPrompt(q, p)
       \/ \E o \in Observations(db, p) : WorkerPoll(p, o)
       \/ \E k \in Kinds : RedeliverMessage(p, k)
  \/ \E t \in Threads, p \in Attempts :
       \/ BeginDispatch(t, p)
       \/ \E k \in Kinds : ReceiveMessage(t, p, k)
  \/ \E t \in Threads : EndDispatch(t) \/ FinishMessage(t) \/ LoseThread(t)

RefundHandlers ==
  \/ \E p \in Attempts : RequestRefund(p) \/ RejectRefund(p)
  \/ \E t \in Threads, p \in Attempts : ApproveRefund(t, p)
  \/ \E t \in Threads : BeginRefund(t) \/ EndRefund(t) \/ ConsumeEarly(t)

Fulfilment == ItemDecision \/ IssueDocument \/ RequestCancellation \/ DecideCancellation

Providers ==
  \/ \E t \in Threads : GatewayInitiate(t) \/ GatewayRefund(t)
  \/ \E p \in Attempts : ProviderCharges(p) \/ ProviderGivesUp(p)
  \/ \E p \in Attempts : ProviderRefunds(p) \/ DashboardRefund(p) \/ Dispute(p)

Next == Handlers \/ RefundHandlers \/ Fulfilment \/ Providers

Spec == Init /\ [][Next]_vars

\* The worker keeps polling every attempt it selects, and a provider does not
\* answer "pending" for ever once the outcome is known.
TruthfulPoll(p) ==
  \E o \in Observations(db, p) :
     /\ o.status = "pending" => prov[p].state \in {"none", "refused", "open"}
     /\ WorkerPoll(p, o)

-----------------------------------------------------------------------------
(* What must hold *)

\* The ledger of an attempt adds up to what its row says was collected less
\* what was refunded, however often and in whatever order the same movement is
\* reported (apply_observation, ledger_entry).  Money is only booked on a
\* settled attempt, and no entry is keyed by a total that was not yet reached.
Booked(a, l) ==
  /\ l.net = (IF a.paid THEN Amount ELSE 0) - a.refunded
  /\ 0 \in l.keys <=> a.paid
  /\ a.paid => a.status \in SETTLED
  /\ ~a.paid => a.refunded = 0 /\ l.keys = {}
  /\ \A k \in l.keys : k <= a.refunded

LedgerMatches == \A p \in Attempts : Booked(db.att[p], db.ledger[p])

\* Nothing is booked that the provider did not do: a paid attempt was charged,
\* and no more is recorded as refunded than was sent back.
BookedIsReal ==
  \A p \in Attempts :
     /\ db.att[p].paid => prov[p].state = "charged"
     /\ db.att[p].refunded <= prov[p].refunded

\* An M-Pesa customer gets one prompt per attempt, whatever crashes around the
\* dispatch and whoever retries it (dispatch_payment).
PromptOnce == \A p \in Mpesa : prov[p].sent <= 1

\* Likewise one reversal goes out per refund (dispatch_refund).
ReversalOnce == \A p \in Mpesa : prov[p].reversals <= 1

\* No request that moves money is sent to the provider twice.
RequestsOnce == PromptOnce /\ ReversalOnce

\* The stored payment_status is the one aggregate_status would compute now,
\* except while it blocks the order: a stale value never opens anything.
PaymentCurrent ==
  db.order.payment \notin Blocked => db.order.payment = Aggregate(db)

\* Two charges for one order are never taken for an ordinary payment.
DoubleChargeBlocks ==
  (\E p, q \in Attempts : p # q /\ Funded(db, p) /\ Funded(db, q))
     => db.order.payment \in Blocked

\* Pending and unknown refunds keep fulfilment blocked.
RefundBlocks ==
  (\E p \in Attempts : Funded(db, p) /\ RefundLive(db, p)) => db.order.payment \in Blocked

\* Money that is contested, by a second charge or by a refund under way, keeps the
\* order from going on.
ContestedBlocks == DoubleChargeBlocks /\ RefundBlocks

\* A document leaves only against a charge that stays: no refund of it that the
\* application asked for is under way or done at the provider.
IssueKeepsMoney ==
  db.order.issued =>
    \E p \in Attempts : /\ prov[p].state = "charged"
                        /\ prov[p].refund \notin {"processing", "succeeded"}

\* One unresolved attempt reserves the order: there is never another.
OneUnresolved == \A p, q \in Attempts : Open(db, p) /\ Open(db, q) => p = q

\* Delayed failures never overwrite a confirmed payment, and refunded totals
\* never fall.
SettledStays ==
  [][\A p \in Attempts : /\ Settled(db, p) => Settled(db, p)'
                         /\ db'.att[p].refunded >= db.att[p].refunded]_vars

\* A new attempt is started only when no other could still charge the customer
\* as far as the order knows, and none holds money.
NoSecondCharge ==
  [][\A p, q \in Attempts :
        p # q /\ db.att[p].status = "none" /\ db'.att[p].status # "none"
           => ~Open(db', q) /\ ~Funded(db', q)]_vars

\* What the providers did, and what the rows and the ledger make of it.
Charged  == {p \in Attempts : prov[p].state = "charged"}
SentBack == [p \in Attempts |-> prov[p].refunded]
AskedFor == {p \in Attempts : db.att[p].status # "none"}
Due      == {p \in Attempts : Open(db, p)}
Credited == {p \in Attempts : 0 \in db.ledger[p].keys}
Debited  == [p \in Attempts |-> IF p \in Credited THEN Amount - db.ledger[p].net ELSE 0]

Fee == INSTANCE Escrow WITH
         Charges <- Attempts, taken <- Charged, given <- SentBack, asked <- AskedFor, due <- Due,
         credited <- Credited, debited <- Debited,
         opened <- db.order.released, gone <- db.order.issued

\* The ledger, the requests for payment, the release and the documents keep to
\* Escrow: nothing is booked ahead of the provider, a charge is asked for only while
\* no other could come or is held, and a prepaid order is released, and documents
\* leave, on exactly one charge with no other unresolved.
InEscrow == Fee!Spec

\* A no-payment review never makes the order paid.
ReviewNeverPays ==
  [][(\E p \in Attempts : NoPaymentReview(p)) =>
        db.order.payment = "paid" \/ db'.order.payment # "paid"]_vars

\* The worker alone brings the outcome of an acknowledged charge to the rows,
\* even if every callback is lost.
ChargeIsSettled ==
  \A p \in Attempts :
     (prov[p].state = "charged" /\ Open(db, p) /\ db.att[p].ref) ~> Settled(db, p)

\* An order that became paid outside apply_observation does not wait for ever.
PaidIsReleased ==
  (db.order.payment = "paid" /\ db.order.status = "awaiting_payment")
     ~> (db.order.released \/ db.order.payment # "paid")

\* A sandbox prompt that was never acknowledged does not hold the order for ever.
SilentPromptEnds ==
  \A p \in Mpesa : (TestMode /\ Open(db, p)) ~> (~Open(db, p) \/ db.att[p].ref)
=============================================================================
