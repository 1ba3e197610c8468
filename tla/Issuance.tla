------------------------------ MODULE Issuance ------------------------------
(***************************************************************************)
(* One released order between its registrars and the recipient of its      *)
(* documents: assignment, holds, questions, item decisions, the deferred   *)
(* release, and the documents that are uploaded, issued, notified,         *)
(* downloaded and revoked.  From services/fulfillment.py and issuance.py   *)
(* and api/v1/fulfillment.py and issuance.py.                              *)
(*                                                                         *)
(* Every handler locks the institution and the order before it reads what  *)
(* it decides on and commits once, so it is one action.  The order's       *)
(* version is kept as the set of staff pages that still show it: each      *)
(* event of the order outdates them all, and expected_version admits only  *)
(* a page in that set.  Payment, record, approval and deployment change    *)
(* under the registrars' hands; their own rules are in the other modules.  *)
(***************************************************************************)
EXTENDS Integers, FiniteSets

CONSTANTS
  Items,       \* items of the order
  Docs,        \* rows issued_documents may get, each with its delivery
  Staff,       \* registrars, none of them the owner of the order
  Managers,    \* registrars that manage the institution
  Kinds,       \* kinds of order, see OrderKind
  Modes,       \* values ISSUANCE_MODE takes
  MaxBlockers, \* bound: impediments at a time
  MaxCodes     \* bound: access codes mailed per document

\* free: total_minor is 0; early: checked out before review; live: paid with real
\* money; deferred: release_when is not "now".
OrderKind == [free : BOOLEAN, early : BOOLEAN, live : BOOLEAN, deferred : BOOLEAN]

ASSUME ManagersAreStaff == Managers \subseteq Staff
ASSUME KnownKinds == Kinds \subseteq OrderKind
ASSUME KnownModes == Modes \subseteq {"demo", "live"}
ASSUME BoundsNatural == MaxBlockers \in Nat /\ MaxCodes \in Nat
ASSUME NoneIsNoItem == "none" \notin Items
ASSUME NoneIsNoStaff == "none" \notin Staff

VARIABLES
  kind,     \* what was ordered, fixed at submission
  order,    \* the order, its case and its holds and questions
  items,    \* fulfillment_status of every item
  doc,      \* issued_documents
  delivery, \* document_deliveries
  mailed,   \* access codes the recipient was mailed, per document
  fresh,    \* staff whose page shows the order at its current version
  mode      \* ISSUANCE_MODE of the deployment, "off" when ISSUANCE_ENABLED is false

vars == <<kind, order, items, doc, delivery, mailed, fresh, mode>>

-----------------------------------------------------------------------------
(* Rows *)

ItemStatus == {"awaiting_review", "processing", "ready", "rejected",
               "issued", "delivered", "cancelled"}

\* Why an order may not be prepared: the institution is not approved, its record
\* is not the matched one the consent covers, a hold is active, a question is
\* unanswered.
Impediments == {"approval", "record", "hold", "question"}

\* payment: "due" is not_started; "blocked" stands for the states in which
\* registrars may not act but for "refunded", when all that was charged is paid back.
OrderRow == [status    : {"submitted", "cancellation_requested", "cancelled"},
             payment   : {"due", "pending", "paid", "blocked", "refunded"},
             charged   : BOOLEAN,          \* some attempt was charged once (paid_at)
             late      : BOOLEAN,          \* one that failed or expired may be heard of
             blockers  : SUBSET Impediments,
             assigned  : Staff \cup {"none"},
             confirmed : BOOLEAN]          \* release_confirmed_at is set

\* item "none": the row does not exist yet.
DocRow == [item    : Items \cup {"none"},
           mode    : Modes \cup {"none"},
           active  : BOOLEAN,              \* active_item_id is set
           issued  : BOOLEAN,
           revoked : BOOLEAN]

\* code: the number of the usable access code, 0 when there is none.
DeliveryRow == [made      : BOOLEAN,
                live      : BOOLEAN,       \* expires_at is ahead
                notified  : BOOLEAN,
                code      : 0..MaxCodes,
                downloads : 0..MaxCodes]   \* download_count

TypeOK == /\ kind \in Kinds
          /\ order \in OrderRow
          /\ items \in [Items -> ItemStatus]
          /\ doc \in [Docs -> DocRow]
          /\ delivery \in [Docs -> DeliveryRow]
          /\ mailed \in [Docs -> 0..MaxCodes]
          /\ fresh \in SUBSET Staff
          /\ mode \in Modes \cup {"off"}

-----------------------------------------------------------------------------
(* What the services compute *)

Blocked == order.payment \in {"blocked", "refunded"}

\* preparation_blockers finds nothing.
Preparable(includeDeferred) ==
  /\ ~Blocked /\ order.status = "submitted" /\ order.blockers = {}
  /\ includeDeferred => ~kind.deferred \/ order.confirmed

\* actionable
Actionable(u) ==
  /\ u \in fresh /\ ~Blocked
  /\ order.status = "submitted" /\ "approval" \notin order.blockers

\* assigned_case
Assigned(u) == order.assigned = u

\* Fault: test money pays for a live document.
PaymentAnyMode(m) == kind.free \/ order.payment = "paid"

\* payment_blockers finds nothing.  Several charges make the payment "blocked".
PaymentVerified(m) == kind.free \/ (order.payment = "paid" /\ (kind.live <=> m = "live"))

Exists(d)    == doc[d].item # "none"
Prepared(d)  == Exists(d) /\ ~doc[d].issued /\ ~doc[d].revoked
Out(d)       == doc[d].issued /\ ~doc[d].revoked
ActiveOn(i)  == {d \in Docs : doc[d].active /\ doc[d].item = i}

\* release_blockers finds nothing.
Releasable ==
  /\ Preparable(TRUE) /\ mode # "off" /\ PaymentVerified(mode)
  /\ \A i \in Items : items[i] \in {"ready", "issued", "delivered"}
  /\ \A i \in Items : items[i] = "ready" =>
        \E d \in Docs : Prepared(d) /\ doc[d].item = i /\ doc[d].mode = mode

\* Fault: a revoked document is still served.
DeliverableRevoked(d) ==
  /\ mode # "off" /\ doc[d].mode = mode /\ doc[d].issued
  /\ delivery[d].live /\ Preparable(TRUE) /\ PaymentVerified(doc[d].mode)

\* require_delivery
Deliverable(d) ==
  /\ mode # "off" /\ doc[d].mode = mode /\ Out(d)
  /\ delivery[d].live /\ Preparable(TRUE) /\ PaymentVerified(doc[d].mode)

\* event: a new version, which no open page shows.
Recorded == fresh' = {}

-----------------------------------------------------------------------------
(* Registrars *)

ReadOrder(u) ==
  /\ fresh' = fresh \cup {u}
  /\ UNCHANGED <<kind, order, items, doc, delivery, mailed, mode>>

\* A change of the order row alone.
Order(o) == /\ order' = o
            /\ Recorded
            /\ UNCHANGED <<kind, items, doc, delivery, mailed, mode>>

\* assign: anyone claims a free order, managers give it to anyone.
Assignment(u, target) ==
  /\ Actionable(u)
  /\ (target = u /\ order.assigned \in {"none", u}) \/ u \in Managers
  /\ Order([order EXCEPT !.assigned = target])

Impeded(b) == Cardinality(order.blockers \cup {b}) <= MaxBlockers

CreateHold(u) ==
  /\ Actionable(u) /\ Assigned(u) /\ Impeded("hold")
  /\ Order([order EXCEPT !.blockers = @ \cup {"hold"}])

ResolveHold(u) ==
  /\ Actionable(u) /\ Assigned(u) /\ "hold" \in order.blockers
  /\ Order([order EXCEPT !.blockers = @ \ {"hold"}])

\* add_message: a question needs neither a current page nor the assignment.
AskStudent ==
  /\ Impeded("question")
  /\ Order([order EXCEPT !.blockers = @ \cup {"question"}])

AnswerQuestion ==
  /\ "question" \in order.blockers
  /\ Order([order EXCEPT !.blockers = @ \ {"question"}])

\* Fault: items that are out do not stand in the way of a withdrawal.
WithdrawReleaseAnyway(u) ==
  /\ Actionable(u) /\ Assigned(u) /\ kind.deferred
  /\ order' = [order EXCEPT !.confirmed = FALSE]
  /\ items' = [i \in Items |-> IF items[i] = "ready" THEN "processing" ELSE items[i]]
  /\ Recorded
  /\ UNCHANGED <<kind, doc, delivery, mailed, mode>>

\* release_confirmation, first with confirmed, then without.
ConfirmRelease(u) ==
  /\ Actionable(u) /\ Assigned(u) /\ kind.deferred
  /\ Order([order EXCEPT !.confirmed = TRUE])

WithdrawRelease(u) ==
  /\ Actionable(u) /\ Assigned(u) /\ kind.deferred
  /\ \A i \in Items : items[i] \notin {"issued", "delivered"}
  /\ order' = [order EXCEPT !.confirmed = FALSE]
  /\ items' = [i \in Items |-> IF items[i] = "ready" THEN "processing" ELSE items[i]]
  /\ Recorded
  /\ UNCHANGED <<kind, doc, delivery, mailed, mode>>

\* A change of one item's status alone.
Item(i, status) == /\ items' = [items EXCEPT ![i] = status]
                   /\ Recorded
                   /\ UNCHANGED <<kind, order, doc, delivery, mailed, mode>>

\* item_decision: approve, ready, reject and reopen.
Approve(u, i) ==
  /\ Actionable(u) /\ Assigned(u)
  /\ items[i] = "awaiting_review" /\ Preparable(FALSE)
  /\ Item(i, "processing")

MarkReady(u, i) ==
  /\ Actionable(u) /\ Assigned(u)
  /\ items[i] = "processing" /\ Preparable(TRUE)
  /\ Item(i, "ready")

Reject(u, i) ==
  /\ Actionable(u) /\ Assigned(u)
  /\ items[i] = "awaiting_review"
  /\ Item(i, "rejected")

Reopen(u, i) ==
  /\ Actionable(u) /\ Assigned(u) /\ u \in Managers
  /\ ActiveOn(i) = {}
  /\ items[i] \in {"processing", "ready", "rejected"}
  /\ Item(i, "awaiting_review")

-----------------------------------------------------------------------------
(* Documents *)

NoDoc == [item |-> "none", mode |-> "none", active |-> FALSE,
          issued |-> FALSE, revoked |-> FALSE]

NoDelivery == [made |-> FALSE, live |-> FALSE, notified |-> FALSE, code |-> 0,
               downloads |-> 0]

\* upload_document
UploadDocument(u, d, i) ==
  /\ Actionable(u) /\ Assigned(u) /\ mode # "off"
  /\ ~Exists(d) /\ items[i] = "ready" /\ Preparable(TRUE)
  /\ ActiveOn(i) = {}
  /\ doc' = [doc EXCEPT ![d] = [item |-> i, mode |-> mode, active |-> TRUE,
                                issued |-> FALSE, revoked |-> FALSE]]
  /\ Recorded
  /\ UNCHANGED <<kind, order, items, delivery, mailed, mode>>

\* preview: reading a document is an event of its own.
Preview(d) ==
  /\ Exists(d)
  /\ Recorded
  /\ UNCHANGED <<kind, order, items, doc, delivery, mailed, mode>>

\* issue
Issue(u, d) ==
  /\ Actionable(u) /\ Assigned(u)
  /\ Prepared(d) /\ Releasable /\ doc[d].mode = mode
  /\ items[doc[d].item] = "ready"
  /\ doc' = [doc EXCEPT ![d].issued = TRUE]
  /\ items' = [items EXCEPT ![doc[d].item] = "issued"]
  /\ delivery' = [delivery EXCEPT ![d].made = TRUE, ![d].live = TRUE]
  /\ Recorded
  /\ UNCHANGED <<kind, order, mailed, mode>>

\* Fault: the item keeps the status the document gave it.
RevokeOnly(u, d) ==
  /\ u \in fresh /\ u \in Managers
  /\ Exists(d) /\ ~doc[d].revoked
  /\ doc' = [doc EXCEPT ![d].revoked = TRUE, ![d].active = FALSE]
  /\ delivery' = [delivery EXCEPT ![d].code = 0]
  /\ Recorded
  /\ UNCHANGED <<kind, order, items, mailed, mode>>

\* revoke: possible whatever became of the order and its payment.
Revoke(u, d) ==
  /\ u \in fresh /\ u \in Managers
  /\ Exists(d) /\ ~doc[d].revoked
  /\ doc' = [doc EXCEPT ![d].revoked = TRUE, ![d].active = FALSE]
  /\ items' = [items EXCEPT ![doc[d].item] = IF @ = "cancelled" THEN @ ELSE "processing"]
  /\ delivery' = [delivery EXCEPT ![d].code = 0]
  /\ Recorded
  /\ UNCHANGED <<kind, order, mailed, mode>>

\* notify and the delivery worker, when the mail is accepted; a refused mail or
\* delivery only counts the attempt (Jobs.tla).
Notify(d) ==
  /\ delivery[d].made /\ Deliverable(d)
  /\ delivery' = [delivery EXCEPT ![d].notified = TRUE]
  /\ Recorded
  /\ UNCHANGED <<kind, order, items, doc, mailed, mode>>

\* access_code: the mail goes out before the commit, which may not happen.
RequestCode(d) ==
  /\ delivery[d].made /\ Deliverable(d) /\ mailed[d] < MaxCodes
  /\ mailed' = [mailed EXCEPT ![d] = @ + 1]
  /\ \/ delivery' = [delivery EXCEPT ![d].code = mailed[d] + 1]
     \/ UNCHANGED delivery
  /\ UNCHANGED <<kind, order, items, doc, fresh, mode>>

\* Fifteen minutes, or DELIVERY_EXPIRE_DAYS, go by.
CodeExpires(d) ==
  /\ delivery[d].code # 0
  /\ delivery' = [delivery EXCEPT ![d].code = 0]
  /\ UNCHANGED <<kind, order, items, doc, mailed, fresh, mode>>

DeliveryExpires(d) ==
  /\ delivery[d].live
  /\ delivery' = [delivery EXCEPT ![d].live = FALSE]
  /\ UNCHANGED <<kind, order, items, doc, mailed, fresh, mode>>

\* Faults: the code stays usable; no event is recorded.
DownloadKeepingCode(d) ==
  /\ delivery[d].made /\ Deliverable(d) /\ delivery[d].code # 0
  /\ delivery' = [delivery EXCEPT ![d].downloads = @ + 1]
  /\ items' = [items EXCEPT ![doc[d].item] = "delivered"]
  /\ Recorded
  /\ UNCHANGED <<kind, order, doc, mailed, mode>>
DownloadQuietly(d) ==
  /\ delivery[d].made /\ Deliverable(d) /\ delivery[d].code # 0
  /\ delivery' = [delivery EXCEPT ![d].code = 0, ![d].downloads = @ + 1]
  /\ items' = [items EXCEPT ![doc[d].item] = "delivered"]
  /\ UNCHANGED <<kind, order, doc, mailed, fresh, mode>>

\* download: only the last code that was saved opens the document, and only once.
Download(d) ==
  /\ delivery[d].made /\ Deliverable(d) /\ delivery[d].code # 0
  /\ delivery' = [delivery EXCEPT ![d].code = 0, ![d].downloads = @ + 1]
  /\ items' = [items EXCEPT ![doc[d].item] = "delivered"]
  /\ Recorded
  /\ UNCHANGED <<kind, order, doc, mailed, mode>>

-----------------------------------------------------------------------------
(* What changes under the registrars' hands *)

\* The payments as far as registrars see them; Payments.tla has their rules.
Payment(from, to) ==
  /\ ~kind.free /\ order.payment \in from
  /\ Order([order EXCEPT !.payment = to])

Charge(from, to) ==
  /\ ~kind.free /\ order.payment \in from
  /\ Order([order EXCEPT !.payment = to, !.charged = TRUE])

\* An attempt is started while every item is in processing or ready; it is charged,
\* or fails or expires.
PayFee ==
  \/ /\ order.status = "submitted"
     /\ \A i \in Items : items[i] \in {"processing", "ready"}
     /\ Payment({"due"}, "pending")
  \/ Charge({"pending"}, "paid")
  \/ /\ ~kind.free /\ order.payment = "pending"
     /\ Order([order EXCEPT !.payment = IF order.charged THEN "refunded" ELSE "due",
                            !.late = TRUE])

\* An attempt that failed or expired is charged or open again after all, whatever
\* the status of the order; beside another one this takes a review.
LateNews ==
  /\ order.late
  /\ \/ Payment({"due", "refunded"}, "pending")
     \/ Charge({"due", "refunded"}, "paid")
     \/ Charge({"pending", "paid"}, "blocked")

\* A refund, dispute or second charge blocks the order until it is resolved; the
\* charge beside an open attempt may be the one that is refunded.
PaymentReview ==
  \/ Payment({"paid"}, "blocked")
  \/ Payment({"blocked"}, "paid")
  \/ order.late /\ Payment({"blocked"}, "pending")

AllCancelled == [i \in Items |-> "cancelled"]

\* The only charge is paid back, and no other attempt is open: the order ends.
FullRefund ==
  /\ ~kind.free /\ order.payment \in {"paid", "blocked"}
  /\ order' = [order EXCEPT !.payment = "refunded", !.status = "cancelled"]
  /\ items' = AllCancelled
  /\ Recorded
  /\ UNCHANGED <<kind, doc, delivery, mailed, mode>>

\* Fault: an issued document does not keep the order from being cancelled.
CanCancelUnpaid == order.payment = "due"

\* can_cancel
CanCancel == order.payment = "due" /\ \A i \in Items : items[i] \in {"awaiting_review", "rejected"}

RequestCancellation ==
  /\ order.status = "submitted" /\ CanCancel
  /\ Order([order EXCEPT !.status = "cancellation_requested"])

ApproveCancellation(u) ==
  /\ u \in fresh /\ order.status = "cancellation_requested" /\ CanCancel
  /\ order' = [order EXCEPT !.status = "cancelled"]
  /\ items' = AllCancelled
  /\ Recorded
  /\ UNCHANGED <<kind, doc, delivery, mailed, mode>>

RejectCancellation(u) ==
  /\ u \in fresh /\ order.status = "cancellation_requested"
  /\ Order([order EXCEPT !.status = "submitted"])

\* Neither the link nor the institution is part of the order: no event.  Only an
\* order checked out before review can see its record come back (record_review_scope).
Elsewhere(blockers) ==
  /\ order' = [order EXCEPT !.blockers = blockers]
  /\ UNCHANGED <<kind, items, doc, delivery, mailed, fresh, mode>>

RecordChanges ==
  \/ /\ Impeded("record")
     /\ Elsewhere(order.blockers \cup {"record"})
  \/ /\ kind.early /\ "record" \in order.blockers
     /\ Elsewhere(order.blockers \ {"record"})

ApprovalChanges ==
  \/ /\ Impeded("approval")
     /\ Elsewhere(order.blockers \cup {"approval"})
  \/ /\ "approval" \in order.blockers
     /\ Elsewhere(order.blockers \ {"approval"})

Redeploy ==
  /\ \E m \in (Modes \cup {"off"}) \ {mode} : mode' = m
  /\ UNCHANGED <<kind, order, items, doc, delivery, mailed, fresh>>

-----------------------------------------------------------------------------
\* Release: an order checked out before review is paid by then; its record need
\* not be matched yet.
Init ==
  /\ kind \in Kinds
  /\ \E blockers \in IF kind.early /\ MaxBlockers > 0 THEN {{}, {"record"}} ELSE {{}} :
       LET paid == kind.early /\ ~kind.free
       IN \E late \in IF paid THEN BOOLEAN ELSE {FALSE} :
            order = [status |-> "submitted", payment |-> IF paid THEN "paid" ELSE "due",
                     charged |-> paid, late |-> late,
                     blockers |-> blockers, assigned |-> "none", confirmed |-> FALSE]
  /\ items = [i \in Items |-> "awaiting_review"]
  /\ doc = [d \in Docs |-> NoDoc]
  /\ delivery = [d \in Docs |-> NoDelivery]
  /\ mailed = [d \in Docs |-> 0]
  /\ fresh = {}
  /\ mode \in Modes \cup {"off"}

CaseWork(u) ==
  \/ ReadOrder(u) \/ CreateHold(u) \/ ResolveHold(u)
  \/ ConfirmRelease(u) \/ WithdrawRelease(u)
  \/ ApproveCancellation(u) \/ RejectCancellation(u)
  \/ \E target \in Staff \cup {"none"} : Assignment(u, target)

ItemWork(u, i) == Approve(u, i) \/ MarkReady(u, i) \/ Reject(u, i) \/ Reopen(u, i)

DocumentWork(u, d) == Issue(u, d) \/ Revoke(u, d) \/ \E i \in Items : UploadDocument(u, d, i)

Recipient(d) == RequestCode(d) \/ Download(d)

Surroundings ==
  \/ AskStudent \/ AnswerQuestion
  \/ PayFee \/ LateNews \/ PaymentReview \/ FullRefund
  \/ RequestCancellation \/ RecordChanges \/ ApprovalChanges \/ Redeploy
  \/ \E d \in Docs : Preview(d) \/ Notify(d) \/ CodeExpires(d) \/ DeliveryExpires(d)

Next ==
  \/ \E u \in Staff : CaseWork(u)
  \/ \E u \in Staff, i \in Items : ItemWork(u, i)
  \/ \E u \in Staff, d \in Docs : DocumentWork(u, d)
  \/ \E d \in Docs : Recipient(d)
  \/ Surroundings

Spec == Init /\ [][Next]_vars

-----------------------------------------------------------------------------
(* What must hold *)

\* The item statuses, which the registrar sees, and the documents, which the
\* recipient gets, are kept in two tables by eight handlers and never disagree:
\* an item is issued or delivered exactly while a document of it is out, an item
\* under review or rejected has none in preparation, and no item ever has two
\* (active_item_id, fulfillment_status).
OnePerItem == \A d, e \in Docs : /\ doc[d].active <=> Exists(d) /\ ~doc[d].revoked
                                 /\ doc[d].active /\ doc[e].active
                                      /\ doc[d].item = doc[e].item => d = e

ItemsFollowDocuments ==
  order.status # "cancelled" =>
    \A i \in Items :
       /\ items[i] \in {"issued", "delivered"} <=> \E d \in ActiveOn(i) : doc[d].issued
       /\ items[i] \in {"awaiting_review", "rejected"} => ActiveOn(i) = {}

ItemsMatchDocuments == OnePerItem /\ ItemsFollowDocuments

\* Nothing of a deferred order is out unless its release event is confirmed, also
\* after confirmations were withdrawn and given again (release_confirmation).
NothingOutUnconfirmed ==
  kind.deferred /\ ~order.confirmed => \A d \in Docs : ~Out(d)

\* A document was only ever let out of an order that was charged, a live one only
\* with real money, whatever the deployment was switched to in between.
OutIsPaid ==
  \A d \in Docs : doc[d].issued =>
     /\ ~kind.free => order.charged
     /\ ~kind.free => (doc[d].mode = "live" <=> kind.live)

\* A student's cancellation never takes back an order with a document out: only a
\* step that pays back all of its money does (can_cancel, apply_observation).  Money
\* that comes late to a cancelled order lets nothing more out.
CancelledByRefund ==
  [][order'.status = "cancelled" /\ (\E d \in Docs : Out(d)') =>
       IF order.status = "cancelled" THEN \A d \in Docs : Out(d)' => Out(d)
       ELSE order'.payment = "refunded"]_vars

\* The recipient opens a document at most once per code that was mailed.
CodesAreSingleUse == \A d \in Docs : delivery[d].downloads + (IF delivery[d].code = 0 THEN 0 ELSE 1)
                                       <= mailed[d]

\* Whatever changes the items, the documents or the case outdates every page: no
\* registrar decides on a state of the order that they do not see (check_version).
ChangesOutdatePages ==
  [][<<items, doc, order.assigned, order.confirmed, order.status>>'
       # <<items, doc, order.assigned, order.confirmed, order.status>> => fresh' = {}]_vars

\* The documents behave as Custody promises: taken in, let out once, withdrawn for
\* good, and opened only while they are out.
Place == [d \in Docs |-> IF ~Exists(d) THEN "nowhere"
                         ELSE IF doc[d].revoked THEN "withdrawn"
                         ELSE IF doc[d].issued THEN "out" ELSE "held"]
Opened == [d \in Docs |-> delivery[d].downloads]

Vault == INSTANCE Custody WITH place <- Place, opened <- Opened

InCustody == Vault!Spec
=============================================================================
