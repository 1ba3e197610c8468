--------------------------- MODULE IssuanceProofs ---------------------------
(***************************************************************************)
(* Proofs about Issuance: types, the agreement of items and documents,     *)
(* the guards of what is out, single-use codes, and that the documents are *)
(* kept as Custody promises.  First, what each step may change at all.     *)
(***************************************************************************)
EXTENDS Issuance, TLAPS

\* Only uploading, issuing and revoking touch the documents.
LEMMA DocChanges ==
  ASSUME [Next]_vars
  PROVE  \/ doc' = doc
         \/ \E u \in Staff, d \in Docs, i \in Items : UploadDocument(u, d, i)
         \/ \E u \in Staff, d \in Docs : Issue(u, d)
         \/ \E u \in Staff, d \in Docs : Revoke(u, d)
<1>1. CASE UNCHANGED vars
  BY <1>1 DEF vars
<1>2. CASE \E u \in Staff : CaseWork(u)
  BY <1>2 DEF CaseWork, ReadOrder, CreateHold, ResolveHold, ConfirmRelease, WithdrawRelease,
              ApproveCancellation, RejectCancellation, Assignment, Order
<1>3. CASE \E u \in Staff, i \in Items : ItemWork(u, i)
  BY <1>3 DEF ItemWork, Approve, MarkReady, Reject, Reopen, Item
<1>4. CASE \E u \in Staff, d \in Docs : DocumentWork(u, d)
  BY <1>4 DEF DocumentWork
<1>5. CASE \E d \in Docs : Recipient(d)
  BY <1>5 DEF Recipient, RequestCode, Download
<1>6. CASE Surroundings
  BY <1>6 DEF Surroundings, AskStudent, AnswerQuestion, PayFee, LateNews, PaymentReview, Payment, Charge, FullRefund,
              RequestCancellation, RecordChanges, ApprovalChanges, Elsewhere, Redeploy, Preview,
              Notify, CodeExpires, DeliveryExpires, Order
<1>. QED
  BY <1>1, <1>2, <1>3, <1>4, <1>5, <1>6 DEF Next

\* Who changes the items, and how.
LEMMA ItemChanges ==
  ASSUME [Next]_vars
  PROVE  \/ items' = items
         \/ \E u \in Staff, i \in Items : ItemWork(u, i)
         \/ \E u \in Staff : WithdrawRelease(u)
         \/ \E u \in Staff, d \in Docs : Issue(u, d) \/ Revoke(u, d)
         \/ \E d \in Docs : Download(d)
         \/ FullRefund \/ \E u \in Staff : ApproveCancellation(u)
<1>1. CASE UNCHANGED vars
  BY <1>1 DEF vars
<1>2. CASE \E u \in Staff : CaseWork(u)
  BY <1>2 DEF CaseWork, ReadOrder, CreateHold, ResolveHold, ConfirmRelease,
              RejectCancellation, Assignment, Order
<1>4. CASE \E u \in Staff, d \in Docs : DocumentWork(u, d)
  BY <1>4 DEF DocumentWork, UploadDocument
<1>5. CASE \E d \in Docs : Recipient(d)
  BY <1>5 DEF Recipient, RequestCode
<1>6. CASE Surroundings
  BY <1>6 DEF Surroundings, AskStudent, AnswerQuestion, PayFee, LateNews, PaymentReview, Payment, Charge,
              RequestCancellation, RecordChanges, ApprovalChanges, Elsewhere, Redeploy, Preview,
              Notify, CodeExpires, DeliveryExpires, Order
<1>. QED
  BY <1>1, <1>2, <1>4, <1>5, <1>6 DEF Next

\* Who changes the deliveries and the mailed codes.
LEMMA DeliveryChanges ==
  ASSUME [Next]_vars
  PROVE  \/ UNCHANGED <<delivery, mailed>>
         \/ \E u \in Staff, d \in Docs : Issue(u, d) \/ Revoke(u, d)
         \/ \E d \in Docs : Notify(d) \/ CodeExpires(d) \/ DeliveryExpires(d)
         \/ \E d \in Docs : RequestCode(d) \/ Download(d)
<1>1. CASE UNCHANGED vars
  BY <1>1 DEF vars
<1>2. CASE \E u \in Staff : CaseWork(u)
  BY <1>2 DEF CaseWork, ReadOrder, CreateHold, ResolveHold, ConfirmRelease, WithdrawRelease,
              ApproveCancellation, RejectCancellation, Assignment, Order
<1>3. CASE \E u \in Staff, i \in Items : ItemWork(u, i)
  BY <1>3 DEF ItemWork, Approve, MarkReady, Reject, Reopen, Item
<1>4. CASE \E u \in Staff, d \in Docs : DocumentWork(u, d)
  BY <1>4 DEF DocumentWork, UploadDocument
<1>5. CASE \E d \in Docs : Recipient(d)
  BY <1>5 DEF Recipient
<1>6. CASE Surroundings
  BY <1>6 DEF Surroundings, AskStudent, AnswerQuestion, PayFee, LateNews, PaymentReview, Payment, Charge, FullRefund,
              RequestCancellation, RecordChanges, ApprovalChanges, Elsewhere, Redeploy, Preview, Order
<1>. QED
  BY <1>1, <1>2, <1>3, <1>4, <1>5, <1>6 DEF Next

\* What was ordered never changes, and one field of the order at a time does, but
\* for a full refund.
LEMMA OrderChanges ==
  ASSUME [Next]_vars
  PROVE  /\ kind' = kind
         /\ \/ order' = order
            \/ \E target \in Staff \cup {"none"} : order' = [order EXCEPT !.assigned = target]
            \/ \E b \in Impediments : order' = [order EXCEPT !.blockers = @ \cup {b}]
            \/ \E b \in Impediments : order' = [order EXCEPT !.blockers = @ \ {b}]
            \/ order' = [order EXCEPT !.confirmed = TRUE]
            \/ \E u \in Staff : WithdrawRelease(u)
            \/ PayFee \/ LateNews \/ PaymentReview \/ FullRefund
            \/ RequestCancellation
            \/ \E u \in Staff : ApproveCancellation(u) \/ RejectCancellation(u)
<1>1. CASE UNCHANGED vars
  BY <1>1 DEF vars
<1>2. ASSUME NEW u \in Staff, CaseWork(u)
      PROVE  kind' = kind
  BY <1>2 DEF CaseWork, ReadOrder, CreateHold, ResolveHold, ConfirmRelease, WithdrawRelease,
              ApproveCancellation, RejectCancellation, Assignment, Order
<1>3. ASSUME NEW u \in Staff, CaseWork(u)
      PROVE  \/ order' = order
             \/ \E target \in Staff \cup {"none"} : order' = [order EXCEPT !.assigned = target]
             \/ \E b \in Impediments : order' = [order EXCEPT !.blockers = @ \cup {b}]
             \/ \E b \in Impediments : order' = [order EXCEPT !.blockers = @ \ {b}]
             \/ order' = [order EXCEPT !.confirmed = TRUE]
             \/ WithdrawRelease(u) \/ ApproveCancellation(u) \/ RejectCancellation(u)
  BY <1>3, Zenon DEF CaseWork, ReadOrder, CreateHold, ResolveHold, ConfirmRelease, Assignment, Order,
              Impediments
<1>4. CASE \E u \in Staff, i \in Items : ItemWork(u, i)
  BY <1>4 DEF ItemWork, Approve, MarkReady, Reject, Reopen, Item
<1>5. CASE \E u \in Staff, d \in Docs : DocumentWork(u, d)
  BY <1>5 DEF DocumentWork, UploadDocument, Issue, Revoke
<1>6. CASE \E d \in Docs : Recipient(d)
  BY <1>6 DEF Recipient, RequestCode, Download
<1>7. ASSUME Surroundings
      PROVE  kind' = kind
  BY <1>7 DEF Surroundings, AskStudent, AnswerQuestion, PayFee, LateNews, PaymentReview, Payment, Charge, FullRefund,
              RequestCancellation, RecordChanges, ApprovalChanges, Elsewhere, Redeploy, Preview,
              Notify, CodeExpires, DeliveryExpires, Order
<1>8. ASSUME Surroundings
      PROVE  \/ order' = order
             \/ \E b \in Impediments : order' = [order EXCEPT !.blockers = @ \cup {b}]
             \/ \E b \in Impediments : order' = [order EXCEPT !.blockers = @ \ {b}]
             \/ PayFee \/ LateNews \/ PaymentReview \/ FullRefund \/ RequestCancellation
  BY <1>8, Zenon DEF Surroundings, AskStudent, AnswerQuestion, RecordChanges, ApprovalChanges, Elsewhere,
              Redeploy, Preview, Notify, CodeExpires, DeliveryExpires, Order, Impediments
<1>. QED
  BY <1>1, <1>2, <1>3, <1>4, <1>5, <1>6, <1>7, <1>8 DEF Next

-----------------------------------------------------------------------------
(* The parts of the inductive invariant *)

\* Issued and revoked documents exist, the active ones are those not revoked, and no
\* two are active for one item.
DocsSound == OnePerItem /\ \A d \in Docs : doc[d].issued \/ doc[d].revoked => Exists(d)

\* The payments change the order's money and nothing else; what was charged stays so.
LEMMA MoneyMoves ==
  ASSUME TypeOK, PayFee \/ LateNews \/ PaymentReview
  PROVE  \E payment \in {"due", "pending", "paid", "blocked", "refunded"},
            charged \in BOOLEAN, late \in BOOLEAN :
           /\ order' = [order EXCEPT !.payment = payment, !.charged = charged, !.late = late]
           /\ order.charged => charged
           /\ payment \in {"paid", "blocked", "refunded"} =>
                charged \/ order.payment \in {"paid", "blocked", "refunded"}
<1>1. /\ \A p : [order EXCEPT !.payment = p]
             = [order EXCEPT !.payment = p, !.charged = order.charged, !.late = order.late]
      /\ \A p : [order EXCEPT !.payment = p, !.charged = TRUE]
             = [order EXCEPT !.payment = p, !.charged = TRUE, !.late = order.late]
      /\ \A p : [order EXCEPT !.payment = p, !.late = TRUE]
             = [order EXCEPT !.payment = p, !.charged = order.charged, !.late = TRUE]
  BY DEF TypeOK, OrderRow
<1>2. order.charged \in BOOLEAN /\ order.late \in BOOLEAN
  BY DEF TypeOK, OrderRow
<1>3. CASE PayFee
  <2>1. CASE Payment({"due"}, "pending")
    BY <1>1, <1>2, <2>1 DEF Payment, Order
  <2>2. CASE Charge({"pending"}, "paid")
    BY <1>1, <1>2, <2>2 DEF Charge, Order
  <2>3. CASE order' = [order EXCEPT !.payment = IF order.charged THEN "refunded" ELSE "due",
                                    !.late = TRUE]
    BY <1>1, <1>2, <2>3
  <2>. QED
    BY <1>3, <2>1, <2>2, <2>3 DEF PayFee, Order
<1>4. CASE LateNews
  <2>1. CASE Payment({"due", "refunded"}, "pending")
    BY <1>1, <1>2, <2>1 DEF Payment, Order
  <2>2. CASE Charge({"due", "refunded"}, "paid")
    BY <1>1, <1>2, <2>2 DEF Charge, Order
  <2>3. CASE Charge({"pending", "paid"}, "blocked")
    BY <1>1, <1>2, <2>3 DEF Charge, Order
  <2>. QED
    BY <1>4, <2>1, <2>2, <2>3 DEF LateNews
<1>5. CASE PaymentReview
  <2>1. CASE Payment({"paid"}, "blocked")
    BY <1>1, <1>2, <2>1 DEF Payment, Order
  <2>2. CASE Payment({"blocked"}, "paid")
    BY <1>1, <1>2, <2>2 DEF Payment, Order
  <2>3. CASE Payment({"blocked"}, "pending")
    BY <1>1, <1>2, <2>3 DEF Payment, Order
  <2>. QED
    BY <1>5, <2>1, <2>2, <2>3 DEF PaymentReview
<1>. QED
  BY <1>3, <1>4, <1>5

LEMMA OrderTyped ==
  ASSUME TypeOK, [Next]_vars
  PROVE  order' \in OrderRow /\ kind' \in Kinds
<1>1. CASE PayFee \/ LateNews \/ PaymentReview
  <2>1. PICK payment \in {"due", "pending", "paid", "blocked", "refunded"},
             charged \in BOOLEAN, late \in BOOLEAN :
               order' = [order EXCEPT !.payment = payment, !.charged = charged, !.late = late]
    BY <1>1, MoneyMoves
  <2>2. [order EXCEPT !.payment = payment, !.charged = charged, !.late = late] \in OrderRow
    BY DEF TypeOK, OrderRow
  <2>. QED
    BY <2>1, <2>2, OrderChanges DEF TypeOK
<1>2. CASE FullRefund
  BY <1>2 DEF FullRefund, TypeOK, OrderRow
<1>3. CASE RequestCancellation \/ \E u \in Staff : ApproveCancellation(u) \/ RejectCancellation(u)
  BY <1>3 DEF RequestCancellation, ApproveCancellation, RejectCancellation, Order, TypeOK, OrderRow
<1>4. CASE \E u \in Staff : WithdrawRelease(u)
  BY <1>4 DEF WithdrawRelease, TypeOK, OrderRow
<1>5. CASE \E b \in Impediments : \/ order' = [order EXCEPT !.blockers = @ \cup {b}]
                                  \/ order' = [order EXCEPT !.blockers = @ \ {b}]
  BY <1>5, OrderChanges DEF TypeOK, OrderRow
<1>. QED
  BY <1>1, <1>2, <1>3, <1>4, <1>5, OrderChanges DEF TypeOK, OrderRow

LEMMA ItemsTyped ==
  ASSUME TypeOK, [Next]_vars
  PROVE  items' \in [Items -> ItemStatus]
<1>1. CASE \E u \in Staff, i \in Items : ItemWork(u, i)
  BY <1>1 DEF ItemWork, Approve, MarkReady, Reject, Reopen, Item, TypeOK, ItemStatus
<1>2. CASE \E u \in Staff : WithdrawRelease(u)
  BY <1>2 DEF WithdrawRelease, TypeOK, ItemStatus
<1>3. CASE \E u \in Staff, d \in Docs : Issue(u, d)
  BY <1>3 DEF Issue, TypeOK, ItemStatus
<1>4. CASE \E u \in Staff, d \in Docs : Revoke(u, d)
  BY <1>4 DEF Revoke, TypeOK, ItemStatus
<1>5. CASE \E d \in Docs : Download(d)
  BY <1>5 DEF Download, TypeOK, ItemStatus
<1>6. CASE FullRefund \/ \E u \in Staff : ApproveCancellation(u)
  BY <1>6 DEF FullRefund, ApproveCancellation, AllCancelled, TypeOK, ItemStatus
<1>. QED
  BY <1>1, <1>2, <1>3, <1>4, <1>5, <1>6, ItemChanges DEF TypeOK

LEMMA DocsTyped ==
  ASSUME TypeOK, [Next]_vars
  PROVE  doc' \in [Docs -> DocRow]
<1>1. ASSUME NEW u \in Staff, NEW d \in Docs, NEW i \in Items, UploadDocument(u, d, i)
      PROVE  doc' \in [Docs -> DocRow]
  <2>. DEFINE row == [item |-> i, mode |-> mode, active |-> TRUE, issued |-> FALSE, revoked |-> FALSE]
  <2>1. mode \in Modes
    BY <1>1 DEF UploadDocument, TypeOK
  <2>2. row \in DocRow
    BY <2>1 DEF DocRow
  <2>3. doc' = [doc EXCEPT ![d] = row]
    BY <1>1 DEF UploadDocument
  <2>. HIDE DEF row
  <2>. QED
    BY <2>2, <2>3 DEF TypeOK
<1>2. ASSUME NEW u \in Staff, NEW d \in Docs, Issue(u, d)
      PROVE  doc' \in [Docs -> DocRow]
  <2>1. doc' = [doc EXCEPT ![d].issued = TRUE]
    BY <1>2 DEF Issue
  <2>. QED
    BY <2>1 DEF TypeOK, DocRow
<1>3. ASSUME NEW u \in Staff, NEW d \in Docs, Revoke(u, d)
      PROVE  doc' \in [Docs -> DocRow]
  <2>. DEFINE half == [doc EXCEPT ![d].revoked = TRUE]
  <2>1. half \in [Docs -> DocRow]
    BY DEF TypeOK, DocRow
  <2>2. doc' = [half EXCEPT ![d].active = FALSE]
    BY <1>3 DEF Revoke
  <2>. HIDE DEF half
  <2>. QED
    BY <2>1, <2>2 DEF DocRow
<1>. QED
  BY <1>1, <1>2, <1>3, DocChanges DEF TypeOK

LEMMA DeliveriesTyped ==
  ASSUME TypeOK, CodesAreSingleUse, [Next]_vars
  PROVE  delivery' \in [Docs -> DeliveryRow] /\ mailed' \in [Docs -> 0..MaxCodes]
<1>. USE BoundsNatural
<1>1. ASSUME NEW u \in Staff, NEW d \in Docs, Issue(u, d)
      PROVE  delivery' \in [Docs -> DeliveryRow]
  <2>. DEFINE half == [delivery EXCEPT ![d].made = TRUE]
  <2>1. half \in [Docs -> DeliveryRow]
    BY DEF TypeOK, DeliveryRow
  <2>2. delivery' = [half EXCEPT ![d].live = TRUE]
    BY <1>1 DEF Issue
  <2>. HIDE DEF half
  <2>. QED
    BY <2>1, <2>2 DEF DeliveryRow
<1>2. CASE \E u \in Staff, d \in Docs : Revoke(u, d)
  BY <1>2 DEF Revoke, TypeOK, DeliveryRow
<1>3. ASSUME NEW u \in Staff, NEW d \in Docs, Issue(u, d) \/ Revoke(u, d)
      PROVE  mailed' \in [Docs -> 0..MaxCodes]
  BY <1>3 DEF Issue, Revoke, TypeOK
<1>4. ASSUME NEW d \in Docs, Notify(d) \/ CodeExpires(d) \/ DeliveryExpires(d)
      PROVE  delivery' \in [Docs -> DeliveryRow] /\ mailed' \in [Docs -> 0..MaxCodes]
  <2>1. \/ delivery' = [delivery EXCEPT ![d].notified = TRUE]
        \/ delivery' = [delivery EXCEPT ![d].code = 0]
        \/ delivery' = [delivery EXCEPT ![d].live = FALSE]
    BY <1>4 DEF Notify, CodeExpires, DeliveryExpires
  <2>2. [delivery EXCEPT ![d].notified = TRUE] \in [Docs -> DeliveryRow]
    BY DEF TypeOK, DeliveryRow
  <2>3. [delivery EXCEPT ![d].code = 0] \in [Docs -> DeliveryRow]
    BY DEF TypeOK, DeliveryRow
  <2>4. [delivery EXCEPT ![d].live = FALSE] \in [Docs -> DeliveryRow]
    BY DEF TypeOK, DeliveryRow
  <2>5. mailed' = mailed
    BY <1>4 DEF Notify, CodeExpires, DeliveryExpires
  <2>. QED
    BY <2>1, <2>2, <2>3, <2>4, <2>5, Zenon DEF TypeOK
<1>5. CASE \E d \in Docs : RequestCode(d)
  BY <1>5 DEF RequestCode, TypeOK, DeliveryRow
<1>6. ASSUME NEW d \in Docs, Download(d)
      PROVE  delivery' \in [Docs -> DeliveryRow] /\ mailed' \in [Docs -> 0..MaxCodes]
  <2>1. delivery[d].downloads + 1 <= mailed[d]
    BY <1>6 DEF Download, CodesAreSingleUse
  <2>2. delivery[d].downloads + 1 \in 0..MaxCodes
    BY <2>1 DEF TypeOK, DeliveryRow
  <2>. DEFINE half == [delivery EXCEPT ![d].code = 0]
  <2>3. half \in [Docs -> DeliveryRow] /\ half[d].downloads = delivery[d].downloads
    BY DEF TypeOK, DeliveryRow
  <2>4. delivery' = [half EXCEPT ![d].downloads = @ + 1]
    BY <1>6 DEF Download
  <2>5. mailed' = mailed
    BY <1>6 DEF Download
  <2>. HIDE DEF half
  <2>6. [half EXCEPT ![d].downloads = @ + 1] \in [Docs -> DeliveryRow]
    BY <2>2, <2>3 DEF DeliveryRow
  <2>. QED
    BY <2>4, <2>5, <2>6 DEF TypeOK
<1>. QED
  BY <1>1, <1>2, <1>3, <1>4, <1>5, <1>6, DeliveryChanges DEF TypeOK

LEMMA RestTyped ==
  ASSUME TypeOK, [Next]_vars
  PROVE  fresh' \in SUBSET Staff /\ mode' \in Modes \cup {"off"}
<1>1. CASE UNCHANGED vars
  BY <1>1 DEF vars, TypeOK
<1>2. CASE \E u \in Staff : CaseWork(u)
  BY <1>2 DEF CaseWork, ReadOrder, CreateHold, ResolveHold, ConfirmRelease, WithdrawRelease,
              ApproveCancellation, RejectCancellation, Assignment, Order, Recorded, TypeOK
<1>3. CASE \E u \in Staff, i \in Items : ItemWork(u, i)
  BY <1>3 DEF ItemWork, Approve, MarkReady, Reject, Reopen, Item, Recorded, TypeOK
<1>4. CASE \E u \in Staff, d \in Docs : DocumentWork(u, d)
  BY <1>4 DEF DocumentWork, UploadDocument, Issue, Revoke, Recorded, TypeOK
<1>5. CASE \E d \in Docs : Recipient(d)
  BY <1>5 DEF Recipient, RequestCode, Download, Recorded, TypeOK
<1>6. CASE Surroundings
  BY <1>6 DEF Surroundings, AskStudent, AnswerQuestion, PayFee, LateNews, PaymentReview, Payment, Charge, FullRefund,
              RequestCancellation, RecordChanges, ApprovalChanges, Elsewhere, Redeploy, Preview,
              Notify, CodeExpires, DeliveryExpires, Order, Recorded, TypeOK
<1>. QED
  BY <1>1, <1>2, <1>3, <1>4, <1>5, <1>6 DEF Next

LEMMA TypeStep ==
  ASSUME TypeOK, CodesAreSingleUse, [Next]_vars
  PROVE  TypeOK'
BY OrderTyped, ItemsTyped, DocsTyped, DeliveriesTyped, RestTyped DEF TypeOK

LEMMA CodesStep ==
  ASSUME TypeOK, CodesAreSingleUse, [Next]_vars
  PROVE  CodesAreSingleUse'
<1>. USE BoundsNatural
<1>1. CASE \E u \in Staff, d \in Docs : Issue(u, d)
  BY <1>1 DEF Issue, TypeOK, DeliveryRow, CodesAreSingleUse
<1>2. CASE \E u \in Staff, d \in Docs : Revoke(u, d)
  BY <1>2 DEF Revoke, TypeOK, DeliveryRow, CodesAreSingleUse
<1>3. CASE \E d \in Docs : Notify(d) \/ CodeExpires(d) \/ DeliveryExpires(d)
  BY <1>3 DEF Notify, CodeExpires, DeliveryExpires, TypeOK, DeliveryRow, CodesAreSingleUse
<1>4. CASE \E d \in Docs : RequestCode(d)
  BY <1>4 DEF RequestCode, TypeOK, DeliveryRow, CodesAreSingleUse
<1>5. CASE \E d \in Docs : Download(d)
  BY <1>5 DEF Download, TypeOK, DeliveryRow, CodesAreSingleUse
<1>6. CASE UNCHANGED <<delivery, mailed>>
  BY <1>6 DEF CodesAreSingleUse
<1>. QED
  BY <1>1, <1>2, <1>3, <1>4, <1>5, <1>6, DeliveryChanges

LEMMA DocsStep ==
  ASSUME TypeOK, DocsSound, [Next]_vars
  PROVE  DocsSound'
<1>. USE NoneIsNoItem DEF DocsSound, OnePerItem, Exists, ActiveOn, TypeOK, DocRow
<1>1. CASE \E u \in Staff, d \in Docs, i \in Items : UploadDocument(u, d, i)
  BY <1>1 DEF UploadDocument
<1>2. CASE \E u \in Staff, d \in Docs : Issue(u, d)
  BY <1>2 DEF Issue, Prepared
<1>3. CASE \E u \in Staff, d \in Docs : Revoke(u, d)
  BY <1>3 DEF Revoke
<1>. QED
  BY <1>1, <1>2, <1>3, DocChanges

LEMMA ItemsStep ==
  ASSUME TypeOK, DocsSound, ItemsFollowDocuments, [Next]_vars
  PROVE  ItemsFollowDocuments'
<1>. SUFFICES ASSUME order'.status # "cancelled", NEW j \in Items
              PROVE  /\ items'[j] \in {"issued", "delivered"}
                          <=> \E e \in Docs : doc'[e].active /\ doc'[e].item = j /\ doc'[e].issued
                     /\ items'[j] \in {"awaiting_review", "rejected"}
                          => \A e \in Docs : ~(doc'[e].active /\ doc'[e].item = j)
  BY DEF ItemsFollowDocuments, ActiveOn
<1>1. order.status # "cancelled"
  <2>1. CASE PayFee \/ LateNews \/ PaymentReview \/ FullRefund \/ RequestCancellation
    BY <2>1, MoneyMoves DEF FullRefund, RequestCancellation, Order, TypeOK, OrderRow
  <2>2. CASE \E u \in Staff : WithdrawRelease(u) \/ ApproveCancellation(u) \/ RejectCancellation(u)
    BY <2>2 DEF WithdrawRelease, Actionable, ApproveCancellation, RejectCancellation
  <2>. QED
    BY <2>1, <2>2, OrderChanges DEF TypeOK, OrderRow
<1>2. /\ items[j] \in {"issued", "delivered"}
           <=> \E e \in Docs : doc[e].active /\ doc[e].item = j /\ doc[e].issued
      /\ items[j] \in {"awaiting_review", "rejected"}
           => \A e \in Docs : ~(doc[e].active /\ doc[e].item = j)
  BY <1>1 DEF ItemsFollowDocuments, ActiveOn
<1>3. ASSUME NEW u \in Staff, NEW i \in Items, ItemWork(u, i)
      PROVE  /\ items'[j] \in {"issued", "delivered"}
                  <=> \E e \in Docs : doc'[e].active /\ doc'[e].item = j /\ doc'[e].issued
             /\ items'[j] \in {"awaiting_review", "rejected"}
                  => \A e \in Docs : ~(doc'[e].active /\ doc'[e].item = j)
  <2>1. doc' = doc
    BY <1>3 DEF ItemWork, Approve, MarkReady, Reject, Reopen, Item
  <2>2. CASE i # j
    <3>1. items'[j] = items[j]
      BY <1>3, <2>2 DEF ItemWork, Approve, MarkReady, Reject, Reopen, Item, TypeOK
    <3>. QED
      BY <1>2, <2>1, <3>1
  <2>3. CASE i = j
    <3>1. /\ items[j] \notin {"issued", "delivered"} /\ items'[j] \notin {"issued", "delivered"}
          /\ items'[j] \in {"awaiting_review", "rejected"}
               => items[j] \in {"awaiting_review", "rejected"} \/ ActiveOn(j) = {}
      BY <1>3, <2>3 DEF ItemWork, Approve, MarkReady, Reject, Reopen, Item, TypeOK
    <3>. QED
      BY <1>2, <2>1, <3>1 DEF ActiveOn
  <2>. QED
    BY <2>2, <2>3
<1>4. CASE \E u \in Staff : WithdrawRelease(u)
  BY <1>2, <1>4 DEF WithdrawRelease, TypeOK
<1>5. ASSUME NEW u \in Staff, NEW d \in Docs, NEW i \in Items, UploadDocument(u, d, i)
      PROVE  /\ items'[j] \in {"issued", "delivered"}
                  <=> \E e \in Docs : doc'[e].active /\ doc'[e].item = j /\ doc'[e].issued
             /\ items'[j] \in {"awaiting_review", "rejected"}
                  => \A e \in Docs : ~(doc'[e].active /\ doc'[e].item = j)
  <2>1. /\ items' = items /\ items[i] = "ready"
        /\ doc'[d].item = i /\ ~doc'[d].issued /\ ~doc[d].active
        /\ \A e \in Docs \ {d} : doc'[e] = doc[e]
    BY <1>5 DEF UploadDocument, TypeOK, DocsSound, OnePerItem
  <2>. QED
    BY <1>2, <2>1
<1>6. ASSUME NEW u \in Staff, NEW d \in Docs, Issue(u, d)
      PROVE  /\ items'[j] \in {"issued", "delivered"}
                  <=> \E e \in Docs : doc'[e].active /\ doc'[e].item = j /\ doc'[e].issued
             /\ items'[j] \in {"awaiting_review", "rejected"}
                  => \A e \in Docs : ~(doc'[e].active /\ doc'[e].item = j)
  <2>1. /\ doc'[d].item = doc[d].item /\ doc'[d].active = doc[d].active /\ doc'[d].issued
        /\ \A e \in Docs \ {d} : doc'[e] = doc[e]
    BY <1>6 DEF Issue, TypeOK, DocRow
  <2>2. doc[d].active
    BY <1>6 DEF Issue, Prepared, DocsSound, OnePerItem
  <2>3. items'[j] = IF j = doc[d].item THEN "issued" ELSE items[j]
    BY <1>6 DEF Issue, TypeOK
  <2>. QED
    BY <1>2, <2>1, <2>2, <2>3
<1>7. ASSUME NEW u \in Staff, NEW d \in Docs, Revoke(u, d)
      PROVE  /\ items'[j] \in {"issued", "delivered"}
                  <=> \E e \in Docs : doc'[e].active /\ doc'[e].item = j /\ doc'[e].issued
             /\ items'[j] \in {"awaiting_review", "rejected"}
                  => \A e \in Docs : ~(doc'[e].active /\ doc'[e].item = j)
  <2>1. /\ doc'[d].item = doc[d].item /\ ~doc'[d].active
        /\ \A e \in Docs \ {d} : doc'[e] = doc[e]
    BY <1>7 DEF Revoke, TypeOK, DocRow
  <2>2. doc[d].active
    BY <1>7 DEF Revoke, DocsSound, OnePerItem
  <2>3. \A e \in Docs \ {d} : ~(doc[e].active /\ doc[e].item = doc[d].item)
    BY <2>2 DEF DocsSound, OnePerItem
  <2>4. items'[j] = IF j = doc[d].item
                    THEN IF items[j] = "cancelled" THEN items[j] ELSE "processing"
                    ELSE items[j]
    BY <1>7 DEF Revoke, TypeOK
  <2>. QED
    BY <1>2, <2>1, <2>2, <2>3, <2>4
<1>8. ASSUME NEW d \in Docs, Download(d)
      PROVE  /\ items'[j] \in {"issued", "delivered"}
                  <=> \E e \in Docs : doc'[e].active /\ doc'[e].item = j /\ doc'[e].issued
             /\ items'[j] \in {"awaiting_review", "rejected"}
                  => \A e \in Docs : ~(doc'[e].active /\ doc'[e].item = j)
  <2>1. doc' = doc /\ doc[d].active /\ doc[d].issued
    BY <1>8 DEF Download, Deliverable, Out, DocsSound, OnePerItem
  <2>2. items'[j] = IF j = doc[d].item THEN "delivered" ELSE items[j]
    BY <1>8 DEF Download, TypeOK
  <2>. QED
    BY <1>2, <2>1, <2>2
<1>9. CASE FullRefund \/ \E u \in Staff : ApproveCancellation(u)
  BY <1>9 DEF FullRefund, ApproveCancellation, TypeOK, OrderRow
<1>10. ASSUME doc' # doc
       PROVE  \/ \E u \in Staff, d \in Docs, i \in Items : UploadDocument(u, d, i)
              \/ \E u \in Staff, d \in Docs : Issue(u, d) \/ Revoke(u, d)
  BY <1>10, DocChanges
<1>11. CASE doc' = doc /\ items' = items
  BY <1>2, <1>11
<1>. QED
  BY <1>3, <1>4, <1>5, <1>6, <1>7, <1>8, <1>9, <1>10, <1>11, ItemChanges

LEMMA ConfirmedStep ==
  ASSUME TypeOK, DocsSound, ItemsFollowDocuments, NothingOutUnconfirmed, [Next]_vars
  PROVE  NothingOutUnconfirmed'
<1>. SUFFICES ASSUME kind'.deferred, ~order'.confirmed, NEW e \in Docs, Out(e)'
              PROVE  FALSE
  BY DEF NothingOutUnconfirmed
<1>1. kind' = kind
  BY OrderChanges
<1>2. CASE Out(e) /\ ~order.confirmed
  BY <1>1, <1>2 DEF NothingOutUnconfirmed
<1>3. CASE ~Out(e)
  <2>1. PICK u \in Staff, d \in Docs : Issue(u, d)
    <3>1. CASE \E u \in Staff, d \in Docs, i \in Items : UploadDocument(u, d, i)
      BY <1>3, <3>1 DEF UploadDocument, TypeOK, Out
    <3>2. CASE \E u \in Staff, d \in Docs : Revoke(u, d)
      BY <1>3, <3>2 DEF Revoke, TypeOK, DocRow, Out
    <3>. QED
      BY <1>3, <3>1, <3>2, DocChanges DEF Out
  <2>2. order' = order /\ (kind.deferred => order.confirmed)
    BY <2>1 DEF Issue, Releasable, Preparable
  <2>. QED
    BY <1>1, <2>2
<1>4. CASE Out(e) /\ order.confirmed
  <2>1. PICK u \in Staff : WithdrawRelease(u)
    <3>1. CASE PayFee \/ LateNews \/ PaymentReview
      BY <1>4, <3>1, MoneyMoves DEF TypeOK, OrderRow
    <3>2. CASE FullRefund \/ RequestCancellation
      BY <1>4, <3>2 DEF FullRefund, RequestCancellation, Order, TypeOK, OrderRow
    <3>3. CASE \E u \in Staff : ApproveCancellation(u) \/ RejectCancellation(u)
      BY <1>4, <3>3 DEF ApproveCancellation, RejectCancellation, Order, TypeOK, OrderRow
    <3>. QED
      BY <1>4, <3>1, <3>2, <3>3, OrderChanges DEF TypeOK, OrderRow
  <2>2. doc[e].item \in Items /\ doc[e].active /\ doc[e].issued
    BY <1>4, NoneIsNoItem DEF Out, DocsSound, OnePerItem, Exists, TypeOK, DocRow
  <2>3. items[doc[e].item] \in {"issued", "delivered"}
    BY <2>1, <2>2 DEF WithdrawRelease, Actionable, ItemsFollowDocuments, ActiveOn
  <2>. QED
    BY <2>1, <2>2, <2>3 DEF WithdrawRelease
<1>. QED
  BY <1>2, <1>3, <1>4

\* An order that is paid, in review or refunded was charged.
ChargedOK == order.payment \in {"paid", "blocked", "refunded"} => order.charged

LEMMA ChargedStep ==
  ASSUME TypeOK, ChargedOK, [Next]_vars
  PROVE  ChargedOK' /\ (order.charged => order'.charged)
<1>1. CASE PayFee \/ LateNews \/ PaymentReview
  BY <1>1, MoneyMoves DEF ChargedOK, TypeOK, OrderRow
<1>2. CASE FullRefund \/ RequestCancellation
  BY <1>2 DEF FullRefund, RequestCancellation, Order, ChargedOK, TypeOK, OrderRow
<1>3. CASE \E u \in Staff : ApproveCancellation(u) \/ RejectCancellation(u) \/ WithdrawRelease(u)
  BY <1>3 DEF ApproveCancellation, RejectCancellation, WithdrawRelease, Order, ChargedOK, TypeOK,
              OrderRow
<1>. QED
  BY <1>1, <1>2, <1>3, OrderChanges DEF ChargedOK, TypeOK, OrderRow

LEMMA PaidStep ==
  ASSUME TypeOK, OutIsPaid, ChargedOK, DocsSound, [Next]_vars
  PROVE  OutIsPaid'
<1>. SUFFICES ASSUME NEW e \in Docs, doc'[e].issued, ~kind'.free
              PROVE  /\ order'.charged
                     /\ doc'[e].mode = "live" <=> kind'.live
  BY DEF OutIsPaid
<1>1. kind' = kind
  BY OrderChanges
<1>2. CASE doc[e].issued
  <2>1. doc'[e].mode = doc[e].mode
    <3>1. ASSUME NEW u \in Staff, NEW d \in Docs, NEW i \in Items, UploadDocument(u, d, i)
          PROVE  doc'[e].mode = doc[e].mode
      <4>1. e # d
        BY <1>2, <3>1 DEF UploadDocument, DocsSound
      <4>2. doc'[e] = doc[e]
        BY <3>1, <4>1 DEF UploadDocument, TypeOK
      <4>. QED
        BY <4>2
    <3>2. ASSUME NEW u \in Staff, NEW d \in Docs, Issue(u, d)
          PROVE  doc'[e].mode = doc[e].mode
      BY <3>2 DEF Issue, TypeOK, DocRow
    <3>3. ASSUME NEW u \in Staff, NEW d \in Docs, Revoke(u, d)
          PROVE  doc'[e].mode = doc[e].mode
      BY <3>3 DEF Revoke, TypeOK, DocRow
    <3>. QED
      BY <3>1, <3>2, <3>3, DocChanges
  <2>2. order.charged /\ (doc[e].mode = "live" <=> kind.live)
    BY <1>1, <1>2 DEF OutIsPaid
  <2>. QED
    BY <1>1, <2>1, <2>2, ChargedStep
<1>3. CASE ~doc[e].issued
  <2>1. PICK u \in Staff, d \in Docs : Issue(u, d)
    <3>1. CASE \E u \in Staff, d \in Docs, i \in Items : UploadDocument(u, d, i)
      BY <1>3, <3>1 DEF UploadDocument, TypeOK
    <3>2. CASE \E u \in Staff, d \in Docs : Revoke(u, d)
      BY <1>3, <3>2 DEF Revoke, TypeOK, DocRow
    <3>. QED
      BY <1>3, <3>1, <3>2, DocChanges
  <2>2. e = d /\ doc'[e].mode = doc[d].mode
    BY <1>3, <2>1 DEF Issue, TypeOK, DocRow
  <2>3. /\ order' = order /\ doc[d].mode = mode
        /\ order.payment = "paid" /\ (kind.live <=> mode = "live")
    BY <1>1, <2>1 DEF Issue, Releasable, PaymentVerified
  <2>. QED
    BY <1>1, <2>2, <2>3 DEF ChargedOK
<1>. QED
  BY <1>2, <1>3

\* A document that is out after a step of a cancelled order was out before.
LEMMA NothingGetsOut ==
  ASSUME TypeOK, [Next]_vars, order.status = "cancelled", NEW e \in Docs, Out(e)'
  PROVE  Out(e)
<1>1. ASSUME NEW u \in Staff, NEW d \in Docs, Issue(u, d) \/ \E i \in Items : UploadDocument(u, d, i)
      PROVE  FALSE
  BY <1>1 DEF UploadDocument, Issue, Actionable
<1>2. ASSUME NEW u \in Staff, NEW d \in Docs, Revoke(u, d)
      PROVE  Out(e)
  <2>1. doc'[d].revoked /\ \A x \in Docs \ {d} : doc'[x] = doc[x]
    BY <1>2 DEF Revoke, TypeOK, DocRow
  <2>. QED
    BY <2>1 DEF Out
<1>. QED
  BY <1>1, <1>2, DocChanges DEF Out

\* With a document out, only a full refund cancels.
LEMMA RefundCancels ==
  ASSUME TypeOK, DocsSound, ItemsFollowDocuments, [Next]_vars,
         order.status # "cancelled", order'.status = "cancelled", NEW e \in Docs, Out(e)'
  PROVE  order'.payment = "refunded"
<1>1. CASE FullRefund
  BY <1>1 DEF FullRefund, TypeOK, OrderRow
<1>2. ASSUME NEW u \in Staff, ApproveCancellation(u)
      PROVE  FALSE
  <2>1. doc' = doc /\ \A i \in Items : items[i] \notin {"issued", "delivered"}
    BY <1>2 DEF ApproveCancellation, CanCancel
  <2>2. doc[e].item \in Items /\ doc[e].active /\ doc[e].issued
    BY <2>1, NoneIsNoItem DEF Out, DocsSound, OnePerItem, Exists, TypeOK, DocRow
  <2>. QED
    BY <2>1, <2>2 DEF ItemsFollowDocuments, ActiveOn
<1>3. CASE PayFee \/ LateNews \/ PaymentReview
  BY <1>3, MoneyMoves DEF TypeOK, OrderRow
<1>4. CASE RequestCancellation \/ \E u \in Staff : RejectCancellation(u) \/ WithdrawRelease(u)
  BY <1>4 DEF RequestCancellation, RejectCancellation, WithdrawRelease, Order, TypeOK, OrderRow
<1>. QED
  BY <1>1, <1>2, <1>3, <1>4, OrderChanges DEF TypeOK, OrderRow

-----------------------------------------------------------------------------
(* The inductive invariant *)

IInv == /\ TypeOK /\ DocsSound /\ ItemsFollowDocuments /\ CodesAreSingleUse
        /\ NothingOutUnconfirmed /\ OutIsPaid /\ ChargedOK

LEMMA Initially ==
  ASSUME Init
  PROVE  IInv
<1>. USE BoundsNatural, NoneIsNoItem
<1>1. PICK blockers \in SUBSET {"record"}, late \in BOOLEAN, payment \in {"due", "paid"},
           charged \in BOOLEAN :
        /\ order = [status |-> "submitted", payment |-> payment, charged |-> charged,
                    late |-> late, blockers |-> blockers, assigned |-> "none",
                    confirmed |-> FALSE]
        /\ payment = "paid" => charged
  <2>1. PICK blockers \in SUBSET {"record"}, late \in BOOLEAN :
          order = [status |-> "submitted",
                   payment |-> IF kind.early /\ ~kind.free THEN "paid" ELSE "due",
                   charged |-> kind.early /\ ~kind.free, late |-> late,
                   blockers |-> blockers, assigned |-> "none", confirmed |-> FALSE]
    BY DEF Init
  <2>2. CASE kind.early /\ ~kind.free
    <3>1. (kind.early /\ ~kind.free) = TRUE
      BY <2>2
    <3>. QED
      BY <2>1, <2>2, <3>1
  <2>3. CASE ~(kind.early /\ ~kind.free)
    <3>1. (kind.early /\ ~kind.free) = FALSE
      BY <2>3
    <3>. QED
      BY <2>1, <2>3, <3>1
  <2>. QED
    BY <2>2, <2>3
<1>2. TypeOK
  <2>1. order \in OrderRow
    BY <1>1 DEF OrderRow, Impediments
  <2>2. doc \in [Docs -> DocRow] /\ delivery \in [Docs -> DeliveryRow]
    BY DEF Init, NoDoc, NoDelivery, DocRow, DeliveryRow
  <2>. QED
    BY <2>1, <2>2 DEF Init, TypeOK, ItemStatus
<1>3. DocsSound /\ ItemsFollowDocuments /\ NothingOutUnconfirmed /\ OutIsPaid
  BY DEF Init, NoDoc, DocsSound, OnePerItem, Exists, ItemsFollowDocuments, ActiveOn,
         NothingOutUnconfirmed, OutIsPaid, Out
<1>4. ChargedOK
  BY <1>1 DEF ChargedOK
<1>5. CodesAreSingleUse
  BY DEF Init, NoDelivery, CodesAreSingleUse
<1>. QED
  BY <1>2, <1>3, <1>4, <1>5 DEF IInv

LEMMA Inductive ==
  ASSUME IInv, [Next]_vars
  PROVE  IInv'
BY TypeStep, DocsStep, ItemsStep, CodesStep, ConfirmedStep, PaidStep, ChargedStep DEF IInv

THEOREM Invariance == Spec => []IInv
<1>1. Init => IInv
  BY Initially
<1>2. IInv /\ [Next]_vars => IInv'
  BY Inductive
<1>. QED
  BY <1>1, <1>2, PTL DEF Spec

\* Every row stays within its type; for the download counts this needs that codes
\* are used once (services/issuance.py, models/issuance.py).
THEOREM IssuanceTyped == Spec => []TypeOK
<1>1. IInv => TypeOK
  BY DEF IInv
<1>. QED
  BY <1>1, Invariance, PTL

\* The items' statuses and the documents of an order always agree.
THEOREM DocumentsAgree == Spec => []ItemsMatchDocuments
<1>1. IInv => ItemsMatchDocuments
  BY DEF IInv, DocsSound, ItemsMatchDocuments
<1>. QED
  BY <1>1, Invariance, PTL

\* No document of a deferred order is out without the confirmation of its event.
THEOREM DeferredStaysIn == Spec => []NothingOutUnconfirmed
<1>1. IInv => NothingOutUnconfirmed
  BY DEF IInv
<1>. QED
  BY <1>1, Invariance, PTL

\* No document was let out of an unpaid order, nor a live one for test money.
THEOREM PaidBeforeOut == Spec => []OutIsPaid
<1>1. IInv => OutIsPaid
  BY DEF IInv
<1>. QED
  BY <1>1, Invariance, PTL

\* An order with a document out is cancelled by a full refund only, and nothing more
\* gets out of a cancelled one (can_cancel, apply_observation).
THEOREM NoCancelledDocuments == Spec => CancelledByRefund
<1>1. ASSUME IInv, [Next]_vars, order'.status = "cancelled", \E d \in Docs : Out(d)'
      PROVE  IF order.status = "cancelled" THEN \A d \in Docs : Out(d)' => Out(d)
             ELSE order'.payment = "refunded"
  BY <1>1, NothingGetsOut, RefundCancels DEF IInv
<1>2. IInv /\ [Next]_vars =>
        [order'.status = "cancelled" /\ (\E d \in Docs : Out(d)') =>
           IF order.status = "cancelled" THEN \A d \in Docs : Out(d)' => Out(d)
           ELSE order'.payment = "refunded"]_vars
  BY <1>1
<1>. QED
  BY <1>2, Invariance, PTL DEF Spec, CancelledByRefund

\* A document is opened at most once per mailed code.
THEOREM OneDownloadPerCode == Spec => []CodesAreSingleUse
<1>1. IInv => CodesAreSingleUse
  BY DEF IInv
<1>. QED
  BY <1>1, Invariance, PTL

-----------------------------------------------------------------------------
(* Refinement *)

\* A document taken in, let out or withdrawn.
LEMMA Moved ==
  ASSUME TypeOK, [Next]_vars, NEW d \in Docs,
         \A e \in Docs \ {d} : doc'[e] = doc[e],
         \A e \in Docs : delivery'[e].downloads = delivery[e].downloads
  PROVE  /\ Place' = [Place EXCEPT ![d] = Place'[d]]
         /\ Opened' = Opened
BY DEF Place, Opened, Exists

\* Every step of the registrars and the recipient is a step of Custody or none.
LEMMA CustodyStep ==
  ASSUME IInv, [Next]_vars
  PROVE  [Vault!Next]_<<Place, Opened>>
<1>. USE DEF IInv
<1>1. ASSUME NEW u \in Staff, NEW d \in Docs, NEW i \in Items, UploadDocument(u, d, i)
      PROVE  Vault!Next
  <2>1. /\ \A e \in Docs \ {d} : doc'[e] = doc[e]
        /\ \A e \in Docs : delivery'[e].downloads = delivery[e].downloads
    BY <1>1 DEF UploadDocument, TypeOK
  <2>2. Place[d] = "nowhere" /\ Place'[d] = "held"
    BY <1>1, NoneIsNoItem DEF UploadDocument, TypeOK, Place, Exists
  <2>3. Vault!Move(d, {"nowhere"}, "held")
    BY <2>1, <2>2, Moved DEF Vault!Move
  <2>. QED
    BY <2>3 DEF Vault!Next
<1>2. ASSUME NEW u \in Staff, NEW d \in Docs, Issue(u, d)
      PROVE  Vault!Next
  <2>1. \A e \in Docs \ {d} : doc'[e] = doc[e]
    BY <1>2 DEF Issue, TypeOK, DocRow
  <2>2. \A e \in Docs : delivery'[e].downloads = delivery[e].downloads
    BY <1>2 DEF Issue, TypeOK, DeliveryRow
  <2>3. Place[d] = "held" /\ Place'[d] = "out"
    BY <1>2 DEF Issue, Prepared, TypeOK, DocRow, Place, Exists
  <2>4. Vault!Move(d, {"held"}, "out")
    BY <2>1, <2>2, <2>3, Moved DEF Vault!Move
  <2>. QED
    BY <2>4 DEF Vault!Next
<1>3. ASSUME NEW u \in Staff, NEW d \in Docs, Revoke(u, d)
      PROVE  Vault!Next
  <2>1. /\ \A e \in Docs \ {d} : doc'[e] = doc[e]
        /\ doc'[d].item = doc[d].item /\ doc'[d].revoked
    BY <1>3 DEF Revoke, TypeOK, DocRow
  <2>2. \A e \in Docs : delivery'[e].downloads = delivery[e].downloads
    BY <1>3 DEF Revoke, TypeOK, DeliveryRow
  <2>3. Exists(d) /\ ~doc[d].revoked
    BY <1>3 DEF Revoke
  <2>4. Place[d] \in {"held", "out"} /\ Place'[d] = "withdrawn"
    BY <2>1, <2>3 DEF Place, Exists
  <2>5. Vault!Move(d, {"held", "out"}, "withdrawn")
    BY <2>1, <2>2, <2>4, Moved DEF Vault!Move
  <2>. QED
    BY <2>5 DEF Vault!Next
<1>4. ASSUME NEW d \in Docs, Download(d)
      PROVE  Vault!Next
  <2>1. doc' = doc /\ Out(d)
    BY <1>4 DEF Download, Deliverable
  <2>2. Place' = Place /\ Place[d] = "out"
    BY <2>1 DEF Place, Out, Exists, DocsSound
  <2>3. \A e \in Docs : delivery'[e].downloads = IF e = d THEN delivery[d].downloads + 1
                                                         ELSE delivery[e].downloads
    BY <1>4 DEF Download, TypeOK, DeliveryRow
  <2>4. Opened' = [Opened EXCEPT ![d] = @ + 1]
    BY <2>3 DEF Opened
  <2>. QED
    BY <2>2, <2>4 DEF Vault!Open, Vault!Next
<1>5. CASE doc' = doc /\ \A e \in Docs : delivery'[e].downloads = delivery[e].downloads
  BY <1>5 DEF Place, Opened, Exists
<1>6. ASSUME doc' = doc, NEW d \in Docs, \/ Notify(d) \/ CodeExpires(d) \/ DeliveryExpires(d)
                                        \/ RequestCode(d)
      PROVE  \A e \in Docs : delivery'[e].downloads = delivery[e].downloads
  <2>1. CASE Notify(d)
    BY <2>1 DEF Notify, TypeOK, DeliveryRow
  <2>2. CASE CodeExpires(d) \/ DeliveryExpires(d)
    BY <2>2 DEF CodeExpires, DeliveryExpires, TypeOK, DeliveryRow
  <2>3. CASE RequestCode(d)
    BY <2>3 DEF RequestCode, TypeOK, DeliveryRow
  <2>. QED
    BY <1>6, <2>1, <2>2, <2>3
<1>. QED
  BY <1>1, <1>2, <1>3, <1>4, <1>5, <1>6, DocChanges, DeliveryChanges

\* The documents of every order behave as Custody promises (services/issuance.py,
\* api/v1/issuance.py).
THEOREM KeptInCustody == Spec => InCustody
<1>1. Init => Vault!Init
  BY NoneIsNoItem DEF Init, Vault!Init, Place, Opened, Exists, NoDoc, NoDelivery
<1>2. IInv /\ [Next]_vars => [Vault!Next]_<<Place, Opened>>
  BY CustodyStep
<1>. QED
  BY <1>1, <1>2, Invariance, PTL DEF Spec, InCustody, Vault!Spec

\* Registrars never decide on a state of the items, documents or case that their
\* page does not show (check_version).
THEOREM PagesOutdated == Spec => ChangesOutdatePages
<1>1. ASSUME TypeOK, [Next]_vars,
             <<items, doc, order.assigned, order.confirmed, order.status>>'
               # <<items, doc, order.assigned, order.confirmed, order.status>>
      PROVE  fresh' = {}
  <2>1. CASE \E u \in Staff : CaseWork(u)
    BY <1>1, <2>1 DEF CaseWork, ReadOrder, CreateHold, ResolveHold, ConfirmRelease, WithdrawRelease,
                ApproveCancellation, RejectCancellation, Assignment, Order, Recorded
  <2>2. CASE \E u \in Staff, i \in Items : ItemWork(u, i)
    BY <2>2 DEF ItemWork, Approve, MarkReady, Reject, Reopen, Item, Recorded
  <2>3. CASE \E u \in Staff, d \in Docs : DocumentWork(u, d)
    BY <2>3 DEF DocumentWork, UploadDocument, Issue, Revoke, Recorded
  <2>4. CASE \E d \in Docs : Recipient(d)
    BY <1>1, <2>4 DEF Recipient, RequestCode, Download, Recorded
  <2>5. CASE RecordChanges \/ ApprovalChanges
    BY <1>1, <2>5 DEF RecordChanges, ApprovalChanges, Elsewhere, TypeOK, OrderRow
  <2>6. CASE Surroundings /\ ~RecordChanges /\ ~ApprovalChanges
    BY <1>1, <2>6 DEF Surroundings, AskStudent, AnswerQuestion, PayFee, LateNews, PaymentReview, Payment, Charge, FullRefund,
                RequestCancellation, Redeploy, Preview,
                Notify, CodeExpires, DeliveryExpires, Order, Recorded
  <2>. QED
    BY <1>1, <2>1, <2>2, <2>3, <2>4, <2>5, <2>6 DEF Next, vars
<1>2. IInv /\ [Next]_vars =>
        [<<items, doc, order.assigned, order.confirmed, order.status>>'
           # <<items, doc, order.assigned, order.confirmed, order.status>> => fresh' = {}]_vars
  BY <1>1 DEF IInv
<1>. QED
  BY <1>2, Invariance, PTL DEF Spec, ChangesOutdatePages
=============================================================================
