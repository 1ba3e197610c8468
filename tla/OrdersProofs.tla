---------------------------- MODULE OrdersProofs ----------------------------
(***************************************************************************)
(* What the provers establish about Orders for any number of orders,       *)
(* quotes, pages and contents and whatever the bounds.                     *)
(*                                                                         *)
(* Almost every action writes one order row.  RowOK is what every row      *)
(* satisfies by itself, RowStep what a write may do to it, and the lemma   *)
(* WriteKeeps turns a RowStep into a step of the invariant IInv.  The few  *)
(* actions that write a quote, a page or the record are done one by one.   *)
(* The last part is about steps: what was on offer when an order is        *)
(* submitted, on the page when a record is confirmed, and signed when work *)
(* or a payment begins.                                                    *)
(***************************************************************************)
EXTENDS Orders, TLAPS

\* What holds of an order row alone.
RowOK(r) ==
  /\ r \in OrderRow
  /\ r.payment = Aggregate(r.attempts)
  /\ r.status \in {"none", "draft"} =>
       r.snapshot = NoSnapshot /\ r.attempts = NoAttempts
  /\ r.status \in {"none", "draft", "awaiting_payment"} => ~r.released /\ r.items = "draft"
  /\ r.released /\ r.policy = "before_review" /\ r.snapshot.fee > 0 => r.attempts["funded"] > 0

\* What a page shows of an order is older than the order or up to date.
PageOK(p, r) ==
  /\ r.status # "none"
  /\ p.version <= r.version
  /\ p.version = r.version => p.content = r.content /\ p.files = r.files

\* A submitted order is what its signed quote says.
SignedRow(o, r, quotes) ==
  r.snapshot # NoSnapshot =>
    /\ r.quote \in QuoteIds /\ quotes[r.quote] # NoQuote
    /\ quotes[r.quote].order = o /\ quotes[r.quote].signed
    /\ quotes[r.quote].snapshot = r.snapshot
    /\ r.snapshot.content = r.content /\ r.snapshot.files = r.files

RowsOK  == \A o \in OrderIds : RowOK(order[o])
PagesOK == \A c \in Pages : page[c].order \in OrderIds =>
                              PageOK(page[c], order[page[c].order])
Signed  == \A o \in OrderIds : SignedRow(o, order[o], quote)
RecordOK ==
  /\ record.hidden \/ record.status = "none" => \A d \in Desks : dossier[d].version = 0
  /\ record.hidden => \A o \in OrderIds : ~order[o].released
  /\ record.status = "none" => \A o \in OrderIds : order[o].status = "none"

\* The inductive invariant.
IInv == TypeOK /\ RowsOK /\ PagesOK /\ Signed /\ RecordOK

\* What an action that only writes the row r makes of it.
RowStep(r, s) ==
  /\ RowOK(s) /\ s.status # "none"
  /\ r.status = "none" => record.status # "none"
  /\ s.released => r.released
  /\ r.status = "none" \/ /\ s.version >= r.version
                          /\ s.content # r.content \/ s.files # r.files => s.version > r.version
  /\ \/ s.snapshot = NoSnapshot
     \/ /\ s.snapshot = r.snapshot /\ s.quote = r.quote
        /\ s.content = r.content /\ s.files = r.files

-----------------------------------------------------------------------------

\* Where there is an order there is a record.
LEMMA RecordThere ==
  ASSUME IInv, NEW o \in OrderIds, order[o].status # "none"
  PROVE  record.status # "none"
  BY DEF IInv, RecordOK

\* A row step anywhere keeps the invariant of pages, signatures and record.
LEMMA WriteKeeps ==
  ASSUME IInv, NEW o \in OrderIds, NEW s, RowStep(order[o], s), Write(o, s)
  PROVE  IInv'
<1>1. /\ \A x \in OrderIds : order'[x] = IF x = o THEN s ELSE order[x]
      /\ order' \in [OrderIds -> OrderRow]
  BY DEF IInv, TypeOK, Write, RowStep, RowOK
<1>2. TypeOK'
  BY <1>1 DEF IInv, TypeOK, Write
<1>3. RowsOK'
  BY <1>1 DEF IInv, RowsOK, RowStep
<1>4. PagesOK'
  <2> SUFFICES ASSUME NEW c \in Pages, page[c].order \in OrderIds
               PROVE  PageOK(page[c], order'[page[c].order])
    BY DEF PagesOK, Write
  <2>1. PageOK(page[c], order[page[c].order])
    BY DEF IInv, PagesOK
  <2>2. CASE page[c].order = o
    <3>1. page[c].version \in Nat /\ order[o].version \in Nat /\ s.version \in Nat
      BY DEF IInv, TypeOK, Page, OrderRow, RowStep, RowOK
    <3> QED BY <1>1, <2>1, <2>2, <3>1 DEF PageOK, RowStep
  <2>3. CASE page[c].order # o
    BY <1>1, <2>1, <2>3
  <2> QED BY <2>2, <2>3
<1>5. Signed'
  BY <1>1 DEF IInv, Signed, SignedRow, Write, RowStep
<1>6. RecordOK'
  BY <1>1, RecordThere DEF IInv, RecordOK, Write, RowStep
<1> QED BY <1>2, <1>3, <1>4, <1>5, <1>6 DEF IInv

\* What the derived status says of the attempts.
LEMMA AggregateSays ==
  ASSUME NEW a \in [Stages -> Nat]
  PROVE  /\ Aggregate(a) \in {"not_started", "pending", "paid", "review_required"}
         /\ Aggregate(a) = "not_started" => a["open"] = 0 /\ a["funded"] = 0
         /\ Aggregate(a) = "paid" => a["funded"] > 0
         /\ a["open"] = 0 /\ a["funded"] = 0 => Aggregate(a) = "not_started"
         /\ a["open"] > 0 /\ a["funded"] = 0 => Aggregate(a) = "pending"
<1>1. a["open"] \in Nat /\ a["funded"] \in Nat
  BY DEF Stages
<1> QED BY <1>1 DEF Aggregate

\* No attempt at all.
LEMMA NoneStarted ==
  /\ NoAttempts \in [Stages -> Nat]
  /\ NoAttempts["open"] = 0 /\ NoAttempts["funded"] = 0 /\ NoAttempts["closed"] = 0
  /\ Aggregate(NoAttempts) = "not_started"
<1>1. /\ NoAttempts \in [Stages -> Nat]
      /\ NoAttempts["open"] = 0 /\ NoAttempts["funded"] = 0 /\ NoAttempts["closed"] = 0
  BY DEF NoAttempts, Stages
<1> QED BY <1>1, AggregateSays

\* The row of an order that is not created yet has no signature to lose.
LEMMA NewRowStep ==
  ASSUME IInv, NEW o \in OrderIds, order[o].status = "none", record.status # "none",
         NEW version \in Nat, NEW content \in Drafts
  PROVE  RowStep(order[o], NewRow(version, content))
<1>1. setting \in {"before_review", "after_review"}
  BY KnownSettings DEF IInv, TypeOK
<1>2. NewRow(version, content) \in OrderRow
  BY <1>1, NoneStarted DEF NewRow, OrderRow
<1> QED BY <1>2, NoneStarted DEF NewRow, RowStep, RowOK

\* The order row before a step.
LEMMA RowBefore ==
  ASSUME IInv, NEW o \in OrderIds
  PROVE  RowOK(order[o]) /\ order[o] \in OrderRow /\ order[o].version \in Nat
  BY DEF IInv, RowsOK, RowOK, OrderRow

\* An event changes the version of a row and nothing else.
LEMMA BumpedRow ==
  ASSUME NEW r \in OrderRow
  PROVE  /\ Bumped(r) \in OrderRow
         /\ Bumped(r).version = r.version + 1 /\ r.version \in Nat
         /\ Bumped(r).status = r.status /\ Bumped(r).policy = r.policy
         /\ Bumped(r).content = r.content /\ Bumped(r).files = r.files
         /\ Bumped(r).payment = r.payment /\ Bumped(r).attempts = r.attempts
         /\ Bumped(r).released = r.released
         /\ Bumped(r).items = r.items /\ Bumped(r).quote = r.quote
         /\ Bumped(r).snapshot = r.snapshot
  BY DEF Bumped, OrderRow

\* Editing a draft and giving it a new version.
LEMMA EditStep ==
  ASSUME IInv, NEW o \in OrderIds, IsDraft(o), NEW r \in OrderRow,
         \/ \E content \in Drafts : r = [order[o] EXCEPT !.content = content]
         \/ \E files \in SUBSET Files : r = [order[o] EXCEPT !.files = files]
  PROVE  RowStep(order[o], Bumped(r))
<1>1. RowOK(order[o]) /\ order[o] \in OrderRow
  BY RowBefore
<1>2. /\ r.status = order[o].status /\ r.policy = order[o].policy
      /\ r.version = order[o].version /\ r.payment = order[o].payment
      /\ r.attempts = order[o].attempts
      /\ r.released = order[o].released /\ r.items = order[o].items
      /\ r.snapshot = order[o].snapshot
  BY <1>1 DEF OrderRow
<1>3. order[o].snapshot = NoSnapshot /\ ~order[o].released /\ order[o].status = "draft"
      /\ order[o].items = "draft" /\ order[o].attempts = NoAttempts
      /\ order[o].payment = Aggregate(order[o].attempts)
  BY <1>1 DEF RowOK, IsDraft
<1> QED BY <1>2, <1>3, BumpedRow DEF RowStep, RowOK

\* create_order and reorder
LEMMA CreateKeeps ==
  ASSUME IInv, NEW o \in OrderIds,
         CreateOrder(o) \/ \E source \in OrderIds : Reorder(o, source)
  PROVE  IInv'
<1>1. \A source \in OrderIds : order[source].content \in Drafts
  BY RowBefore DEF OrderRow
<1>2. PICK version \in Nat, content \in Drafts : Write(o, NewRow(version, content))
  BY <1>1 DEF CreateOrder, Reorder, Drafts
<1>3. order[o].status = "none"
  BY DEF CreateOrder, Reorder
<1>4. record.status # "none"
  BY RecordThere DEF CreateOrder, Reorder, Past
<1> QED BY <1>2, <1>3, <1>4, NewRowStep, WriteKeeps

\* replace_draft, attach_file and delete_attachment
LEMMA EditKeeps ==
  ASSUME IInv, NEW c \in Tabs, NEW o \in OrderIds,
         \/ \E content \in Drafts : ReplaceDraft(c, o, content)
         \/ \E f \in Files : AttachFile(c, o, f) \/ DeleteAttachment(c, o, f)
  PROVE  IInv'
<1>1. order[o] \in OrderRow
  BY RowBefore
<1>2. CASE \E content \in Drafts : ReplaceDraft(c, o, content)
  <2>1. PICK content \in Drafts : ReplaceDraft(c, o, content)
    BY <1>2
  <2>2. [order[o] EXCEPT !.content = content] \in OrderRow
    BY <1>1 DEF OrderRow
  <2>3. RowStep(order[o], Bumped([order[o] EXCEPT !.content = content]))
    BY <2>1, <2>2, EditStep DEF ReplaceDraft
  <2> QED BY <2>1, <2>3, WriteKeeps DEF ReplaceDraft
<1>3. CASE \E f \in Files : AttachFile(c, o, f) \/ DeleteAttachment(c, o, f)
  <2>1. PICK f \in Files : AttachFile(c, o, f) \/ DeleteAttachment(c, o, f)
    BY <1>3
  <2>2. PICK files \in SUBSET Files :
          Write(o, Bumped([order[o] EXCEPT !.files = files]))
    BY <1>1, <2>1 DEF AttachFile, DeleteAttachment, OrderRow
  <2>3. [order[o] EXCEPT !.files = files] \in OrderRow
    BY <1>1 DEF OrderRow
  <2>4. RowStep(order[o], Bumped([order[o] EXCEPT !.files = files]))
    BY <2>1, <2>3, EditStep DEF AttachFile, DeleteAttachment
  <2> QED BY <2>2, <2>4, WriteKeeps
<1> QED BY <1>2, <1>3

\* create_attempt
LEMMA PaymentKeeps ==
  ASSUME IInv, NEW c \in Tabs, NEW o \in OrderIds, PaymentStarts(c, o)
  PROVE  IInv'
<1> DEFINE a == order[o].attempts
           b == [a EXCEPT !["open"] = @ + 1]
           s == [order[o] EXCEPT !.attempts = b, !.payment = "pending"]
<1>1. RowOK(order[o]) /\ order[o] \in OrderRow /\ order[o].version \in Nat
  BY RowBefore
<1>2. Payable(o) /\ Write(o, Bumped(s))
  BY <1>1 DEF PaymentStarts, OrderRow
<1>3. order[o].status \in {"awaiting_payment", "submitted"}
  BY <1>2 DEF Payable, Preparable
<1>4. order[o].snapshot.fee > 0 /\ a \in [Stages -> Nat] /\ a["open"] = 0 /\ a["funded"] = 0
  BY <1>1, <1>2, AggregateSays DEF Payable, RowOK, OrderRow
<1>5. ~(order[o].released /\ order[o].policy = "before_review")
  BY <1>1, <1>4 DEF RowOK
<1>6. b \in [Stages -> Nat] /\ b["open"] > 0 /\ b["funded"] = 0
  BY <1>4 DEF Stages
<1> HIDE DEF b
<1>7. /\ s \in OrderRow /\ s.payment = "pending" /\ s.attempts = b
      /\ s.status = order[o].status
      /\ s.version = order[o].version
      /\ s.policy = order[o].policy
      /\ s.content = order[o].content
      /\ s.files = order[o].files
      /\ s.released = order[o].released
      /\ s.items = order[o].items
      /\ s.quote = order[o].quote
      /\ s.snapshot = order[o].snapshot
  BY <1>1, <1>6 DEF OrderRow
<1>8. s.payment = Aggregate(s.attempts)
  BY <1>6, <1>7, AggregateSays
<1> HIDE DEF s, a
<1>9. RowOK(Bumped(s))
  <2>1. s.status \notin {"none", "draft"}
    BY <1>3, <1>7
  <2>2. s.status = "awaiting_payment" => ~s.released /\ s.items = "draft"
    BY <1>1, <1>7 DEF RowOK
  <2>3. ~(s.released /\ s.policy = "before_review")
    BY <1>5, <1>7
  <2> QED BY <1>7, <1>8, <2>1, <2>2, <2>3, BumpedRow DEF RowOK
<1>10. RowStep(order[o], Bumped(s))
  BY <1>1, <1>3, <1>7, <1>9, BumpedRow DEF RowStep
<1> QED BY <1>2, <1>10, WriteKeeps

\* add_message
LEMMA MessageKeeps ==
  ASSUME IInv, NEW o \in OrderIds, SendMessage(o)
  PROVE  IInv'
<1>1. RowOK(order[o]) /\ order[o] \in OrderRow /\ order[o].version \in Nat
  BY RowBefore
<1>2. Bumped(order[o]) \in OrderRow
  BY <1>1 DEF OrderRow, Bumped
<1>3. RowStep(order[o], Bumped(order[o]))
  BY <1>1, <1>2, BumpedRow DEF RowStep, RowOK, SendMessage
<1> QED BY <1>3, WriteKeeps DEF SendMessage

\* request_cancellation and decide_cancellation
LEMMA CancelKeeps ==
  ASSUME IInv, NEW c \in Pages, NEW o \in OrderIds,
         RequestCancellation(c, o) \/ DecideCancellation(c, o)
  PROVE  IInv'
<1>1. RowOK(order[o]) /\ order[o] \in OrderRow /\ order[o].version \in Nat
  BY RowBefore
<1>2. CASE RequestCancellation(c, o)
  <2> DEFINE r == [order[o] EXCEPT !.status =
                     IF @ = "submitted" THEN "cancellation_requested" ELSE "cancelled"]
  <2>1. r \in OrderRow
    BY <1>1 DEF OrderRow, Past
  <2>2. order[o].status \in {"draft", "awaiting_payment", "submitted"} /\ CanCancel(order[o])
    BY <1>2 DEF RequestCancellation
  <2>3. /\ r.status \in {"cancellation_requested", "cancelled"}
        /\ r.version = order[o].version /\ r.policy = order[o].policy
        /\ r.attempts = order[o].attempts /\ r.payment = order[o].payment
        /\ r.content = order[o].content /\ r.files = order[o].files
        /\ r.released = order[o].released /\ r.items = order[o].items
        /\ r.quote = order[o].quote /\ r.snapshot = order[o].snapshot
    BY <1>1 DEF OrderRow
  <2>4. Write(o, Bumped(r))
    BY <1>2 DEF RequestCancellation
  <2> HIDE DEF r
  <2>5. RowOK(Bumped(r))
    BY <1>1, <2>1, <2>3, BumpedRow DEF RowOK
  <2>6. RowStep(order[o], Bumped(r))
    BY <1>1, <2>1, <2>2, <2>3, <2>5, BumpedRow DEF RowStep
  <2> QED BY <2>4, <2>6, WriteKeeps
<1>3. CASE DecideCancellation(c, o)
  <2> DEFINE r == [order[o] EXCEPT !.status = "cancelled", !.items = "cancelled"]
             s == [order[o] EXCEPT !.status = "submitted"]
  <2>1. r \in OrderRow /\ s \in OrderRow
    BY <1>1 DEF OrderRow, Past
  <2>2. order[o].status = "cancellation_requested"
    BY <1>3 DEF DecideCancellation
  <2>4. RowStep(order[o], Bumped(s))
    BY <1>1, <2>1, <2>2, BumpedRow DEF RowStep, RowOK, OrderRow
  <2>5. /\ r.version = order[o].version
        /\ r.policy = order[o].policy
        /\ r.content = order[o].content
        /\ r.files = order[o].files
        /\ r.payment = order[o].payment
        /\ r.attempts = order[o].attempts
        /\ r.released = order[o].released
        /\ r.quote = order[o].quote
        /\ r.snapshot = order[o].snapshot
        /\ r.status = "cancelled" /\ r.items = "cancelled"
    BY <1>1 DEF OrderRow
  <2> HIDE DEF r
  <2>3. RowStep(order[o], Bumped(r))
    BY <1>1, <2>1, <2>2, <2>5, BumpedRow DEF RowStep, RowOK
  <2> QED BY <1>3, <2>3, <2>4, WriteKeeps DEF DecideCancellation, r
<1> QED BY <1>2, <1>3

\* item_decision
LEMMA DecisionKeeps ==
  ASSUME IInv, NEW d \in Desks, NEW o \in OrderIds, ItemDecision(d, o)
  PROVE  IInv'
<1>1. RowOK(order[o]) /\ order[o] \in OrderRow /\ order[o].version \in Nat
  BY RowBefore
<1>2. PICK items \in {"processing", "rejected", "awaiting_review"} :
        Write(o, Bumped([order[o] EXCEPT !.items = items]))
  BY DEF ItemDecision
<1> DEFINE r == [order[o] EXCEPT !.items = items]
<1>3. r \in OrderRow
  BY <1>1 DEF OrderRow
<1>4. order[o].status = "submitted"
  BY DEF ItemDecision
<1>5. RowStep(order[o], Bumped(r))
  BY <1>1, <1>3, <1>4, BumpedRow DEF RowStep, RowOK, OrderRow
<1> QED BY <1>2, <1>5, WriteKeeps

-----------------------------------------------------------------------------

\* A quote write that keeps what submitted orders rely on keeps the invariant.
LEMMA QuoteKeeps ==
  ASSUME IInv, NEW q \in QuoteIds, NEW row \in QuoteRow, WriteQuote(q, row),
         \/ quote[q] = NoQuote
         \/ /\ row.order = quote[q].order /\ row.snapshot = quote[q].snapshot
            /\ quote[q].signed => row.signed
  PROVE  IInv'
<1>1. \A x \in QuoteIds : quote'[x] = IF x = q THEN row ELSE quote[x]
  BY DEF IInv, TypeOK, WriteQuote
<1>2. TypeOK'
  BY DEF IInv, TypeOK, WriteQuote
<1>3. row # NoQuote
  <2>1. DOMAIN row = {"order", "version", "snapshot", "live", "signed"}
    BY DEF QuoteRow
  <2>2. DOMAIN NoQuote = {"order"}
    BY DEF NoQuote
  <2> QED BY <2>1, <2>2
<1>4. Signed'
  BY <1>1, <1>3 DEF IInv, Signed, SignedRow, WriteQuote
<1>5. RowsOK' /\ PagesOK' /\ RecordOK'
  BY DEF IInv, RowsOK, PagesOK, RecordOK, WriteQuote
<1> QED BY <1>2, <1>4, <1>5 DEF IInv

\* build_snapshot makes a snapshot of a complete order.
LEMMA SnapshotType ==
  ASSUME IInv, NEW o \in OrderIds, Ready(order[o])
  PROVE  BuildSnapshot(order[o]) \in Snapshot
  BY RowBefore DEF IInv, TypeOK, Ready, BuildSnapshot, Snapshot, Drafts, OrderRow,
                   Record, Catalog

\* quote_order, accept_consent and the expiry of a quote
LEMMA QuotingKeeps ==
  ASSUME IInv, NEW q \in QuoteIds, NEW o \in OrderIds,
         \/ \E c \in Tabs : QuoteOrder(c, o, q)
         \/ AcceptConsent(o, q)
         \/ QuoteExpires(q)
  PROVE  IInv'
<1>1. CASE \E c \in Tabs : QuoteOrder(c, o, q)
  <2>1. Ready(order[o]) /\ quote[q] = NoQuote
    BY <1>1 DEF QuoteOrder
  <2> DEFINE row == [order |-> o, version |-> order[o].version,
                     snapshot |-> BuildSnapshot(order[o]), live |-> TRUE, signed |-> FALSE]
  <2>2. row \in QuoteRow
    BY <2>1, SnapshotType, RowBefore DEF QuoteRow
  <2>3. WriteQuote(q, row)
    BY <1>1 DEF QuoteOrder
  <2> QED BY <2>1, <2>2, <2>3, QuoteKeeps
<1>2. CASE AcceptConsent(o, q)
  <2>1. quote[q] \in QuoteRow
    BY <1>2 DEF AcceptConsent, ValidQuote, IInv, TypeOK
  <2> DEFINE row == [quote[q] EXCEPT !.signed = TRUE]
  <2>2. /\ row \in QuoteRow /\ row.order = quote[q].order
        /\ row.snapshot = quote[q].snapshot /\ row.signed
    BY <2>1 DEF QuoteRow
  <2>3. WriteQuote(q, row)
    BY <1>2 DEF AcceptConsent
  <2> QED BY <2>2, <2>3, QuoteKeeps
<1>3. CASE QuoteExpires(q)
  <2>1. quote[q] \in QuoteRow
    BY <1>3 DEF QuoteExpires, IInv, TypeOK
  <2> DEFINE row == [quote[q] EXCEPT !.live = FALSE]
  <2>2. /\ row \in QuoteRow /\ row.order = quote[q].order
        /\ row.snapshot = quote[q].snapshot /\ row.signed = quote[q].signed
    BY <2>1 DEF QuoteRow
  <2>3. WriteQuote(q, row)
    BY <1>3 DEF QuoteExpires
  <2> QED BY <2>2, <2>3, QuoteKeeps
<1> QED BY <1>1, <1>2, <1>3

\* delete_unfinished_order: only quotes of the draft go with it.
LEMMA DeleteKeeps ==
  ASSUME IInv, NEW c \in Tabs, NEW o \in OrderIds, DeleteOrder(c, o)
  PROVE  IInv'
<1> DEFINE s == [order[o] EXCEPT !.status = "deleted"]
<1>1. RowOK(order[o]) /\ order[o] \in OrderRow
  BY RowBefore
<1>2. \A x \in OrderIds : order'[x] = IF x = o THEN s ELSE order[x]
  BY DEF DeleteOrder, IInv, TypeOK
<1>3. s \in OrderRow
  BY <1>1 DEF OrderRow
<1>4. TypeOK'
  BY <1>3 DEF DeleteOrder, IInv, TypeOK
<1>5. /\ s.status = "deleted" /\ s.version = order[o].version
      /\ s.content = order[o].content /\ s.files = order[o].files
      /\ s.released = order[o].released /\ s.snapshot = NoSnapshot /\ ~s.released
      /\ s.payment = order[o].payment /\ s.attempts = order[o].attempts
  BY <1>1 DEF DeleteOrder, OrderRow
<1>6. RowsOK'
  <2>1. RowOK(s)
    BY <1>1, <1>3, <1>5 DEF RowOK
  <2>2. \A x \in OrderIds : RowOK(order[x])
    BY DEF IInv, RowsOK
  <2> HIDE DEF s
  <2> QED BY <1>2, <2>1, <2>2 DEF RowsOK
<1>7. PagesOK'
  BY <1>2, <1>5 DEF DeleteOrder, IInv, PagesOK, PageOK
<1>8. Signed'
  <2> SUFFICES ASSUME NEW x \in OrderIds PROVE SignedRow(x, order'[x], quote')
    BY DEF Signed
  <2>1. CASE x = o
    BY <1>2, <1>5, <2>1 DEF SignedRow
  <2>2. CASE x # o
    <3>1. SignedRow(x, order[x], quote) /\ order'[x] = order[x]
      BY <1>2, <2>2 DEF IInv, Signed
    <3>2. \A q \in QuoteIds : quote[q].order = x => quote'[q] = quote[q]
      BY <2>2 DEF DeleteOrder
    <3> QED BY <3>1, <3>2 DEF SignedRow
  <2> QED BY <2>1, <2>2
<1>9. RecordOK'
  BY <1>2, <1>5, RecordThere DEF DeleteOrder, IsDraft, IInv, RecordOK
<1> QED BY <1>4, <1>6, <1>7, <1>8, <1>9 DEF IInv

-----------------------------------------------------------------------------

\* A row written together with the record: a release also makes it visible.
LEMMA SendKeeps ==
  ASSUME IInv, NEW o \in OrderIds, NEW s, RowOK(s), SignedRow(o, s, quote),
         s.status # "none", order[o].status # "none", s.version > order[o].version,
         order' = [order EXCEPT ![o] = s],
         \/ record' = record /\ ~s.released
         \/ record' = RecordReleased(record)
         \/ record' = record /\ order[o].released,
         UNCHANGED <<quote, catalog, setting, page, dossier>>
  PROVE  IInv'
<1>1. \A x \in OrderIds : order'[x] = IF x = o THEN s ELSE order[x]
  BY DEF IInv, TypeOK
<1>2. record' \in Record /\ record'.status = record.status
      /\ (record'.hidden => record.hidden /\ record' = record)
  BY DEF IInv, TypeOK, Record, RecordReleased
<1>3. TypeOK'
  BY <1>2 DEF IInv, TypeOK, RowOK
<1>4. RowsOK'
  BY <1>1 DEF IInv, RowsOK
<1>5. PagesOK'
  <2> SUFFICES ASSUME NEW c \in Pages, page[c].order \in OrderIds
               PROVE  PageOK(page[c], order'[page[c].order])
    BY DEF PagesOK
  <2>1. PageOK(page[c], order[page[c].order])
    BY DEF IInv, PagesOK
  <2>2. CASE page[c].order = o
    <3>1. page[c].version \in Nat /\ order[o].version \in Nat /\ s.version \in Nat
      BY DEF IInv, TypeOK, Page, OrderRow, RowOK
    <3> QED BY <1>1, <2>1, <2>2, <3>1 DEF PageOK
  <2> QED BY <1>1, <2>1, <2>2
<1>6. Signed'
  BY <1>1 DEF IInv, Signed, SignedRow
<1>7. RecordOK'
  <2> record.status # "none"
    BY RecordThere
  <2>1. CASE record' = RecordReleased(record)
    BY <1>2, <2>1 DEF IInv, TypeOK, Record, RecordOK, RecordReleased
  <2>2. CASE record' = record /\ ~s.released
    BY <1>1, <1>2, <2>2 DEF IInv, RecordOK
  <2>3. CASE record' = record /\ order[o].released
    BY <1>1, <1>2, <2>3 DEF IInv, RecordOK
  <2> QED BY <2>1, <2>2, <2>3
<1> QED BY <1>3, <1>4, <1>5, <1>6, <1>7 DEF IInv

\* release_order on a row that is not released.
LEMMA ReleasedRow ==
  ASSUME NEW r \in OrderRow, ~r.released
  PROVE  /\ Released(r) \in OrderRow
         /\ Released(r).version = r.version + 1 /\ r.version \in Nat
         /\ Released(r).status = "submitted" /\ Released(r).released
         /\ Released(r).items = "awaiting_review"
         /\ Released(r).policy = r.policy /\ Released(r).payment = r.payment
         /\ Released(r).attempts = r.attempts
         /\ Released(r).content = r.content /\ Released(r).files = r.files
         /\ Released(r).quote = r.quote /\ Released(r).snapshot = r.snapshot
<1> DEFINE t == [r EXCEPT !.status = "submitted", !.released = TRUE,
                          !.items = "awaiting_review"]
<1>1. t \in OrderRow
  BY DEF OrderRow, Past
<1>2. /\ t.status = "submitted" /\ t.released /\ t.items = "awaiting_review"
      /\ t.version = r.version /\ t.policy = r.policy /\ t.payment = r.payment
      /\ t.attempts = r.attempts
      /\ t.content = r.content /\ t.files = r.files
      /\ t.quote = r.quote /\ t.snapshot = r.snapshot
  BY DEF OrderRow
<1>3. Released(r) = Bumped(t)
  BY DEF Released
<1> HIDE DEF t
<1> QED BY <1>1, <1>2, <1>3, BumpedRow

\* submit_order
LEMMA SubmitKeeps ==
  ASSUME IInv, NEW c \in Tabs, NEW o \in OrderIds, NEW q \in QuoteIds, Submit(c, o, q)
  PROVE  IInv'
<1> DEFINE w == WithSnapshot(o, q)
           pays == order[o].policy = "before_review" /\ quote[q].snapshot.fee > 0
<1>1. RowOK(order[o]) /\ order[o] \in OrderRow
  BY RowBefore
<1>2. /\ order[o].status = "draft" /\ ~order[o].released /\ order[o].items = "draft"
      /\ order[o].payment = Aggregate(order[o].attempts)
  BY <1>1 DEF RowOK, Submit, IsDraft
<1>3. /\ quote[q] \in QuoteRow /\ quote[q] # NoQuote
      /\ quote[q].order = o /\ quote[q].signed
      /\ quote[q].snapshot = BuildSnapshot(order[o]) /\ Ready(order[o])
  BY DEF Submit, ValidQuote, IInv, TypeOK
<1>4. quote[q].snapshot \in Snapshot
  BY <1>3, SnapshotType
<1>5. /\ quote[q].snapshot.content = order[o].content
      /\ quote[q].snapshot.files = order[o].files
  BY <1>3 DEF BuildSnapshot
<1>6. w \in OrderRow
  BY <1>1, <1>4 DEF WithSnapshot, OrderRow
<1>7. /\ w.status = "draft" /\ ~w.released /\ w.items = "draft"
      /\ w.payment = Aggregate(w.attempts) /\ w.policy = order[o].policy
      /\ w.version = order[o].version /\ w.version \in Nat
      /\ w.content = order[o].content /\ w.files = order[o].files
      /\ w.quote = q /\ w.snapshot = quote[q].snapshot
  BY <1>1, <1>2 DEF WithSnapshot, OrderRow
<1>8. /\ order' = [order EXCEPT ![o] = CheckedOut(w, pays)]
      /\ record' = IF pays THEN record ELSE RecordReleased(record)
      /\ UNCHANGED <<quote, catalog, setting, page, dossier>>
  BY DEF Submit
<1> HIDE DEF w
<1>10. CASE pays
  <2> DEFINE t == [w EXCEPT !.status = "awaiting_payment"]
  <2>1. t \in OrderRow
    BY <1>6 DEF OrderRow, Past
  <2>2. /\ t.status = "awaiting_payment" /\ ~t.released /\ t.items = "draft"
        /\ t.version = w.version /\ t.content = w.content /\ t.files = w.files
        /\ t.quote = w.quote /\ t.snapshot = w.snapshot
        /\ t.payment = w.payment /\ t.attempts = w.attempts
    BY <1>6, <1>7 DEF OrderRow
  <2>3. CheckedOut(w, pays) = Bumped(t)
    BY <1>10 DEF CheckedOut
  <2> HIDE DEF t
  <2>4. RowOK(Bumped(t))
    BY <1>7, <2>1, <2>2, BumpedRow DEF RowOK
  <2>5. SignedRow(o, Bumped(t), quote)
    BY <1>3, <1>5, <1>7, <2>1, <2>2, BumpedRow DEF SignedRow
  <2>6. /\ Bumped(t).status # "none" /\ ~Bumped(t).released
        /\ Bumped(t).version > order[o].version
    BY <1>7, <2>1, <2>2, BumpedRow
  <2> QED BY <1>2, <1>8, <1>10, <2>3, <2>4, <2>5, <2>6, SendKeeps
<1>11. CASE ~pays
  <2> DEFINE t == Released(w)
  <2>1. CheckedOut(w, pays) = t
    BY <1>11 DEF CheckedOut
  <2>2. RowOK(t)
    BY <1>6, <1>7, <1>11, ReleasedRow DEF RowOK
  <2>3. SignedRow(o, t, quote)
    BY <1>3, <1>5, <1>6, <1>7, ReleasedRow DEF SignedRow
  <2>4. t.status # "none" /\ t.version > order[o].version
    BY <1>6, <1>7, ReleasedRow
  <2> HIDE DEF t
  <2> QED BY <1>2, <1>8, <1>11, <2>1, <2>2, <2>3, <2>4, SendKeeps
<1> QED BY <1>10, <1>11

\* What the provider's word, or its silence, does to an order.
Reports(o) == PaymentClosed(o) \/ \E from, to \in Stages : PaymentReported(o, from, to)

\* The row m is r but for its attempts: as many, no fewer of them charged.
MoneyOnly(r, m) ==
  /\ m \in OrderRow /\ m.payment = Aggregate(m.attempts)
  /\ m.attempts["funded"] >= r.attempts["funded"] /\ Tried(m) = Tried(r)
  /\ m.status = r.status /\ m.policy = r.policy /\ m.version = r.version
  /\ m.content = r.content /\ m.files = r.files /\ m.released = r.released
  /\ m.items = r.items /\ m.quote = r.quote /\ m.snapshot = r.snapshot

LEMMA MovedRow ==
  ASSUME NEW r \in OrderRow, NEW from \in Stages, NEW to \in Stages,
         r.attempts[from] > 0, from = "funded" => to = "funded"
  PROVE  MoneyOnly(r, Moved(r, from, to))
<1> DEFINE a == r.attempts
           left == [a EXCEPT ![from] = @ - 1]
           b == [left EXCEPT ![to] = @ + 1]
           Same == /\ b \in [Stages -> Nat] /\ b["funded"] >= a["funded"]
                   /\ b["open"] + b["funded"] + b["closed"]
                        = a["open"] + a["funded"] + a["closed"]
<1>1. a \in [Stages -> Nat] /\ a[from] > 0
  BY DEF OrderRow
<1>2. Same
  <2>1. CASE from = to
    BY <1>1, <2>1 DEF Stages
  <2>2. CASE from = "open" /\ to = "funded"
    BY <1>1, <2>2 DEF Stages
  <2>3. CASE from = "open" /\ to = "closed"
    BY <1>1, <2>3 DEF Stages
  <2>4. CASE from = "closed" /\ to = "open"
    BY <1>1, <2>4 DEF Stages
  <2>5. CASE from = "closed" /\ to = "funded"
    BY <1>1, <2>5 DEF Stages
  <2>6. from = to \/ (from = "open" /\ to \in {"funded", "closed"})
                  \/ (from = "closed" /\ to \in {"open", "funded"})
    BY DEF Stages
  <2> HIDE DEF Same
  <2> QED BY <2>1, <2>2, <2>3, <2>4, <2>5, <2>6
<1>3. Aggregate(b) \in {"not_started", "pending", "paid", "review_required"}
  BY <1>2, AggregateSays
<1>4. Moved(r, from, to) = [r EXCEPT !.attempts = b, !.payment = Aggregate(b)]
  BY DEF Moved, WithAttempts
<1> HIDE DEF b
<1> QED BY <1>2, <1>3, <1>4 DEF MoneyOnly, OrderRow, Tried

\* A report moves money and, if the order waits for this, releases it.
LEMMA ReportWrites ==
  ASSUME IInv, NEW o \in OrderIds, Reports(o)
  PROVE  \E m : /\ MoneyOnly(order[o], m) /\ m.status \notin {"none", "draft"}
                /\ \/ Write(o, Bumped(m))
                   \/ /\ Releases(m) /\ ~m.released
                      /\ order' = [order EXCEPT ![o] = Released(m)]
                      /\ record' = RecordReleased(record)
                      /\ UNCHANGED <<quote, catalog, setting, page, dossier>>
<1>1. RowOK(order[o]) /\ order[o] \in OrderRow
  BY RowBefore
<1>2. ASSUME NEW s \in Stages, order[o].attempts[s] > 0
      PROVE  order[o].status \notin {"none", "draft"}
  BY <1>1, <1>2, NoneStarted DEF RowOK, Stages
<1>3. CASE PaymentClosed(o)
  <2>1. "open" \in Stages /\ "closed" \in Stages /\ "open" # "funded"
    BY DEF Stages
  <2> DEFINE m == Moved(order[o], "open", "closed")
  <2>2. order[o].attempts["open"] > 0 /\ Write(o, Bumped(m))
    BY <1>3 DEF PaymentClosed
  <2>3. MoneyOnly(order[o], m)
    BY <1>1, <2>1, <2>2, MovedRow
  <2>4. m.status \notin {"none", "draft"}
    BY <1>2, <2>1, <2>2, <2>3 DEF MoneyOnly
  <2> HIDE DEF m
  <2> QED BY <2>2, <2>3, <2>4
<1>4. CASE \E from, to \in Stages : PaymentReported(o, from, to)
  <2>1. PICK from \in Stages, to \in Stages : PaymentReported(o, from, to)
    BY <1>4
  <2> DEFINE m == Moved(order[o], from, to)
  <2>2. order[o].attempts[from] > 0 /\ (from = "funded" => to = "funded")
    BY <2>1 DEF PaymentReported
  <2>3. MoneyOnly(order[o], m)
    BY <1>1, <2>2, MovedRow
  <2>4. m.status \notin {"none", "draft"}
    BY <1>2, <2>2, <2>3 DEF MoneyOnly
  <2>5. /\ order' = [order EXCEPT ![o] = IF Releases(m) THEN Released(m) ELSE Bumped(m)]
        /\ record' = IF Releases(m) THEN RecordReleased(record) ELSE record
        /\ UNCHANGED <<quote, catalog, setting, page, dossier>>
    BY <2>1 DEF PaymentReported
  <2>6. Releases(m) => ~m.released
    BY <1>1, <2>3 DEF Releases, MoneyOnly, RowOK
  <2> HIDE DEF m
  <2> QED BY <2>3, <2>4, <2>5, <2>6 DEF Write
<1> QED BY <1>3, <1>4 DEF Reports

LEMMA ReportKeeps ==
  ASSUME IInv, NEW o \in OrderIds, Reports(o)
  PROVE  IInv'
<1>1. PICK m : /\ MoneyOnly(order[o], m) /\ m.status \notin {"none", "draft"}
               /\ \/ Write(o, Bumped(m))
                  \/ /\ Releases(m) /\ ~m.released
                     /\ order' = [order EXCEPT ![o] = Released(m)]
                     /\ record' = RecordReleased(record)
                     /\ UNCHANGED <<quote, catalog, setting, page, dossier>>
  BY ReportWrites
<1>2. RowOK(order[o]) /\ order[o].version \in Nat
  BY RowBefore
<1>3. m \in OrderRow /\ m.attempts \in [Stages -> Nat] /\ m.payment = Aggregate(m.attempts)
  BY <1>1 DEF MoneyOnly, OrderRow
<1>4. CASE Write(o, Bumped(m))
  <2>1. order[o].attempts["funded"] \in Nat /\ m.attempts["funded"] \in Nat
    BY <1>2, <1>3 DEF RowOK, OrderRow, Stages
  <2>2. RowOK(Bumped(m))
    BY <1>1, <1>2, <1>3, <2>1, BumpedRow DEF RowOK, MoneyOnly
  <2>3. RowStep(order[o], Bumped(m))
    BY <1>1, <1>2, <1>3, <2>2, BumpedRow DEF RowStep, MoneyOnly
  <2> QED BY <1>4, <2>3, WriteKeeps
<1>5. CASE /\ Releases(m) /\ ~m.released
           /\ order' = [order EXCEPT ![o] = Released(m)]
           /\ record' = RecordReleased(record)
           /\ UNCHANGED <<quote, catalog, setting, page, dossier>>
  <2>1. m.attempts["funded"] > 0
    BY <1>3, <1>5, AggregateSays DEF Releases
  <2>2. RowOK(Released(m))
    BY <1>3, <1>5, <2>1, ReleasedRow DEF RowOK
  <2>3. SignedRow(o, order[o], quote)
    BY DEF IInv, Signed
  <2>4. SignedRow(o, Released(m), quote)
    BY <1>1, <1>3, <1>5, <2>3, ReleasedRow DEF SignedRow, MoneyOnly
  <2>5. /\ Released(m).status # "none" /\ Released(m).version > order[o].version
        /\ order[o].status # "none"
    BY <1>1, <1>2, <1>3, <1>5, ReleasedRow DEF MoneyOnly
  <2> QED BY <1>5, <2>2, <2>4, <2>5, SendKeeps
<1> QED BY <1>1, <1>4, <1>5

\* get_order and staff_link: what a page shows is what is there.
LEMMA ReadKeeps ==
  ASSUME IInv,
         \/ \E c \in Pages, o \in OrderIds : ReadOrder(c, o)
         \/ \E d \in Desks : ReadRecord(d)
  PROVE  IInv'
<1>1. CASE \E c \in Pages, o \in OrderIds : ReadOrder(c, o)
  <2>1. PICK c \in Pages, o \in OrderIds : ReadOrder(c, o)
    BY <1>1
  <2> DEFINE p == [order |-> o, version |-> order[o].version,
                   content |-> order[o].content, files |-> order[o].files]
  <2>2. \A x \in Pages : page'[x] = IF x = c THEN p ELSE page[x]
    BY <2>1 DEF ReadOrder, IInv, TypeOK
  <2>3. p \in Page
    BY RowBefore DEF Page, OrderRow
  <2>4. TypeOK'
    BY <2>1, <2>3 DEF ReadOrder, IInv, TypeOK
  <2>5. order[o].version \in Nat /\ order[o].status # "none"
    BY <2>1, RowBefore DEF ReadOrder, Exists
  <2>6. PagesOK'
    BY <2>1, <2>2, <2>5 DEF ReadOrder, IInv, PagesOK, PageOK
  <2>7. RowsOK' /\ Signed' /\ RecordOK'
    BY <2>1 DEF ReadOrder, IInv, RowsOK, Signed, RecordOK
  <2> QED BY <2>4, <2>6, <2>7 DEF IInv
<1>2. CASE \E d \in Desks : ReadRecord(d)
  <2>1. PICK d \in Desks : ReadRecord(d)
    BY <1>2
  <2>2. TypeOK'
    BY <2>1 DEF ReadRecord, IInv, TypeOK, Dossier, Record
  <2>3. RowsOK' /\ PagesOK' /\ Signed' /\ RecordOK'
    BY <2>1 DEF ReadRecord, IInv, RowsOK, PagesOK, Signed, RecordOK
  <2> QED BY <2>2, <2>3 DEF IInv
<1> QED BY <1>1, <1>2

\* The record after a resubmission and after a decision.
Edited(status, details) ==
  [record EXCEPT !.status = status, !.details = details, !.version = @ + 1]
Decided(status) == [record EXCEPT !.status = status, !.version = @ + 1]

\* Both are records, visible to the same people.
LEMMA EditedType ==
  ASSUME record \in Record, NEW details \in Details,
         NEW status \in {"pending", "matched", "needs_information", "rejected"}
  PROVE  /\ Edited(status, details) \in Record
         /\ Edited(status, details).status = status
         /\ Edited(status, details).hidden = record.hidden
         /\ Decided(status) \in Record
         /\ Decided(status).status = status
         /\ Decided(status).hidden = record.hidden
<1> DEFINE r == [record EXCEPT !.status = status]
           s == [r EXCEPT !.details = details]
<1>1. r \in Record /\ r.status = status /\ r.hidden = record.hidden
  BY DEF Record
<1> HIDE DEF r
<1>2. s \in Record /\ s.status = status /\ s.hidden = record.hidden
  BY <1>1 DEF Record
<1> HIDE DEF s
<1>3. ASSUME NEW t \in Record
      PROVE  /\ [t EXCEPT !.version = @ + 1] \in Record
             /\ [t EXCEPT !.version = @ + 1].status = t.status
             /\ [t EXCEPT !.version = @ + 1].hidden = t.hidden
  BY DEF Record
<1> QED BY <1>1, <1>2, <1>3 DEF Edited, Decided, r, s

\* save_link, save_resubmission and decide_match
LEMMA RecordKeeps ==
  ASSUME IInv,
         \/ \E details \in Details : SaveRecord(details) \/ Resubmit(details)
         \/ \E d \in Desks : \E decision \in {"matched", "needs_information", "rejected"} :
              DecideMatch(d, decision)
  PROVE  IInv'
<1>1. \E rec \in Record :
        /\ WriteRecord(rec) /\ rec.status # "none"
        /\ rec.hidden => record.hidden \/ record.status = "none"
  <2>0. record \in Record /\ record.details \in Details
    BY DEF IInv, TypeOK, Record
  <2>1. CASE \E details \in Details : SaveRecord(details)
    BY <2>1 DEF SaveRecord, Record
  <2>2. CASE \E details \in Details : Resubmit(details)
    <3>1. PICK details \in Details : Resubmit(details)
      BY <2>2
    <3>2. Edited("pending", details) \in Record /\ Edited("pending", details).status = "pending"
          /\ Edited("pending", details).hidden = record.hidden
      BY <2>0, <3>1, EditedType
    <3> QED BY <3>1, <3>2 DEF Resubmit, Edited
  <2>3. CASE \E d \in Desks : \E decision \in {"matched", "needs_information", "rejected"} :
               DecideMatch(d, decision)
    <3>1. PICK d \in Desks, decision \in {"matched", "needs_information", "rejected"} :
            DecideMatch(d, decision)
      BY <2>3
    <3>2. Decided(decision) \in Record /\ Decided(decision).status = decision
          /\ Decided(decision).hidden = record.hidden
      BY <2>0, <3>1, EditedType
    <3> QED BY <3>1, <3>2 DEF DecideMatch, Decided
  <2> QED BY <2>1, <2>2, <2>3
<1>2. TypeOK'
  BY <1>1 DEF WriteRecord, IInv, TypeOK
<1>3. RowsOK' /\ PagesOK' /\ Signed'
  BY <1>1 DEF WriteRecord, IInv, RowsOK, PagesOK, Signed
<1>4. RecordOK'
  BY <1>1 DEF WriteRecord, IInv, RecordOK, RowsOK, RowOK
<1> QED BY <1>2, <1>3, <1>4 DEF IInv

\* update_service, update_policy, approve_institution and a new deployment
LEMMA CatalogKeeps ==
  ASSUME IInv, EditService \/ EditPolicy \/ ApproveInstitution \/ Redeploy \/ UNCHANGED vars
  PROVE  IInv'
<1>1. catalog' \in Catalog /\ setting' \in Policies
  <2>1. catalog \in Catalog /\ setting \in Policies
    BY DEF IInv, TypeOK
  <2>0. ASSUME NEW cat \in Catalog, NEW flag \in BOOLEAN
        PROVE  /\ [cat EXCEPT !.offered = flag] \in Catalog
               /\ [cat EXCEPT !.accepting = flag] \in Catalog
               /\ [cat EXCEPT !.version = @ + 1] \in Catalog
    BY DEF Catalog
  <2>2. CASE EditService
    <3>1. PICK fee \in Fees, offered \in BOOLEAN :
            WriteCatalog([catalog EXCEPT !.fee = fee, !.offered = offered, !.version = @ + 1])
      BY <2>2 DEF EditService
    <3> DEFINE r == [catalog EXCEPT !.fee = fee]
               s == [r EXCEPT !.offered = offered]
               t == [s EXCEPT !.version = @ + 1]
    <3>2. r \in Catalog
      BY <2>1 DEF Catalog
    <3>3. s \in Catalog
      <4> HIDE DEF r
      <4> QED BY <3>2, <2>0
    <3>4. t \in Catalog
      <4> HIDE DEF s
      <4> QED BY <3>3, <2>0
    <3> QED BY <2>1, <3>1, <3>4 DEF WriteCatalog
  <2>5. CASE EditPolicy
    <3>1. PICK accepting \in BOOLEAN :
            WriteCatalog([catalog EXCEPT !.accepting = accepting, !.version = @ + 1])
      BY <2>5 DEF EditPolicy
    <3> DEFINE r == [catalog EXCEPT !.accepting = accepting]
               t == [r EXCEPT !.version = @ + 1]
    <3>2. r \in Catalog
      BY <2>1, <2>0
    <3>3. t \in Catalog
      <4> HIDE DEF r
      <4> QED BY <3>2, <2>0
    <3> QED BY <2>1, <3>1, <3>3 DEF WriteCatalog
  <2>3. CASE ApproveInstitution
    BY <2>1, <2>3 DEF ApproveInstitution, WriteCatalog, Catalog
  <2>4. CASE Redeploy \/ UNCHANGED vars
    BY <2>1, <2>4 DEF Redeploy, vars
  <2> QED BY <2>2, <2>3, <2>4, <2>5
<1>2. UNCHANGED <<order, quote, record, page, dossier>>
  BY DEF EditService, EditPolicy, ApproveInstitution, Redeploy, WriteCatalog, vars
<1>3. RowsOK' /\ PagesOK' /\ Signed' /\ RecordOK'
  BY <1>2 DEF IInv, RowsOK, PagesOK, Signed, RecordOK
<1>4. TypeOK'
  BY <1>1, <1>2 DEF IInv, TypeOK
<1> QED BY <1>3, <1>4 DEF IInv

-----------------------------------------------------------------------------

\* The first order rows, quotes and pages satisfy the invariant.
LEMMA InitHolds ==
  ASSUME Init
  PROVE  IInv
<1> DEFINE row == [NewRow(0, Empty) EXCEPT !.status = "none", !.policy = "after_review"]
<1>1. setting \in Policies /\ setting \in {"before_review", "after_review"}
  BY KnownSettings DEF Init
<1>2. NewRow(0, Empty) \in OrderRow
  BY <1>1, NoneStarted DEF NewRow, OrderRow, Drafts
<1>3. /\ row \in OrderRow /\ row.status = "none" /\ row.snapshot = NoSnapshot
      /\ row.attempts = NoAttempts /\ row.payment = Aggregate(row.attempts)
      /\ ~row.released /\ row.items = "draft"
  BY <1>2, NoneStarted DEF OrderRow, NewRow
<1>4. order = [o \in OrderIds |-> row]
  BY DEF Init
<1> HIDE DEF row
<1>5. TypeOK
  <2>1. order \in [OrderIds -> OrderRow]
    BY <1>3, <1>4
  <2>2. quote \in [QuoteIds -> QuoteRow \cup {NoQuote}]
    BY DEF Init
  <2>3. record \in Record /\ record.details \in Details
    BY DEF Init, Record
  <2>4. catalog \in Catalog
    BY DEF Init, Catalog
  <2>5. page \in [Pages -> Page]
    BY DEF Init, Page, NoPage, Drafts
  <2>6. dossier \in [Desks -> Dossier]
    BY <2>3 DEF Init, Dossier
  <2> QED BY <1>1, <2>1, <2>2, <2>3, <2>4, <2>5, <2>6 DEF TypeOK
<1>6. RowsOK
  BY <1>3, <1>4 DEF RowsOK, RowOK
<1>7. PagesOK
  BY NoneIsNoOrder DEF Init, PagesOK, NoPage
<1>8. Signed
  BY <1>3, <1>4 DEF Signed, SignedRow
<1>9. RecordOK
  <2>1. (\A d \in Desks : dossier[d].version = 0) /\ ~record.hidden
    BY DEF Init
  <2> QED BY <1>3, <1>4, <2>1 DEF RecordOK
<1> QED BY <1>5, <1>6, <1>7, <1>8, <1>9 DEF IInv

\* Every step keeps it.
LEMMA StepKeeps ==
  ASSUME IInv, [Next]_vars
  PROVE  IInv'
<1>1. CASE Student
  <2>1. CASE \E details \in Details : SaveRecord(details) \/ Resubmit(details)
    BY <2>1, RecordKeeps
  <2>2. CASE \E o \in OrderIds : \/ CreateOrder(o)
                               \/ \E source \in OrderIds : Reorder(o, source)
    BY <2>2, CreateKeeps
  <2>3. CASE \E o \in OrderIds, q \in QuoteIds : AcceptConsent(o, q)
    BY <2>3, QuotingKeeps
  <2>4. CASE \E o \in OrderIds : SendMessage(o)
    BY <2>4, MessageKeeps
  <2>5. CASE \E c \in Tabs, o \in OrderIds : ReadOrder(c, o)
    BY <2>5, ReadKeeps DEF Pages
  <2>6. CASE \E c \in Tabs, o \in OrderIds :
               \/ \E content \in Drafts : ReplaceDraft(c, o, content)
               \/ \E f \in Files : AttachFile(c, o, f) \/ DeleteAttachment(c, o, f)
    BY <2>6, EditKeeps
  <2>7. CASE \E c \in Tabs, o \in OrderIds : DeleteOrder(c, o)
    BY <2>7, DeleteKeeps
  <2>8. CASE \E c \in Tabs, o \in OrderIds, q \in QuoteIds :
               QuoteOrder(c, o, q) \/ Submit(c, o, q)
    BY <2>8, QuotingKeeps, SubmitKeeps
  <2>9. CASE \E c \in Tabs, o \in OrderIds :
               RequestCancellation(c, o) \/ PaymentStarts(c, o)
    BY <2>9, CancelKeeps, PaymentKeeps DEF Pages
  <2> QED BY <1>1, <2>1, <2>2, <2>3, <2>4, <2>5, <2>6, <2>7, <2>8, <2>9 DEF Student
<1>2. CASE Staff
  <2>1. CASE \E d \in Desks : ReadRecord(d)
    BY <2>1, ReadKeeps
  <2>2. CASE \E d \in Desks : \E decision \in {"matched", "needs_information", "rejected"} :
               DecideMatch(d, decision)
    BY <2>2, RecordKeeps
  <2>3. CASE \E d \in Desks, o \in OrderIds : ReadOrder(d, o)
    BY <2>3, ReadKeeps DEF Pages
  <2>4. CASE \E d \in Desks, o \in OrderIds :
               DecideCancellation(d, o) \/ ItemDecision(d, o)
    BY <2>4, CancelKeeps, DecisionKeeps DEF Pages
  <2>5. CASE EditService \/ EditPolicy \/ ApproveInstitution
    BY <2>5, CatalogKeeps
  <2> QED BY <1>2, <2>1, <2>2, <2>3, <2>4, <2>5 DEF Staff
<1>3. CASE Environment
  <2>1. CASE \E q \in QuoteIds : QuoteExpires(q)
    <3>1. PICK q \in QuoteIds : QuoteExpires(q)
      BY <2>1
    <3>2. CASE OrderIds = {}
      BY <3>1, <3>2 DEF QuoteExpires, IInv, TypeOK, QuoteRow, NoQuote
    <3>3. CASE OrderIds # {}
      BY <3>1, <3>3, QuotingKeeps
    <3> QED BY <3>2, <3>3
  <2>2. CASE \E o \in OrderIds : Reports(o)
    BY <2>2, ReportKeeps
  <2>3. CASE Redeploy
    BY <2>3, CatalogKeeps
  <2> QED BY <1>3, <2>1, <2>2, <2>3 DEF Environment, Reports
<1>4. CASE UNCHANGED vars
  BY <1>4, CatalogKeeps
<1> QED BY <1>1, <1>2, <1>3, <1>4 DEF Next

\* The invariant holds in every reachable state.
THEOREM Invariant == Spec => []IInv
<1>1. Init => IInv
  BY InitHolds
<1>2. IInv /\ [Next]_vars => IInv'
  BY StepKeeps
<1> QED BY <1>1, <1>2, PTL DEF Spec

\* Every variable has its type, whatever the handlers do.
THEOREM OrdersTyped == Spec => []TypeOK
<1>1. IInv => TypeOK
  BY DEF IInv
<1> QED BY <1>1, Invariant, PTL

\* What an institution received, or a student pays for, is what was signed for
\* it: no edit, second order or late quote gets between (submit_order).
THEOREM SignedForGood == Spec => []SubmittedAsSigned
<1>1. IInv => SubmittedAsSigned
  BY DEF IInv, Signed, SignedRow, SubmittedAsSigned, ConsentValid
<1> QED BY <1>1, Invariant, PTL

\* An order created for checkout before review is with the institution only
\* when it is paid or free, under every policy and fee since (release_order).
THEOREM NoReleaseUnpaid == Spec => []PaidBeforeRelease
<1>1. IInv => PaidBeforeRelease
  BY DEF IInv, RowsOK, RowOK, PaidBeforeRelease
<1> QED BY <1>1, Invariant, PTL

\* A record link is private until the first order is released and never after
\* (release_order, staff_link).
THEOREM RecordVisibility == Spec => []RecordFollowsOrder
<1>1. IInv => RecordFollowsOrder
  BY DEF IInv, RecordOK, RecordFollowsOrder
<1> QED BY <1>1, Invariant, PTL

-----------------------------------------------------------------------------
(* No lost edits *)

DraftsKept == \A o \in OrderIds : Exists(o) => Draft(o)' = Draft(o)

\* Writing a row with the draft it had.
LEMMA RowKept ==
  ASSUME IInv, NEW o \in OrderIds, NEW s, order' = [order EXCEPT ![o] = s],
         Exists(o) => s.content = order[o].content /\ s.files = order[o].files
  PROVE  DraftsKept
  BY DEF DraftsKept, Draft, IInv, TypeOK

\* A submission, a confirmed payment and whatever else happens to an order once
\* it is written leave its draft as it is.
LEMMA RowActionsKeepDrafts ==
  ASSUME IInv, NEW o \in OrderIds,
         \/ CreateOrder(o) \/ \E source \in OrderIds : Reorder(o, source)
         \/ \E c \in Tabs, q \in QuoteIds : Submit(c, o, q)
         \/ \E c \in Tabs : PaymentStarts(c, o) \/ RequestCancellation(c, o)
         \/ \E d \in Desks : DecideCancellation(d, o) \/ ItemDecision(d, o)
         \/ SendMessage(o) \/ Reports(o)
  PROVE  DraftsKept
<1>1. order[o] \in OrderRow
  BY RowBefore
<1>2. CASE CreateOrder(o) \/ \E source \in OrderIds : Reorder(o, source)
  BY <1>2, RowKept DEF CreateOrder, Reorder, Exists, Write
<1>3. CASE \E c \in Tabs, q \in QuoteIds : Submit(c, o, q)
  <2>1. PICK c \in Tabs, q \in QuoteIds : Submit(c, o, q)
    BY <1>3
  <2> DEFINE pays == order[o].policy = "before_review" /\ quote[q].snapshot.fee > 0
  <2>2. order' = [order EXCEPT ![o] = CheckedOut(WithSnapshot(o, q), pays)]
    BY <2>1 DEF Submit
  <2>3. /\ CheckedOut(WithSnapshot(o, q), pays).content = order[o].content
        /\ CheckedOut(WithSnapshot(o, q), pays).files = order[o].files
    BY <1>1 DEF CheckedOut, Released, Bumped, WithSnapshot, OrderRow
  <2> QED BY <2>2, <2>3, RowKept
<1>4. CASE \/ SendMessage(o)
           \/ \E c \in Tabs : PaymentStarts(c, o) \/ RequestCancellation(c, o)
  BY <1>1, <1>4, RowKept
     DEF SendMessage, PaymentStarts, RequestCancellation, Write, Bumped, OrderRow
<1>5. CASE \E d \in Desks : DecideCancellation(d, o) \/ ItemDecision(d, o)
  BY <1>1, <1>5, RowKept DEF DecideCancellation, ItemDecision, Write, Bumped, OrderRow
<1>6. CASE Reports(o)
  <2>1. PICK m : /\ MoneyOnly(order[o], m)
                 /\ \/ order' = [order EXCEPT ![o] = Bumped(m)]
                    \/ ~m.released /\ order' = [order EXCEPT ![o] = Released(m)]
    BY <1>6, ReportWrites DEF Write
  <2> QED BY <2>1, BumpedRow, ReleasedRow, RowKept DEF MoneyOnly
<1> QED BY <1>2, <1>3, <1>4, <1>5, <1>6

\* An edit is made by a page that shows the draft as it is.
LEMMA EditsSeen ==
  ASSUME IInv, NEW c \in Tabs, NEW o \in OrderIds, Current(c, o)
  PROVE  page[c].order = o /\ <<page[c].content, page[c].files>> = Draft(o)
  BY DEF IInv, PagesOK, PageOK, Current, Draft, Pages

\* The step of NoLostEdit.
LEMMA NoLostEditStep ==
  ASSUME IInv, Next, NEW o \in OrderIds, Exists(o), Exists(o)', Draft(o)' # Draft(o)
  PROVE  \E c \in Tabs : page[c].order = o /\ <<page[c].content, page[c].files>> = Draft(o)
<1>1. ASSUME NEW c \in Tabs, NEW x \in OrderIds,
             \/ \E content \in Drafts : ReplaceDraft(c, x, content)
             \/ \E f \in Files : AttachFile(c, x, f) \/ DeleteAttachment(c, x, f)
      PROVE  Current(c, o)
  <2>1. Current(c, x) /\ \E r : Write(x, r)
    BY <1>1 DEF ReplaceDraft, AttachFile, DeleteAttachment
  <2>2. x # o => order'[o] = order[o]
    BY <2>1 DEF Write, IInv, TypeOK
  <2> QED BY <2>1, <2>2 DEF Draft
<1>2. ASSUME NEW c \in Tabs, NEW x \in OrderIds, DeleteOrder(c, x)
      PROVE  FALSE
  <2>1. order' = [order EXCEPT ![x].status = "deleted"]
    BY <1>2 DEF DeleteOrder
  <2>2. order[x] \in OrderRow
    BY RowBefore
  <2>3. CASE x = o
    BY <2>1, <2>2, <2>3 DEF Exists, IInv, TypeOK, OrderRow
  <2>4. CASE x # o
    BY <2>1, <2>4 DEF Draft, IInv, TypeOK
  <2> QED BY <2>3, <2>4
<1>3. ~DraftsKept /\ order' # order
  BY DEF DraftsKept, Draft
<1>4. CASE Student
  BY <1>1, <1>2, <1>3, <1>4, EditsSeen, RowActionsKeepDrafts
     DEF Student, SaveRecord, Resubmit, WriteRecord, AcceptConsent, WriteQuote, QuoteOrder,
         ReadOrder
<1>5. CASE Staff
  BY <1>3, <1>5, RowActionsKeepDrafts
     DEF Staff, ReadRecord, ReadOrder, DecideMatch, WriteRecord, EditService, EditPolicy,
         ApproveInstitution, WriteCatalog
<1>6. CASE Environment
  BY <1>3, <1>6, RowActionsKeepDrafts DEF Environment, Reports, QuoteExpires, WriteQuote, Redeploy
<1> QED BY <1>4, <1>5, <1>6 DEF Next

\* Whoever changes a draft had its latest contents and attachments on the page
\* (check_version in every editing handler, a new version by every event).
THEOREM EditsNeverLost == Spec => NoLostEdit
<1> DEFINE Seen(o) == \E c \in Tabs : page[c].order = o
                                     /\ <<page[c].content, page[c].files>> = Draft(o)
           Step == \A o \in OrderIds :
                     Exists(o) /\ Exists(o)' /\ Draft(o)' # Draft(o) => Seen(o)
<1>1. IInv /\ [Next]_vars => [Step]_vars
  BY NoLostEditStep
<1>2. NoLostEdit <=> [][Step]_vars
  BY DEF NoLostEdit
<1> QED BY <1>1, <1>2, Invariant, PTL DEF Spec

-----------------------------------------------------------------------------
(* What is signed, confirmed and prepared *)

\* The actions that write the row of an order, and only it.
RowAction(o) ==
  \/ CreateOrder(o) \/ \E source \in OrderIds : Reorder(o, source)
  \/ SendMessage(o) \/ Reports(o)
  \/ \E c \in Tabs : \/ \E content \in Drafts : ReplaceDraft(c, o, content)
                     \/ \E f \in Files : AttachFile(c, o, f) \/ DeleteAttachment(c, o, f)
                     \/ DeleteOrder(c, o) \/ RequestCancellation(c, o) \/ PaymentStarts(c, o)
                     \/ \E q \in QuoteIds : Submit(c, o, q)
  \/ \E d \in Desks : DecideCancellation(d, o) \/ ItemDecision(d, o)

\* Such an action replaces the row and leaves the others alone.
LEMMA OneRow ==
  ASSUME NEW o \in OrderIds, RowAction(o)
  PROVE  \E s : order' = [order EXCEPT ![o] = s]
<1>1. CASE CreateOrder(o) \/ \E source \in OrderIds : Reorder(o, source)
  BY <1>1 DEF CreateOrder, Reorder, Write
<1>2. CASE SendMessage(o) \/ Reports(o)
  BY <1>2 DEF SendMessage, Reports, PaymentClosed, PaymentReported, Write
<1>3. ASSUME NEW c \in Tabs,
             \/ \E content \in Drafts : ReplaceDraft(c, o, content)
             \/ \E f \in Files : AttachFile(c, o, f) \/ DeleteAttachment(c, o, f)
             \/ RequestCancellation(c, o) \/ PaymentStarts(c, o)
      PROVE  \E s : order' = [order EXCEPT ![o] = s]
  BY <1>3 DEF ReplaceDraft, AttachFile, DeleteAttachment, RequestCancellation, PaymentStarts,
              Write
<1>4. ASSUME NEW c \in Tabs, DeleteOrder(c, o)
      PROVE  \E s : order' = [order EXCEPT ![o] = s]
  BY <1>4 DEF DeleteOrder
<1>5. ASSUME NEW c \in Tabs, NEW q \in QuoteIds, Submit(c, o, q)
      PROVE  \E s : order' = [order EXCEPT ![o] = s]
  BY <1>5 DEF Submit
<1>6. CASE \E d \in Desks : DecideCancellation(d, o) \/ ItemDecision(d, o)
  BY <1>6 DEF DecideCancellation, ItemDecision, Write
<1> QED BY <1>1, <1>2, <1>3, <1>4, <1>5, <1>6 DEF RowAction

\* A row that changes was written by one of them.
LEMMA RowChanges ==
  ASSUME IInv, [Next]_vars, NEW o \in OrderIds, order'[o] # order[o]
  PROVE  RowAction(o)
<1>1. \A x \in OrderIds : RowAction(x) => x = o
  BY OneRow DEF IInv, TypeOK
<1>2. order' # order
  OBVIOUS
<1>3. CASE Student
  <2>1. ASSUME NEW x \in OrderIds, RowAction(x) PROVE RowAction(o)
    BY <1>1, <2>1
  <2>2. /\ \A details \in Details : ~SaveRecord(details) /\ ~Resubmit(details)
        /\ \A x \in OrderIds, q \in QuoteIds : ~AcceptConsent(x, q)
        /\ \A c \in Tabs, x \in OrderIds : ~ReadOrder(c, x)
        /\ \A c \in Tabs, x \in OrderIds, q \in QuoteIds : ~QuoteOrder(c, x, q)
    BY <1>2 DEF SaveRecord, Resubmit, WriteRecord, AcceptConsent, WriteQuote, QuoteOrder, ReadOrder
  <2>3. PICK x \in OrderIds : RowAction(x)
    BY <1>3, <2>2 DEF Student, RowAction
  <2> QED BY <2>1, <2>3
<1>4. CASE Staff
  BY <1>1, <1>2, <1>4
     DEF Staff, ReadRecord, ReadOrder, DecideMatch, WriteRecord, EditService, EditPolicy,
         ApproveInstitution, WriteCatalog, RowAction
<1>5. CASE Environment
  BY <1>1, <1>2, <1>5 DEF Environment, Reports, QuoteExpires, WriteQuote, Redeploy, RowAction
<1> QED BY <1>2, <1>3, <1>4, <1>5 DEF Next, vars

\* The actions that neither begin nor submit an order keep its snapshot; only
\* a review takes the items into processing, only create_attempt adds an attempt.
LEMMA PlainActions ==
  ASSUME IInv, NEW o \in OrderIds, RowAction(o),
         ~(\E c \in Tabs, q \in QuoteIds : Submit(c, o, q)),
         ~(\E c \in Tabs : PaymentStarts(c, o)), ~(\E d \in Desks : ItemDecision(d, o))
  PROVE  /\ order'[o].snapshot # NoSnapshot => order'[o].snapshot = order[o].snapshot
         /\ order'[o].items = "processing" => order[o].items = "processing"
         /\ Tried(order'[o]) \in {0, Tried(order[o])}
<1> DEFINE Plain == /\ order'[o].snapshot # NoSnapshot => order'[o].snapshot = order[o].snapshot
                    /\ order'[o].items = "processing" => order[o].items = "processing"
                    /\ Tried(order'[o]) \in {0, Tried(order[o])}
<1>1. /\ RowOK(order[o]) /\ order[o] \in OrderRow /\ Tried(order[o]) \in Nat
      /\ \A s : order' = [order EXCEPT ![o] = s] => order'[o] = s
  BY RowBefore DEF IInv, TypeOK, OrderRow, Tried, Stages
<1>2. CASE CreateOrder(o) \/ \E source \in OrderIds : Reorder(o, source)
  <2>1. PICK version, content : order'[o] = NewRow(version, content)
    BY <1>1, <1>2 DEF CreateOrder, Reorder, Write
  <2>2. Tried(order'[o]) = 0
    BY <2>1, NoneStarted DEF NewRow, Tried
  <2> QED BY <1>1, <2>1, <2>2 DEF NewRow
<1>3. CASE SendMessage(o)
  <2>1. order'[o] = Bumped(order[o])
    BY <1>1, <1>3 DEF SendMessage, Write
  <2> QED BY <1>1, <2>1, BumpedRow DEF Tried
<1>5. CASE Reports(o)
  <2>1. PICK m : /\ MoneyOnly(order[o], m)
                 /\ order'[o] = Bumped(m) \/ (~m.released /\ order'[o] = Released(m))
    BY <1>1, <1>5, ReportWrites DEF Write
  <2> QED BY <1>1, <2>1, BumpedRow, ReleasedRow DEF MoneyOnly, Tried
<1>6. ASSUME NEW c \in Tabs,
             \/ \E content \in Drafts : ReplaceDraft(c, o, content)
             \/ \E f \in Files : AttachFile(c, o, f) \/ DeleteAttachment(c, o, f)
      PROVE  Plain
  <2>1. \/ \E content : order'[o] = Bumped([order[o] EXCEPT !.content = content])
        \/ \E files : order'[o] = Bumped([order[o] EXCEPT !.files = files])
    BY <1>1, <1>6 DEF ReplaceDraft, AttachFile, DeleteAttachment, Write
  <2>2. /\ order'[o].snapshot = order[o].snapshot /\ order'[o].items = order[o].items
        /\ order'[o].attempts = order[o].attempts
    BY <1>1, <2>1 DEF Bumped, OrderRow
  <2> QED BY <1>1, <2>2 DEF Tried
<1>7. ASSUME NEW c \in Tabs, RequestCancellation(c, o) PROVE Plain
  <2>1. /\ order'[o].snapshot = order[o].snapshot /\ order'[o].items = order[o].items
        /\ order'[o].attempts = order[o].attempts
    BY <1>1, <1>7 DEF RequestCancellation, Write, Bumped, OrderRow
  <2> QED BY <1>1, <2>1 DEF Tried
<1>8. ASSUME NEW c \in Tabs, DeleteOrder(c, o) PROVE Plain
  <2>1. order' = [order EXCEPT ![o] = [order[o] EXCEPT !.status = "deleted"]]
    BY <1>8 DEF DeleteOrder
  <2>2. /\ order'[o].snapshot = order[o].snapshot /\ order'[o].items = order[o].items
        /\ order'[o].attempts = order[o].attempts
    BY <1>1, <2>1 DEF OrderRow
  <2> QED BY <1>1, <2>2 DEF Tried
<1>9. ASSUME NEW d \in Desks, DecideCancellation(d, o) PROVE Plain
  <2>1. \/ order'[o] = Bumped([order[o] EXCEPT !.status = "cancelled", !.items = "cancelled"])
        \/ order'[o] = Bumped([order[o] EXCEPT !.status = "submitted"])
    BY <1>1, <1>9 DEF DecideCancellation, Write
  <2>2. /\ order'[o].snapshot = order[o].snapshot
        /\ order'[o].items \in {order[o].items, "cancelled"}
        /\ order'[o].attempts = order[o].attempts
    BY <1>1, <2>1 DEF Bumped, OrderRow
  <2> QED BY <1>1, <2>2 DEF Tried
<1> QED BY <1>2, <1>3, <1>5, <1>6, <1>7, <1>8, <1>9 DEF RowAction

\* A submission sets the snapshot of the quote; it takes no item into processing and
\* adds no attempt.
LEMMA SubmitWrites ==
  ASSUME IInv, NEW c \in Tabs, NEW o \in OrderIds, NEW q \in QuoteIds, Submit(c, o, q)
  PROVE  /\ order'[o].snapshot = quote[q].snapshot
         /\ order'[o].items # "processing" /\ Tried(order'[o]) = Tried(order[o])
         /\ order'[o].status # "cancelled"
<1>1. RowOK(order[o]) /\ order[o] \in OrderRow
  BY RowBefore
<1> DEFINE pays == order[o].policy = "before_review" /\ quote[q].snapshot.fee > 0
<1>2. order'[o] = CheckedOut(WithSnapshot(o, q), pays)
  BY DEF Submit, IInv, TypeOK
<1>3. order[o].items = "draft" /\ order[o].status = "draft"
  BY <1>1 DEF RowOK, Submit, IsDraft
<1> HIDE DEF pays
<1>4. /\ order'[o].snapshot = quote[q].snapshot /\ order'[o].items # "processing"
      /\ order'[o].attempts = order[o].attempts /\ order'[o].status # "cancelled"
  BY <1>1, <1>2, <1>3 DEF CheckedOut, Released, Bumped, WithSnapshot, OrderRow
<1> QED BY <1>4 DEF Tried

\* The price, the record and the institution's offer at submission are those of the
\* moment, not those of the quote's (valid_quote in submit_order).
THEOREM OfferedAtSubmission == Spec => SubmittedAsOffered
<1> DEFINE Offered(o) == /\ order'[o].snapshot.fee = catalog.fee
                         /\ order'[o].snapshot.details = record.details
                         /\ catalog.approved /\ catalog.accepting /\ catalog.offered
                         /\ record.status \notin {"needs_information", "rejected"}
           Step == \A o \in OrderIds : IsDraft(o) /\ order'[o].snapshot # NoSnapshot => Offered(o)
<1>1. ASSUME IInv, [Next]_vars, NEW o \in OrderIds, IsDraft(o), order'[o].snapshot # NoSnapshot
      PROVE  Offered(o)
  <2>1. order[o].snapshot = NoSnapshot
    BY <1>1, RowBefore DEF RowOK, IsDraft
  <2>2. RowAction(o)
    BY <1>1, <2>1, RowChanges
  <2>3. \A c \in Tabs : ~PaymentStarts(c, o)
    BY <1>1 DEF PaymentStarts, Payable, Preparable, IsDraft
  <2>4. \A d \in Desks : ~ItemDecision(d, o)
    BY <1>1 DEF ItemDecision, IsDraft
  <2>5. PICK c \in Tabs, q \in QuoteIds : Submit(c, o, q)
    BY <1>1, <2>1, <2>2, <2>3, <2>4, PlainActions
  <2>6. order'[o].snapshot = BuildSnapshot(order[o]) /\ Ready(order[o])
    BY <1>1, <2>5, SubmitWrites DEF Submit, ValidQuote
  <2> QED BY <2>6 DEF BuildSnapshot, Ready, RecordUsable
<1>2. IInv /\ [Next]_vars => [Step]_vars
  BY <1>1
<1>3. SubmittedAsOffered <=> [][Step]_vars
  BY DEF SubmittedAsOffered
<1> QED BY <1>2, <1>3, Invariant, PTL DEF Spec

\* What was read of the record, by a registrar or for a quote, is not newer than the
\* record, and is what it says if it is as new.
AsOf(rec, version, details) == /\ version <= rec.version
                               /\ version = rec.version => details = rec.details

ScopesOK ==
  /\ record.status = "none" <=> record.version = 0
  /\ \A d \in Desks : AsOf(record, dossier[d].version, dossier[d].details)
  /\ \A q \in QuoteIds : quote[q] # NoQuote =>
       AsOf(record, quote[q].snapshot.record, quote[q].snapshot.details)

\* The record moves on, or stays as it is but for its visibility.
LEMMA RecordMoves ==
  ASSUME IInv, ScopesOK, [Next]_vars
  PROVE  \/ record'.version > record.version /\ record'.status # "none"
         \/ /\ record'.version = record.version /\ record'.details = record.details
            /\ record'.status = record.status
<1> DEFINE Moves == \/ record'.version > record.version /\ record'.status # "none"
                    \/ /\ record'.version = record.version /\ record'.details = record.details
                       /\ record'.status = record.status
<1>1. record \in Record /\ record.version \in Nat
  BY DEF IInv, TypeOK, Record
<1>2. record' = record \/ record' = RecordReleased(record) => Moves
  BY <1>1 DEF RecordReleased, Record
<1>3. ASSUME NEW details \in Details, SaveRecord(details)
      PROVE  Moves
  BY <1>3 DEF SaveRecord, WriteRecord, ScopesOK
<1>4. ASSUME NEW details \in Details, Resubmit(details)
      PROVE  Moves
  BY <1>1, <1>4 DEF Resubmit, WriteRecord, Record
<1>5. ASSUME NEW d \in Desks, NEW decision \in {"matched", "needs_information", "rejected"},
             DecideMatch(d, decision)
      PROVE  Moves
  BY <1>1, <1>5 DEF DecideMatch, WriteRecord, Record
<1>6. ASSUME NEW o \in OrderIds, RowAction(o)
      PROVE  Moves
  BY <1>2, <1>6
     DEF RowAction, CreateOrder, Reorder, SendMessage, Reports, PaymentClosed, PaymentReported,
         ReplaceDraft, AttachFile, DeleteAttachment, DeleteOrder, RequestCancellation,
         PaymentStarts, Submit, DecideCancellation, ItemDecision, Write
<1>7. CASE Student
  BY <1>2, <1>3, <1>4, <1>6, <1>7
     DEF Student, RowAction, AcceptConsent, WriteQuote, QuoteOrder, ReadOrder
<1>8. CASE Staff
  BY <1>2, <1>5, <1>6, <1>8
     DEF Staff, RowAction, ReadRecord, ReadOrder, EditService, EditPolicy, ApproveInstitution,
         WriteCatalog
<1>9. CASE Environment
  BY <1>2, <1>6, <1>9 DEF Environment, Reports, RowAction, QuoteExpires, WriteQuote, Redeploy
<1>10. CASE UNCHANGED vars
  BY <1>2, <1>10 DEF vars
<1> QED BY <1>7, <1>8, <1>9, <1>10 DEF Next

\* A row action reads no record for a page or a quote.
LEMMA RowActionFrame ==
  ASSUME NEW o \in OrderIds, RowAction(o)
  PROVE  dossier' = dossier /\ (quote' = quote \/ \E c \in Tabs : DeleteOrder(c, o))
<1>1. CASE \E c \in Tabs : \/ \E content \in Drafts : ReplaceDraft(c, o, content)
                           \/ \E f \in Files : AttachFile(c, o, f) \/ DeleteAttachment(c, o, f)
  BY <1>1 DEF ReplaceDraft, AttachFile, DeleteAttachment, Write
<1>2. CASE \E c \in Tabs : \/ RequestCancellation(c, o) \/ PaymentStarts(c, o)
                           \/ DeleteOrder(c, o) \/ \E q \in QuoteIds : Submit(c, o, q)
  BY <1>2 DEF RequestCancellation, PaymentStarts, DeleteOrder, Submit, Write
<1>3. CASE \/ CreateOrder(o) \/ \E source \in OrderIds : Reorder(o, source)
           \/ SendMessage(o) \/ Reports(o)
           \/ \E d \in Desks : DecideCancellation(d, o) \/ ItemDecision(d, o)
  BY <1>3 DEF CreateOrder, Reorder, SendMessage, Reports, PaymentClosed, PaymentReported,
              DecideCancellation, ItemDecision, Write
<1> QED BY <1>1, <1>2, <1>3 DEF RowAction

\* A registrar's page changes when the record is read.
LEMMA DossierMoves ==
  ASSUME IInv, [Next]_vars, NEW d \in Desks
  PROVE  \/ dossier'[d] = dossier[d]
         \/ /\ record' = record
            /\ dossier'[d].version = record.version /\ dossier'[d].details = record.details
<1>1. ASSUME NEW e \in Desks, ReadRecord(e)
      PROVE  \/ dossier'[d] = dossier[d]
             \/ /\ record' = record
                /\ dossier'[d].version = record.version /\ dossier'[d].details = record.details
  BY <1>1 DEF ReadRecord, IInv, TypeOK
<1>2. CASE Student
  BY <1>2, RowActionFrame
     DEF Student, RowAction, SaveRecord, Resubmit, WriteRecord, AcceptConsent, WriteQuote,
         QuoteOrder, ReadOrder
<1>3. CASE Staff
  BY <1>1, <1>3, RowActionFrame
     DEF Staff, RowAction, ReadOrder, DecideMatch, WriteRecord, EditService, EditPolicy,
         ApproveInstitution, WriteCatalog
<1>4. CASE Environment \/ UNCHANGED vars
  BY <1>4, RowActionFrame DEF Environment, Reports, RowAction, QuoteExpires, WriteQuote, Redeploy, vars
<1> QED BY <1>2, <1>3, <1>4 DEF Next

\* A quote keeps its snapshot as long as it is there, and a new one has the record's.
LEMMA QuoteMoves ==
  ASSUME IInv, [Next]_vars, NEW q \in QuoteIds, quote'[q] # NoQuote
  PROVE  \/ quote[q] # NoQuote /\ quote'[q].snapshot = quote[q].snapshot
         \/ /\ record' = record
            /\ quote'[q].snapshot.record = record.version
            /\ quote'[q].snapshot.details = record.details
<1> DEFINE Kept == quote[q] # NoQuote /\ quote'[q].snapshot = quote[q].snapshot
           Made == /\ record' = record
                   /\ quote'[q].snapshot.record = record.version
                   /\ quote'[q].snapshot.details = record.details
<1>1. quote[q] \in QuoteRow \cup {NoQuote} /\ (quote' = quote => Kept)
  BY DEF IInv, TypeOK
<1>2. ASSUME NEW c \in Tabs, NEW o \in OrderIds, NEW p \in QuoteIds, QuoteOrder(c, o, p)
      PROVE  Kept \/ Made
  <2>1. CASE p = q
    <3>1. quote'[q].snapshot = BuildSnapshot(order[o]) /\ record' = record
      BY <1>2, <2>1 DEF QuoteOrder, WriteQuote, IInv, TypeOK
    <3> QED BY <3>1 DEF BuildSnapshot
  <2>2. CASE p # q
    BY <1>2, <2>2 DEF QuoteOrder, WriteQuote, IInv, TypeOK
  <2> QED BY <2>1, <2>2
<1>3. ASSUME NEW p \in QuoteIds, NEW r \in QuoteRow,
             quote' = [quote EXCEPT ![p] = r], quote[p] # NoQuote,
             r.snapshot = quote[p].snapshot
      PROVE  Kept
  BY <1>3 DEF IInv, TypeOK
<1>4. ASSUME NEW p \in QuoteIds, QuoteExpires(p) \/ \E o \in OrderIds : AcceptConsent(o, p)
      PROVE  Kept
  <2>1. quote[p] # NoQuote /\ quote[p] \in QuoteRow
    BY <1>4 DEF QuoteExpires, AcceptConsent, ValidQuote, IInv, TypeOK
  <2>2. \/ quote' = [quote EXCEPT ![p] = [quote[p] EXCEPT !.live = FALSE]]
        \/ quote' = [quote EXCEPT ![p] = [quote[p] EXCEPT !.signed = TRUE]]
    BY <1>4 DEF QuoteExpires, AcceptConsent, WriteQuote
  <2>3. /\ [quote[p] EXCEPT !.live = FALSE] \in QuoteRow
        /\ [quote[p] EXCEPT !.live = FALSE].snapshot = quote[p].snapshot
        /\ [quote[p] EXCEPT !.signed = TRUE] \in QuoteRow
        /\ [quote[p] EXCEPT !.signed = TRUE].snapshot = quote[p].snapshot
    BY <2>1 DEF QuoteRow
  <2> QED BY <1>3, <2>1, <2>2, <2>3
<1>5. ASSUME NEW c \in Tabs, NEW o \in OrderIds, DeleteOrder(c, o)
      PROVE  Kept
  BY <1>5 DEF DeleteOrder
<1>6. ASSUME NEW o \in OrderIds, RowAction(o)
      PROVE  Kept
  BY <1>1, <1>5, <1>6, RowActionFrame
<1>7. CASE Student
  BY <1>1, <1>2, <1>4, <1>6, <1>7
     DEF Student, RowAction, SaveRecord, Resubmit, WriteRecord, ReadOrder
<1>8. CASE Staff
  BY <1>1, <1>6, <1>8
     DEF Staff, RowAction, ReadRecord, ReadOrder, DecideMatch, WriteRecord, EditService,
         EditPolicy, ApproveInstitution, WriteCatalog
<1>9. CASE Environment \/ UNCHANGED vars
  BY <1>1, <1>4, <1>6, <1>9 DEF Environment, Reports, RowAction, Redeploy, vars
<1> QED BY <1>7, <1>8, <1>9 DEF Next

\* What was read of the record stays as of it.
LEMMA ScopesKeep ==
  ASSUME IInv, ScopesOK, [Next]_vars
  PROVE  ScopesOK'
<1>1. /\ record.version \in Nat /\ record'.version \in Nat
      /\ \A d \in Desks : dossier[d].version \in Nat
      /\ \A q \in QuoteIds : quote[q] # NoQuote => quote[q].snapshot.record \in Nat
  <2>1. IInv'
    BY StepKeeps
  <2>2. \A q \in QuoteIds : quote[q] # NoQuote => quote[q] \in QuoteRow
    BY DEF IInv, TypeOK
  <2> QED BY <2>1, <2>2 DEF IInv, TypeOK, Record, Dossier, QuoteRow, Snapshot
<1>2. (record.status = "none" <=> record.version = 0)'
  BY <1>1, RecordMoves DEF ScopesOK
<1>3. ASSUME NEW version \in Nat, NEW details, AsOf(record, version, details)
      PROVE  AsOf(record', version, details)
  BY <1>1, <1>3, RecordMoves DEF AsOf
<1>4. ASSUME NEW d \in Desks
      PROVE  AsOf(record', dossier'[d].version, dossier'[d].details)
  <2>1. CASE dossier'[d] = dossier[d]
    <3>1. AsOf(record', dossier[d].version, dossier[d].details)
      BY <1>1, <1>3 DEF ScopesOK
    <3> QED BY <2>1, <3>1
  <2> QED BY <1>1, <2>1, DossierMoves DEF AsOf
<1>5. ASSUME NEW q \in QuoteIds, quote'[q] # NoQuote
      PROVE  AsOf(record', quote'[q].snapshot.record, quote'[q].snapshot.details)
  <2>1. CASE quote[q] # NoQuote /\ quote'[q].snapshot = quote[q].snapshot
    <3>1. AsOf(record', quote[q].snapshot.record, quote[q].snapshot.details)
      BY <1>1, <1>3, <2>1 DEF ScopesOK
    <3> QED BY <2>1, <3>1
  <2>2. CASE /\ record' = record
             /\ quote'[q].snapshot.record = record.version
             /\ quote'[q].snapshot.details = record.details
    BY <1>1, <2>2 DEF AsOf
  <2> QED BY <1>5, <2>1, <2>2, QuoteMoves
<1> QED BY <1>2, <1>4, <1>5 DEF ScopesOK, AsOf

\* What registrars' pages and quotes hold of the record is what it was at the version
\* they name, so an equal version means equal details (same_scope, decide_match).
THEOREM ReadsAreAsOf == Spec => []ScopesOK
<1>1. Init => ScopesOK
  BY DEF Init, ScopesOK, AsOf
<1> QED BY <1>1, Invariant, ScopesKeep, PTL DEF Spec

\* A record is confirmed with its present details on the registrar's page, although a
\* page may be older than the record (decide_match).
THEOREM ConfirmationsSee == Spec => ConfirmedOnSight
<1> DEFINE Step == record.status # "matched" /\ record'.status = "matched" =>
                     \E d \in Desks : dossier[d].version > 0
                                      /\ dossier[d].details = record.details
<1>1. ASSUME IInv, ScopesOK, [Next]_vars, record.status # "matched", record'.status = "matched"
      PROVE  \E d \in Desks : dossier[d].version > 0 /\ dossier[d].details = record.details
  <2>1. record \in Record
    BY <1>1 DEF IInv, TypeOK
  <2>2. ASSUME NEW details \in Details, SaveRecord(details) \/ Resubmit(details)
        PROVE  FALSE
    <3>1. CASE SaveRecord(details)
      <4>1. record'.status = "pending"
        BY <3>1 DEF SaveRecord, WriteRecord
      <4> QED BY <1>1, <4>1
    <3>2. CASE Resubmit(details)
      <4>1. record'.status = "pending"
        BY <2>1, <3>2 DEF Resubmit, WriteRecord, Record
      <4> QED BY <1>1, <4>1
    <3> QED BY <2>2, <3>1, <3>2
  <2>3. record' # record /\ record' # RecordReleased(record)
    BY <1>1, <2>1 DEF RecordReleased, Record
  <2>4. ASSUME NEW o \in OrderIds, RowAction(o)
        PROVE  FALSE
    <3>1. record' = record \/ record' = RecordReleased(record)
      BY <2>4
         DEF RowAction, CreateOrder, Reorder, SendMessage, Reports, PaymentClosed, PaymentReported,
             ReplaceDraft, AttachFile, DeleteAttachment, DeleteOrder, RequestCancellation,
             PaymentStarts, Submit, DecideCancellation, ItemDecision, Write
    <3> QED BY <2>3, <3>1
  <2>5. ~Student /\ ~Environment
    BY <2>2, <2>3, <2>4
       DEF Student, Environment, Reports, RowAction, AcceptConsent, QuoteOrder, QuoteExpires, WriteQuote,
           ReadOrder, Redeploy
  <2>6. PICK d \in Desks : \E decision : DecideMatch(d, decision)
    BY <1>1, <2>3, <2>4, <2>5
       DEF Next, vars, Staff, RowAction, ReadRecord, ReadOrder, EditService, EditPolicy,
           ApproveInstitution, WriteCatalog
  <2>7. dossier[d].version = record.version /\ record.version # 0 /\ record.version \in Nat
    BY <1>1, <2>1, <2>6 DEF DecideMatch, ScopesOK, Record
  <2> QED BY <1>1, <2>7 DEF ScopesOK, AsOf
<1>2. IInv /\ ScopesOK /\ [Next]_vars => [Step]_vars
  BY <1>1
<1>3. ConfirmedOnSight <=> [][Step]_vars
  BY DEF ConfirmedOnSight
<1> QED BY <1>2, <1>3, Invariant, ReadsAreAsOf, PTL DEF Spec

\* An order whose record passes SameScope was signed for the details the record has.
LEMMA ScopeIsDetails ==
  ASSUME IInv, ScopesOK, NEW o \in OrderIds, ConsentValid(o), SameScope(o)
  PROVE  record.details = order[o].snapshot.details
  BY DEF ScopesOK, AsOf, ConsentValid, SameScope

\* Work and payments begin on the record that was signed for, confirmed unless the
\* order is paid before review (preparation_blockers, eligibility).
THEOREM PreparationsSigned == Spec => PreparedAsSigned
<1> DEFINE Prepared(o) == order[o].items # "processing" /\ order'[o].items = "processing"
           Started(o)  == Tried(order'[o]) > Tried(order[o])
           Early(o)    == Started(o) /\ order[o].policy = "before_review"
           Scoped(o)   == /\ record.details = order[o].snapshot.details
                          /\ order[o].status = IF Early(o) THEN "awaiting_payment" ELSE "submitted"
                          /\ record.status = "matched" \/ (Early(o) /\ record.status = "pending")
           Step == \A o \in OrderIds :
                     LET prepared == order[o].items # "processing" /\ order'[o].items = "processing"
                         started  == Tried(order'[o]) > Tried(order[o])
                     IN prepared \/ started =>
                          /\ record.details = order[o].snapshot.details
                          /\ order[o].status = IF started /\ order[o].policy = "before_review"
                                               THEN "awaiting_payment" ELSE "submitted"
                          /\ \/ record.status = "matched"
                             \/ started /\ order[o].policy = "before_review" /\ record.status = "pending"
<1>1. ASSUME IInv, ScopesOK, [Next]_vars, NEW o \in OrderIds, Prepared(o) \/ Started(o)
      PROVE  Scoped(o)
  <2>1. order[o] \in OrderRow /\ \A s : order' = [order EXCEPT ![o] = s] => order'[o] = s
    BY <1>1, RowBefore DEF IInv, TypeOK
  <2>2. Tried(order[o]) \in Nat
    BY <2>1 DEF OrderRow, Tried, Stages
  <2>3. RowAction(o) /\ \A c \in Tabs, q \in QuoteIds : ~Submit(c, o, q)
    <3>1. order'[o] # order[o]
      BY <1>1, <2>2
    <3> QED BY <1>1, <2>2, <3>1, RowChanges, SubmitWrites
  <2>4. \/ \E c \in Tabs : PaymentStarts(c, o)
        \/ \E d \in Desks : ItemDecision(d, o)
    <3>1. Tried(order'[o]) \notin {0, Tried(order[o])} \/ Prepared(o)
      BY <1>1, <2>2
    <3> QED BY <1>1, <2>3, <3>1, PlainActions
  <2>5. CASE \E c \in Tabs : PaymentStarts(c, o)
    <3>1. Payable(o)
      BY <2>5 DEF PaymentStarts
    <3>2. Tried(order'[o]) = Tried(order[o]) + 1
      <4> DEFINE s == [order[o] EXCEPT !.attempts["open"] = @ + 1, !.payment = "pending"]
      <4>1. order'[o] = Bumped(s)
        BY <2>1, <2>5 DEF PaymentStarts, Write
      <4>2. order'[o].attempts = [order[o].attempts EXCEPT !["open"] = @ + 1]
        BY <2>1, <4>1 DEF Bumped, OrderRow
      <4>3. order[o].attempts \in [Stages -> Nat]
        BY <2>1 DEF OrderRow
      <4> HIDE DEF s
      <4> QED BY <4>2, <4>3 DEF Tried, Stages
    <3>3. Started(o)
      BY <2>2, <3>2
    <3>4. /\ ConsentValid(o) /\ SameScope(o)
          /\ order[o].status = IF Early(o) THEN "awaiting_payment" ELSE "submitted"
          /\ record.status = "matched" \/ (Early(o) /\ record.status = "pending")
      BY <3>1, <3>3 DEF Payable, Preparable
    <3> QED BY <1>1, <3>4, ScopeIsDetails
  <2>6. CASE \E d \in Desks : ItemDecision(d, o)
    <3>1. PICK d \in Desks : ItemDecision(d, o)
      BY <2>6
    <3>2. \A x : /\ Bumped([order[o] EXCEPT !.items = x]).items = x
                 /\ Bumped([order[o] EXCEPT !.items = x]).attempts = order[o].attempts
      BY <2>1 DEF Bumped, OrderRow
    <3>3. Tried(order'[o]) = Tried(order[o])
      BY <2>1, <3>1, <3>2 DEF ItemDecision, Write, Tried
    <3>4. Preparable(o)
      BY <1>1, <2>1, <2>2, <3>1, <3>2, <3>3 DEF ItemDecision, Write
    <3>5. ~Early(o)
      BY <2>2, <3>3
    <3> QED BY <1>1, <3>4, <3>5, ScopeIsDetails DEF Preparable
  <2> QED BY <2>4, <2>5, <2>6
<1>2. IInv /\ ScopesOK /\ [Next]_vars => [Step]_vars
  BY <1>1
<1>3. PreparedAsSigned <=> [][Step]_vars
  BY DEF PreparedAsSigned
<1> QED BY <1>2, <1>3, Invariant, ReadsAreAsOf, PTL DEF Spec

\* What a step makes of an order that is cancelled.
LEMMA CancelledStays ==
  ASSUME IInv, NEW o \in OrderIds, RowAction(o), order[o].status = "cancelled"
  PROVE  /\ order'[o].status = "cancelled" /\ order'[o].items = order[o].items
         /\ order'[o].released = order[o].released /\ Tried(order'[o]) = Tried(order[o])
<1>1. order[o] \in OrderRow /\ \A s : order' = [order EXCEPT ![o] = s] => order'[o] = s
  BY RowBefore DEF IInv, TypeOK
<1>2. SendMessage(o) \/ Reports(o)
  BY DEF RowAction, CreateOrder, Reorder, ReplaceDraft, AttachFile, DeleteAttachment,
         DeleteOrder, RequestCancellation, PaymentStarts, Payable, Preparable, Submit, IsDraft,
         DecideCancellation, ItemDecision
<1>3. CASE SendMessage(o)
  <2>1. order'[o] = Bumped(order[o])
    BY <1>1, <1>3 DEF SendMessage, Write
  <2> QED BY <1>1, <2>1, BumpedRow DEF Tried
<1>4. CASE Reports(o)
  <2>1. PICK m : /\ MoneyOnly(order[o], m)
                 /\ order'[o] = Bumped(m) \/ Releases(m)
    BY <1>1, <1>4, ReportWrites DEF Write
  <2>2. ~Releases(m)
    BY <2>1 DEF MoneyOnly, Releases
  <2> QED BY <2>1, <2>2, BumpedRow DEF MoneyOnly, Tried
<1> QED BY <1>2, <1>3, <1>4

\* Only a request or a decision cancels, with nothing charged, open or begun.
LEMMA Cancels ==
  ASSUME IInv, NEW o \in OrderIds, RowAction(o),
         order[o].status # "cancelled", order'[o].status = "cancelled"
  PROVE  /\ order'[o].attempts["open"] = 0 /\ order'[o].attempts["funded"] = 0
         /\ order'[o].items \in {"draft", "cancelled"} /\ order[o].items # "processing"
<1>1. /\ RowOK(order[o]) /\ order[o] \in OrderRow
      /\ \A s : order' = [order EXCEPT ![o] = s] => order'[o] = s
  BY RowBefore DEF IInv, TypeOK
<1>2. CanCancel(order[o]) => /\ order[o].attempts["open"] = 0 /\ order[o].attempts["funded"] = 0
                             /\ order[o].items # "processing"
  BY <1>1, AggregateSays DEF CanCancel, RowOK, OrderRow
<1>3. CASE \E c \in Tabs : RequestCancellation(c, o)
  <2> DEFINE r == [order[o] EXCEPT !.status =
                     IF @ = "submitted" THEN "cancellation_requested" ELSE "cancelled"]
  <2>1. order'[o] = Bumped(r) /\ CanCancel(order[o])
        /\ order[o].status \in {"draft", "awaiting_payment", "submitted"}
    BY <1>1, <1>3 DEF RequestCancellation, Write
  <2>2. /\ order'[o].attempts = order[o].attempts /\ order'[o].items = order[o].items
        /\ order[o].status = "submitted" => order'[o].status = "cancellation_requested"
    BY <1>1, <2>1 DEF Bumped, OrderRow
  <2>3. order[o].items = "draft"
    BY <1>1, <2>1, <2>2 DEF RowOK
  <2> QED BY <1>2, <2>1, <2>2, <2>3
<1>4. CASE \E d \in Desks : DecideCancellation(d, o)
  <2>1. \/ /\ order'[o] = Bumped([order[o] EXCEPT !.status = "cancelled", !.items = "cancelled"])
           /\ CanCancel(order[o])
        \/ order'[o] = Bumped([order[o] EXCEPT !.status = "submitted"])
    BY <1>1, <1>4 DEF DecideCancellation, Write
  <2>2. Bumped([order[o] EXCEPT !.status = "submitted"]).status = "submitted"
    BY <1>1 DEF Bumped, OrderRow
  <2>3. /\ CanCancel(order[o]) /\ order'[o].attempts = order[o].attempts
        /\ order'[o].items = "cancelled"
    BY <1>1, <2>1, <2>2 DEF Bumped, OrderRow
  <2> QED BY <1>2, <2>3
<1>5. CASE \/ CreateOrder(o) \/ \E source \in OrderIds : Reorder(o, source)
           \/ \E c \in Tabs, q \in QuoteIds : Submit(c, o, q)
  <2>1. order'[o].status # "cancelled"
    BY <1>1, <1>5, SubmitWrites DEF CreateOrder, Reorder, Write, NewRow
  <2> QED BY <2>1
<1>6. CASE SendMessage(o) \/ Reports(o)
  <2>1. CASE SendMessage(o)
    BY <1>1, <2>1, BumpedRow DEF SendMessage, Write
  <2>2. CASE Reports(o)
    <3>1. PICK m : /\ MoneyOnly(order[o], m)
                   /\ order'[o] = Bumped(m) \/ (~m.released /\ order'[o] = Released(m))
      BY <1>1, <2>2, ReportWrites DEF Write
    <3> QED BY <3>1, BumpedRow, ReleasedRow DEF MoneyOnly
  <2> QED BY <1>6, <2>1, <2>2
<1>7. ASSUME NEW c \in Tabs,
             \/ \E content \in Drafts : ReplaceDraft(c, o, content)
             \/ \E f \in Files : AttachFile(c, o, f) \/ DeleteAttachment(c, o, f)
             \/ PaymentStarts(c, o)
      PROVE  FALSE
  <2> DEFINE C(x) == Bumped([order[o] EXCEPT !.content = x])
             F(x) == Bumped([order[o] EXCEPT !.files = x])
             A(x, y) == Bumped([order[o] EXCEPT !.attempts = x, !.payment = y])
  <2>1. /\ \A x : C(x).status = order[o].status /\ F(x).status = order[o].status
        /\ \A x, y : A(x, y).status = order[o].status
    BY <1>1 DEF Bumped, OrderRow
  <2>2. (\E x : Write(o, C(x)) \/ Write(o, F(x))) \/ (\E x, y : Write(o, A(x, y)))
    BY <1>7 DEF ReplaceDraft, AttachFile, DeleteAttachment, PaymentStarts
  <2> HIDE DEF C, F, A
  <2>3. PICK s : Write(o, s) /\ s.status = order[o].status
    BY <2>1, <2>2
  <2> QED BY <1>1, <2>3 DEF Write
<1>8. ASSUME NEW c \in Tabs, DeleteOrder(c, o) PROVE FALSE
  <2>1. order'[o] = [order[o] EXCEPT !.status = "deleted"]
    BY <1>1, <1>8 DEF DeleteOrder
  <2> QED BY <1>1, <2>1 DEF OrderRow
<1>9. ASSUME NEW d \in Desks, ItemDecision(d, o) PROVE FALSE
  <2>1. PICK items : order'[o] = Bumped([order[o] EXCEPT !.items = items])
    BY <1>1, <1>9 DEF ItemDecision, Write
  <2>2. order'[o].status = order[o].status
    BY <1>1, <2>1 DEF Bumped, OrderRow
  <2> QED BY <2>2
<1> QED BY <1>3, <1>4, <1>5, <1>6, <1>7, <1>8, <1>9 DEF RowAction

\* An order is cancelled with nothing charged, open or begun, and stays cancelled
\* and away from the institution whatever money comes late (can_cancel,
\* apply_observation).
THEOREM CancelledForGood == Spec => CancellationHolds
<1> DEFINE Stays(o)  == /\ order'[o].status = "cancelled" /\ order'[o].items = order[o].items
                        /\ order'[o].released = order[o].released
                        /\ Tried(order'[o]) = Tried(order[o])
           Clear(o)  == /\ order'[o].attempts["open"] = 0 /\ order'[o].attempts["funded"] = 0
                        /\ order'[o].items \in {"draft", "cancelled"}
                        /\ order[o].items # "processing"
           Step == \A o \in OrderIds :
                     order'[o].status = "cancelled" \/ order[o].status = "cancelled" =>
                       IF order[o].status = "cancelled"
                       THEN /\ order'[o].status = "cancelled"
                            /\ order'[o].items = order[o].items
                            /\ order'[o].released = order[o].released
                            /\ Tried(order'[o]) = Tried(order[o])
                       ELSE /\ order'[o].attempts["open"] = 0 /\ order'[o].attempts["funded"] = 0
                            /\ order'[o].items \in {"draft", "cancelled"}
                            /\ order[o].items # "processing"
<1>1. ASSUME IInv, [Next]_vars, NEW o \in OrderIds, order[o].status = "cancelled"
      PROVE  Stays(o)
  <2>1. CASE order'[o] = order[o]
    BY <1>1, <2>1 DEF Tried
  <2>2. CASE order'[o] # order[o]
    BY <1>1, <2>2, RowChanges, CancelledStays
  <2> QED BY <2>1, <2>2
<1>2. ASSUME IInv, [Next]_vars, NEW o \in OrderIds,
             order[o].status # "cancelled", order'[o].status = "cancelled"
      PROVE  Clear(o)
  BY <1>2, RowChanges, Cancels
<1>3. IInv /\ [Next]_vars => [Step]_vars
  BY <1>1, <1>2
<1>4. CancellationHolds <=> [][Step]_vars
  BY DEF CancellationHolds
<1> QED BY <1>3, <1>4, Invariant, PTL DEF Spec
=============================================================================
