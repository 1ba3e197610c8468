------------------------------- MODULE Orders -------------------------------
(***************************************************************************)
(* The life of a student's orders before documents are made: drafting,     *)
(* quoting, signing, submission, release to the institution, cancellation  *)
(* and the first registrar decision, together with the two things a quote  *)
(* depends on and that change under it: the academic record link and the   *)
(* institution's catalog.  From services/orders.py, api/v1/orders.py,      *)
(* api/v1/academic_records.py and api/v1/catalog.py.                       *)
(*                                                                         *)
(* Every handler locks the institution, then the order or the link, and    *)
(* commits once, so it is one action.  What makes the protocol hard is     *)
(* that people act on pages they loaded earlier: page holds what each open *)
(* browser page shows, and with it the expected_version it will send.      *)
(* Of payments this module keeps what orders see: how many attempts are    *)
(* open, funded and closed, where a closed one may be heard of late.       *)
(* Messages, references and refunds, with the cancellation that a full      *)
(* refund brings, are in Payments.tla.                                     *)
(***************************************************************************)
EXTENDS Integers

CONSTANTS
  OrderIds,    \* rows the orders table may get
  QuoteIds,    \* rows the quotes table may get
  Tabs,        \* browser pages of the student
  Desks,       \* browser pages of registrars
  Contents,    \* complete drafts: a purpose, recipients and items
  Files,       \* attachments
  Details,     \* enrollment details and identity a record link can state
  Fees,        \* what the institution may charge for the items
  Policies,    \* values of PAYMENT_COLLECTION_POLICY
  MaxVersion,  \* bound: versions of an order
  MaxAttempts, \* bound: payment attempts of an order
  MaxRecord,   \* bound: versions of the record link
  MaxCatalog   \* bound: versions of the catalog

ASSUME KnownSettings == Policies \subseteq {"before_review", "after_review"}
ASSUME NoneIsNoOrder == "none" \notin OrderIds
ASSUME FeesNatural == Fees \subseteq Nat
ASSUME BoundsNatural ==
  MaxVersion \in Nat /\ MaxAttempts \in Nat /\ MaxRecord \in Nat /\ MaxCatalog \in Nat

VARIABLES
  order,    \* the orders with their items, recipients, attachments
  quote,    \* the quotes, each with the consent that was given to it
  record,   \* the academic record link of the student at the institution
  catalog,  \* the institution's approval, ordering policy and service
  setting,  \* PAYMENT_COLLECTION_POLICY of the running deployment
  page,     \* the order each page shows
  dossier   \* the record link each registrar's page shows

vars == <<order, quote, record, catalog, setting, page, dossier>>

Pages == Tabs \cup Desks

-----------------------------------------------------------------------------
(* Rows *)

Empty  == "empty"          \* a draft that is not complete yet
Drafts == Contents \cup {Empty}

NoSnapshot == [content |-> Empty]

\* build_snapshot; policy.version and service.version only grow, so their sum
\* (catalog) tells the same as the pair.
Snapshot == [content : Contents, files : SUBSET Files, fee : Fees,
             record : Nat, details : Details, catalog : Nat]

\* Attempts whose outcome is open; that were charged; that failed or expired.
Stages == {"open", "funded", "closed"}

Past == {"awaiting_payment", "submitted", "cancellation_requested", "cancelled"}

\* "none": not created yet; "deleted": the row is gone.  quote is the
\* submission_quote_id; the consent belongs to the quote.  Items that are ready
\* or made into documents count as in processing here.
OrderRow ==
  [status   : {"none", "draft", "deleted"} \cup Past,
   policy   : {"before_review", "after_review"},
   version  : Nat,
   content  : Drafts,
   files    : SUBSET Files,
   attempts : [Stages -> Nat],
   payment  : {"not_started", "pending", "paid", "review_required"},
   released : BOOLEAN,
   items    : {"draft", "awaiting_review", "processing", "rejected", "cancelled"},
   quote    : QuoteIds \cup {"none"},
   snapshot : Snapshot \cup {NoSnapshot}]

NoQuote == [order |-> "none"]

QuoteRow == [order : OrderIds, version : Nat, snapshot : Snapshot,
             live : BOOLEAN,      \* expires_at is ahead
             signed : BOOLEAN]    \* an OrderConsent with a signature exists

Record == [status  : {"none", "pending", "matched", "needs_information", "rejected"},
           version : Nat,
           details : Details,
           hidden  : BOOLEAN]     \* checkout_required

Catalog == [approved : BOOLEAN, accepting : BOOLEAN, offered : BOOLEAN,
            fee : Fees, version : Nat]

\* What a page shows; its version is the expected_version it sends.
Page    == [order : OrderIds \cup {"none"}, version : Nat,
            content : Drafts, files : SUBSET Files]
Dossier == [version : Nat, details : Details]   \* version 0: nothing open

TypeOK == /\ order \in [OrderIds -> OrderRow]
          /\ quote \in [QuoteIds -> QuoteRow \cup {NoQuote}]
          /\ record \in Record
          /\ catalog \in Catalog
          /\ setting \in Policies
          /\ page \in [Pages -> Page]
          /\ dossier \in [Desks -> Dossier]

-----------------------------------------------------------------------------
(* What the services compute *)

Exists(o)  == order[o].status \notin {"none", "deleted"}
IsDraft(o) == order[o].status = "draft"

\* check_version
Current(c, o) == page[c].order = o /\ page[c].version = order[o].version

\* event: an order gets a new version with every event; the events of one
\* transaction count as one.
Bumped(r) == [r EXCEPT !.version = @ + 1]

Bumpable(o) == order[o].version < MaxVersion

RecordUsable(r) ==
  record.status \in IF r.policy = "before_review" THEN {"pending", "matched"} ELSE {"matched"}

\* build_snapshot raises a problem unless all of this holds.
Ready(r) == /\ catalog.approved /\ catalog.accepting /\ catalog.offered
            /\ RecordUsable(r)
            /\ r.content # Empty

BuildSnapshot(r) ==
  [content |-> r.content, files |-> r.files, fee |-> catalog.fee,
   record |-> record.version, details |-> record.details, catalog |-> catalog.version]

\* Faults: the version is trusted to cover whatever the quote depends on; the
\* quote may be another order's.
ValidByVersion(o, q) ==
  /\ quote[q] # NoQuote /\ quote[q].order = o
  /\ quote[q].live /\ quote[q].version = order[o].version
  /\ Ready(order[o])

ValidAnyOrder(o, q) ==
  /\ quote[q] # NoQuote
  /\ quote[q].live /\ quote[q].version = order[o].version
  /\ Ready(order[o]) /\ quote[q].snapshot = BuildSnapshot(order[o])

\* valid_quote
ValidQuote(o, q) ==
  /\ quote[q] # NoQuote /\ quote[q].order = o
  /\ quote[q].live /\ quote[q].version = order[o].version
  /\ Ready(order[o]) /\ quote[q].snapshot = BuildSnapshot(order[o])

NoAttempts == [s \in Stages |-> 0]

Tried(r) == r.attempts["open"] + r.attempts["funded"] + r.attempts["closed"]

\* aggregate_status; a funded attempt is one that was charged.
Aggregate(a) ==
  IF a["funded"] > 1 \/ (a["funded"] > 0 /\ a["open"] > 0) THEN "review_required"
  ELSE IF a["open"] > 0 THEN "pending"
  ELSE IF a["funded"] > 0 THEN "paid" ELSE "not_started"

\* An order row with the attempts a, and the status derived from them.
WithAttempts(r, a) == [r EXCEPT !.attempts = a, !.payment = Aggregate(a)]

\* One attempt goes from a stage to another.
Moved(r, from, to) ==
  LET left == [r.attempts EXCEPT ![from] = @ - 1]
  IN WithAttempts(r, [left EXCEPT ![to] = @ + 1])

\* Fault: the order's status is not looked at.
ReleasesAny(r) == r.policy = "before_review" /\ r.payment = "paid"

\* apply_observation, at its end: the order has waited for this.
Releases(r) ==
  r.policy = "before_review" /\ r.status = "awaiting_payment" /\ r.payment = "paid"

\* can_cancel
CanCancel(r) ==
  r.payment = "not_started" /\ r.items \in {"draft", "awaiting_review", "rejected"}

\* release_order on the order row; it also lifts checkout_required.
Released(r) ==
  IF r.released THEN r
  ELSE Bumped([r EXCEPT !.status = "submitted", !.released = TRUE,
                        !.items = "awaiting_review"])

\* Fault: the record stays private.
RecordKept(rec) == rec

RecordReleased(rec) == [rec EXCEPT !.hidden = FALSE]

\* The consent a submitted order names is for what it was submitted with.
ConsentValid(o) ==
  LET q == order[o].quote
  IN /\ q \in QuoteIds /\ quote[q] # NoQuote
     /\ quote[q].order = o /\ quote[q].signed
     /\ quote[q].snapshot = order[o].snapshot

\* Fault: the record has to be matched, whatever it says by now.
SameScopeMatched(o) == record.status = "matched"

\* The record is the one the consent covers: by its contents for an order that
\* was checked out before review, by its version otherwise.
SameScope(o) ==
  IF order[o].policy = "before_review"
  THEN record.details = order[o].snapshot.details
  ELSE record.version = order[o].snapshot.record

\* preparation_blockers, without holds, questions and deferred release: those
\* can only refuse more.
Preparable(o) ==
  /\ catalog.approved /\ order[o].status = "submitted"
  /\ order[o].payment # "review_required"
  /\ record.status = "matched" /\ SameScope(o)
  /\ ConsentValid(o)

-----------------------------------------------------------------------------
(* Pages *)

NoPage == [order |-> "none", version |-> 0, content |-> Empty, files |-> {}]

\* get_order: the owner sees every order, the institution those it received.
ReadOrder(c, o) ==
  /\ Exists(o)
  /\ c \in Desks => order[o].released
  /\ page' = [page EXCEPT ![c] = [order |-> o, version |-> order[o].version,
                                  content |-> order[o].content, files |-> order[o].files]]
  /\ UNCHANGED <<order, quote, record, catalog, setting, dossier>>

\* staff_link
ReadRecord(d) ==
  /\ record.status # "none" /\ ~record.hidden
  /\ dossier' = [dossier EXCEPT ![d] = [version |-> record.version,
                                        details |-> record.details]]
  /\ UNCHANGED <<order, quote, record, catalog, setting, page>>

-----------------------------------------------------------------------------
(* Drafts *)

\* Only the order row o changes.
Write(o, r) ==
  /\ order' = [order EXCEPT ![o] = r]
  /\ UNCHANGED <<quote, record, catalog, setting, page, dossier>>

NewRow(version, content) ==
  [status |-> "draft", policy |-> setting, version |-> version, content |-> content,
   files |-> {}, attempts |-> NoAttempts, payment |-> "not_started",
   released |-> FALSE, items |-> "draft",
   quote |-> "none", snapshot |-> NoSnapshot]

\* create_order: an empty draft, or one with a recipient and the link's service.
CreateOrder(o) ==
  /\ order[o].status = "none"
  /\ record.status # "none" /\ catalog.approved
  /\ \/ Write(o, NewRow(1, Empty))
     \/ \E content \in Contents : Write(o, NewRow(2, content))

\* reorder: the selections of an order that left the draft state, not its files.
Reorder(o, source) ==
  /\ order[o].status = "none"
  /\ order[source].status \in Past /\ catalog.approved
  /\ Write(o, NewRow(2, order[source].content))

\* update_order, and mutate_component for one recipient or item of the draft.
ReplaceDraft(c, o, content) ==
  /\ IsDraft(o) /\ Current(c, o) /\ Bumpable(o)
  /\ Write(o, Bumped([order[o] EXCEPT !.content = content]))

AttachFile(c, o, f) ==
  /\ IsDraft(o) /\ Current(c, o) /\ Bumpable(o)
  /\ f \notin order[o].files
  /\ Write(o, Bumped([order[o] EXCEPT !.files = @ \cup {f}]))

\* Fault: no event is recorded.
DeleteAttachmentQuietly(c, o, f) ==
  /\ IsDraft(o) /\ Current(c, o) /\ Bumpable(o)
  /\ f \in order[o].files
  /\ Write(o, [order[o] EXCEPT !.files = @ \ {f}])

DeleteAttachment(c, o, f) ==
  /\ IsDraft(o) /\ Current(c, o) /\ Bumpable(o)
  /\ f \in order[o].files
  /\ Write(o, Bumped([order[o] EXCEPT !.files = @ \ {f}]))

\* delete_unfinished_order, with the quotes and consents of the draft.
DeleteOrder(c, o) ==
  /\ IsDraft(o) /\ Current(c, o)
  /\ ~order[o].released /\ order[o].snapshot = NoSnapshot
  /\ order[o].attempts = NoAttempts
  /\ order' = [order EXCEPT ![o].status = "deleted"]
  /\ quote' = [q \in QuoteIds |-> IF quote[q] # NoQuote /\ quote[q].order = o
                                  THEN NoQuote ELSE quote[q]]
  /\ UNCHANGED <<record, catalog, setting, page, dossier>>

-----------------------------------------------------------------------------
(* Quote, consent, submission, release *)

WriteQuote(q, row) ==
  /\ quote' = [quote EXCEPT ![q] = row]
  /\ UNCHANGED <<order, record, catalog, setting, page, dossier>>

\* quote_order; it is no edit, the version stays.
QuoteOrder(c, o, q) ==
  /\ IsDraft(o) /\ Current(c, o) /\ Ready(order[o])
  /\ quote[q] = NoQuote
  /\ WriteQuote(q, [order |-> o, version |-> order[o].version,
                    snapshot |-> BuildSnapshot(order[o]), live |-> TRUE, signed |-> FALSE])

\* Fifteen minutes go by.
QuoteExpires(q) ==
  /\ quote[q] # NoQuote /\ quote[q].live
  /\ WriteQuote(q, [quote[q] EXCEPT !.live = FALSE])

\* accept_consent; the same signature again changes nothing, another is refused.
AcceptConsent(o, q) ==
  /\ IsDraft(o) /\ ValidQuote(o, q) /\ ~quote[q].signed
  /\ WriteQuote(q, [quote[q] EXCEPT !.signed = TRUE])

\* The order goes to checkout, or straight to the institution.
CheckedOut(r, pays) ==
  IF pays THEN Bumped([r EXCEPT !.status = "awaiting_payment"]) ELSE Released(r)

WithSnapshot(o, q) ==
  [order[o] EXCEPT !.quote = q, !.snapshot = quote[q].snapshot]

\* Fault: the policy of the deployment is used, not the order's own.
SubmitBySetting(c, o, q) ==
  /\ IsDraft(o) /\ Current(c, o) /\ Bumpable(o)
  /\ ValidQuote(o, q) /\ quote[q].signed
  /\ LET pays == setting = "before_review" /\ quote[q].snapshot.fee > 0
     IN /\ order' = [order EXCEPT ![o] = CheckedOut(WithSnapshot(o, q), pays)]
        /\ record' = IF pays THEN record ELSE RecordReleased(record)
  /\ UNCHANGED <<quote, catalog, setting, page, dossier>>

\* submit_order; a repetition with the same key changes nothing.
Submit(c, o, q) ==
  /\ IsDraft(o) /\ Current(c, o) /\ Bumpable(o)
  /\ ValidQuote(o, q) /\ quote[q].signed
  /\ LET pays == order[o].policy = "before_review" /\ quote[q].snapshot.fee > 0
     IN /\ order' = [order EXCEPT ![o] = CheckedOut(WithSnapshot(o, q), pays)]
        /\ record' = IF pays THEN record ELSE RecordReleased(record)
  /\ UNCHANGED <<quote, catalog, setting, page, dossier>>

\* eligibility and create_attempt
Payable(o) ==
  /\ order[o].payment = "not_started" /\ ConsentValid(o)
  /\ order[o].snapshot.fee > 0
  /\ IF order[o].policy = "before_review"
     THEN /\ order[o].status = "awaiting_payment" /\ catalog.approved
          /\ record.status \in {"pending", "matched"} /\ SameScope(o)
     ELSE order[o].items = "processing" /\ Preparable(o)

PaymentStarts(c, o) ==
  /\ Current(c, o) /\ Payable(o) /\ Bumpable(o)
  /\ Tried(order[o]) < MaxAttempts
  /\ Write(o, Bumped([order[o] EXCEPT !.attempts["open"] = @ + 1, !.payment = "pending"]))

\* An attempt is closed without a look at the release: a request the provider
\* refused (dispatch) or did not acknowledge in time (expire_test_request), or a
\* review that found nothing paid (resolve_unconfirmed_payment).
PaymentClosed(o) ==
  /\ order[o].attempts["open"] > 0 /\ Bumpable(o)
  /\ Write(o, Bumped(Moved(order[o], "open", "closed")))

\* apply_observation, whatever the status of the order.  A charge stays.  An
\* attempt that was closed may be reported as charged, or open again, after all;
\* Payments.tla says when.  One that stays open leaves a note at most.
PaymentReported(o, from, to) ==
  /\ order[o].attempts[from] > 0 /\ Bumpable(o)
  /\ from = "funded" => to = "funded"
  /\ LET seen == Moved(order[o], from, to)
     IN /\ from # to \/ from = "open" \/ Releases(seen)
        /\ order' = [order EXCEPT ![o] = IF Releases(seen) THEN Released(seen) ELSE Bumped(seen)]
        /\ record' = IF Releases(seen) THEN RecordReleased(record) ELSE record
  /\ UNCHANGED <<quote, catalog, setting, page, dossier>>

-----------------------------------------------------------------------------
(* After submission *)

\* send_message and staff_send_message take no version but make a new one.
SendMessage(o) ==
  /\ order[o].released /\ Bumpable(o)
  /\ Write(o, Bumped(order[o]))

\* request_cancellation: at once for the owner's own drafts and checkouts.
RequestCancellation(c, o) ==
  /\ order[o].status \in {"draft", "awaiting_payment", "submitted"}
  /\ Current(c, o) /\ CanCancel(order[o]) /\ Bumpable(o)
  /\ Write(o, Bumped([order[o] EXCEPT !.status =
                        IF @ = "submitted" THEN "cancellation_requested" ELSE "cancelled"]))

DecideCancellation(d, o) ==
  /\ order[o].status = "cancellation_requested"
  /\ Current(d, o) /\ Bumpable(o)
  /\ \/ /\ CanCancel(order[o])
        /\ Write(o, Bumped([order[o] EXCEPT !.status = "cancelled", !.items = "cancelled"]))
     \/ Write(o, Bumped([order[o] EXCEPT !.status = "submitted"]))

\* item_decision, without assignment: approve, reject and reopen.
ItemDecision(d, o) ==
  /\ order[o].status = "submitted" /\ catalog.approved
  /\ order[o].payment # "review_required"
  /\ Current(d, o) /\ Bumpable(o)
  /\ \/ /\ order[o].items = "awaiting_review" /\ Preparable(o)
        /\ Write(o, Bumped([order[o] EXCEPT !.items = "processing"]))
     \/ /\ order[o].items = "awaiting_review"
        /\ Write(o, Bumped([order[o] EXCEPT !.items = "rejected"]))
     \/ /\ order[o].items \in {"processing", "rejected"}
        /\ Write(o, Bumped([order[o] EXCEPT !.items = "awaiting_review"]))

-----------------------------------------------------------------------------
(* The academic record link *)

WriteRecord(rec) ==
  /\ record' = rec
  /\ UNCHANGED <<order, quote, catalog, setting, page, dossier>>

\* validate_submission
Accepting == catalog.approved /\ catalog.accepting /\ catalog.offered

\* save_link
SaveRecord(details) ==
  /\ record.status = "none" /\ Accepting
  /\ WriteRecord([status |-> "pending", version |-> 1, details |-> details,
                  hidden |-> setting = "before_review"])

\* Fault: new details keep the version of the old ones.
ResubmitSameVersion(details) ==
  /\ record.status \in {"needs_information", "rejected"} /\ Accepting
  /\ record.version < MaxRecord
  /\ WriteRecord([record EXCEPT !.status = "pending", !.details = details])

\* save_resubmission, of the version the student's page shows.
Resubmit(details) ==
  /\ record.status \in {"needs_information", "rejected"} /\ Accepting
  /\ record.version < MaxRecord
  /\ WriteRecord([record EXCEPT !.status = "pending", !.details = details,
                                !.version = @ + 1])

\* decide_match; only a manager corrects a decision, by asking for information.
DecideMatch(d, decision) ==
  /\ record.status # "none" /\ ~record.hidden
  /\ dossier[d].version = record.version /\ record.version < MaxRecord
  /\ \/ record.status = "pending"
     \/ record.status \in {"matched", "rejected"} /\ decision = "needs_information"
  /\ decision = "matched" => catalog.approved
  /\ WriteRecord([record EXCEPT !.status = decision, !.version = @ + 1])

-----------------------------------------------------------------------------
(* Catalog and deployment *)

WriteCatalog(cat) ==
  /\ catalog' = cat
  /\ UNCHANGED <<order, quote, record, setting, page, dossier>>

\* update_service
EditService ==
  /\ catalog.version < MaxCatalog
  /\ \E fee \in Fees, offered \in BOOLEAN :
       WriteCatalog([catalog EXCEPT !.fee = fee, !.offered = offered, !.version = @ + 1])

\* update_policy
EditPolicy ==
  /\ catalog.version < MaxCatalog
  /\ \E accepting \in BOOLEAN :
       WriteCatalog([catalog EXCEPT !.accepting = accepting, !.version = @ + 1])

\* approve_institution
ApproveInstitution == WriteCatalog([catalog EXCEPT !.approved = ~@])

\* The service is restarted with another collection policy.
Redeploy ==
  /\ setting' \in Policies \ {setting}
  /\ UNCHANGED <<order, quote, record, catalog, page, dossier>>

-----------------------------------------------------------------------------
Init ==
  /\ setting \in Policies
  /\ order = [o \in OrderIds |->
                 [NewRow(0, Empty) EXCEPT !.status = "none", !.policy = "after_review"]]
  /\ quote = [q \in QuoteIds |-> NoQuote]
  /\ \E details \in Details :
       record = [status |-> "none", version |-> 0, details |-> details, hidden |-> FALSE]
  /\ \E fee \in Fees :
       catalog = [approved |-> TRUE, accepting |-> TRUE, offered |-> TRUE,
                  fee |-> fee, version |-> 0]
  /\ page = [c \in Pages |-> NoPage]
  /\ dossier \in [Desks -> {[version |-> 0, details |-> record.details]}]

Student ==
  \/ \E details \in Details : SaveRecord(details) \/ Resubmit(details)
  \/ \E o \in OrderIds :
       \/ CreateOrder(o)
       \/ \E source \in OrderIds : Reorder(o, source)
       \/ \E q \in QuoteIds : AcceptConsent(o, q)
       \/ SendMessage(o)
  \/ \E c \in Tabs, o \in OrderIds :
       \/ ReadOrder(c, o)
       \/ \E content \in Drafts : ReplaceDraft(c, o, content)
       \/ \E f \in Files : AttachFile(c, o, f) \/ DeleteAttachment(c, o, f)
       \/ DeleteOrder(c, o)
       \/ \E q \in QuoteIds : QuoteOrder(c, o, q) \/ Submit(c, o, q)
       \/ RequestCancellation(c, o)
       \/ PaymentStarts(c, o)

Staff ==
  \/ \E d \in Desks :
       \/ ReadRecord(d)
       \/ \E decision \in {"matched", "needs_information", "rejected"} :
            DecideMatch(d, decision)
       \/ \E o \in OrderIds : \/ ReadOrder(d, o)
                              \/ DecideCancellation(d, o)
                              \/ ItemDecision(d, o)
  \/ EditService
  \/ EditPolicy
  \/ ApproveInstitution

Environment ==
  \/ \E q \in QuoteIds : QuoteExpires(q)
  \/ \E o \in OrderIds : \/ PaymentClosed(o)
                          \/ \E from, to \in Stages : PaymentReported(o, from, to)
  \/ Redeploy

Next == Student \/ Staff \/ Environment

Spec == Init /\ [][Next]_vars

-----------------------------------------------------------------------------
(* Properties *)

\* What an institution received, or a student pays for, is what was signed:
\* the order names a consent to its own quote, and its items, recipients and
\* attachments are still those of the snapshot that was quoted (submit_order,
\* draft_only, valid_quote; docs/milestone-3.md:73).
SubmittedAsSigned ==
  \A o \in OrderIds :
    order[o].snapshot # NoSnapshot =>
      /\ ConsentValid(o)
      /\ order[o].snapshot.content = order[o].content
      /\ order[o].snapshot.files = order[o].files

\* An order that was created for checkout before review and costs something is
\* not with the institution before an attempt was charged, whatever the
\* deployment's policy and the catalog's fee have become since, and whichever
\* attempt the money came from (submit_order, apply_observation, release_order).
PaidBeforeRelease ==
  \A o \in OrderIds :
    /\ order[o].released /\ order[o].policy = "before_review"
    /\ order[o].snapshot.fee > 0
    => order[o].attempts["funded"] > 0

\* A record link becomes visible to registrars with the first order they get for
\* it, so that an order in their queue can be matched, and none has seen it
\* before (release_order, staff_link; docs/milestone-5.md:28-29).
RecordFollowsOrder ==
  /\ record.hidden => \A d \in Desks : dossier[d].version = 0
  /\ (\E o \in OrderIds : order[o].released) => ~record.hidden

Draft(o) == <<order[o].content, order[o].files>>

\* No edit of a draft is lost: whoever changes it had its latest contents and
\* attachments on the page (check_version in every editing handler).
NoLostEdit ==
  [][\A o \in OrderIds :
       Exists(o) /\ Exists(o)' /\ Draft(o)' # Draft(o) =>
         \E c \in Tabs : page[c].order = o /\ <<page[c].content, page[c].files>> = Draft(o)]_vars

\* A submission binds both sides to the present: the fee is the one the catalog
\* asks now and the record is the one the institution may accept now, however
\* long ago the quote was made and signed (valid_quote in submit_order).
SubmittedAsOffered ==
  [][\A o \in OrderIds :
       IsDraft(o) /\ order'[o].snapshot # NoSnapshot =>
         /\ order'[o].snapshot.fee = catalog.fee
         /\ order'[o].snapshot.details = record.details
         /\ catalog.approved /\ catalog.accepting /\ catalog.offered
         /\ record.status \notin {"needs_information", "rejected"}]_vars

\* A record is confirmed only by a registrar who had its present details open,
\* never one that the student resubmitted meanwhile (decide_match).
ConfirmedOnSight ==
  [][record.status # "matched" /\ record'.status = "matched" =>
       \E d \in Desks : dossier[d].version > 0 /\ dossier[d].details = record.details]_vars

\* An order is cancelled on request or by decision only while no attempt holds money
\* or is open and nobody works on its documents, whatever happened between the request
\* and the decision (can_cancel, re-checked by decide_cancellation).  A cancellation is final: an
\* attempt that had failed before may be charged or open again, but neither it nor
\* a new one brings the order back to life or to the institution
\* (apply_observation, eligibility).
CancellationHolds ==
  [][\A o \in OrderIds :
       order'[o].status = "cancelled" \/ order[o].status = "cancelled" =>
         IF order[o].status = "cancelled"
         THEN /\ order'[o].status = "cancelled"
              /\ order'[o].items = order[o].items
              /\ order'[o].released = order[o].released
              /\ Tried(order'[o]) = Tried(order[o])
         ELSE /\ order'[o].attempts["open"] = 0 /\ order'[o].attempts["funded"] = 0
              /\ order'[o].items \in {"draft", "cancelled"}
              /\ order[o].items # "processing"]_vars

\* Documents are prepared, and a payment is started, only for the record the student
\* signed for, with no cancellation pending, and confirmed, except that a checkout
\* before review may be paid while the record waits for its decision
\* (preparation_blockers, where an order checked out after review compares versions
\* only; eligibility).  An attempt that is reported open again is no start.
PreparedAsSigned ==
  [][\A o \in OrderIds :
       LET prepared == order[o].items # "processing" /\ order'[o].items = "processing"
           started  == Tried(order'[o]) > Tried(order[o])
       IN prepared \/ started =>
            /\ record.details = order[o].snapshot.details
            /\ order[o].status = IF started /\ order[o].policy = "before_review"
                                 THEN "awaiting_payment" ELSE "submitted"
            /\ \/ record.status = "matched"
               \/ started /\ order[o].policy = "before_review" /\ record.status = "pending"]_vars
=============================================================================
