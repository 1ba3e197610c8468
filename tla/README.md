# A specification of TranscriptsKE

TranscriptsKE lets students order transcripts from Kenyan institutions: a student
links an academic record, drafts an order, signs a quote, pays by card (Stripe) or
M-Pesa, the institution reviews the order and issues documents. It is a FastAPI
application on PostgreSQL (`src/backend/app`) with a reconciliation worker, two
mail workers and Celery jobs. This directory specifies it in TLA+, checks the
specification with TLC and proves most of its safety with TLAPS.

    tlc -workers 2 -config checkout.cfg MCOrders     # one run
    tlapm OrdersProofs.tla                           # the proofs of one module

## Inventory

Paths are relative to `src/backend/app`. "Hard" names what a test hardly reaches.

**Payment collection and ledger** (`services/payments.py`, `api/v1/payments.py`,
`models/payments.py`) keeps attempts (status, reservation `active_order_id`,
provider references, refunded total), one refund per attempt, an append-only
ledger, a webhook inbox and the order's derived `payment_status`. Operations:
create, dispatch, check, retry prompt, receive and handle callbacks, request,
approve, reject and dispatch a refund, consume reversal results. It calls the
gateways between two transactions, and calls `release_order` of Orders.
*Hard*: crashes around the provider call, late, lost, repeated and reordered
messages, two charges for one order, concurrent approvals, stale derived status.
*Correct if* nothing is booked that did not happen and everything that happened
once is booked once; no customer is prompted or repaid twice for one attempt; an
uncertain state blocks the order; confirmed money is never un-confirmed; the
worker brings every outcome in.

**Payment gateways** (`services/payment_gateways.py`): stateless HTTP calls.
*Hard*: an answer that lags behind or is lost. **Payment worker**
(`payment_worker.py`): selects attempts in batches and reconciles them. *Hard*:
starvation, two copies at once. **Platform finance** (`api/v1/platform_finance.py`,
`services/platform_finance.py`): administrators' checks, refunds and the
no-payment review. *Hard*: a review beside another attempt's late money.

**Orders** (`services/orders.py`, `api/v1/orders.py`, `models/orders.py`) keeps
the order with recipients, items and attachments, a version, quotes with the scope
that was quoted, consents with the hash of that scope, messages and cancellation
requests. Operations: create, edit, attach, quote, consent, submit, release,
message, cancel, decide, reorder, delete. It reads the record link and the
catalog, lifts the link's `checkout_required`, and is called by payments.
*Hard*: requests sent from a stale page, changes between quote, signature and
submission in rows whose version is not the order's, cancellation racing payment
and review, several orders on one record. *Correct if* what an institution gets
is what was signed, at a price and for a record that hold at submission; nothing
unpaid is released; an order is cancelled only while no attempt is open or holds
money, and stays cancelled whatever money comes late.

**Academic records** (`services/academic.py`, `api/v1/academic_records.py`,
`services/identity*.py`, `models/academic.py`): versioned links from a student to
an institution's record, decided by registrars. *Hard*: a decision on details
that changed meanwhile. **Catalog and institutions** (`api/v1/catalog.py`,
`api/v1/institutions.py`): versioned services, ordering policy, approval. *Hard*:
their effect on quotes under way. **Profiles and workspace drafts**
(`api/v1/profiles.py`, `api/v1/workspace_drafts.py`): versioned saves. *Hard*: a
save of a recovery copy racing another save, or the deletion of its order.

**Fulfillment** (`services/fulfillment.py`, `api/v1/fulfillment.py`): item
decisions, assignment, holds, questions, release confirmations, guarded by
`preparation_blockers`. *Hard*: a guard that was true when the page was loaded.
**Document issuance** (`services/issuance.py`, `api/v1/issuance.py`): upload,
issue, delivery links, single-use codes, download, revocation. *Hard*: issue
against refund, revoke against download, codes used twice. *Correct if* a document
goes out only for an order that is paid, confirmed and not cancelled, is opened
once per code, and stays withdrawn once it is withdrawn.

**Delivery and receipt workers** (`delivery_worker.py`, `receipt_worker.py`,
`services/receipts.py`) and **background jobs** (`tasks.py`, `celery_app.py`,
`services/worker_runs.py`): mail sent at least once, retries after a rest, a Redis
lock with an expiry. *Hard*: a crash between sending and committing, a lost lock,
starvation behind a row that always fails.

**Accounts and access** (`api/v1/auth.py`, `api/v1/staff.py`, `services/tokens.py`,
`services/throttle.py`, `core/security.py`, `core/permissions.py`): single-use
codes, invitations, memberships, sessions. *Hard*: two uses of one code, a
revocation beside a request. **Onboarding and pilot** (`services/pilot.py`,
`api/v1/pilot.py`): approval of an institution by a second person, evaluations of
its pilot. *Hard*: evidence and setup that change between submission, report and
decision.

**Operations** (read-only reports), **mail**, **configuration and schemas**, the
**browser workspace** and the **migrations** keep no protocol of their own.

Locks tie the parts together: a handler locks the institution, then the order or
the link, and re-reads the row under the lock, so its transactions on one order
are serial. `PROJECT.json` lists the hazards of each part at the line where they
bite, with the properties about them, or the reason why there is none.

## Modules

| module | what it is | its runs, its proofs |
|---|---|---|
| `Payments` | attempts, dispatch, ledger, inbox, worker, refunds and reversals of one order | `MCPayments`, `PaymentsProofs`, `PaymentsMoney` |
| `Escrow` | what `Payments` promises about the money of an order, abstractly | (a property of `Payments`) |
| `Orders` | drafts to the first review, with the record link and the catalog | `MCOrders`, `OrdersProofs` |
| `Recovery` | recovery copies of drafts, composed with `Orders` | `MCRecovery`, `RecoveryProofs` |
| `Issuance` | a released order: review, holds, documents, delivery, revocation | `MCIssuance`, `IssuanceProofs` |
| `Custody` | what `Issuance` promises about a document, abstractly | (a property of `Issuance`) |
| `Access` | accounts, mailed codes, staff of one institution | `MCAccess`, `AccessProofs` |
| `Onboarding` | evidence, review and approval of an institution; evaluations | `MCOnboarding`, `OnboardingProofs` |
| `Jobs` | a scheduled mail job with its lock and its queue | `MCJobs`, `JobsProofs` |

Operators whose comment starts with "Fault" are deliberately wrong variants of the
operator that follows them. Nothing uses them; they are there to show that each
property notices such a mistake when it is put in the operator's place.

### Payments and Escrow

`db` holds the committed rows of one order: `order` (policy, status,
`payment_status`, whether it was released, its items), `att`, `refund`, `ledger`
and `inbox`. `task` says for each request thread what it still does after its last
commit. `prov` is what the provider really did.

- *Transactions.* Service functions are operators `Op(d, ...)` from rows to rows;
  an action applies them to `db` and is one transaction. A handler is cut exactly
  where the code commits: `BeginDispatch`, `GatewayInitiate` (the HTTP call, no
  lock held), `EndDispatch`; `BeginRefund`, `GatewayRefund`, `EndRefund`,
  `ConsumeEarly`; `ReceiveMessage` (the inbox commit), `FinishMessage`.
  `CreateAttempt` commits before dispatch, so creation and dispatch are two actions.
- *Failure.* `LoseThread` lets a thread die after any commit, and the answer to a
  provider call get lost (`GatewayUnavailable` is the same for the rows).
  `RedeliverMessage` repeats a message that was not processed; a message the code
  already processed finds its inbox key and changes nothing.
- *Providers.* The customer pays or not after the request was taken, also after the
  application gave up. Stripe repeats its first answer to a repeated idempotency
  key; every M-Pesa request that is taken is another prompt. `Observations` is what
  a query may answer, an M-Pesa query possibly "pending" after the outcome. An
  observation is made under the order's lock, so asking and applying is one step.
- *Abstractions.* Expected versions are left out (they only refuse more). Time windows (two
  minutes, 23 hours) may be over or not whenever the code asks. Gateways are
  configured. All items move together and delivered counts as issued. Code 1019
  (expired) is a failure. The second commit of an M-Pesa message that is no result
  is merged with its first. An administrator's finding in a no-payment review is
  true and final.
- `Escrow` keeps no rows, messages or threads: providers take and return money, the
  ledger hears of it charge by charge, in any order and never ahead of them; a charge
  is asked for (`Ask`) while nothing is held and replaces what was due; the order opens
  (`Hear`) and documents leave (`Leave`) on exactly one charge with nothing due, in full
  for the latter. `InEscrow` is its specification under `Charged`, `SentBack`,
  `AskedFor`, `Due`, `Credited` and `Debited`, which read the ledger, not the attempts.

### Orders

`order`, `quote` (each with its at most one consent), `record` (the link),
`catalog` (approval, ordering policy, service) and `setting` (the deployment's
collection policy) are rows; every handler commits once and is one action. `page`
and `dossier` are what makes the protocol interesting: the order, or record link,
that each open browser page shows. A handler with an `expected_version` is an
action of a page, and it is refused if the page's version is not the row's
(`Current`).

- A digest is the snapshot itself. The versions of policy and service are one
  growing number. A signature is a Boolean; a second, different one is refused, the
  same one changes nothing, and so do all repetitions of an idempotent request.
- Quotes of a deleted draft are deleted with it. An expired quote stays.
- One student, one institution, one record link, one service. An item that is ready
  counts as in processing. Holds, questions, assignment and deferred release only
  refuse more; `Issuance` has them.
- Payments are cut down to how many attempts are open, funded (charged) and closed
  (failed or expired), and the status `Aggregate` derives from that. A closed attempt
  stays a row: `PaymentReported` lets it be charged, or open again, whatever the status
  of the order, a cancelled one included, which so becomes paid or pending
  (`apply_observation`, `settle_received_mpesa_success`). When a provider may report
  what is `Payments`' business; here it may at any time. A charge stays: refunds, and the
  cancellation that comes with a full one, are left to `Payments` and `Issuance`, so
  "paid" means that it has been paid. The modules overlap in `Released`, `CanCancel`
  and the cancellation handlers, each with its own data.
- The student's own page of the record link is not modelled: a resubmission from an
  older page is refused and changes nothing, and a later one may carry any details.

### Recovery

`Recovery` extends `Orders` with `copy` (the rows of `workspace_drafts` whose key is an
order), `known` (the copy each page loaded or saved last) and `saving`. A save holds
the lock of the user's row from `BeginSave`, which checks the order's status and the
copy's version, to `EndSave`, its commit. It does not lock the order. Every step of
`Orders` may come in between (`OrdersNext`), except creating and deleting an order,
which need the user's lock too. The contents of a copy are its author: two saves from
one page with one version cannot be told apart, and need not be. It shares the state
and every action of `Orders`, so whatever is proved of `Orders` holds here
(`OrdersUnderCopies`).

### Issuance and Custody

One released order between staff, student and recipient. `order`, `items`, `doc`,
`delivery` are rows, `mailed` counts the codes that left by mail, and `fresh` is the set
of staff pages that still show the order's version: an event (`Recorded`) empties it,
and `expected_version` admits only members. This replaces the version number: there is
nothing to bound. `Impediments` are what `preparation_blockers` reports apart from the
payment. Handlers lock institution and order and commit once, so each is one action;
only `notify_delivery` and `request_access` mail before they commit, and a mail whose
commit is lost counts in `mailed` and leaves the row alone.

- What the other modules own changes here by environment actions: payment
  (`PayFee`, `LateNews`, `PaymentReview`, `FullRefund`), record, approval and deployment
  mode. They do no more than `Payments` and `Orders` allow. `order.late` says that an
  attempt failed or expired: `LateNews` may find it charged or open again, before or
  after a cancellation. `order.charged` says that some attempt was ever charged.
- A code is a number, 0 for none: only the last one mailed and committed opens.
- `Custody` forgets all conditions: a document is nowhere, held, out or withdrawn,
  moves only forward, and is opened only while it is out. `InCustody` is its
  specification under `Place` and `Opened`.

### Access

`account`, `member` and `token` are rows; `thread` is where a request is that takes two
steps. Redeeming a code (`confirm_verification`, `reset_password`, `accept_invitation`)
calls `find_token` first and locks the account or the institution later (`FindToken`,
then the rest); `invite_staff` checks the permission, then the rate limiter commits, and
it checks again under the lock (`BeginInvite`, `Invite`). Everything else is one step.
`redeemed` and `outdated` are history: how often a code had its effect, and whether what
it is about changed since. Passwords are not values: a change is what it does to the
codes.

### Onboarding

`institution`, `profile` (the onboarding row), `evaluation` and `page` follow the rows
and the answers to readers. Writers of the onboarding are single actions.
`create_evaluation` and `review_evaluation` read the approval when they take the lock, then
make a long report, then read onboarding and setup: two actions with the lock held.
`Gates` leaves open what the report finds among the orders, and takes what it reads of
onboarding and setup from the state.

### Jobs

A run takes the Redis lock (`Begin`), handles the batch row by row (`Take` or `Skip`,
`Deliver`, `Save`) and releases the lock if it is still its own (`End`). `turn` is the
place of a row in the order of selection: fixed for receipts (`created_at`), last for
the row that was tried most recently for notifications (`last_attempt_at`). Rest counts runs:
the retry delay over the interval. `stray` is history: runs that lost their lock.
Faults: death at any point, a mail accepted without an answer, a lock lost by Redis,
and a resend by a registrar, `MaxFaults` in all. The lock is checked nowhere between
`Begin` and `End`, as in the code; what protects a row is its own lock and the second
look under it (`Untouched`).

## Runs

Passing runs, with distinct states and time on two workers:

| run | instance | states | properties |
|---|---|---|---|
| `payments` | a card attempt of 2, two M-Pesa attempts, 2 threads, as in `Lanes` | 182k, 85 s | `LedgerMatches`, `PaymentCurrent`, `ContestedBlocks`, `BookedIsReal`, `RequestsOnce`, `IssueKeepsMoney`, `NoSecondCharge`, `InEscrow`, `SettledStays` |
| `worker` | 2 M-Pesa attempts, worker fair | 8k, 49 s | `ChargeIsSettled`, `PaidIsReleased`, `SilentPromptEnds` |
| `drafts` | 2 orders and quotes, 2 tabs, 1 file, copies | 139k, 16 s | `SubmittedAsSigned`, `NoLostEdit`, `CopiesBelong`, `NoLostCopy` |
| `checkout` | 1 order and its successor, 2 fees, 2 details, both policies | 1.16M, 84 s | `PaidBeforeRelease`, `CancellationHolds`, `RecordFollowsOrder`, `ConfirmedOnSight`, `PreparedAsSigned`, `SubmittedAsOffered` |
| `issuance` | 2 items, 2 documents, 1 registrar who manages | 934k, 110 s | `ItemsMatchDocuments`, `NothingOutUnconfirmed`, `OutIsPaid`, `CancelledByRefund`, `CodesAreSingleUse`, `ChangesOutdatePages`, `InCustody` |
| `access` | 1 administrator, 2 others, 3 codes, 2 threads | 840k, 93 s | `OneUse`, `InvitationsAuthorized`, `NoOldReset`, `NoWayBack` |
| `onboarding` | 2 administrators, 2 evaluations, 2 threads | 676k, 37 s | `NoBypass`, `NoBlindChange`, `ExpandedOnGrounds`, `DecidedOnce` |
| `jobs` | 3 rows, one of them always refused, 2 workers, 2 faults | 50k, 8 s | `NoSecondMail`, `OneAtATime`, `EveryRowIsSent` |

*What they show.* `payments`: partial and full refunds, disputes, refunds at the
dashboard and crashes keep the ledger equal to the rows; a prompt that was expired by
the local clock may be paid late, and the second charge is noticed, not used; two
threads that may die anywhere send at most one prompt and one reversal, a document
leaves only against money that stays, and collection implements `Escrow`. `worker`:
without a single callback the worker settles what was charged, releases what is paid and
ends silent prompts. `drafts`: pages loaded at different times undo nothing of each
other, in the draft or in its copy; quotes and consents of one order offered for
another; copies saved while the order is deleted. `checkout`: everything an order
depends on changes under it, the record is taken back and resubmitted at any time, and
an order that was cancelled after a prompt expired is charged all the same, and stays
cancelled. `issuance`: holds, questions and confirmations come and go while a document
is under way; full refunds and reviews arrive at any moment, and money of attempts that
had failed, also when the order is cancelled by then; mails whose commit is lost.
`access`: two requests with codes of one person, an inviter who loses authority, a
member who is revoked before accepting. `onboarding`: two administrators decide and edit
from older pages, and a report is made while another changes what it is about. `jobs`:
deaths after the mail and before the commit, a lost lock with two overlapping runs, an
address that is refused for ever.

*Bounds.* A bound disables an action at its limit; no property depends on that. `Amount
= 2` is the least with a partial refund. Two attempts show every conflict between
attempts, since all conditions on others are about one or two of them; two threads allow
every pair of handlers to interleave. `prov.sent` and `prov.reversals` stop at two,
enough to see a second one. In `checkout`, five versions take an order from draft to a
decision with an edit or a message on the way, `MaxVersion = 10` leaves as many again
for two payment attempts (`MaxAttempts = 2`: one that ends badly and its replacement)
and their late ends; in `drafts`, 3 take both orders to submission; `MaxRecord = 4` is
pending, decided, resubmitted, decided; `MaxCatalog = 1` one edit between quote and
submission; `MaxCopy = 2` a second save. `MaxBlockers = 1` and `MaxCodes = 1` are one
impediment at a time and one code mailed per document, committed or not, before and
after a revocation; an older code beside a newer one, and a second request, are in the
theorem `OneDownloadPerCode`, for any number of codes, and not in the run. `MaxVersion =
7` of `onboarding` is submission, return, resubmission and approval with edits. Two
codes suffice for one person's purposes, a third is another person's. A batch of one row
and a rest of one run are the smallest that starve, if anything does. Some runs cut what
lies outside their `Lanes`: `MCPayments` leaves out cards mixed with M-Pesa, two
attempts under two concurrent requests, and the messages that carry no result where
there are two attempts; `MCOrders` explores one order that is edited at most once, its
versions beyond the fifth only for payments, while record, catalog and deployment rest,
and the second order only beside the cancelled first; `MCIssuance` explores late money
only in a live deployment without impediments (neither reads the attempts); `MCRecovery`
explores copies of new drafts that are not quoted yet (a quote and a later version
concern the order alone, which is explored without copies). Symmetry is used where
nothing distinguishes ids, threads or people, and never with a liveness property.

*Deadlock* is not checked: orders, documents and institutions may be finished (issued,
cancelled, deleted, approved with nothing left to edit), all mail may be sent, and the
system then stops; the bounds stop it too.

*Fairness.* `worker` assumes `WF` of `TruthfulPoll(p)`, the worker's poll of attempt `p`
with an answer that does not lag behind for ever. The job runs every few seconds
(`core/config.py`, `PAYMENT_JOB_INTERVAL_SECONDS`) and polls what it selects, so an
attempt that stays selected is polled again and again. That holds only while fewer
attempts are selected than a batch takes (see the hazard at `payment_worker.py:59`).
`jobs` assumes what Celery and Redis do: the schedule goes on (some copy begins when one
can), each run goes on to its end unless it dies, and a lock expires. Faults are at most
`MaxFaults`; without an end to them nothing would be promised. Callbacks, request
threads and people are assumed nothing about.

### Disagreements with the documentation

Each is a run with one property, taken from the documentation, that TLC violates.

- `one_unresolved`, `docs/milestone-5.md:174-176`: "One unresolved attempt reserves
  the order." A failed attempt that is checked while the provider's query answers
  pending is reopened by `apply_observation` without its reservation, beside the
  attempt that replaced it.
- `refund_blocks`, `docs/milestone-5.md:204-205`: "Pending/unknown refunds keep
  fulfillment blocked." Two dispatches of one card refund; the provider fails it and
  that is reconciled between their two answers; the second sets the refund to pending
  without deriving `payment_status`, which stays paid.
- `review_never_pays`, `docs/milestone-5.md:322-323`: the review "never marks the
  order paid". With late money of another attempt on the order, deriving the status
  in the review makes it paid.
- `receipts_starve`, `docs/background-jobs.md:94-95`: "Fresh scheduled runs rediscover
  outstanding work in PostgreSQL." Receipts are taken by creation, so those that are
  always refused and due again in time fill every batch. Document notifications, which go
  by their last attempt, do not starve (`jobs`).

## Proofs

The proofs hold for all values of the constants, under the `ASSUME`s of the modules:
sets of ids are disjoint from "none" and from each other where it matters, bounds and
fees are natural, policies and kinds are known ones. Each proof module states an
inductive invariant (`IInv`, `DbInv`), shows that each action keeps it, and concludes.
Its type correctness is a theorem and therefore in no run.

**Payments** (`PaymentsProofs`). `TypeCorrect`, `LedgerSafe` and `SettledForever` rest
on one relation. `DbInv` says the rows are typed and every attempt is booked; `Follows`
adds that settled attempts stay settled and refunded totals do not fall. A lemma per
service function (`ApplyFollows`, `SettleFollows`, `FinishRefundFollows`, ...) shows
that its result follows its argument; a step composes a few of them, so it follows
too (`StepFollows`). `LedgerMatches` is inductive together with `TypeOK`, which
bounds the totals. `OneRequest` needs more: that no prompt or reversal was sent while
its row is not dispatched, and that at most one thread is about to send it. These are
`PromptInv` and `ReversalInv`; `StepClass` says which steps can disturb them.

**The money of an order** (`PaymentsMoney`). What the rows say of the providers is not
inductive by itself: a row is right because the message it was written from was, a
message because of what the provider did, an answer in a thread because of the request
before it. `MoneyInv` follows these chains to their ends.

- `Sound` relates rows to providers, attempt by attempt. `Real`: what is paid, refunded
  or reported in the inbox was done, what is settled is paid, a new attempt has no
  trace. `RefundTrue`: a refund row is of a confirmed charge of a released order, and
  one that has not gone out yet is unknown to the provider.
- `Derived` is what is left of `aggregate_status` in the stored `payment_status` while
  it does not block: `Standing` (pending means open, paid means exactly one funded
  attempt without a refund, nothing is disputed) and `Uncontested` (the refund of what
  pays for the order was never sent or was refused; if its requests do not overlap, it
  is not under way). A handler may break `Derived` between two writes and derives
  again before it commits; `Calm` says which writes need no new derivation. Where the
  requests for a card refund overlap, `EndRefund` keeps only the first half of
  `Uncontested`: this is the disagreement `refund_blocks`.
- `Books` is about the provider alone (a refused request moved nothing), `Asked` about
  its requests (who asked, and which answer is still on its way), `TaskTrue` about
  each thread (what it goes on to write is true), `Backed` about an issued document
  (its charge stays: refunded in no way, and no thread can begin to).

`Keeps` is what a handler of one attempt does; each service function has a lemma that it
keeps, and `MoneyKeeps`, `MoneyTask` and `MoneyIdle` turn it into a step of `MoneyInv`.
`PromptInv` is needed once: a customer who was charged is not asked again, which is what
keeps a charge real while a second thread dispatches. Every step is shown to be `Moved`:
besides the invariant it opens nothing unpaid, starts no second charge, and is `Framed`,
a handler of one attempt, a creation, a fulfilment or a provider's step. From this follow

- `BookedForReal`, `IssuedOnKeptMoney`, `DoubleChargesBlock`, `ReversalsBlock` (an M-Pesa
  refund under way blocks the order) and `ChargedOnce`, without further assumptions;
- `ContestedMoneyBlocks` and `StatusCurrent` under `NoOverlap`: all payments are by
  M-Pesa, whose refunds are dispatched once, or one thread serves requests. Without it
  they are false for a card refund that two administrators dispatch at once
  (`refund_blocks`); `Lanes` has cards with one request at a time, M-Pesa with two;
- `KeptInEscrow`, the refinement: creation is `Ask`, a handler `Hear`, issuing `Leave`, a
  provider's step `Take` or `Return`, everything else leaves the escrow alone. The
  ledger's view (`EscrowView`) comes from `LedgerMatches`, the single charge from `Standing`.

**Orders** (`OrdersProofs`). `IInv` is `TypeOK` and

- `RowsOK`, what each row satisfies alone. The payment status is `Aggregate` of the
  attempts; a draft has neither snapshot nor attempts and is not released; a checkout is
  not released; what is released, prepaid and not free was charged.
- `PagesOK`, no page is ahead of its order, and a page with the order's version shows
  its draft. This is what makes a version check an edit check, and it fails as soon
  as one handler edits without an event.
- `Signed`, every snapshot is that of a signed quote of this order and is the draft.
- `RecordOK`, a hidden record was never seen and has no released order.

Most actions write one row; `WriteKeeps` does them once and for all (`RowStep` is what
such a write must satisfy), the others have a lemma each. From `IInv` follow
`SignedForGood`, `NoReleaseUnpaid`, `RecordVisibility` and, as properties of steps,
`EditsNeverLost` and `CancelledForGood`: `Cancels` says what a step that cancels finds
(no money, nothing open, nothing begun), `CancelledStays` that no action, those of late
money included, moves a cancelled order. No invariant could say this: a cancelled order
may well be paid. The last part adds the three properties of steps about the record and
the price. `ScopesOK` is their invariant (`ReadsAreAsOf`): what a registrar's page or a
quote holds of the record is what the record was at that version, so an equal version
means equal details. `OfferedAtSubmission`, `ConfirmationsSee` and `PreparationsSigned`
follow by looking at the actions that can submit, confirm or begin.

**Recovery** (`RecoveryProofs`). `OrdersUnderCopies` says that `Recovery` implements
`Orders`, so all of its theorems hold beside copies. `Life` orders the states of an
order: what is deleted stays deleted, what is there was created. `CInv` adds to the two
properties that at most one save is under way, that it is of an order which is there and
whose copy it would replace (`SavesOK`), and that no page knows a copy from the future
(`PagesKnow`). `CopiesOfOrders` and `CopiesNeverLost` follow.

**Issuance** (`IssuanceProofs`). The invariants of the run are inductive together with
`DocsSound` (an item has at most one current document, and only documents that exist are
issued or revoked), `ItemsFollowDocuments` and `ChargedOK` (what is paid, in review or
refunded was charged; `MoneyMoves` says what payments change). `NoCancelledDocuments` is
a property of steps: a cancelled order lets nothing out (`NothingGetsOut`), and one with
a document out is cancelled only by a full refund (`RefundCancels`). `KeptInCustody` is
the refinement: every step of a document is a step of `Custody` or leaves it alone.
`PagesOutdated` is a property of steps.

**Access** (`AccessProofs`). `UsableIsCurrent` is the heart: a code that can still be used
is about something that has not changed since it was made, because whatever changes
an account or a membership marks the codes about it as used. With `Found` (a request that
is on its way to the lock has a code of its kind) and `Issuers` it is inductive, and
`CodesUsedOnce`, `InvitationsKeepAuthority`, `OldResetsAreDead` and `RevokedStayOut` follow.

**Onboarding** (`OnboardingProofs`). `Reviewed` (what is submitted is complete and has a
submitter, what is approved was reviewed by another administrator), `HasOnboarding`,
`Pages` (no page is ahead of the row) and `Held` (what a report read under its lock still
holds) give `ApprovedAfterReview`, `ChangedOnSight`, `ExpansionGrounds` and
`DecisionsStand`.

**Jobs** (`JobsProofs`). `Unmailed` (a row that is not sent, and whose mail is not
accepted by a run that holds it, may be mailed once more), `Due` (so may one that a run
has locked to mail) and `Alone` (a row is locked by one run) give `MailedOnce`;
`RunsExclude` is inductive by itself.

**Only model-checked.** Liveness (`ChargeIsSettled`, `PaidIsReleased`,
`SilentPromptEnds`, `EveryRowIsSent`), which is out of reach of the provers used here. Every
safety property of every passing run is proved, `ContestedBlocks` and `PaymentCurrent`
under `NoOverlap`.

## Not modelled

- *Sessions and limits*: login, refresh and logout (`token_version`) and the throttle's
  counters, each one row of one account, read and written under its lock.
- *The order of locks*: `delete_unfinished_order` locks the user before the institution,
  `new_order` the other way round, against `docs/milestone-3.md:53-55`. PostgreSQL ends
  the cycle by failing one request. The modules take a handler's locks at once.
- *One matched record per student* is a unique index of the database, not code; identity
  data, images and matching are content. Other recovery keys and the profile are single
  versioned rows with no other part to agree with.
- *The limit of the payment worker's queue*: `Payments` has one order. `Jobs` has queues
  with a limit, for the two mail jobs.
- *Reports and processes*: operations, billing profiles, readiness measurements, run
  records, `jobs.py` and the PDF of a receipt read what the modules keep and decide
  nothing. *HTTP*, signatures of callbacks, file checks and storage, configuration and
  schemas decide whether a request reaches a handler at all; the modules begin there.
- *Migrations* run once; the *browser* keeps nothing but the pages, which are modelled.
