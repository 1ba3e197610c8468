--------------------------- MODULE RecoveryProofs ---------------------------
(***************************************************************************)
(* What the provers establish about recovery copies, for any number of     *)
(* orders and pages and whatever the handlers of Orders do in between.     *)
(*                                                                         *)
(* Of Orders the argument needs only how statuses move (Life): an order    *)
(* that is there stays, or is deleted as a draft, for good.  With that,    *)
(* CInv is inductive: a save under way has its order and the copy's        *)
(* version, and no page has a newer copy than there is.                    *)
(***************************************************************************)
EXTENDS Recovery, OrdersProofs

\* How the status of an order may move.
Life(r, s) == /\ r.status # "none" => s.status # "none"
              /\ r.status = "deleted" => s.status = "deleted"
              /\ s.status = "deleted" => r.status \in {"draft", "deleted"}

Lives == \A o \in OrderIds : Life(order[o], order'[o])

SavesOK == \A c \in Tabs : saving[c] # Idle =>
             /\ Exists(saving[c].order)
             /\ saving[c].version = copy[saving[c].order].version
             /\ \A d \in Tabs : saving[d] # Idle => d = c

PagesKnow == \A c \in Tabs, o \in OrderIds :
               known[c].order = o /\ order[o].status # "deleted" =>
                 known[c].copy.version <= copy[o].version

Blank == /\ \A o \in OrderIds : copy[o].version = 0 => copy[o] = NoCopy
         /\ \A c \in Tabs : known[c].copy.version = 0 => known[c].copy = NoCopy

\* The inductive invariant.
CInv == CopiesTyped /\ CopiesBelong /\ NoLostCopy /\ SavesOK /\ PagesKnow /\ Blank

-----------------------------------------------------------------------------
(* The life of an order *)

\* Writing one row.
LEMMA LifeOfRow ==
  ASSUME IInv, NEW o \in OrderIds, NEW s, order' = [order EXCEPT ![o] = s],
         Life(order[o], s)
  PROVE  Lives
  BY DEF Lives, Life, IInv, TypeOK

\* What happens to the rows of submitted and of new orders.
LEMMA RowActionsLive ==
  ASSUME IInv, NEW o \in OrderIds,
         \/ CreateOrder(o) \/ \E source \in OrderIds : Reorder(o, source)
         \/ \E c \in Tabs, q \in QuoteIds : Submit(c, o, q)
         \/ \E c \in Tabs : PaymentStarts(c, o) \/ RequestCancellation(c, o)
         \/ \E d \in Desks : DecideCancellation(d, o) \/ ItemDecision(d, o)
         \/ SendMessage(o) \/ Reports(o)
  PROVE  Lives
<1>1. RowOK(order[o]) /\ order[o] \in OrderRow
  BY RowBefore
<1>2. CASE CreateOrder(o) \/ \E source \in OrderIds : Reorder(o, source)
  <2>1. PICK version, content : order' = [order EXCEPT ![o] = NewRow(version, content)]
    BY <1>2 DEF CreateOrder, Reorder, Write
  <2>2. order[o].status = "none" /\ NewRow(version, content).status = "draft"
    BY <1>2 DEF CreateOrder, Reorder, NewRow
  <2> QED BY <2>1, <2>2, LifeOfRow DEF Life
<1>3. CASE \E c \in Tabs, q \in QuoteIds : Submit(c, o, q)
  <2>1. PICK c \in Tabs, q \in QuoteIds : Submit(c, o, q)
    BY <1>3
  <2> DEFINE pays == order[o].policy = "before_review" /\ quote[q].snapshot.fee > 0
  <2>2. order' = [order EXCEPT ![o] = CheckedOut(WithSnapshot(o, q), pays)]
    BY <2>1 DEF Submit
  <2>3. CheckedOut(WithSnapshot(o, q), pays).status \in {"draft", "awaiting_payment", "submitted"}
    BY <1>1, <2>1 DEF CheckedOut, Released, Bumped, WithSnapshot, OrderRow, Submit, IsDraft
  <2> HIDE DEF pays
  <2> QED BY <2>1, <2>2, <2>3, LifeOfRow DEF Life, Submit, IsDraft
<1>4. CASE SendMessage(o) \/ \E c \in Tabs : PaymentStarts(c, o)
  <2> DEFINE A(x, y) == Bumped([order[o] EXCEPT !.attempts = x, !.payment = y])
  <2>1. /\ Bumped(order[o]).status = order[o].status
        /\ \A x, y : A(x, y).status = order[o].status
    BY <1>1 DEF Bumped, OrderRow
  <2>2. Write(o, Bumped(order[o])) \/ \E x, y : Write(o, A(x, y))
    BY <1>4 DEF SendMessage, PaymentStarts
  <2> HIDE DEF A
  <2>3. PICK s : Write(o, s) /\ s.status = order[o].status
    BY <2>1, <2>2
  <2>4. Life(order[o], s) /\ order' = [order EXCEPT ![o] = s]
    BY <2>3 DEF Life, Write
  <2> QED BY <2>4, LifeOfRow
<1>5. CASE \E c \in Tabs : RequestCancellation(c, o)
  <2> DEFINE A(x) == Bumped([order[o] EXCEPT !.status = x])
  <2>1. A("cancelled").status = "cancelled"
        /\ A("cancellation_requested").status = "cancellation_requested"
    BY <1>1 DEF Bumped, OrderRow
  <2>2. order[o].status \in {"draft", "awaiting_payment", "submitted"}
        /\ (Write(o, A("cancelled")) \/ Write(o, A("cancellation_requested")))
    BY <1>5 DEF RequestCancellation
  <2> HIDE DEF A
  <2> QED BY <2>1, <2>2, LifeOfRow DEF Life, Write
<1>6. CASE \E d \in Desks : DecideCancellation(d, o) \/ ItemDecision(d, o)
  <2>1. CASE \E d \in Desks : DecideCancellation(d, o)
    <3>1. Bumped([order[o] EXCEPT !.status = "submitted"]).status = "submitted"
      BY <1>1 DEF Bumped, OrderRow
    <3>2. Bumped([order[o] EXCEPT !.status = "cancelled", !.items = "cancelled"]).status
            = "cancelled"
      BY <1>1 DEF Bumped, OrderRow
    <3> QED BY <2>1, <3>1, <3>2, LifeOfRow DEF DecideCancellation, Write, Life
  <2>2. CASE \E d \in Desks : ItemDecision(d, o)
    <3>1. PICK items : Write(o, Bumped([order[o] EXCEPT !.items = items]))
      BY <2>2 DEF ItemDecision
    <3>2. Bumped([order[o] EXCEPT !.items = items]).status = order[o].status
      BY <1>1 DEF Bumped, OrderRow
    <3> QED BY <3>1, <3>2, LifeOfRow DEF Life, Write
  <2> QED BY <1>6, <2>1, <2>2
<1>7. CASE Reports(o)
  <2>1. PICK m : /\ MoneyOnly(order[o], m) /\ m.status \notin {"none", "draft"}
                 /\ \/ order' = [order EXCEPT ![o] = Bumped(m)]
                    \/ /\ Releases(m) /\ ~m.released
                       /\ order' = [order EXCEPT ![o] = Released(m)]
    BY <1>7, ReportWrites DEF Write
  <2>2. /\ m \in OrderRow /\ m.status = order[o].status
        /\ Bumped(m).status = m.status
        /\ ~m.released => Released(m).status = "submitted"
    BY <2>1, BumpedRow, ReleasedRow DEF MoneyOnly
  <2>3. CASE order' = [order EXCEPT ![o] = Bumped(m)]
    BY <2>2, <2>3, LifeOfRow DEF Life
  <2>4. CASE /\ Releases(m) /\ ~m.released
             /\ order' = [order EXCEPT ![o] = Released(m)]
    <3>1. order[o].status = "awaiting_payment"
      BY <2>2, <2>4 DEF Releases
    <3> QED BY <2>2, <2>4, <3>1, LifeOfRow DEF Life
  <2> QED BY <2>1, <2>3, <2>4
<1> QED BY <1>2, <1>3, <1>4, <1>5, <1>6, <1>7

\* Every step of Orders.
LEMMA OrdersLive ==
  ASSUME IInv, Next
  PROVE  Lives
<1>1. ASSUME NEW c \in Tabs, NEW o \in OrderIds,
             \/ \E content \in Drafts : ReplaceDraft(c, o, content)
             \/ \E f \in Files : AttachFile(c, o, f) \/ DeleteAttachment(c, o, f)
      PROVE  Lives
  <2>1. order[o] \in OrderRow
    BY RowBefore
  <2>2. \/ \E content : Write(o, Bumped([order[o] EXCEPT !.content = content]))
        \/ \E files : Write(o, Bumped([order[o] EXCEPT !.files = files]))
    BY <1>1 DEF ReplaceDraft, AttachFile, DeleteAttachment
  <2>3. \A x : /\ Bumped([order[o] EXCEPT !.content = x]).status = order[o].status
              /\ Bumped([order[o] EXCEPT !.files = x]).status = order[o].status
    BY <2>1 DEF Bumped, OrderRow
  <2> QED BY <2>2, <2>3, LifeOfRow DEF Life, Write
<1>2. ASSUME NEW c \in Tabs, NEW o \in OrderIds, DeleteOrder(c, o)
      PROVE  Lives
  <2> DEFINE s == [order[o] EXCEPT !.status = "deleted"]
  <2>1. order' = [order EXCEPT ![o] = s]
    BY <1>2 DEF DeleteOrder
  <2>2. order[o] \in OrderRow
    BY RowBefore
  <2>3. s.status = "deleted" /\ order[o].status = "draft"
    BY <1>2, <2>2 DEF DeleteOrder, IsDraft, OrderRow
  <2> QED BY <2>1, <2>3, LifeOfRow DEF Life
<1>3. order' = order => Lives
  BY DEF Lives, Life
<1>4. CASE Student
  BY <1>1, <1>2, <1>3, <1>4, RowActionsLive
     DEF Student, SaveRecord, Resubmit, WriteRecord, AcceptConsent, WriteQuote, QuoteOrder,
         ReadOrder
<1>5. CASE Staff
  BY <1>3, <1>5, RowActionsLive
     DEF Staff, ReadRecord, ReadOrder, DecideMatch, WriteRecord, EditService, EditPolicy,
         ApproveInstitution, WriteCatalog
<1>6. CASE Environment
  BY <1>3, <1>6, RowActionsLive DEF Environment, Reports, QuoteExpires, WriteQuote, Redeploy
<1> QED BY <1>4, <1>5, <1>6 DEF Next

-----------------------------------------------------------------------------
(* The copies *)

\* Reading a copy.
LEMMA GetKeeps ==
  ASSUME CInv, NEW c \in Tabs, NEW o \in OrderIds, GetCopy(c, o)
  PROVE  CInv'
<1>1. copy[o] \in Copy
  BY DEF CInv, CopiesTyped
<1>2. /\ known' = [known EXCEPT ![c] = [order |-> o, copy |-> copy[o]]]
      /\ UNCHANGED <<order, copy, saving>>
  BY DEF GetCopy, vars
<1>3. CopiesTyped'
  BY <1>1, <1>2 DEF CInv, CopiesTyped, Known
<1>4. \A d \in Tabs : known'[d] = IF d = c THEN [order |-> o, copy |-> copy[o]] ELSE known[d]
  BY <1>2 DEF CInv, CopiesTyped
<1>5. CopiesBelong' /\ SavesOK'
  BY <1>2 DEF CInv, CopiesBelong, SavesOK, Exists
<1>6. PagesKnow'
  BY <1>1, <1>2, <1>4 DEF CInv, PagesKnow, Copy
<1>7. Blank' /\ NoLostCopy'
  BY <1>2, <1>4 DEF CInv, Blank, NoLostCopy
<1> QED BY <1>3, <1>5, <1>6, <1>7 DEF CInv

\* The first half of a save, and a save that is lost.
LEMMA BeginKeeps ==
  ASSUME CInv, NEW c \in Tabs, LoseSave(c) \/ \E o \in OrderIds : BeginSave(c, o)
  PROVE  CInv'
<1>1. UNCHANGED <<order, copy, known>>
  BY DEF LoseSave, BeginSave, vars
<1>2. CopiesBelong' /\ NoLostCopy' /\ PagesKnow' /\ Blank'
  BY <1>1 DEF CInv, CopiesBelong, NoLostCopy, PagesKnow, Blank, Exists
<1>3. CopiesTyped' /\ SavesOK'
  <2>1. CASE LoseSave(c)
    BY <1>1, <2>1 DEF LoseSave, CInv, CopiesTyped, SavesOK, Exists
  <2>2. CASE \E o \in OrderIds : BeginSave(c, o)
    <3>1. PICK o \in OrderIds : BeginSave(c, o)
      BY <2>2
    <3> DEFINE s == [order |-> o, version |-> copy[o].version]
    <3>2. copy[o].version \in 0..MaxCopy - 1
      BY <3>1, CopiesNatural DEF BeginSave, CInv, CopiesTyped, Copy
    <3>3. s \in Save /\ s.order = o /\ s.version = copy[o].version
      BY <3>2 DEF Save
    <3>4. \A d \in Tabs : saving'[d] = IF d = c THEN s ELSE Idle
      BY <3>1 DEF BeginSave, AccountFree, CInv, CopiesTyped
    <3>5. saving' \in [Tabs -> Save \cup {Idle}]
      BY <3>1, <3>3 DEF BeginSave, CInv, CopiesTyped
    <3>6. Exists(o)
      BY <3>1 DEF BeginSave, IsDraft, Exists
    <3>7. SavesOK'
      BY <1>1, <3>3, <3>4, <3>6 DEF SavesOK, Exists
    <3> QED BY <1>1, <3>5, <3>7 DEF CInv, CopiesTyped
  <2> QED BY <2>1, <2>2
<1> QED BY <1>2, <1>3 DEF CInv

\* The commit of a save: nobody else wrote the copy since it was checked.
LEMMA EndKeeps ==
  ASSUME CInv, NEW c \in Tabs, EndSave(c)
  PROVE  CInv'
<1> DEFINE o == saving[c].order
           saved == [version |-> saving[c].version + 1, by |-> c]
<1>1. saving[c] # Idle /\ saving[c] \in Save
  BY DEF EndSave, CInv, CopiesTyped
<1>2. o \in OrderIds /\ saving[c].version \in 0..MaxCopy - 1
  BY <1>1 DEF Save
<1>3. saved \in Copy /\ saved.version = copy[o].version + 1 /\ saved.version # 0 /\ Exists(o)
  BY <1>1, <1>2, CopiesNatural DEF CInv, SavesOK, Copy
<1>4. copy[o].version \in Nat /\ \A d \in Tabs : known[d].copy.version \in Nat
  BY <1>2 DEF CInv, CopiesTyped, Copy, Known
<1>5. /\ copy' = [copy EXCEPT ![o] = saved]
      /\ known' = [known EXCEPT ![c] = [order |-> o, copy |-> saved]]
      /\ saving' = [saving EXCEPT ![c] = Idle]
      /\ order' = order
  BY DEF EndSave, vars
<1> HIDE DEF saved, o
<1>6. CopiesTyped'
  BY <1>2, <1>3, <1>5 DEF CInv, CopiesTyped, Known
<1>7. /\ \A x \in OrderIds : copy'[x] = IF x = o THEN saved ELSE copy[x]
      /\ \A d \in Tabs : known'[d] = IF d = c THEN [order |-> o, copy |-> saved] ELSE known[d]
      /\ \A d \in Tabs : saving'[d] = IF d = c THEN Idle ELSE saving[d]
  BY <1>5 DEF CInv, CopiesTyped
<1>8. \A d \in Tabs : saving'[d] = Idle
  BY <1>1, <1>7 DEF CInv, SavesOK
<1>9. SavesOK'
  BY <1>8 DEF SavesOK
<1>10. CopiesBelong'
  BY <1>3, <1>5, <1>7 DEF CInv, CopiesBelong, Exists
<1>11. Blank'
  BY <1>3, <1>7 DEF CInv, Blank
<1>12. \A d \in Tabs : known[d].order = o => known[d].copy.version <= copy[o].version
  BY <1>2, <1>3 DEF CInv, PagesKnow, Exists
<1>13. PagesKnow'
  BY <1>2, <1>3, <1>4, <1>5, <1>7, <1>12 DEF CInv, PagesKnow
<1>14. NoLostCopy'
  BY <1>2, <1>3, <1>4, <1>7, <1>12 DEF CInv, NoLostCopy
<1> QED BY <1>6, <1>9, <1>10, <1>11, <1>13, <1>14 DEF CInv

\* A step of Orders, with the copies that go with deleted drafts.
LEMMA OrdersKeep ==
  ASSUME IInv, CInv, OrdersNext
  PROVE  CInv'
<1>1. Lives
  BY OrdersLive DEF OrdersNext
<1>2. UNCHANGED <<known, saving>>
  BY DEF OrdersNext
<1>3. \A o \in OrderIds : copy'[o] = IF Deleted(o) THEN NoCopy ELSE copy[o]
  BY DEF OrdersNext, CopyOf
<1>4. \A o \in OrderIds : Exists(o) /\ ~Deleted(o) => Exists(o)'
  BY <1>1 DEF Lives, Life, Exists, Deleted
<1>5. CopiesTyped'
  <2>1. NoCopy \in Copy
    BY CopiesNatural DEF NoCopy, Copy
  <2> QED BY <1>2, <2>1 DEF CInv, CopiesTyped, OrdersNext, CopyOf
<1>6. CopiesBelong'
  BY <1>3, <1>4 DEF CInv, CopiesBelong, NoCopy
<1>7. SavesOK'
  <2> SUFFICES ASSUME NEW c \in Tabs, saving[c] # Idle
               PROVE  /\ Exists(saving[c].order)'
                      /\ copy'[saving[c].order] = copy[saving[c].order]
    BY <1>2 DEF CInv, SavesOK
  <2>1. saving[c].order \in OrderIds /\ Exists(saving[c].order)
    BY DEF CInv, CopiesTyped, Save, SavesOK
  <2>2. ~Deleted(saving[c].order)
    BY <2>1 DEF OrdersNext, AccountFree
  <2> QED BY <1>2, <1>3, <1>4, <2>1, <2>2
<1>8. PagesKnow'
  BY <1>1, <1>2, <1>3 DEF CInv, PagesKnow, Lives, Life, Deleted
<1>9. Blank'
  BY <1>2, <1>3 DEF CInv, Blank
<1>10. NoLostCopy'
  BY <1>2, <1>3 DEF CInv, NoLostCopy, Blank, NoCopy
<1> QED BY <1>5, <1>6, <1>7, <1>8, <1>9, <1>10 DEF CInv

\* The beginning, without copies.
LEMMA NoCopies == RecoveryInit => CInv
<1>1. NoCopy \in Copy
  BY CopiesNatural DEF NoCopy, Copy
<1> QED BY <1>1 DEF RecoveryInit, CInv, CopiesTyped, Known, CopiesBelong, NoLostCopy, SavesOK,
                    PagesKnow, Blank, NoCopy

\* Recovery implements Orders, so whatever is proved there holds here too.
THEOREM OrdersUnderCopies == RecoverySpec => Spec
<1>1. RecoveryInit => Init
  BY DEF RecoveryInit
<1>2. [RecoveryNext]_allVars => [Next]_vars
  BY DEF RecoveryNext, OrdersNext, GetCopy, BeginSave, EndSave, LoseSave, allVars
<1> QED BY <1>1, <1>2, PTL DEF RecoverySpec, Spec

\* The inductive invariant holds in every reachable state.
LEMMA CopiesInvariant == RecoverySpec => []CInv
<1>1. IInv /\ CInv /\ [RecoveryNext]_allVars => CInv'
  <2> SUFFICES ASSUME IInv, CInv, [RecoveryNext]_allVars PROVE CInv'
    OBVIOUS
  <2>1. CASE UNCHANGED allVars
    BY <2>1 DEF allVars, vars, CInv, CopiesTyped, CopiesBelong, NoLostCopy, SavesOK, PagesKnow,
                Blank, Exists
  <2>2. CASE RecoveryNext
    BY <2>2, GetKeeps, BeginKeeps, EndKeeps, OrdersKeep DEF RecoveryNext
  <2> QED BY <2>1, <2>2
<1> QED BY <1>1, NoCopies, OrdersUnderCopies, Invariant, PTL DEF RecoverySpec

\* No copy outlives its order: a save that began before the deletion of a draft
\* does not restore it (delete_unfinished_order).
THEOREM CopiesOfOrders == RecoverySpec => []CopiesBelong
<1>1. CInv => CopiesBelong
  BY DEF CInv
<1> QED BY <1>1, CopiesInvariant, PTL

\* Two saves of a copy never make the same version (save_draft).
THEOREM CopiesNeverLost == RecoverySpec => []NoLostCopy
<1>1. CInv => NoLostCopy
  BY DEF CInv
<1> QED BY <1>1, CopiesInvariant, PTL
=============================================================================
