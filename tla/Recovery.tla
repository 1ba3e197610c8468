------------------------------ MODULE Recovery ------------------------------
(***************************************************************************)
(* The recovery copies that the browser saves of drafts, composed with the *)
(* life of the orders.  From api/v1/workspace_drafts.py and the account's  *)
(* lock in delete_unfinished_order and new_order.                          *)
(*                                                                         *)
(* A save checks the order and the version of the copy under the account's *)
(* lock, and writes later; the order itself is not locked, so handlers     *)
(* that do not take the account's lock may run in between.                 *)
(***************************************************************************)
EXTENDS Orders

CONSTANT MaxCopy   \* bound: versions of a recovery copy

ASSUME CopiesNatural == MaxCopy \in Nat

VARIABLES
  copy,   \* the copies (workspace_drafts): their versions, 0 for none, and authors
  known,  \* the copy each page of the student loaded or saved last
  saving  \* the saves under way, which hold the lock of the student's account

allVars == <<vars, copy, known, saving>>

Copy   == [version : 0..MaxCopy, by : Tabs \cup {"none"}]
NoCopy == [version |-> 0, by |-> "none"]

Known == [order : OrderIds \cup {"none"}, copy : Copy]

Idle == [order |-> "none"]
Save == [order : OrderIds, version : 0..MaxCopy - 1]

CopiesTyped == /\ copy \in [OrderIds -> Copy]
               /\ known \in [Tabs -> Known]
               /\ saving \in [Tabs -> Save \cup {Idle}]

-----------------------------------------------------------------------------

\* Fault: saves of one account are not serialized.
AccountFreeAlways == Tabs # {}

\* No request holds the row of the user.
AccountFree == \A c \in Tabs : saving[c] = Idle

\* get_draft, for the copy of a draft that is the student's own (owned_key)
GetCopy(c, o) ==
  /\ IsDraft(o)
  /\ known' = [known EXCEPT ![c] = [order |-> o, copy |-> copy[o]]]
  /\ UNCHANGED <<vars, copy, saving>>

\* save_draft, to the check of the version
BeginSave(c, o) ==
  /\ AccountFree /\ saving[c] = Idle /\ IsDraft(o)
  /\ known[c].order = o /\ known[c].copy.version = copy[o].version
  /\ copy[o].version < MaxCopy
  /\ saving' = [saving EXCEPT ![c] = [order |-> o, version |-> copy[o].version]]
  /\ UNCHANGED <<vars, copy, known>>

\* save_draft, the commit
EndSave(c) ==
  /\ saving[c] # Idle
  /\ LET saved == [version |-> saving[c].version + 1, by |-> c]
     IN /\ copy' = [copy EXCEPT ![saving[c].order] = saved]
        /\ known' = [known EXCEPT ![c] = [order |-> saving[c].order, copy |-> saved]]
  /\ saving' = [saving EXCEPT ![c] = Idle]
  /\ UNCHANGED vars

\* The request dies before its commit.
LoseSave(c) ==
  /\ saving[c] # Idle
  /\ saving' = [saving EXCEPT ![c] = Idle]
  /\ UNCHANGED <<vars, copy, known>>

Added(o)   == order[o].status = "none" /\ order'[o].status # "none"
Deleted(o) == order[o].status = "draft" /\ order'[o].status = "deleted"

\* Fault: an order that is deleted leaves its copy behind.
CopyOfKept(o) == copy[o]

\* delete_unfinished_order deletes the copy with the order.
CopyOf(o) == IF Deleted(o) THEN NoCopy ELSE copy[o]

\* Orders go on; those that are added or deleted need the account's lock.
OrdersNext ==
  /\ Next
  /\ (\E o \in OrderIds : Added(o) \/ Deleted(o)) => AccountFree
  /\ copy' = [o \in OrderIds |-> CopyOf(o)]
  /\ UNCHANGED <<known, saving>>

RecoveryInit ==
  /\ Init
  /\ copy = [o \in OrderIds |-> NoCopy]
  /\ known = [c \in Tabs |-> [order |-> "none", copy |-> NoCopy]]
  /\ saving = [c \in Tabs |-> Idle]

RecoveryNext ==
  \/ OrdersNext
  \/ \E c \in Tabs, o \in OrderIds : GetCopy(c, o) \/ BeginSave(c, o)
  \/ \E c \in Tabs : EndSave(c) \/ LoseSave(c)

RecoverySpec == RecoveryInit /\ [][RecoveryNext]_allVars

-----------------------------------------------------------------------------
(* What must hold *)

\* A copy belongs to an order that is there: a save under way does not bring back
\* what the deletion of the order removed (services/orders.py:479).
CopiesBelong == \A o \in OrderIds : copy[o].version > 0 => Exists(o)

\* A page with the present version of a copy shows the present copy: two saves never
\* give out one version, and none undoes another unseen (save_draft;
\* api/v1/workspace_drafts.py:102).
NoLostCopy ==
  \A c \in Tabs, o \in OrderIds :
    known[c].order = o /\ known[c].copy.version = copy[o].version
      => known[c].copy = copy[o]
=============================================================================
