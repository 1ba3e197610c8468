------------------------------- MODULE Access -------------------------------
(***************************************************************************)
(* Accounts, the codes mailed to them, and the staff of one institution.   *)
(* From services/tokens.py, core/permissions.py, api/v1/auth.py and        *)
(* api/v1/staff.py.                                                        *)
(*                                                                         *)
(* A request that redeems a code reads it before it waits for the lock of  *)
(* the account or the institution, and one that invites checks the         *)
(* inviter's permission before and after; these take two steps.  The       *)
(* others read under the lock and take one.  A request may end after any   *)
(* step without further effect: refused, rate limited or its process dead. *)
(* A code is mailed before the commit that saves it, so a mailed code may  *)
(* be unknown; nothing distinguishes it from a mistyped one.               *)
(***************************************************************************)
EXTENDS Integers

CONSTANTS
  Users,      \* email addresses, each with at most one account
  Admins,     \* platform administrators
  Threads,    \* concurrent requests that take two steps
  Tokens      \* rows action_tokens may get

ASSUME KnownAdmins == Admins \subseteq Users
ASSUME NoneIsNoUser == "none" \notin Users

VARIABLES
  account, \* users: whether registered and verified
  member,  \* institution_memberships of the institution
  token,   \* action_tokens
  thread   \* where each two-step request is

vars == <<account, member, token, thread>>

-----------------------------------------------------------------------------
(* Rows *)

Purposes == {"email_verification", "password_reset", "staff_invitation"}
Roles    == {"staff", "manager"}

MemberRow == [role : Roles \cup {"none"}, active : BOOLEAN]

\* usable: neither consumed nor expired.  redeemed: the access_events that its
\* redemption left behind.  outdated is history: since the code was issued, the password
\* it resets was changed, or the membership of its addressee was revoked.
TokenRow == [purpose  : Purposes,
             to       : Users,
             by       : Users \cup {"none"},   \* invited_by
             role     : Roles \cup {"none"},   \* membership_role
             usable   : BOOLEAN,
             redeemed : 0..2,
             outdated : BOOLEAN]

\* The row does not exist yet.
NoToken == [purpose |-> "none", usable |-> FALSE]

Idle == [op |-> "idle"]

ThreadState ==
  {Idle} \cup [op : Purposes, token : Tokens]
         \cup [op : {"invite"}, by : Users, to : Users, role : Roles]

TypeOK == /\ account \in [Users -> {"none", "unverified", "verified"}]
          /\ member \in [Users -> MemberRow]
          /\ token \in [Tokens -> TokenRow \cup {NoToken}]
          /\ thread \in [Threads -> ThreadState]

-----------------------------------------------------------------------------
(* What the services compute *)

\* require_membership, when manage is set
IsManager(u) == member[u].active /\ member[u].role = "manager"

\* require_invitation_permission
Permitted(u, role) ==
  /\ account[u] = "verified"
  /\ u \in Admins \/ (IsManager(u) /\ role = "staff")

Rows == {i \in Tokens : token[i] # NoToken}

\* issue_token
IssueToken(purpose, to, by, role) ==
  \E i \in Tokens \ Rows :
    token' = [token EXCEPT ![i] = [purpose |-> purpose, to |-> to, by |-> by, role |-> role,
                                   usable |-> TRUE, redeemed |-> 0, outdated |-> FALSE]]

\* The tokens with the rows S consumed, and the rows T outdated.
Without(S, T) ==
  [i \in Tokens |-> IF i \notin Rows THEN NoToken
                    ELSE [token[i] EXCEPT !.usable = @ /\ i \notin S, !.outdated = @ \/ i \in T]]
Consumed(S) == Without(S, {})

\* invalidate_user_tokens
TokensOf(u, purpose) ==
  {i \in Rows : token[i].purpose = purpose /\ token[i].to = u}

\* Fault: what find_token read is still believed.
StillUsableUnchecked(i) == i \in Rows

\* consume_token, whose update repeats the conditions of find_token
StillUsable(i) == token[i].usable

\* The token i redeemed, others invalidated with it, and the rows T outdated.
Redeemed(i, others, T) ==
  [Without({i} \cup others, T) EXCEPT ![i].redeemed = @ + 1]

-----------------------------------------------------------------------------
(* Accounts *)

Register(u) ==
  /\ account[u] = "none"
  /\ account' = [account EXCEPT ![u] = "unverified"]
  /\ IssueToken("email_verification", u, "none", "none")
  /\ UNCHANGED <<member, thread>>

RequestVerification(u) ==
  /\ account[u] = "unverified"
  /\ IssueToken("email_verification", u, "none", "none")
  /\ UNCHANGED <<account, member, thread>>

RequestPasswordReset(u) ==
  /\ account[u] # "none"
  /\ IssueToken("password_reset", u, "none", "none")
  /\ UNCHANGED <<account, member, thread>>

\* Fault: reset codes survive a change of the password.
ChangePasswordOnly(u) ==
  /\ account[u] = "verified"
  /\ token' = Without({}, TokensOf(u, "password_reset"))
  /\ UNCHANGED <<account, member, thread>>

\* change_password
ChangePassword(u) ==
  /\ account[u] = "verified"
  /\ LET codes == TokensOf(u, "password_reset") IN token' = Without(codes, codes)
  /\ UNCHANGED <<account, member, thread>>

Expire(i) ==
  /\ token[i].usable
  /\ token' = Consumed({i})
  /\ UNCHANGED <<account, member, thread>>

-----------------------------------------------------------------------------
(* Redeeming a code *)

Goto(t, state) == thread' = [thread EXCEPT ![t] = state]

\* find_token: any usable code of the purpose; an invitation only for its addressee.
FindToken(t, i) ==
  /\ thread[t] = Idle /\ token[i].usable
  /\ token[i].purpose = "staff_invitation" => account[token[i].to] = "verified"
  /\ Goto(t, [op |-> token[i].purpose, token |-> i])
  /\ UNCHANGED <<account, member, token>>

\* confirm_verification, from the lock of the account on
ConfirmVerification(t) ==
  /\ thread[t].op = "email_verification"
  /\ LET i == thread[t].token
         u == token[i].to
     IN /\ StillUsable(i)
        /\ account' = [account EXCEPT ![u] = "verified"]
        /\ token' = Redeemed(i, TokensOf(u, "email_verification"), {})
  /\ Goto(t, Idle)
  /\ UNCHANGED <<member>>

\* reset_password, from the lock of the account on
ResetPassword(t) ==
  /\ thread[t].op = "password_reset"
  /\ LET i == thread[t].token
         codes == TokensOf(token[i].to, "password_reset")
     IN /\ StillUsable(i)
        /\ token' = Redeemed(i, codes, codes)
  /\ Goto(t, Idle)
  /\ UNCHANGED <<account, member>>

\* accept_invitation, from the lock of the institution on
AcceptInvitation(t) ==
  /\ thread[t].op = "staff_invitation"
  /\ LET i == thread[t].token
         u == token[i].to
     IN /\ Permitted(token[i].by, token[i].role)
        /\ ~member[u].active
        /\ StillUsable(i)
        /\ member' = [member EXCEPT ![u] = [role |-> token[i].role, active |-> TRUE]]
        /\ token' = Redeemed(i, {}, {})
  /\ Goto(t, Idle)
  /\ UNCHANGED <<account>>

\* A request that ends without an effect.
GiveUp(t) ==
  /\ thread[t] # Idle
  /\ Goto(t, Idle)
  /\ UNCHANGED <<account, member, token>>

-----------------------------------------------------------------------------
(* Staff *)

\* invite_staff up to the rate limit, whose commit ends the first transaction
BeginInvite(t, u, to, role) ==
  /\ thread[t] = Idle /\ Permitted(u, role)
  /\ Goto(t, [op |-> "invite", by |-> u, to |-> to, role |-> role])
  /\ UNCHANGED <<account, member, token>>

\* Fault: the permission is not checked again under the lock.
InviteUnchecked(t) ==
  /\ thread[t].op = "invite"
  /\ LET r == thread[t]
     IN /\ ~member[r.to].active
        /\ IssueToken("staff_invitation", r.to, r.by, r.role)
  /\ Goto(t, Idle)
  /\ UNCHANGED <<account, member>>

\* invite_staff, from the lock of the institution on
Invite(t) ==
  /\ thread[t].op = "invite"
  /\ LET r == thread[t]
     IN /\ Permitted(r.by, r.role)
        /\ ~member[r.to].active
        /\ IssueToken("staff_invitation", r.to, r.by, r.role)
  /\ Goto(t, Idle)
  /\ UNCHANGED <<account, member>>

RevokeInvitation(u, i) ==
  /\ token[i].purpose = "staff_invitation" /\ Permitted(u, token[i].role)
  /\ token' = Consumed({i})
  /\ UNCHANGED <<account, member, thread>>

InvitationsTo(u) == TokensOf(u, "staff_invitation")

\* Fault: the invitations to the member are left.
InvitationsBy(u) == {i \in Rows : token[i].by = u}

\* What revoke_membership cancels with the membership.
InvitationsOf(u) ==
  {i \in Rows : /\ token[i].purpose = "staff_invitation"
                        /\ u \in {token[i].to, token[i].by}}

RevokeMembership(u, target) ==
  /\ member[target].role # "none" /\ Permitted(u, member[target].role)
  /\ member' = [member EXCEPT ![target].active = FALSE]
  /\ token' = Without(InvitationsOf(target), InvitationsTo(target))
  /\ UNCHANGED <<account, thread>>

-----------------------------------------------------------------------------

Init ==
  /\ account \in [Users -> {"none", "verified"}]
  /\ \A u \in Admins : account[u] = "verified"
  /\ member = [u \in Users |-> [role |-> "none", active |-> FALSE]]
  /\ token = [i \in Tokens |-> NoToken]
  /\ thread = [t \in Threads |-> Idle]

AccountNext ==
  \/ \E u \in Users : \/ Register(u) \/ RequestVerification(u)
                      \/ RequestPasswordReset(u) \/ ChangePassword(u)
  \/ \E i \in Rows : Expire(i)

StaffNext ==
  \E u \in Users : \/ \E i \in Rows : RevokeInvitation(u, i)
                   \/ \E target \in Users : RevokeMembership(u, target)

RequestNext(t) ==
  \/ \E i \in Rows : FindToken(t, i)
  \/ ConfirmVerification(t) \/ ResetPassword(t) \/ AcceptInvitation(t)
  \/ \E u, to \in Users, role \in Roles : BeginInvite(t, u, to, role)
  \/ Invite(t)
  \/ GiveUp(t)

Next == AccountNext \/ StaffNext \/ \E t \in Threads : RequestNext(t)

Spec == Init /\ [][Next]_vars

-----------------------------------------------------------------------------
(* What must hold *)

\* No code has its effect twice, however many requests present it at once
\* (consume_token, services/tokens.py).
OneUse == \A i \in Rows : token[i].redeemed <= (IF token[i].usable THEN 0 ELSE 1)

\* Whoever issued an invitation that can still be accepted could issue it today:
\* no invitation outlives its issuer's authority, and none for a manager comes from
\* anyone but an administrator (api/v1/staff.py, core/permissions.py).
InvitationsAuthorized ==
  \A i \in Rows :
     token[i].purpose = "staff_invitation" /\ token[i].usable => Permitted(token[i].by, token[i].role)

\* A password is never set by a code that was requested before its latest change
\* (invalidate_user_tokens; README.md:217).
NoOldReset ==
  [][\A i \in Rows :
        token[i].purpose = "password_reset" /\ token'[i].redeemed > token[i].redeemed
          => ~token[i].outdated]_vars

\* A revoked member comes back only by an invitation issued after the revocation
\* (revoke_membership; README.md:282).
NoWayBack ==
  [][\A u \in Users :
        ~member[u].active /\ member'[u].active =>
          \E i \in TokensOf(u, "staff_invitation") :
             /\ ~token[i].outdated
             /\ token'[i].redeemed > token[i].redeemed
             /\ token[i].role = member'[u].role]_vars
=============================================================================
