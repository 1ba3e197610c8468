---------------------------- MODULE AccessProofs ----------------------------
(***************************************************************************)
(* Proofs about Access for any number of users, codes and requests: codes  *)
(* have their effect once, invitations never outlive the authority behind  *)
(* them, and neither an old reset code nor an old invitation works again.    *)
(***************************************************************************)
EXTENDS Access, TLAPS

\* A usable code is not outdated.
UsableIsCurrent == \A i \in Rows : token[i].usable => ~token[i].outdated

\* A request that has found a code is on its way to the lock with that code.
Found == \A t \in Threads : thread[t].op \in Purposes =>
           /\ thread[t].token \in Rows
           /\ token[thread[t].token].purpose = thread[t].op

\* Every invitation has an issuer.
Issuers == \A i \in Rows : token[i].purpose = "staff_invitation" => token[i].by \in Users

IInv == TypeOK /\ OneUse /\ InvitationsAuthorized /\ UsableIsCurrent /\ Found /\ Issuers

\* What may happen to the codes: a new one is issued, some are consumed, or one is
\* redeemed while it is usable.
NewRow(i, purpose, to, by, role) ==
  [token EXCEPT ![i] = [purpose |-> purpose, to |-> to, by |-> by, role |-> role,
                        usable |-> TRUE, redeemed |-> 0, outdated |-> FALSE]]

Issuing ==
  \E i \in Tokens \ Rows, purpose \in Purposes, to \in Users,
     by \in Users \cup {"none"}, role \in Roles \cup {"none"} :
    /\ purpose = "staff_invitation" => by \in Users /\ Permitted(by, role)
    /\ token' = NewRow(i, purpose, to, by, role)

Consuming == \E S \in SUBSET Rows : \E T \in SUBSET S : token' = Without(S, T)

Redeeming == \E i \in Rows : \E S \in SUBSET Rows : \E T \in SUBSET S :
                /\ token[i].usable /\ i \in S
                /\ token' = [Without(S, T) EXCEPT ![i].redeemed = @ + 1]

LEMMA TokenChanges ==
  ASSUME IInv, [Next]_vars
  PROVE  token' = token \/ Issuing \/ Consuming \/ Redeeming
<1>1. ASSUME NEW u \in Users, Register(u) \/ RequestVerification(u) \/ RequestPasswordReset(u)
      PROVE  Issuing
  <2>1. PICK i \in Tokens \ Rows, purpose \in {"email_verification", "password_reset"} :
          token' = NewRow(i, purpose, u, "none", "none")
    BY <1>1 DEF Register, RequestVerification, RequestPasswordReset, IssueToken, NewRow
  <2>. QED
    BY <2>1 DEF Issuing, Purposes
<1>2. ASSUME NEW t \in Threads, Invite(t)
      PROVE  Issuing
  <2>. DEFINE r == thread[t]
  <2>1. r.by \in Users /\ r.to \in Users /\ r.role \in Roles
    BY <1>2 DEF Invite, IInv, TypeOK, ThreadState, Idle, Purposes
  <2>2. PICK i \in Tokens \ Rows : token' = NewRow(i, "staff_invitation", r.to, r.by, r.role)
    BY <1>2 DEF Invite, IssueToken, NewRow
  <2>3. Permitted(r.by, r.role)
    BY <1>2 DEF Invite
  <2>. QED
    BY <2>1, <2>2, <2>3 DEF Issuing, Purposes
<1>3. ASSUME NEW u \in Users, ChangePassword(u)
      PROVE  Consuming
  BY <1>3 DEF ChangePassword, Consuming, TokensOf
<1>4. ASSUME NEW i \in Rows, Expire(i) \/ \E u \in Users : RevokeInvitation(u, i)
      PROVE  Consuming
  <2>1. token' = Without({i}, {})
    BY <1>4 DEF Expire, RevokeInvitation, Consumed
  <2>. QED
    BY <2>1 DEF Consuming
<1>5. ASSUME NEW u \in Users, NEW v \in Users, RevokeMembership(u, v)
      PROVE  Consuming
  <2>1. InvitationsOf(v) \subseteq Rows /\ InvitationsTo(v) \subseteq InvitationsOf(v)
    BY DEF InvitationsOf, InvitationsTo, TokensOf
  <2>. QED
    BY <1>5, <2>1 DEF RevokeMembership, Consuming
<1>6. ASSUME NEW t \in Threads, ConfirmVerification(t)
      PROVE  Redeeming
  <2>. DEFINE i == thread[t].token
              S == {i} \cup TokensOf(token[i].to, "email_verification")
  <2>1. i \in Rows /\ token[i].usable /\ token' = [Without(S, {}) EXCEPT ![i].redeemed = @ + 1]
    BY <1>6 DEF ConfirmVerification, StillUsable, Redeemed, IInv, Found, Purposes
  <2>2. S \in SUBSET Rows /\ i \in S
    BY <2>1 DEF TokensOf
  <2>. QED
    BY <2>1, <2>2 DEF Redeeming
<1>7. ASSUME NEW t \in Threads, ResetPassword(t)
      PROVE  Redeeming
  <2>. DEFINE i == thread[t].token
              T == TokensOf(token[i].to, "password_reset")
              S == {i} \cup T
  <2>1. i \in Rows /\ token[i].usable /\ token' = [Without(S, T) EXCEPT ![i].redeemed = @ + 1]
    BY <1>7 DEF ResetPassword, StillUsable, Redeemed, IInv, Found, Purposes
  <2>2. S \in SUBSET Rows /\ i \in S /\ T \in SUBSET S
    BY <2>1 DEF TokensOf
  <2>. QED
    BY <2>1, <2>2 DEF Redeeming
<1>8. ASSUME NEW t \in Threads, AcceptInvitation(t)
      PROVE  Redeeming
  <2>. DEFINE i == thread[t].token
  <2>1. /\ i \in Rows /\ token[i].usable
        /\ token' = [Without({i} \cup {}, {}) EXCEPT ![i].redeemed = @ + 1]
    BY <1>8 DEF AcceptInvitation, StillUsable, Redeemed, IInv, Found, Purposes
  <2>2. {i} \cup {} \in SUBSET Rows /\ i \in {i} \cup {}
    BY <2>1
  <2>. QED
    BY <2>1, <2>2 DEF Redeeming
<1>9. ASSUME NEW t \in Threads, \/ \E i \in Rows : FindToken(t, i)
                                \/ \E u, to \in Users, role \in Roles : BeginInvite(t, u, to, role)
                                \/ GiveUp(t)
      PROVE  token' = token
  BY <1>9 DEF FindToken, BeginInvite, GiveUp
<1>. QED
  BY <1>1, <1>2, <1>3, <1>4, <1>5, <1>6, <1>7, <1>8, <1>9
     DEF Next, AccountNext, StaffNext, RequestNext, vars

-----------------------------------------------------------------------------
(* What that means for each row *)

\* The row i keeps what it is; it is redeemed while usable or not at all, and is no
\* longer usable when redeemed or outdated.
Kept(i) ==
  /\ token'[i] \in TokenRow
  /\ token'[i].purpose = token[i].purpose /\ token'[i].to = token[i].to
  /\ token'[i].by = token[i].by /\ token'[i].role = token[i].role
  /\ token'[i].usable => token[i].usable
  /\ token'[i].outdated => token[i].outdated \/ ~token'[i].usable
  /\ \/ token'[i].redeemed = token[i].redeemed
     \/ /\ token[i].usable /\ ~token'[i].usable
        /\ token'[i].redeemed = token[i].redeemed + 1

Fresh(i) ==
  /\ token'[i] \in TokenRow
  /\ token'[i].redeemed = 0 /\ ~token'[i].outdated
  /\ token'[i].purpose = "staff_invitation" =>
       token'[i].by \in Users /\ Permitted(token'[i].by, token'[i].role)

LEMMA RowExists ==
  ASSUME NEW i \in Rows, TypeOK
  PROVE  i \in Tokens /\ token[i] \in TokenRow
BY DEF Rows, TypeOK

LEMMA RowIsNotNone ==
  ASSUME NEW r \in TokenRow
  PROVE  r # NoToken
BY DEF TokenRow, NoToken, Purposes

\* The row r is the row i as Without(S, T) leaves it.
AsWithout(r, i, S, T) ==
  /\ r \in TokenRow
  /\ r.purpose = token[i].purpose /\ r.to = token[i].to
  /\ r.by = token[i].by /\ r.role = token[i].role /\ r.redeemed = token[i].redeemed
  /\ r.usable = (token[i].usable /\ i \notin S)
  /\ r.outdated = (token[i].outdated \/ i \in T)

LEMMA WithoutFields ==
  ASSUME TypeOK, NEW S, NEW T, NEW i \in Rows
  PROVE  AsWithout(Without(S, T)[i], i, S, T)
<1>1. i \in Tokens /\ token[i] \in TokenRow
  BY RowExists
<1>. DEFINE half == [token[i] EXCEPT !.usable = @ /\ i \notin S]
<1>2. Without(S, T)[i] = [half EXCEPT !.outdated = @ \/ i \in T]
  BY <1>1 DEF Without
<1>3. /\ half \in TokenRow
      /\ half.purpose = token[i].purpose /\ half.to = token[i].to /\ half.by = token[i].by
      /\ half.role = token[i].role /\ half.redeemed = token[i].redeemed
      /\ half.outdated = token[i].outdated
      /\ half.usable = (token[i].usable /\ i \notin S)
  BY <1>1 DEF TokenRow
<1>. HIDE DEF half
<1>. QED
  BY <1>2, <1>3 DEF TokenRow, AsWithout

LEMMA RowsStep ==
  ASSUME IInv, token' = token \/ Issuing \/ Consuming \/ Redeeming
  PROVE  /\ token' \in [Tokens -> TokenRow \cup {NoToken}]
         /\ \A i \in Rows : Kept(i)
         /\ \A i \in Rows' \ Rows : Fresh(i)
<1>. USE DEF IInv
<1>1. CASE token' = token
  BY <1>1, RowExists DEF Kept, Rows, TypeOK
<1>2. CASE Issuing
  <2>1. PICK k \in Tokens \ Rows, purpose \in Purposes, to \in Users,
             by \in Users \cup {"none"}, role \in Roles \cup {"none"} :
             /\ purpose = "staff_invitation" => by \in Users /\ Permitted(by, role)
             /\ token' = NewRow(k, purpose, to, by, role)
    BY <1>2 DEF Issuing
  <2>. DEFINE row == [purpose |-> purpose, to |-> to, by |-> by, role |-> role,
                      usable |-> TRUE, redeemed |-> 0, outdated |-> FALSE]
  <2>2. row \in TokenRow
    BY DEF TokenRow
  <2>3. token' = [token EXCEPT ![k] = row]
    BY <2>1 DEF NewRow
  <2>4. /\ row.redeemed = 0 /\ ~row.outdated
        /\ row.purpose = "staff_invitation" => row.by \in Users /\ Permitted(row.by, row.role)
    BY <2>1
  <2>. HIDE DEF row
  <2>5. \A i \in Rows : token'[i] = token[i] /\ token[i] \in TokenRow
    BY <2>3, RowExists DEF TypeOK
  <2>6. \A i \in Rows' \ Rows : i = k
    BY <2>3 DEF Rows, TypeOK
  <2>. QED
    BY <2>2, <2>3, <2>4, <2>5, <2>6 DEF Kept, Fresh, TypeOK
<1>3. CASE Consuming
  <2>1. PICK S \in SUBSET Rows : \E T \in SUBSET S : token' = Without(S, T)
    BY <1>3 DEF Consuming
  <2>2. PICK T \in SUBSET S : token' = Without(S, T)
    BY <2>1
  <2>3. \A i \in Rows : Kept(i)
    <3>. TAKE i \in Rows
    <3>1. AsWithout(token'[i], i, S, T)
      BY <2>2, WithoutFields
    <3>2. token[i] \in TokenRow
      BY RowExists
    <3>. QED
      BY <3>1, <3>2 DEF Kept, AsWithout, TokenRow
  <2>4. \A i \in Tokens \ Rows : token'[i] = NoToken
    BY <2>2 DEF Without
  <2>5. DOMAIN token' = Tokens /\ token' = [i \in Tokens |-> token'[i]]
    BY <2>2 DEF Without
  <2>6. token' \in [Tokens -> TokenRow \cup {NoToken}]
    BY <2>3, <2>4, <2>5 DEF Kept, Rows
  <2>. QED
    BY <2>3, <2>4, <2>6 DEF Rows
<1>4. CASE Redeeming
  <2>1. PICK k \in Rows : \E S \in SUBSET Rows : \E T \in SUBSET S :
            /\ token[k].usable /\ k \in S
            /\ token' = [Without(S, T) EXCEPT ![k].redeemed = @ + 1]
    BY <1>4 DEF Redeeming
  <2>a. PICK S \in SUBSET Rows : \E T \in SUBSET S :
            /\ token[k].usable /\ k \in S
            /\ token' = [Without(S, T) EXCEPT ![k].redeemed = @ + 1]
    BY <2>1
  <2>2. PICK T \in SUBSET S :
            /\ token[k].usable /\ k \in S
            /\ token' = [Without(S, T) EXCEPT ![k].redeemed = @ + 1]
    BY <2>a
  <2>. DEFINE w == Without(S, T)
  <2>3. w = [i \in Tokens |-> w[i]] /\ \A i \in Tokens \ Rows : w[i] = NoToken
    BY DEF Without
  <2>4. \A i \in Rows : AsWithout(w[i], i, S, T)
    BY WithoutFields
  <2>5. k \in Tokens /\ token[k].redeemed = 0 /\ token[k].usable /\ ~token[k].outdated
    BY <2>2, RowExists DEF OneUse, TokenRow, UsableIsCurrent
  <2>6. token' = [w EXCEPT ![k] = [w[k] EXCEPT !.redeemed = w[k].redeemed + 1]]
    BY <2>2
  <2>. HIDE DEF w
  <2>7. \A i \in Rows \ {k} : token'[i] = w[i]
    BY <2>3, <2>6, RowExists
  <2>8. token'[k] = [w[k] EXCEPT !.redeemed = 1]
    <3>1. w[k].redeemed = 0
      BY <2>4, <2>5 DEF AsWithout
    <3>. QED
      BY <2>3, <2>5, <2>6, <3>1
  <2>9. Kept(k)
    BY <2>2, <2>4, <2>5, <2>8 DEF Kept, TokenRow, AsWithout
  <2>10. \A i \in Rows \ {k} : Kept(i)
    BY <2>4, <2>7 DEF Kept, AsWithout
  <2>11. \A i \in Tokens \ Rows : token'[i] = NoToken
    BY <2>3, <2>6
  <2>12. token' = [i \in Tokens |-> token'[i]]
    BY <2>3, <2>6
  <2>13. token' \in [Tokens -> TokenRow \cup {NoToken}]
    BY <2>9, <2>10, <2>11, <2>12 DEF Kept, Rows
  <2>. QED
    BY <2>9, <2>10, <2>11, <2>13 DEF Rows
<1>. QED
  BY <1>1, <1>2, <1>3, <1>4

-----------------------------------------------------------------------------
(* The inductive invariant *)

LEMMA OthersTyped ==
  ASSUME IInv, [Next]_vars
  PROVE  /\ account' \in [Users -> {"none", "unverified", "verified"}]
         /\ member' \in [Users -> MemberRow]
         /\ thread' \in [Threads -> ThreadState]
<1>. USE DEF IInv, TypeOK
<1>1. CASE AccountNext
  BY <1>1 DEF AccountNext, Register, RequestVerification, RequestPasswordReset, ChangePassword, Expire
<1>2. CASE StaffNext
  <2>1. ASSUME NEW u \in Users, NEW i \in Rows, RevokeInvitation(u, i)
        PROVE  account' = account /\ thread' = thread /\ member' \in [Users -> MemberRow]
    BY <2>1 DEF RevokeInvitation, MemberRow
  <2>2. ASSUME NEW u \in Users, NEW target \in Users, RevokeMembership(u, target)
        PROVE  account' = account /\ thread' = thread /\ member' \in [Users -> MemberRow]
    BY <2>2 DEF RevokeMembership, MemberRow
  <2>. QED
    BY <1>2, <2>1, <2>2 DEF StaffNext
<1>3. ASSUME NEW t \in Threads, RequestNext(t)
      PROVE  account' \in [Users -> {"none", "unverified", "verified"}]
  BY <1>3 DEF RequestNext, FindToken, ConfirmVerification, ResetPassword, AcceptInvitation,
              BeginInvite, Invite, GiveUp
<1>4. ASSUME NEW t \in Threads, RequestNext(t)
      PROVE  member' \in [Users -> MemberRow]
  <2>1. CASE AcceptInvitation(t)
    <3>. DEFINE i == thread[t].token
    <3>1. i \in Rows /\ token[i].purpose = "staff_invitation"
      BY <2>1 DEF AcceptInvitation, Found, Purposes
    <3>2. token[i].role \in Roles \cup {"none"}
      BY <3>1, RowExists DEF TokenRow
    <3>. QED
      BY <2>1, <3>2 DEF AcceptInvitation, MemberRow
  <2>. QED
    BY <1>4, <2>1 DEF RequestNext, FindToken, ConfirmVerification, ResetPassword,
                BeginInvite, Invite, GiveUp
<1>5. ASSUME NEW t \in Threads, RequestNext(t)
      PROVE  thread' \in [Threads -> ThreadState]
  <2>1. CASE \E i \in Rows : FindToken(t, i)
    <3>1. PICK i \in Rows : FindToken(t, i)
      BY <2>1
    <3>2. [op |-> token[i].purpose, token |-> i] \in ThreadState
      BY RowExists DEF TokenRow, ThreadState
    <3>. QED
      BY <3>1, <3>2 DEF FindToken, Goto
  <2>2. CASE \E u, to \in Users, role \in Roles : BeginInvite(t, u, to, role)
    BY <2>2 DEF BeginInvite, Goto, ThreadState
  <2>3. CASE thread' = [thread EXCEPT ![t] = Idle]
    BY <2>3 DEF ThreadState
  <2>. QED
    BY <1>5, <2>1, <2>2, <2>3 DEF RequestNext, ConfirmVerification, ResetPassword, AcceptInvitation,
                Invite, GiveUp, Goto
<1>6. CASE UNCHANGED vars
  BY <1>6 DEF vars
<1>. QED
  BY <1>1, <1>2, <1>3, <1>4, <1>5, <1>6 DEF Next

\* An authority is lost only by a revocation.
LEMMA AuthorityKept ==
  ASSUME IInv, [Next]_vars, NEW u \in Users, NEW role, Permitted(u, role),
         ~\E v \in Users : RevokeMembership(v, u)
  PROVE  Permitted(u, role)'
<1>. USE DEF IInv, TypeOK, Permitted, IsManager
<1>1. CASE AccountNext
  BY <1>1 DEF AccountNext, Register, RequestVerification, RequestPasswordReset, ChangePassword, Expire
<1>2. CASE StaffNext
  BY <1>2 DEF StaffNext, RevokeInvitation, RevokeMembership
<1>3. ASSUME NEW t \in Threads, RequestNext(t)
      PROVE  Permitted(u, role)'
  <2>1. CASE AcceptInvitation(t)
    BY <2>1 DEF AcceptInvitation
  <2>2. CASE ConfirmVerification(t)
    BY <2>2 DEF ConfirmVerification
  <2>. QED
    BY <1>3, <2>1, <2>2 DEF RequestNext, FindToken, ResetPassword, BeginInvite, Invite, GiveUp
<1>4. CASE UNCHANGED vars
  BY <1>4 DEF vars
<1>. QED
  BY <1>1, <1>2, <1>3, <1>4 DEF Next

LEMMA FoundStep ==
  ASSUME IInv, [Next]_vars
  PROVE  Found'
<1>. USE DEF IInv
<1>1. /\ \A i \in Rows : i \in Rows' /\ token'[i].purpose = token[i].purpose
  <2>1. \A i \in Rows : Kept(i)
    BY TokenChanges, RowsStep
  <2>. QED
    BY <2>1, RowIsNotNone DEF Kept, Rows
<1>2. ASSUME NEW t \in Threads, thread'[t] = thread[t] \/ thread'[t].op \notin Purposes
      PROVE  thread'[t].op \in Purposes => /\ thread'[t].token \in Rows'
                                           /\ token'[thread'[t].token].purpose = thread'[t].op
  BY <1>1, <1>2 DEF Found
<1>3. ASSUME NEW t \in Threads, NEW i \in Rows, FindToken(t, i), NEW s \in Threads
      PROVE  thread'[s].op \in Purposes => /\ thread'[s].token \in Rows'
                                           /\ token'[thread'[s].token].purpose = thread'[s].op
  <2>1. CASE s = t
    BY <1>1, <1>3, <2>1 DEF FindToken, Goto, TypeOK
  <2>2. CASE s # t
    <3>1. thread'[s] = thread[s]
      BY <1>3, <2>2 DEF FindToken, Goto, TypeOK
    <3>. QED
      BY <1>2, <3>1
  <2>. QED
    BY <2>1, <2>2
<1>4. ASSUME NEW t \in Threads, \/ \E u, to \in Users, role \in Roles : BeginInvite(t, u, to, role)
                                \/ thread' = [thread EXCEPT ![t] = Idle],
             NEW s \in Threads
      PROVE  thread'[s] = thread[s] \/ thread'[s].op \notin Purposes
  BY <1>4 DEF BeginInvite, Goto, TypeOK, Idle, Purposes
<1>5. CASE thread' = thread
  BY <1>2, <1>5 DEF Found
<1>. QED
  BY <1>2, <1>3, <1>4, <1>5
     DEF Next, AccountNext, StaffNext, RequestNext, Register, RequestVerification,
         RequestPasswordReset, ChangePassword, Expire, RevokeInvitation, RevokeMembership,
         ConfirmVerification, ResetPassword, AcceptInvitation, Invite, GiveUp, Goto, vars, Found

LEMMA NewInvitation ==
  ASSUME IInv, [Next]_vars, NEW i \in Rows' \ Rows, token'[i].purpose = "staff_invitation"
  PROVE  \E t \in Threads : Invite(t)
<1>. USE DEF IInv
<1>1. i \in Tokens /\ token[i] = NoToken /\ token'[i] # NoToken
  BY DEF Rows
<1>2. \A S, T : token' # Without(S, T)
  BY <1>1 DEF Without, Rows
<1>3. \A u \in Users, purpose \in {"email_verification", "password_reset"} :
        ~IssueToken(purpose, u, "none", "none")
  BY <1>1 DEF IssueToken, TypeOK
<1>4. \A S, T : \A k \in Rows : token' # [Without(S, T) EXCEPT ![k].redeemed = @ + 1]
  BY <1>1 DEF Without, Rows
<1>5. ASSUME NEW t \in Threads, thread[t].op \in Purposes, NEW S, NEW T,
             token' = Redeemed(thread[t].token, S, T)
      PROVE  FALSE
  BY <1>4, <1>5 DEF Redeemed, Found
<1>6. \A t \in Threads : ~ConfirmVerification(t) /\ ~ResetPassword(t) /\ ~AcceptInvitation(t)
  BY <1>5 DEF ConfirmVerification, ResetPassword, AcceptInvitation, Purposes
<1>. QED
  BY <1>1, <1>2, <1>3, <1>6
     DEF Next, AccountNext, StaffNext, RequestNext, Register, RequestVerification,
         RequestPasswordReset, ChangePassword, Expire, Consumed, RevokeInvitation, RevokeMembership,
         FindToken, BeginInvite, GiveUp, vars

\* An invitation that stays usable keeps the authority it was issued with.
LEMMA AuthorizedStep ==
  ASSUME IInv, [Next]_vars
  PROVE  InvitationsAuthorized'
<1>. USE DEF IInv
<1>1. /\ \A i \in Rows : Kept(i)
      /\ \A i \in Rows' \ Rows : Fresh(i)
  BY TokenChanges, RowsStep
<1>2. ASSUME NEW i \in Rows', i \notin Rows, token'[i].purpose = "staff_invitation"
      PROVE  Permitted(token[i].by, token[i].role)'
  <2>1. Permitted(token'[i].by, token'[i].role)
    BY <1>1, <1>2 DEF Fresh
  <2>2. account' = account /\ member' = member
    BY <1>2, NewInvitation DEF Invite
  <2>. QED
    BY <2>1, <2>2 DEF Permitted, IsManager
<1>3. ASSUME NEW i \in Rows, token'[i].purpose = "staff_invitation", token'[i].usable,
             NEW u, NEW role, u = token[i].by, role = token[i].role
      PROVE  /\ token'[i].by = u /\ token'[i].role = role
             /\ Permitted(u, role)'
  <2>1. /\ Permitted(u, role) /\ u \in Users
        /\ token'[i].by = u /\ token'[i].role = role
        /\ token[i].purpose = "staff_invitation"
    BY <1>1, <1>3 DEF Kept, InvitationsAuthorized, Issuers
  <2>2. \A v \in Users : ~RevokeMembership(v, u)
    <3>. SUFFICES ASSUME NEW v \in Users, RevokeMembership(v, u)
                  PROVE  FALSE
      OBVIOUS
    <3>1. AsWithout(token'[i], i, InvitationsOf(u), InvitationsTo(u))
      BY WithoutFields DEF RevokeMembership
    <3>2. i \in InvitationsOf(u)
      BY <1>3, <2>1 DEF InvitationsOf
    <3>. QED
      BY <1>3, <3>1, <3>2 DEF AsWithout
  <2>. QED
    BY <2>1, <2>2, AuthorityKept
<1>. QED
  BY <1>2, <1>3 DEF InvitationsAuthorized, Permitted, IsManager

LEMMA RestStep ==
  ASSUME IInv, [Next]_vars
  PROVE  OneUse' /\ UsableIsCurrent' /\ Issuers'
<1>1. /\ \A i \in Rows : Kept(i)
      /\ \A i \in Rows' \ Rows : Fresh(i)
      /\ \A i \in Rows : token[i] \in TokenRow
  BY TokenChanges, RowsStep, RowExists DEF IInv
<1>2. OneUse'
  BY <1>1 DEF IInv, OneUse, Kept, Fresh, TokenRow
<1>3. UsableIsCurrent'
  BY <1>1 DEF IInv, UsableIsCurrent, Kept, Fresh
<1>4. Issuers'
  BY <1>1 DEF IInv, Issuers, Kept, Fresh
<1>. QED
  BY <1>2, <1>3, <1>4

LEMMA Initially == Init => IInv
BY DEF Init, IInv, TypeOK, MemberRow, ThreadState, OneUse, InvitationsAuthorized, UsableIsCurrent,
       Found, Issuers, Rows, Idle, Purposes

LEMMA Preserved == IInv /\ [Next]_vars => IInv'
<1>. SUFFICES ASSUME IInv, [Next]_vars
              PROVE  IInv'
  OBVIOUS
<1>1. TypeOK'
  BY OthersTyped, TokenChanges, RowsStep DEF TypeOK
<1>. QED
  BY <1>1, FoundStep, AuthorizedStep, RestStep DEF IInv

LEMMA Invariance == Spec => []IInv
BY Initially, Preserved, PTL DEF Spec

\* Accounts, memberships, codes and requests keep their types.
THEOREM AccessTyped == Spec => []TypeOK
<1>1. IInv => TypeOK
  BY DEF IInv
<1>. QED
  BY <1>1, Invariance, PTL

\* No code has its effect twice, however many requests present it at once.
THEOREM CodesUsedOnce == Spec => []OneUse
<1>1. IInv => OneUse
  BY DEF IInv
<1>. QED
  BY <1>1, Invariance, PTL

\* Whoever issued an invitation that can still be accepted could issue it today.
THEOREM InvitationsKeepAuthority == Spec => []InvitationsAuthorized
<1>1. IInv => InvitationsAuthorized
  BY DEF IInv
<1>. QED
  BY <1>1, Invariance, PTL

\* A password is never set by a code requested before its latest change.
THEOREM OldResetsAreDead == Spec => NoOldReset
<1>1. IInv /\ [Next]_vars =>
        [\A i \in Rows :
           token[i].purpose = "password_reset" /\ token'[i].redeemed > token[i].redeemed
             => ~token[i].outdated]_vars
  <2>. SUFFICES ASSUME IInv, [Next]_vars, NEW i \in Rows, token'[i].redeemed > token[i].redeemed
                PROVE  ~token[i].outdated
    OBVIOUS
  <2>1. Kept(i) /\ token[i] \in TokenRow
    BY TokenChanges, RowsStep, RowExists DEF IInv
  <2>. QED
    BY <2>1 DEF Kept, IInv, UsableIsCurrent, TokenRow
<1>. QED
  BY <1>1, Invariance, PTL DEF Spec, NoOldReset

\* A revoked member comes back only by an invitation issued after the revocation.
THEOREM RevokedStayOut == Spec => NoWayBack
<1>1. ASSUME IInv, [Next]_vars, NEW u \in Users, ~member[u].active, member'[u].active
      PROVE  \E i \in TokensOf(u, "staff_invitation") :
               /\ ~token[i].outdated
               /\ token'[i].redeemed > token[i].redeemed
               /\ token[i].role = member'[u].role
  <2>. USE DEF IInv
  <2>1. PICK t \in Threads : AcceptInvitation(t)
    BY <1>1 DEF Next, AccountNext, StaffNext, RequestNext, Register, RequestVerification,
         RequestPasswordReset, ChangePassword, Expire, RevokeInvitation, RevokeMembership, FindToken,
         ConfirmVerification, ResetPassword, BeginInvite, Invite, GiveUp, vars, TypeOK, MemberRow
  <2>2. PICK i \in Rows : i = thread[t].token /\ token[i].purpose = "staff_invitation"
    BY <1>1, <2>1 DEF AcceptInvitation, Found, Purposes
  <2>6. i \in Tokens /\ token[i] \in TokenRow /\ token[i].usable
    BY <1>1, <2>1, <2>2, RowExists DEF AcceptInvitation, StillUsable
  <2>3. member' = [member EXCEPT ![token[i].to] = [role |-> token[i].role, active |-> TRUE]]
    BY <2>1, <2>2 DEF AcceptInvitation
  <2>4. token[i].to = u /\ token[i].role = member'[u].role
    BY <1>1, <2>6, <2>3 DEF TypeOK, TokenRow
  <2>5. token'[i].redeemed > token[i].redeemed
    <3>. DEFINE w == Without({i} \cup {}, {})
    <3>1. token' = [w EXCEPT ![i].redeemed = @ + 1]
      BY <2>1, <2>2 DEF AcceptInvitation, Redeemed
    <3>2. AsWithout(w[i], i, {i} \cup {}, {}) /\ i \in DOMAIN w
      BY <1>1, <2>6, WithoutFields DEF Without
    <3>. HIDE DEF w
    <3>3. token'[i].redeemed = token[i].redeemed + 1
      BY <3>1, <3>2 DEF AsWithout, TokenRow
    <3>. QED
      BY <2>6, <3>3 DEF TokenRow
  <2>. QED
    BY <1>1, <2>2, <2>6, <2>4, <2>5 DEF TokensOf, UsableIsCurrent
<1>2. IInv /\ [Next]_vars =>
        [\A u \in Users :
           ~member[u].active /\ member'[u].active =>
             \E i \in TokensOf(u, "staff_invitation") :
                /\ ~token[i].outdated
                /\ token'[i].redeemed > token[i].redeemed
                /\ token[i].role = member'[u].role]_vars
  BY <1>1
<1>. QED
  BY <1>2, Invariance, PTL DEF Spec, NoWayBack
=============================================================================
