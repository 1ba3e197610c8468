----------------------------- MODULE Onboarding -----------------------------
(***************************************************************************)
(* How an institution comes to be approved, and how its pilot is judged:   *)
(* the evidence its managers save and submit, the review by an             *)
(* administrator, the approval, and the evaluations that may end in a      *)
(* decision to expand.  From api/v1/pilot.py, services/pilot.py and        *)
(* approve_institution in api/v1/catalog.py.                               *)
(*                                                                         *)
(* Every writer locks the institution and commits once.  A writer of the   *)
(* onboarding is one action.  An evaluation reads is_approved with the     *)
(* lock and the onboarding and the setup after a long report on orders; it *)
(* takes two steps with the lock held.  The orders do not wait for that    *)
(* lock: what the report finds among them is left open.  Expected versions *)
(* come from the page its sender read last.                                *)
(***************************************************************************)
EXTENDS Integers

CONSTANTS
  Users,       \* verified accounts
  Admins,      \* platform administrators, who may also be managers
  Evidence,    \* what the seven entries may say
  Complete,    \* evidence without evidence_blockers
  NoEvidence,  \* empty entries
  Evaluations, \* rows pilot_evaluations may get
  Threads,     \* concurrent requests that write a report
  MaxVersion   \* bound: versions of the onboarding

ASSUME AdminsAreUsers == Admins \subseteq Users
ASSUME SomeEvidence == Complete \subseteq Evidence /\ NoEvidence \in Evidence \ Complete
ASSUME NoneIsNoUser == "none" \notin Users
ASSUME NoneIsNoEvaluation == {"none", "idle"} \cap Evaluations = {}
ASSUME VersionsNatural == MaxVersion \in Nat

VARIABLES
  institution, \* where it comes from, and is_approved
  profile,     \* institution_onboarding
  page,        \* the onboarding as each user read it last
  managers,    \* users with an active manager membership
  configured,  \* an active service, and a policy with instructions
  evaluation,  \* pilot_evaluations
  report       \* the report each request is writing

vars == <<institution, profile, page, managers, configured, evaluation, report>>

-----------------------------------------------------------------------------
(* Rows *)

Status == {"not_started", "draft", "submitted", "changes_requested", "approved"}

\* The missing row reads as version 0, not started (onboarding_view).
Profile == [version      : Nat,
            status       : Status,
            evidence     : Evidence,
            submitted_by : Users \cup {"none"},
            reviewed_by  : Users \cup {"none"}]

NoProfile == [version |-> 0, status |-> "not_started", evidence |-> NoEvidence,
              submitted_by |-> "none", reviewed_by |-> "none"]

\* created: through create_institution; legacy: older than onboarding.
Institution == [origin : {"none", "legacy", "created"}, is_approved : BOOLEAN]

\* gates: whether the report taken at its creation has no expansion_blockers
Evaluation == [created_by  : Users,
               gates       : BOOLEAN,
               decision    : {"pending", "continue_pilot", "rework", "expand"},
               reviewed_by : Users \cup {"none"}]

NoEvaluation == [decision |-> "none"]

\* A report in the making, and the evaluation it reviews if any
Report == [item        : Evaluations \cup {"none"},
           by          : Users,
           is_approved : BOOLEAN]

Idle == [item |-> "idle"]

TypeOK == /\ institution \in Institution
          /\ profile \in Profile
          /\ (profile.version = 0) = (profile.status = "not_started")
          /\ page \in [Users -> Profile]
          /\ managers \subseteq Users
          /\ configured \in BOOLEAN
          /\ evaluation \in [Evaluations -> Evaluation \cup {NoEvaluation}]
          /\ report \in [Threads -> Report \cup {Idle}]

-----------------------------------------------------------------------------
(* What the services compute *)

\* Fault: the institution is read without FOR UPDATE.
NotLocked == institution.origin # "none"

\* lock_institution: it exists, and nobody else holds it.
LockInstitution ==
  institution.origin # "none" /\ \A t \in Threads : report[t] = Idle

\* setup_blockers finds nothing.
SetupComplete == managers # {} /\ configured

\* Fault: the expected version is not compared.
AnyVersion(u) == page[u].version \in Nat

\* check_version, with the version on the page of u
CheckVersion(u) == page[u].version = profile.version

Editable == profile.status \in {"not_started", "draft", "changes_requested"}

-----------------------------------------------------------------------------
(* Onboarding *)

\* Fault: the institution gets no onboarding row.
CreateOnlyInstitution(u) ==
  /\ u \in Admins /\ institution.origin = "none"
  /\ institution' = [origin |-> "created", is_approved |-> FALSE]
  /\ UNCHANGED <<profile, page, managers, configured, evaluation, report>>

CreateInstitution(u) ==
  /\ u \in Admins /\ institution.origin = "none"
  /\ institution' = [origin |-> "created", is_approved |-> FALSE]
  /\ profile' = [NoProfile EXCEPT !.version = 1, !.status = "draft"]
  /\ UNCHANGED <<page, managers, configured, evaluation, report>>

\* read_onboarding
ReadOnboarding(u) ==
  /\ institution.origin # "none" /\ u \in managers \cup Admins
  /\ page' = [page EXCEPT ![u] = profile]
  /\ UNCHANGED <<institution, profile, managers, configured, evaluation, report>>

\* save_onboarding; the answer is the page with the new version
SaveOnboarding(u, evidence) ==
  /\ LockInstitution /\ u \in managers
  /\ CheckVersion(u) /\ Editable /\ profile.version < MaxVersion
  /\ profile' = [profile EXCEPT !.version = @ + 1, !.status = "draft", !.evidence = evidence]
  /\ page' = [page EXCEPT ![u] = profile']
  /\ UNCHANGED <<institution, managers, configured, evaluation, report>>

SubmitOnboarding(u) ==
  /\ LockInstitution /\ u \in managers
  /\ CheckVersion(u) /\ Editable /\ 0 < profile.version /\ profile.version < MaxVersion
  /\ profile.evidence \in Complete /\ SetupComplete
  /\ profile' = [profile EXCEPT !.version = @ + 1, !.status = "submitted", !.submitted_by = u]
  /\ page' = [page EXCEPT ![u] = profile']
  /\ UNCHANGED <<institution, managers, configured, evaluation, report>>

ReviewOnboarding(u, decision) ==
  /\ LockInstitution /\ u \in Admins
  /\ CheckVersion(u) /\ profile.status = "submitted" /\ profile.version < MaxVersion
  /\ profile.submitted_by # u
  /\ decision = "approved" => profile.evidence \in Complete /\ SetupComplete
  /\ profile' = [profile EXCEPT !.version = @ + 1, !.status = decision, !.reviewed_by = u]
  /\ page' = [page EXCEPT ![u] = profile']
  /\ UNCHANGED <<institution, managers, configured, evaluation, report>>

\* approve_institution; expected_approved may be guessed, so it does not restrict anyone
ApproveInstitution(u, approved) ==
  /\ LockInstitution /\ u \in Admins
  /\ approved /\ profile.version > 0 => profile.status = "approved" /\ SetupComplete
  /\ institution' = [institution EXCEPT !.is_approved = approved]
  /\ UNCHANGED <<profile, page, managers, configured, evaluation, report>>

-----------------------------------------------------------------------------
(* The setup *)

\* create_service, update_service and update_policy
Configure(u) ==
  /\ LockInstitution /\ u \in managers
  /\ configured' = ~configured
  /\ UNCHANGED <<institution, profile, page, managers, evaluation, report>>

\* accept_invitation, revoke_membership
ChangeManagers ==
  /\ LockInstitution
  /\ \E u \in Users : managers' \in {managers \cup {u}, managers \ {u}}
  /\ UNCHANGED <<institution, profile, page, configured, evaluation, report>>

-----------------------------------------------------------------------------
(* Evaluations *)

Goto(t, state) == report' = [report EXCEPT ![t] = state]

Begun(u, i) == [item |-> i, by |-> u, is_approved |-> institution.is_approved]

\* create_evaluation, to the lock
BeginEvaluation(t, u) ==
  /\ LockInstitution /\ report[t] = Idle /\ u \in managers
  /\ Goto(t, Begun(u, "none"))
  /\ UNCHANGED <<institution, profile, page, managers, configured, evaluation>>

\* Fault: a decision may be taken again.
UndecidedUnchecked(i) == evaluation[i] # NoEvaluation

Undecided(i) == evaluation[i].decision = "pending"

\* review_evaluation, to the lock and the checks of the row
BeginReview(t, u, i) ==
  /\ LockInstitution /\ report[t] = Idle /\ u \in Admins
  /\ Undecided(i) /\ evaluation[i].created_by # u
  /\ Goto(t, Begun(u, i))
  /\ UNCHANGED <<institution, profile, page, managers, configured, evaluation>>

\* evaluation_snapshot finds no expansion_blockers.  clean: the mode is live, an order is
\* paid and downloaded, and no order is an exception.
Gates(r, clean) == clean /\ r.is_approved /\ profile.status = "approved" /\ SetupComplete

\* create_evaluation, from the report on
CreateEvaluation(t, clean) ==
  /\ report[t].item = "none"
  /\ \E i \in Evaluations :
       /\ evaluation[i] = NoEvaluation
       /\ evaluation' = [evaluation EXCEPT ![i] =
            [created_by |-> report[t].by, gates |-> Gates(report[t], clean),
             decision |-> "pending", reviewed_by |-> "none"]]
  /\ Goto(t, Idle)
  /\ UNCHANGED <<institution, profile, page, managers, configured>>

\* review_evaluation, from the report on
ReviewEvaluation(t, decision, clean) ==
  /\ report[t].item \in Evaluations
  /\ decision = "expand" => evaluation[report[t].item].gates /\ Gates(report[t], clean)
  /\ evaluation' = [evaluation EXCEPT ![report[t].item] =
       [@ EXCEPT !.decision = decision, !.reviewed_by = report[t].by]]
  /\ Goto(t, Idle)
  /\ UNCHANGED <<institution, profile, page, managers, configured>>

\* A request that is refused, or whose process dies, with nothing written.
Abandon(t) ==
  /\ report[t] # Idle
  /\ Goto(t, Idle)
  /\ UNCHANGED <<institution, profile, page, managers, configured, evaluation>>

-----------------------------------------------------------------------------

Init ==
  /\ institution \in {[origin |-> "none", is_approved |-> FALSE],
                      [origin |-> "legacy", is_approved |-> FALSE],
                      [origin |-> "legacy", is_approved |-> TRUE]}
  /\ profile = NoProfile
  /\ page = [u \in Users |-> NoProfile]
  /\ managers = {}
  /\ configured = FALSE
  /\ evaluation = [i \in Evaluations |-> NoEvaluation]
  /\ report = [t \in Threads |-> Idle]

OnboardingNext ==
  \E u \in Users :
    \/ CreateInstitution(u) \/ ReadOnboarding(u) \/ SubmitOnboarding(u) \/ Configure(u)
    \/ \E evidence \in Evidence : SaveOnboarding(u, evidence)
    \/ \E decision \in {"approved", "changes_requested"} : ReviewOnboarding(u, decision)
    \/ \E approved \in BOOLEAN : ApproveInstitution(u, approved)

EvaluationNext ==
  \E t \in Threads :
    \/ \E u \in Users : BeginEvaluation(t, u) \/ \E i \in Evaluations : BeginReview(t, u, i)
    \/ \E clean \in BOOLEAN :
         \/ CreateEvaluation(t, clean)
         \/ \E decision \in {"continue_pilot", "rework", "expand"} :
              ReviewEvaluation(t, decision, clean)
    \/ Abandon(t)

Next == OnboardingNext \/ ChangeManagers \/ EvaluationNext

Spec == Init /\ [][Next]_vars

-----------------------------------------------------------------------------
(* What must hold *)

\* An institution created here is approved only on complete evidence that one person
\* submitted and an administrator who is someone else accepted
\* (docs/milestone-8.md:22-29).
NoBypass ==
  institution.origin = "created" /\ institution.is_approved =>
    /\ profile.status = "approved" /\ profile.evidence \in Complete
    /\ profile.submitted_by \in Users
    /\ profile.reviewed_by \in Admins \ {profile.submitted_by}

\* Evidence is replaced, submitted and decided on only by someone whose page shows it
\* as it is (check_version; docs/milestone-8.md:24-25).
NoBlindChange ==
  [][profile' # profile /\ institution.origin # "none" =>
       \E u \in Users : page[u] = profile /\ page'[u] = profile']_vars

\* A decision to expand is taken while the institution is approved, accepted and fully
\* set up, on a report that found it so at the start as well, and never by the author
\* (review_evaluation; docs/milestone-8.md:74-86).
ExpandedOnGrounds ==
  [][\A i \in Evaluations :
       evaluation'[i].decision = "expand" /\ evaluation[i].decision # "expand" =>
         /\ institution.is_approved /\ profile.status = "approved" /\ SetupComplete
         /\ evaluation[i].gates
         /\ evaluation'[i].reviewed_by \in Admins \ {evaluation[i].created_by}]_vars

\* An evaluation is decided once, and neither its report nor its decision changes
\* after that (docs/milestone-8.md:67,85-86).
DecidedOnce ==
  [][\A i \in Evaluations : evaluation[i] # NoEvaluation /\ evaluation'[i] # evaluation[i] =>
       /\ evaluation[i].decision = "pending" /\ evaluation'[i].decision # "pending"
       /\ evaluation'[i].gates = evaluation[i].gates]_vars
=============================================================================
