-------------------------- MODULE OnboardingProofs --------------------------
(***************************************************************************)
(* Proofs about Onboarding for any number of people, evaluations, requests *)
(* and versions: no approval without a review by two people, no change by  *)
(* someone who has not seen what is there, and expansion only on grounds   *)
(* that still hold when it is decided.                                     *)
(***************************************************************************)
EXTENDS Onboarding, TLAPS

\* What is submitted is complete and has a submitter, and what is approved was
\* accepted by an administrator who is not the submitter.
Reviewed ==
  /\ profile.status \in {"submitted", "approved"} =>
       profile.evidence \in Complete /\ profile.submitted_by \in Users
  /\ profile.status = "approved" => profile.reviewed_by \in Admins \ {profile.submitted_by}

\* A created institution has its onboarding from the start, and an institution that
\* does not exist has none.
HasOnboarding ==
  /\ institution.origin = "created" => profile.version > 0
  /\ institution.origin = "none" => profile = NoProfile /\ ~institution.is_approved

\* A page with the present version shows the present onboarding.
Pages == \A u \in Users : /\ page[u].version <= profile.version
                          /\ page[u].version = profile.version => page[u] = profile

\* Whoever writes a report holds the institution, has read its approval, and reviews
\* an undecided evaluation of somebody else.
Held ==
  \A t \in Threads : report[t] # Idle =>
    /\ \A s \in Threads : report[s] # Idle => s = t
    /\ report[t].is_approved = institution.is_approved
    /\ report[t].item \in Evaluations =>
         /\ Undecided(report[t].item)
         /\ report[t].by \in Admins \ {evaluation[report[t].item].created_by}

IInv == TypeOK /\ NoBypass /\ Reviewed /\ HasOnboarding /\ Pages /\ Held

LEMMA IdleIsNoReport ==
  ASSUME NEW r \in Report
  PROVE  r # Idle /\ r.item # "idle"
BY NoneIsNoEvaluation DEF Report, Idle

LEMMA PendingIsARow ==
  ASSUME TypeOK, NEW i \in Evaluations, evaluation[i].decision # "none"
  PROVE  evaluation[i] \in Evaluation
BY DEF TypeOK, NoEvaluation

LEMMA Initially == Init => IInv
<1>. SUFFICES ASSUME Init PROVE IInv
  OBVIOUS
<1>1. NoProfile \in Profile
  BY SomeEvidence DEF NoProfile, Profile, Status
<1>2. TypeOK
  <2>1. institution \in Institution
    <3>1. \A origin \in {"none", "legacy"}, b \in BOOLEAN :
            [origin |-> origin, is_approved |-> b] \in Institution
      BY DEF Institution
    <3>. QED
      BY <3>1 DEF Init
  <2>2. page \in [Users -> Profile] /\ profile \in Profile
    BY <1>1 DEF Init
  <2>3. (profile.version = 0) = (profile.status = "not_started")
    BY DEF Init, NoProfile
  <2>. QED
    BY <2>1, <2>2, <2>3 DEF Init, TypeOK
<1>. QED
  BY <1>1, <1>2 DEF Init, IInv, NoBypass, Reviewed, HasOnboarding, Pages, Held, NoProfile, Profile

-----------------------------------------------------------------------------
(* The onboarding *)

\* The profile is replaced by its next version, by somebody whose page shows it.
Versioned(u) ==
  /\ u \in Users /\ LockInstitution /\ page[u].version = profile.version
  /\ profile' \in Profile /\ profile'.version = profile.version + 1
  /\ page' = [page EXCEPT ![u] = profile']
  /\ UNCHANGED <<institution, managers, configured, evaluation, report>>
  /\ profile'.status # "not_started" /\ profile.status # "approved" /\ Reviewed'

LEMMA OnboardingVersions ==
  ASSUME IInv, NEW u \in Users
  PROVE  /\ \A evidence \in Evidence : SaveOnboarding(u, evidence) => Versioned(u)
         /\ SubmitOnboarding(u) => Versioned(u)
         /\ \A decision \in {"approved", "changes_requested"} :
              ReviewOnboarding(u, decision) => Versioned(u)
<1>. USE DEF IInv, Versioned, CheckVersion, Editable
<1>0. profile \in Profile
  BY DEF TypeOK
<1>1. ASSUME NEW evidence \in Evidence, SaveOnboarding(u, evidence)
      PROVE  Versioned(u)
  <2>. DEFINE p1 == [profile EXCEPT !.version = @ + 1]
              p2 == [p1 EXCEPT !.status = "draft"]
  <2>1. p1 \in Profile /\ p1.version = profile.version + 1
    BY <1>0 DEF Profile
  <2>. HIDE DEF p1
  <2>2. p2 \in Profile /\ p2.version = profile.version + 1 /\ p2.status = "draft"
    BY <2>1 DEF Profile, Status
  <2>3. profile' = [p2 EXCEPT !.evidence = evidence]
    BY <1>1 DEF SaveOnboarding, p1
  <2>. HIDE DEF p2
  <2>4. profile' \in Profile /\ profile'.version = profile.version + 1 /\ profile'.status = "draft"
    BY <2>2, <2>3 DEF Profile
  <2>. QED
    BY <1>1, <2>4 DEF SaveOnboarding, Reviewed
<1>2. ASSUME SubmitOnboarding(u)
      PROVE  Versioned(u)
  <2>. DEFINE p1 == [profile EXCEPT !.version = @ + 1]
              p2 == [p1 EXCEPT !.status = "submitted"]
  <2>1. p1 \in Profile /\ p1.version = profile.version + 1 /\ p1.evidence = profile.evidence
    BY <1>0 DEF Profile
  <2>. HIDE DEF p1
  <2>2. /\ p2 \in Profile /\ p2.version = profile.version + 1 /\ p2.status = "submitted"
        /\ p2.evidence = profile.evidence
    BY <2>1 DEF Profile, Status
  <2>3. profile' = [p2 EXCEPT !.submitted_by = u]
    BY <1>2 DEF SubmitOnboarding, p1
  <2>. HIDE DEF p2
  <2>4. /\ profile' \in Profile /\ profile'.version = profile.version + 1
        /\ profile'.status = "submitted" /\ profile'.evidence = profile.evidence
        /\ profile'.submitted_by = u
    BY <2>2, <2>3 DEF Profile
  <2>. QED
    BY <1>2, <2>4 DEF SubmitOnboarding, Reviewed
<1>3. ASSUME NEW decision \in {"approved", "changes_requested"}, ReviewOnboarding(u, decision)
      PROVE  Versioned(u)
  <2>. DEFINE p1 == [profile EXCEPT !.version = @ + 1]
              p2 == [p1 EXCEPT !.status = decision]
  <2>1. /\ p1 \in Profile /\ p1.version = profile.version + 1 /\ p1.evidence = profile.evidence
        /\ p1.submitted_by = profile.submitted_by
    BY <1>0 DEF Profile
  <2>. HIDE DEF p1
  <2>2. /\ p2 \in Profile /\ p2.version = profile.version + 1 /\ p2.status = decision
        /\ p2.evidence = profile.evidence /\ p2.submitted_by = profile.submitted_by
    BY <2>1 DEF Profile, Status
  <2>3. profile' = [p2 EXCEPT !.reviewed_by = u]
    BY <1>3 DEF ReviewOnboarding, p1
  <2>. HIDE DEF p2
  <2>4. /\ profile' \in Profile /\ profile'.version = profile.version + 1
        /\ profile'.status = decision /\ profile'.evidence = profile.evidence
        /\ profile'.submitted_by = profile.submitted_by /\ profile'.reviewed_by = u
    BY <2>2, <2>3 DEF Profile
  <2>. QED
    BY <1>3, <2>4 DEF ReviewOnboarding, Reviewed
<1>. QED
  BY <1>1, <1>2, <1>3

LEMMA VersionedStep ==
  ASSUME IInv, NEW u, Versioned(u)
  PROVE  IInv'
<1>. USE DEF IInv, Versioned
<1>1. profile.version \in Nat /\ \A w \in Users : page[w] \in Profile /\ page[w].version \in Nat
  BY DEF TypeOK, Profile
<1>2. TypeOK'
  BY <1>1 DEF TypeOK
<1>3. Pages'
  BY <1>1 DEF Pages, TypeOK
<1>4. NoBypass'
  BY DEF NoBypass, LockInstitution
<1>5. HasOnboarding'
  BY <1>1 DEF HasOnboarding, LockInstitution
<1>6. Held'
  BY DEF Held, Undecided
<1>. QED
  BY <1>2, <1>3, <1>4, <1>5, <1>6

LEMMA InstitutionStep ==
  ASSUME IInv, NEW u \in Users,
         \/ CreateInstitution(u)
         \/ \E approved \in BOOLEAN : ApproveInstitution(u, approved)
  PROVE  IInv'
<1>. USE DEF IInv
<1>1. CASE CreateInstitution(u)
  <2>. DEFINE p1 == [NoProfile EXCEPT !.version = 1]
  <2>1. p1 \in Profile /\ p1.version = 1
    BY SomeEvidence DEF Profile, NoProfile, Status
  <2>2. profile' = [p1 EXCEPT !.status = "draft"]
    BY <1>1 DEF CreateInstitution
  <2>. HIDE DEF p1
  <2>3. profile' \in Profile /\ profile'.version = 1 /\ profile'.status = "draft"
    BY <2>1, <2>2 DEF Profile, Status
  <2>4. profile = NoProfile /\ profile.version = 0
    BY <1>1 DEF CreateInstitution, HasOnboarding, NoProfile
  <2>5. \A t \in Threads : report[t] # Idle => report[t].is_approved = FALSE
    BY <1>1 DEF CreateInstitution, HasOnboarding, Held, TypeOK, Institution, Report
  <2>6. TypeOK'
    BY <1>1, <2>3 DEF CreateInstitution, TypeOK, Institution
  <2>7. Pages'
    <3>1. \A w \in Users : page[w].version \in Nat
      BY DEF TypeOK, Profile
    <3>. QED
      BY <1>1, <2>3, <2>4, <3>1 DEF CreateInstitution, Pages
  <2>8. Held'
    BY <1>1, <2>5 DEF CreateInstitution, Held, Undecided
  <2>. QED
    BY <1>1, <2>3, <2>6, <2>7, <2>8 DEF CreateInstitution, NoBypass, Reviewed, HasOnboarding
<1>2. ASSUME NEW approved \in BOOLEAN, ApproveInstitution(u, approved)
      PROVE  IInv'
  <2>1. /\ institution' \in Institution /\ institution'.origin = institution.origin
        /\ institution'.is_approved = approved
    BY <1>2 DEF ApproveInstitution, TypeOK, Institution
  <2>2. TypeOK' /\ Pages' /\ Reviewed'
    BY <1>2, <2>1 DEF ApproveInstitution, TypeOK, Pages, Reviewed
  <2>3. NoBypass'
    BY <1>2, <2>1 DEF ApproveInstitution, NoBypass, HasOnboarding, Reviewed
  <2>4. HasOnboarding'
    BY <1>2, <2>1 DEF ApproveInstitution, HasOnboarding, LockInstitution
  <2>5. Held'
    BY <1>2 DEF ApproveInstitution, Held, LockInstitution
  <2>. QED
    BY <2>2, <2>3, <2>4, <2>5
<1>. QED
  BY <1>1, <1>2

LEMMA SetupStep ==
  ASSUME IInv, NEW u \in Users, ReadOnboarding(u) \/ Configure(u) \/ ChangeManagers
  PROVE  IInv'
<1>. USE DEF IInv
<1>1. CASE ReadOnboarding(u)
  <2>1. profile.version \in Nat
    BY DEF TypeOK, Profile
  <2>. QED
    BY <1>1, <2>1 DEF ReadOnboarding, TypeOK, NoBypass, Reviewed, HasOnboarding, Pages, Held, Undecided
<1>2. CASE Configure(u)
  BY <1>2 DEF Configure, TypeOK, NoBypass, Reviewed, HasOnboarding, Pages, Held, Undecided
<1>3. CASE ChangeManagers
  BY <1>3 DEF ChangeManagers, TypeOK, NoBypass, Reviewed, HasOnboarding, Pages, Held, Undecided
<1>. QED
  BY <1>1, <1>2, <1>3

-----------------------------------------------------------------------------
(* The evaluations *)

LEMMA BeginStep ==
  ASSUME IInv, NEW t \in Threads, NEW u \in Users,
         BeginEvaluation(t, u) \/ \E i \in Evaluations : BeginReview(t, u, i)
  PROVE  IInv'
<1>. USE DEF IInv
<1>1. /\ \A s \in Threads : report[s] = Idle
      /\ UNCHANGED <<institution, profile, page, managers, configured, evaluation>>
  BY DEF BeginEvaluation, BeginReview, LockInstitution
<1>2. PICK i \in Evaluations \cup {"none"} :
        /\ report' = [report EXCEPT ![t] = Begun(u, i)]
        /\ i \in Evaluations => /\ u \in Admins /\ Undecided(i)
                                /\ evaluation[i].created_by # u
  BY NoneIsNoEvaluation DEF BeginEvaluation, BeginReview, Goto
<1>. DEFINE r == Begun(u, i)
<1>3. r \in Report /\ r.item = i /\ r.by = u /\ r.is_approved = institution.is_approved
  BY DEF Begun, Report, TypeOK, Institution
<1>4. report' = [report EXCEPT ![t] = r]
  BY <1>2
<1>. HIDE DEF r
<1>5. TypeOK'
  BY <1>1, <1>3, <1>4 DEF TypeOK
<1>6. Held'
  BY <1>1, <1>2, <1>3, <1>4 DEF TypeOK, Held, Undecided
<1>. QED
  BY <1>1, <1>5, <1>6 DEF NoBypass, Reviewed, HasOnboarding, Pages

LEMMA FinishStep ==
  ASSUME IInv, NEW t \in Threads,
         \/ \E clean \in BOOLEAN :
              \/ CreateEvaluation(t, clean)
              \/ \E decision \in {"continue_pilot", "rework", "expand"} :
                   ReviewEvaluation(t, decision, clean)
         \/ Abandon(t)
  PROVE  IInv'
<1>. USE DEF IInv
<1>1. /\ report' = [report EXCEPT ![t] = Idle]
      /\ UNCHANGED <<institution, profile, page, managers, configured>>
  BY DEF CreateEvaluation, ReviewEvaluation, Abandon, Goto
<1>2. report[t] \in Report /\ report[t] # Idle
  BY NoneIsNoEvaluation, IdleIsNoReport
     DEF CreateEvaluation, ReviewEvaluation, Abandon, TypeOK, Idle
<1>3. \A s \in Threads : report'[s] = Idle
  BY <1>1, <1>2 DEF Held, TypeOK
<1>4. evaluation' \in [Evaluations -> Evaluation \cup {NoEvaluation}]
  <2>1. ASSUME NEW clean \in BOOLEAN, CreateEvaluation(t, clean)
        PROVE  evaluation' \in [Evaluations -> Evaluation \cup {NoEvaluation}]
    <3>. DEFINE row == [created_by |-> report[t].by, gates |-> Gates(report[t], clean),
                        decision |-> "pending", reviewed_by |-> "none"]
    <3>1. Gates(report[t], clean) \in BOOLEAN
      BY DEF Gates
    <3>2. row \in Evaluation
      BY <1>2, <3>1 DEF Evaluation, Report
    <3>3. PICK i \in Evaluations : evaluation' = [evaluation EXCEPT ![i] = row]
      BY <2>1 DEF CreateEvaluation
    <3>. QED
      BY <3>2, <3>3 DEF TypeOK
  <2>2. ASSUME NEW clean \in BOOLEAN, NEW decision \in {"continue_pilot", "rework", "expand"},
               ReviewEvaluation(t, decision, clean)
        PROVE  evaluation' \in [Evaluations -> Evaluation \cup {NoEvaluation}]
    <3>. DEFINE i == report[t].item
                e1 == [evaluation[i] EXCEPT !.decision = decision]
                e2 == [e1 EXCEPT !.reviewed_by = report[t].by]
    <3>1. i \in Evaluations /\ evaluation[i] \in Evaluation /\ report[t].by \in Users
      BY <1>2, <2>2 DEF ReviewEvaluation, Held, Undecided, TypeOK, NoEvaluation, Report
    <3>2. evaluation' = [evaluation EXCEPT ![i] = e2]
      BY <2>2 DEF ReviewEvaluation
    <3>. HIDE DEF i
    <3>3. e1 \in Evaluation
      BY <3>1 DEF Evaluation
    <3>. HIDE DEF e1
    <3>4. e2 \in Evaluation
      BY <3>1, <3>3 DEF Evaluation
    <3>. HIDE DEF e2
    <3>. QED
      BY <3>2, <3>4 DEF TypeOK
  <2>3. CASE Abandon(t)
    BY <2>3 DEF Abandon, TypeOK
  <2>. QED
    BY <2>1, <2>2, <2>3
<1>5. TypeOK'
  BY <1>1, <1>4 DEF TypeOK
<1>. QED
  BY <1>1, <1>3, <1>5 DEF Held, NoBypass, Reviewed, HasOnboarding, Pages

LEMMA Preserved == IInv /\ [Next]_vars => IInv'
<1>. SUFFICES ASSUME IInv, [Next]_vars
              PROVE  IInv'
  OBVIOUS
<1>1. CASE OnboardingNext
  BY <1>1, OnboardingVersions, VersionedStep, InstitutionStep, SetupStep DEF OnboardingNext
<1>2. CASE ChangeManagers
  <2>1. PICK u \in Users : TRUE
    BY <1>2 DEF ChangeManagers
  <2>. QED
    BY <1>2, <2>1, SetupStep
<1>3. CASE EvaluationNext
  BY <1>3, BeginStep, FinishStep DEF EvaluationNext
<1>4. CASE UNCHANGED vars
  BY <1>4 DEF vars, IInv, TypeOK, NoBypass, Reviewed, HasOnboarding, Pages, Held, Undecided
<1>. QED
  BY <1>1, <1>2, <1>3, <1>4 DEF Next

LEMMA Invariance == Spec => []IInv
BY Initially, Preserved, PTL DEF Spec

\* Institutions, onboardings, pages, evaluations and reports keep their types.
THEOREM OnboardingTyped == Spec => []TypeOK
<1>1. IInv => TypeOK
  BY DEF IInv
<1>. QED
  BY <1>1, Invariance, PTL

\* No created institution is approved but on complete evidence that two people stand for.
THEOREM ApprovedAfterReview == Spec => []NoBypass
<1>1. IInv => NoBypass
  BY DEF IInv
<1>. QED
  BY <1>1, Invariance, PTL

\* The onboarding of an existing institution changes only by a step that replaces it
\* with its next version.
LEMMA ProfileChanges ==
  ASSUME IInv, [Next]_vars, profile' # profile, institution.origin # "none"
  PROVE  \E u \in Users : Versioned(u)
BY OnboardingVersions
   DEF Next, OnboardingNext, EvaluationNext, CreateInstitution, ReadOnboarding, Configure,
       ApproveInstitution, ChangeManagers, BeginEvaluation, BeginReview, CreateEvaluation,
       ReviewEvaluation, Abandon, vars

\* An evaluation changes when it is created and when it is decided.
LEMMA EvaluationChanges ==
  ASSUME IInv, [Next]_vars, NEW i \in Evaluations, evaluation'[i] # evaluation[i]
  PROVE  \/ evaluation[i] = NoEvaluation /\ evaluation'[i].decision = "pending"
         \/ \E t \in Threads, decision \in {"continue_pilot", "rework", "expand"},
               clean \in BOOLEAN :
              /\ ReviewEvaluation(t, decision, clean) /\ report[t].item = i
              /\ evaluation[i].decision = "pending"
              /\ evaluation'[i].decision = decision /\ evaluation'[i].gates = evaluation[i].gates
              /\ evaluation'[i].reviewed_by = report[t].by
<1>. USE DEF IInv
<1>1. ASSUME NEW t \in Threads, NEW clean \in BOOLEAN, CreateEvaluation(t, clean)
      PROVE  evaluation[i] = NoEvaluation /\ evaluation'[i].decision = "pending"
  BY <1>1 DEF CreateEvaluation, TypeOK
<1>2. ASSUME NEW t \in Threads, NEW decision \in {"continue_pilot", "rework", "expand"},
             NEW clean \in BOOLEAN, ReviewEvaluation(t, decision, clean)
      PROVE  /\ report[t].item = i /\ evaluation[i].decision = "pending"
             /\ evaluation'[i].decision = decision /\ evaluation'[i].gates = evaluation[i].gates
             /\ evaluation'[i].reviewed_by = report[t].by
  <2>1. report[t].item = i
    BY <1>2 DEF ReviewEvaluation, TypeOK
  <2>2. Undecided(i) /\ evaluation[i] \in Evaluation
    BY <1>2, <2>1, NoneIsNoEvaluation DEF Held, Undecided, TypeOK, NoEvaluation, Idle
  <2>. DEFINE e1 == [evaluation[i] EXCEPT !.decision = decision]
  <2>3. /\ e1 \in Evaluation /\ e1.decision = decision /\ e1.gates = evaluation[i].gates
    BY <2>2 DEF Evaluation
  <2>4. evaluation'[i] = [e1 EXCEPT !.reviewed_by = report[t].by]
    BY <1>2, <2>1 DEF ReviewEvaluation, TypeOK
  <2>. HIDE DEF e1
  <2>. QED
    BY <2>1, <2>2, <2>3, <2>4 DEF Undecided, Evaluation
<1>. QED
  BY <1>1, <1>2
     DEF Next, OnboardingNext, EvaluationNext, CreateInstitution, ReadOnboarding, Configure,
         SaveOnboarding, SubmitOnboarding, ReviewOnboarding, ApproveInstitution, ChangeManagers,
         BeginEvaluation, BeginReview, Abandon, vars

\* Evidence is replaced, submitted and decided on only by someone whose page shows it.
THEOREM ChangedOnSight == Spec => NoBlindChange
<1>1. IInv /\ [Next]_vars =>
        [profile' # profile /\ institution.origin # "none" =>
           \E u \in Users : page[u] = profile /\ page'[u] = profile']_vars
  <2>. SUFFICES ASSUME IInv, [Next]_vars, profile' # profile, institution.origin # "none"
                PROVE  \E u \in Users : page[u] = profile /\ page'[u] = profile'
    OBVIOUS
  <2>1. PICK u \in Users : Versioned(u)
    BY ProfileChanges DEF Versioned
  <2>. QED
    BY <2>1 DEF Versioned, IInv, Pages, TypeOK
<1>. QED
  BY <1>1, Invariance, PTL DEF Spec, NoBlindChange

\* A decision to expand rests on grounds that hold when it is taken.
THEOREM ExpansionGrounds == Spec => ExpandedOnGrounds
<1>1. ASSUME IInv, [Next]_vars, NEW i \in Evaluations,
             evaluation'[i].decision = "expand", evaluation[i].decision # "expand"
      PROVE  /\ institution.is_approved /\ profile.status = "approved" /\ SetupComplete
             /\ evaluation[i].gates
             /\ evaluation'[i].reviewed_by \in Admins \ {evaluation[i].created_by}
  <2>1. PICK t \in Threads, decision \in {"continue_pilot", "rework", "expand"},
             clean \in BOOLEAN :
          /\ ReviewEvaluation(t, decision, clean) /\ report[t].item = i
          /\ evaluation'[i].decision = decision /\ evaluation'[i].reviewed_by = report[t].by
    BY <1>1, EvaluationChanges
  <2>2. report[t] # Idle
    BY <2>1, NoneIsNoEvaluation DEF Idle
  <2>3. evaluation[i].gates /\ Gates(report[t], clean)
    BY <1>1, <2>1 DEF ReviewEvaluation
  <2>. QED
    BY <1>1, <2>1, <2>2, <2>3 DEF Gates, IInv, Held
<1>2. IInv /\ [Next]_vars =>
        [\A i \in Evaluations :
           evaluation'[i].decision = "expand" /\ evaluation[i].decision # "expand" =>
             /\ institution.is_approved /\ profile.status = "approved" /\ SetupComplete
             /\ evaluation[i].gates
             /\ evaluation'[i].reviewed_by \in Admins \ {evaluation[i].created_by}]_vars
  BY <1>1
<1>. QED
  BY <1>2, Invariance, PTL DEF Spec, ExpandedOnGrounds

\* An evaluation is decided once and keeps its report.
THEOREM DecisionsStand == Spec => DecidedOnce
<1>1. ASSUME IInv, [Next]_vars, NEW i \in Evaluations,
             evaluation[i] # NoEvaluation, evaluation'[i] # evaluation[i]
      PROVE  /\ evaluation[i].decision = "pending" /\ evaluation'[i].decision # "pending"
             /\ evaluation'[i].gates = evaluation[i].gates
  BY <1>1, EvaluationChanges
<1>2. IInv /\ [Next]_vars =>
        [\A i \in Evaluations : evaluation[i] # NoEvaluation /\ evaluation'[i] # evaluation[i] =>
           /\ evaluation[i].decision = "pending" /\ evaluation'[i].decision # "pending"
           /\ evaluation'[i].gates = evaluation[i].gates]_vars
  BY <1>1
<1>. QED
  BY <1>2, Invariance, PTL DEF Spec, DecidedOnce
=============================================================================
