------------------------ MODULE TrialLifecycleProofs ------------------------
(***************************************************************************)
(* Proofs about TrialLifecycle, for any number of versions, candidates,    *)
(* texts and operator interventions.                                       *)
(***************************************************************************)
EXTENDS TrialLifecycle, TLAPS

-----------------------------------------------------------------------------
(* The inductive invariant.  Besides the three invariants proved it says   *)
(* that whatever names a version names one that exists, so that the next   *)
(* version_index is fresh, and that version 1 is never pending.            *)

Grounded ==
  /\ trial.active # None => Exists(trial.active)
  /\ trial.active = None => \A v \in Versions : ~Exists(v)
  /\ trial.status = "generating" =>
       trial.pending = None /\ \A v \in Versions : Exists(v) => v = 1
  /\ trial.pending # 1
  /\ trial.status = "active_inviting" => trial.active # None
  /\ \A c \in Candidates : session[c].version # None => Exists(session[c].version)
  /\ \A v \in Versions : job[v] # "absent" => Exists(v)

TrialInv ==
  /\ TypeOK
  /\ Grounded
  /\ PendingUnderReview
  /\ ApprovedOrPending
  /\ InvitingIsLocked

-----------------------------------------------------------------------------
(* The initial rows have the types of the tables. *)
LEMMA InitType == Init => TypeOK
<1> SUFFICES ASSUME Init PROVE TypeOK
  OBVIOUS
<1>1. trial \in Trials
  BY DEF Init, Trials, TRIAL_STATUSES
<1>2. AbsentVersion \in VersionRows /\ NoSession \in SessionRows
  BY DEF AbsentVersion, NoSession, VersionRows, SessionRows, VersionStatuses,
         SessionStatuses
<1>3. version \in [Versions -> VersionRows] /\ session \in [Candidates -> SessionRows]
  BY <1>2 DEF Init
<1>4. job \in [Jobs -> JobStatuses]
  BY DEF Init, JobStatuses
<1>5. taskSource \in Versions \cup {None} /\ budget \in Nat
  BY TrialLifecycleAssumption DEF Init
<1>6. cleanup \in BOOLEAN /\ switched \in BOOLEAN
  BY Zenon DEF Init
<1> QED
  BY <1>1, <1>3, <1>4, <1>5, <1>6 DEF TypeOK

(* Every operation keeps the types of the rows. *)
LEMMA NextType == TypeOK /\ [Next]_vars => TypeOK'
<1> SUFFICES ASSUME TypeOK, [Next]_vars PROVE TypeOK'
  OBVIOUS
<1> USE TrialLifecycleAssumption
    DEF TypeOK, Trials, VersionRows, SessionRows, TRIAL_STATUSES,
        VersionStatuses, JobStatuses, SessionStatuses, Versions, Jobs, None,
        Creation
<1>1. ASSUME NEW v \in Versions, Approve(v) PROVE TypeOK'
  BY ZenonT(60), <1>1 DEF Approve, Locked
<1>2. ASSUME NEW v \in Versions, UseFallback(v) PROVE TypeOK'
  <2>1. switched' \in BOOLEAN
    BY <1>2, Zenon DEF UseFallback
  <2>2. budget' \in Nat
    BY <1>2 DEF UseFallback
  <2>3. trial' \in Trials
    BY <1>2 DEF UseFallback
  <2> QED
    BY <1>2, <2>1, <2>2, <2>3 DEF UseFallback
<1>3. CASE Activate
  BY <1>3 DEF Activate
<1>4. CASE RestorePlaceholder
  <2>1. 1 \in Versions
    OBVIOUS
  <2>2. version' \in [Versions -> VersionRows]
    BY <1>4 DEF RestorePlaceholder
  <2>3. trial' \in Trials
    BY <1>4, <2>1 DEF RestorePlaceholder
  <2>4. job' \in [Jobs -> JobStatuses]
    BY <1>4 DEF RestorePlaceholder
  <2> QED
    BY <1>4, <2>2, <2>3, <2>4 DEF RestorePlaceholder
<1>5. CASE RequestRegeneration
  <2> PICK n \in Versions :
        /\ version' = [version EXCEPT ![n] =
                         [status |-> "generating", text |-> version[trial.active].text]]
        /\ trial' = [trial EXCEPT !.status = "ready_for_review", !.pending = n]
        /\ job' = enqueue_regeneration_job(n)
    BY <1>5 DEF RequestRegeneration
  <2>1. version[trial.active].text \in Texts \cup {NoText}
    BY <1>5 DEF RequestRegeneration
  <2>2. version' \in [Versions -> VersionRows]
    BY <2>1
  <2>3. trial' \in Trials
    OBVIOUS
  <2>4. job' \in [Jobs -> JobStatuses]
    BY DEF enqueue_regeneration_job
  <2> QED
    BY <1>5, <2>2, <2>3, <2>4 DEF RequestRegeneration
<1>6. ASSUME NEW text \in TextsOfUpdate, NEW status \in StatusesOfUpdate,
             UpdateActive(text, status)
      PROVE  TypeOK'
  <2>1. text \in Texts \cup {NoText} /\ status \in VersionStatuses
    BY <1>6 DEF TextsOfUpdate, StatusesOfUpdate
  <2> QED
    BY <1>6, <2>1 DEF UpdateActive
<1>7. ASSUME NEW v \in Versions, NEW text \in Texts, PatchVersion(v, text)
      PROVE  TypeOK'
  BY ZenonT(60), <1>7 DEF PatchVersion
<1>8. ASSUME NEW c \in Candidates, Invite(c) PROVE TypeOK'
  <2>1. version' \in [Versions -> VersionRows]
    BY ZenonT(60), <1>8 DEF Invite, create_or_resend_invite, Locked
  <2>2. session' \in [Candidates -> SessionRows]
    BY <1>8 DEF Invite, create_or_resend_invite
  <2> QED
    BY <1>8, <2>1, <2>2 DEF Invite, create_or_resend_invite
<1>9. CASE Terminate
  <2>1. session' \in [Candidates -> SessionRows]
    BY <1>9
    DEF Terminate, expire_pending_candidate_sessions, cancel_pending_trial_jobs
  <2>2. job' \in [Jobs -> JobStatuses]
    BY <1>9
    DEF Terminate, expire_pending_candidate_sessions, cancel_pending_trial_jobs
  <2> QED
    BY <1>9, <2>1, <2>2
    DEF Terminate, expire_pending_candidate_sessions, cancel_pending_trial_jobs
<1>10. ASSUME NEW j \in Jobs, RequeueJob(j) PROVE TypeOK'
  BY <1>10 DEF RequeueJob
<1>11. ASSUME NEW j \in Jobs, RunHandler(j) PROVE TypeOK'
  <2>1. CASE UNCHANGED <<trial, version, taskSource>>
    BY <1>11, <2>1 DEF RunHandler
  <2>2. CASE \E v \in Versions, t \in Texts :
               /\ version' = [version EXCEPT ![v] = [status |-> "ready", text |-> t]]
               /\ trial' = [trial EXCEPT !.status = "ready_for_review",
                              !.active = IF j = Creation THEN v ELSE @]
               /\ taskSource' = v
    <3> PICK v \in Versions, t \in Texts :
          /\ version' = [version EXCEPT ![v] = [status |-> "ready", text |-> t]]
          /\ trial' = [trial EXCEPT !.status = "ready_for_review",
                         !.active = IF j = Creation THEN v ELSE @]
          /\ taskSource' = v
      BY <2>2
    <3>1. version' \in [Versions -> VersionRows]
      OBVIOUS
    <3>2. trial' \in Trials
      OBVIOUS
    <3>3. job' \in [Jobs -> JobStatuses]
      BY <1>11 DEF RunHandler
    <3> QED
      BY <1>11, <3>1, <3>2, <3>3 DEF RunHandler
  <2> QED
    BY <1>11, <2>1, <2>2 DEF RunHandler
<1>12. ASSUME NEW j \in Jobs, FinishJob(j) PROVE TypeOK'
  BY <1>12 DEF FinishJob
<1>13. ASSUME NEW j \in Jobs, DeadLetterJob(j) PROVE TypeOK'
  BY <1>13 DEF DeadLetterJob
<1>14. CASE UNCHANGED vars
  BY <1>14 DEF vars
<1> QED
  BY <1>1, <1>2, <1>3, <1>4, <1>5, <1>6, <1>7, <1>8, <1>9, <1>10, <1>11,
     <1>12, <1>13, <1>14 DEF Next

(* The trial's rows keep their types. *)
THEOREM TypeCorrect == Spec => []TypeOK
  BY InitType, NextType, PTL DEF Spec

-----------------------------------------------------------------------------
(* Creation leaves a trial without versions, so everything holds of it. *)
LEMMA InitInv == Init => TrialInv
  BY InitType
  DEF Init, TrialInv, Grounded, PendingUnderReview, ApprovedOrPending,
      InvitingIsLocked, Exists, AbsentVersion, NoSession, Versions, Jobs, None,
      Creation

(* Every operation keeps the invariant. *)
LEMMA NextInv == TrialInv /\ [Next]_vars => TrialInv'
<1> SUFFICES ASSUME TrialInv, [Next]_vars PROVE TrialInv'
  OBVIOUS
<1>0. TypeOK /\ TypeOK'
  BY NextType DEF TrialInv
<1> DEFINE Kept == Grounded' /\ PendingUnderReview' /\ ApprovedOrPending'
                     /\ InvitingIsLocked'
<1> SUFFICES Kept
  BY <1>0 DEF TrialInv
<1> USE <1>0, TrialLifecycleAssumption
    DEF TrialInv, TypeOK, Trials, VersionRows, SessionRows, Versions, Jobs, None,
        Grounded, PendingUnderReview, ApprovedOrPending, InvitingIsLocked,
        Exists, Pinned
<1>1. ASSUME NEW v \in Versions, Approve(v) PROVE Kept
  <2>1. Grounded'
    BY <1>1 DEF Approve, Locked, Lockable
  <2>2. PendingUnderReview'
    BY <1>1 DEF Approve, Locked, Lockable
  <2>3. ApprovedOrPending'
    BY <1>1 DEF Approve, Locked, Lockable
  <2>4. InvitingIsLocked'
    BY <1>1 DEF Approve, Locked, Lockable
  <2> QED
    BY <2>1, <2>2, <2>3, <2>4
<1>2. ASSUME NEW v \in Versions, UseFallback(v) PROVE Kept
  <2>1. Grounded'
    BY <1>2 DEF UseFallback, assert_fallback_eligible, Lockable
  <2>2. PendingUnderReview'
    BY <1>2 DEF UseFallback, assert_fallback_eligible, Lockable
  <2>3. ApprovedOrPending'
    BY <1>2 DEF UseFallback, assert_fallback_eligible, Lockable
  <2>4. InvitingIsLocked'
    BY <1>2 DEF UseFallback, assert_fallback_eligible, Lockable
  <2> QED
    BY <2>1, <2>2, <2>3, <2>4
<1>3. CASE Activate
  <2>1. Grounded'
    BY <1>3 DEF Activate, require_locked_active_scenario
  <2>2. PendingUnderReview'
    BY <1>3 DEF Activate, require_locked_active_scenario
  <2>3. ApprovedOrPending'
    BY <1>3 DEF Activate, require_locked_active_scenario
  <2>4. InvitingIsLocked'
    BY <1>3 DEF Activate, require_locked_active_scenario
  <2> QED
    BY <2>1, <2>2, <2>3, <2>4
<1>4. CASE RestorePlaceholder
  <2>1. Grounded'
    BY <1>4 DEF RestorePlaceholder
  <2>2. PendingUnderReview'
    BY <1>4 DEF RestorePlaceholder
  <2>3. ApprovedOrPending'
    BY <1>4 DEF RestorePlaceholder
  <2>4. InvitingIsLocked'
    BY <1>4 DEF RestorePlaceholder
  <2> QED
    BY <2>1, <2>2, <2>3, <2>4
<1>5. CASE RequestRegeneration
  <2>1. Grounded'
    BY <1>5
    DEF RequestRegeneration, next_version_index, enqueue_regeneration_job
  <2>2. PendingUnderReview'
    BY <1>5
    DEF RequestRegeneration, next_version_index, enqueue_regeneration_job
  <2>3. ApprovedOrPending'
    BY <1>5
    DEF RequestRegeneration, next_version_index, enqueue_regeneration_job
  <2>4. InvitingIsLocked'
    BY <1>5
    DEF RequestRegeneration, next_version_index, enqueue_regeneration_job
  <2> QED
    BY <2>1, <2>2, <2>3, <2>4
<1>6. ASSUME NEW text \in TextsOfUpdate, NEW status \in StatusesOfUpdate,
             UpdateActive(text, status)
      PROVE  Kept
  <2>1. Grounded'
    BY <1>6 DEF UpdateActive, StatusesOfUpdate, ensure_scenario_version_mutable
  <2>2. PendingUnderReview'
    BY <1>6 DEF UpdateActive, StatusesOfUpdate, ensure_scenario_version_mutable
  <2>3. ApprovedOrPending'
    BY <1>6 DEF UpdateActive, StatusesOfUpdate, ensure_scenario_version_mutable
  <2>4. InvitingIsLocked'
    BY <1>6 DEF UpdateActive, StatusesOfUpdate, ensure_scenario_version_mutable
  <2> QED
    BY <2>1, <2>2, <2>3, <2>4
<1>7. ASSUME NEW v \in Versions, NEW text \in Texts, PatchVersion(v, text)
      PROVE  Kept
  <2>1. Grounded'
    BY <1>7 DEF PatchVersion, ensure_patch_allowed
  <2>2. PendingUnderReview'
    BY <1>7 DEF PatchVersion, ensure_patch_allowed
  <2>3. ApprovedOrPending'
    BY <1>7 DEF PatchVersion, ensure_patch_allowed
  <2>4. InvitingIsLocked'
    BY <1>7 DEF PatchVersion, ensure_patch_allowed
  <2> QED
    BY <2>1, <2>2, <2>3, <2>4
<1>8. ASSUME NEW c \in Candidates, Invite(c) PROVE Kept
  <2>1. Grounded'
    <3>1. \A v \in Versions : Exists(v)' <=> Exists(v)
      BY <1>8 DEF Invite, create_or_resend_invite, Locked, Lockable
    <3>2. \A d \in Candidates :
            session'[d].version \in {session[d].version, trial.active}
      BY <1>8 DEF Invite, create_or_resend_invite
    <3>3. \A d \in Candidates :
            session'[d].version # None => Exists(session'[d].version)
      BY <3>2
    <3>4. \A d \in Candidates : session'[d].version \in Versions \cup {None}
      BY <1>0
    <3>5. \A d \in Candidates :
            session'[d].version # None => Exists(session[d].version)'
      BY <3>1, <3>3, <3>4
    <3>6. trial' = trial /\ job' = job
      BY <1>8 DEF Invite, create_or_resend_invite
    <3> QED
      BY <3>1, <3>5, <3>6
  <2>2. PendingUnderReview'
    BY <1>8
    DEF Invite, create_or_resend_invite, require_trial_invitable, Locked, Lockable
  <2>3. ApprovedOrPending'
    BY <1>8
    DEF Invite, create_or_resend_invite, require_trial_invitable, Locked, Lockable
  <2>4. InvitingIsLocked'
    BY <1>8
    DEF Invite, create_or_resend_invite, require_trial_invitable, Locked, Lockable
  <2> QED
    BY <2>1, <2>2, <2>3, <2>4
<1>9. CASE Terminate
  <2>1. Grounded'
    BY <1>9
    DEF Terminate, expire_pending_candidate_sessions, cancel_pending_trial_jobs
  <2>2. PendingUnderReview'
    BY <1>9
    DEF Terminate, expire_pending_candidate_sessions, cancel_pending_trial_jobs
  <2>3. ApprovedOrPending'
    BY <1>9
    DEF Terminate, expire_pending_candidate_sessions, cancel_pending_trial_jobs
  <2>4. InvitingIsLocked'
    BY <1>9
    DEF Terminate, expire_pending_candidate_sessions, cancel_pending_trial_jobs
  <2> QED
    BY <2>1, <2>2, <2>3, <2>4
<1>10. ASSUME NEW j \in Jobs, RequeueJob(j) PROVE Kept
  <2>1. Grounded'
    BY <1>10 DEF RequeueJob
  <2>2. PendingUnderReview'
    BY <1>10 DEF RequeueJob
  <2>3. ApprovedOrPending'
    BY <1>10 DEF RequeueJob
  <2>4. InvitingIsLocked'
    BY <1>10 DEF RequeueJob
  <2> QED
    BY <2>1, <2>2, <2>3, <2>4
<1>11. ASSUME NEW j \in Jobs, RunHandler(j) PROVE Kept
  <2>0. job' = [job EXCEPT ![j] = "ran"] /\ session' = session /\ Live(j)
           /\ switched' = switched
    BY <1>11, Zenon DEF RunHandler
  <2>1. CASE UNCHANGED <<trial, version, taskSource>>
    <3>1. \A u \in Jobs : job'[u] # "absent" => job[u] # "absent"
      BY <2>0 DEF Live
    <3>2. Grounded'
      BY <2>0, <2>1, <3>1
    <3> QED
      BY <2>0, <2>1, <3>2
  <2>2. CASE ~UNCHANGED <<trial, version, taskSource>>
    <3> PICK v \in Versions, t \in Texts :
          /\ v = generation_target(j)
          /\ version' = [version EXCEPT ![v] = [status |-> "ready", text |-> t]]
          /\ trial' = [trial EXCEPT !.status = "ready_for_review",
                         !.active = IF j = Creation THEN v ELSE @]
      BY <1>11, <2>2 DEF RunHandler
    <3> DEFINE target == IF j = Creation THEN 1 ELSE j
    <3>1. handler_may_apply(trial) /\ v = target
      <4>1. handler_may_apply(trial)
        BY DEF generation_target
      <4>2. CASE j = Creation
        BY <4>1, <4>2 DEF generation_target
      <4>3. CASE j # Creation
        BY <4>1, <4>3 DEF generation_target
      <4> QED
        BY <4>1, <4>2, <4>3
    <3>2. j # Creation => version[v].status # "locked"
      BY <3>1 DEF generation_target, Creation
    <3>3. j # Creation => Exists(v)
      BY <2>0, <3>1 DEF Live, Creation
    <3>4. Exists(v)' /\ \A u \in Versions \ {v} : version'[u] = version[u]
      OBVIOUS
    <3>5. /\ trial'.status = "ready_for_review"
          /\ trial'.pending = trial.pending
          /\ trial'.active = IF j = Creation THEN v ELSE trial.active
      OBVIOUS
    <3>6. session' = session /\ \A u \in Jobs \ {j} : job'[u] = job[u]
      BY <2>0
    <3>7. Grounded'
      BY <3>1, <3>3, <3>4, <3>5, <3>6 DEF Creation
    <3>8. PendingUnderReview'
      BY <3>1, <3>2, <3>4, <3>5, <3>6 DEF Creation, handler_may_apply
    <3>9. ApprovedOrPending'
      BY <3>1, <3>2, <3>3, <3>4, <3>5 DEF Creation
    <3>10. InvitingIsLocked'
      BY <3>5
    <3> QED
      BY <3>7, <3>8, <3>9, <3>10
  <2> QED
    BY <2>1, <2>2
<1>12. ASSUME NEW j \in Jobs, FinishJob(j) PROVE Kept
  <2>1. Grounded'
    BY <1>12 DEF FinishJob
  <2>2. PendingUnderReview'
    BY <1>12 DEF FinishJob
  <2>3. ApprovedOrPending'
    BY <1>12 DEF FinishJob
  <2>4. InvitingIsLocked'
    BY <1>12 DEF FinishJob
  <2> QED
    BY <2>1, <2>2, <2>3, <2>4
<1>13. ASSUME NEW j \in Jobs, DeadLetterJob(j) PROVE Kept
  <2>1. Grounded'
    BY <1>13 DEF DeadLetterJob, Live
  <2>2. PendingUnderReview'
    BY <1>13 DEF DeadLetterJob, Live
  <2>3. ApprovedOrPending'
    BY <1>13 DEF DeadLetterJob, Live
  <2>4. InvitingIsLocked'
    BY <1>13 DEF DeadLetterJob, Live
  <2> QED
    BY <2>1, <2>2, <2>3, <2>4
<1>14. CASE UNCHANGED vars
  <2>1. Grounded'
    BY <1>14 DEF vars
  <2>2. PendingUnderReview'
    BY <1>14 DEF vars
  <2>3. ApprovedOrPending'
    BY <1>14 DEF vars
  <2>4. InvitingIsLocked'
    BY <1>14 DEF vars
  <2> QED
    BY <2>1, <2>2, <2>3, <2>4
<1> QED
  BY <1>1, <1>2, <1>3, <1>4, <1>5, <1>6, <1>7, <1>8, <1>9, <1>10, <1>11,
     <1>12, <1>13, <1>14 DEF Next

(* The inductive invariant holds of every behaviour. *)
LEMMA InvHolds == Spec => []TrialInv
  BY InitInv, NextInv, PTL DEF Spec


(* A version that awaits approval is a fresh one nobody works from, in a   *)
(* trial that does not invite, and every other regenerated one is locked.  *)
THEOREM RegeneratedReviewed == Spec => []VersionsReviewed
  BY InvHolds, PTL DEF TrialInv, VersionsReviewed

(* A trial that invites has a locked active version, but for operators. *)
THEOREM InvitingLocked == Spec => []InvitingIsLocked
  BY InvHolds, PTL DEF TrialInv

-----------------------------------------------------------------------------
(* Invites die with the trial: only Terminate enters the status, and only  *)
(* an inviting trial gains a session.                                      *)
LEMMA InvitesStep ==
  TypeOK /\ InvitesDieWithTrial /\ [Next]_vars => InvitesDieWithTrial'
<1> SUFFICES ASSUME TypeOK, InvitesDieWithTrial, [Next]_vars
             PROVE  InvitesDieWithTrial'
  OBVIOUS
<1> USE DEF InvitesDieWithTrial
<1>1. CASE Terminate
  BY <1>1
  DEF Terminate, expire_pending_candidate_sessions, cancel_pending_trial_jobs
<1>2. ASSUME NEW c \in Candidates, Invite(c) PROVE InvitesDieWithTrial'
  BY <1>2 DEF Invite, create_or_resend_invite, require_trial_invitable
<1>3. ASSUME trial'.status = "terminated" => trial.status = "terminated",
             UNCHANGED <<session, cleanup>>
      PROVE  InvitesDieWithTrial'
  BY <1>3
<1>4. CASE Activate
  BY <1>3, <1>4 DEF Activate, TypeOK, Trials
<1>5. CASE RestorePlaceholder
  BY <1>3, <1>5 DEF RestorePlaceholder, TypeOK, Trials
<1>6. CASE RequestRegeneration
  BY <1>3, <1>6 DEF RequestRegeneration, TypeOK, Trials
<1>7. ASSUME NEW v \in Versions, Approve(v) \/ UseFallback(v)
      PROVE  InvitesDieWithTrial'
  BY <1>3, <1>7 DEF Approve, UseFallback, TypeOK, Trials
<1>8. ASSUME NEW text, NEW status, UpdateActive(text, status)
      PROVE  InvitesDieWithTrial'
  BY <1>3, <1>8 DEF UpdateActive
<1>9. ASSUME NEW v \in Versions, NEW text \in Texts, PatchVersion(v, text)
      PROVE  InvitesDieWithTrial'
  BY <1>3, <1>9 DEF PatchVersion
<1>10. ASSUME NEW j \in Jobs, RunHandler(j)
       PROVE  InvitesDieWithTrial'
  <2>1. UNCHANGED <<session, cleanup>>
    BY <1>10, Zenon DEF RunHandler
  <2>2. trial' = trial \/ trial'.status = "ready_for_review"
    BY <1>10 DEF RunHandler, TypeOK, Trials
  <2> QED
    BY <1>3, <2>1, <2>2
<1>11. ASSUME NEW j \in Jobs, RequeueJob(j) \/ FinishJob(j) \/ DeadLetterJob(j)
       PROVE  InvitesDieWithTrial'
  BY <1>3, <1>11 DEF RequeueJob, FinishJob, DeadLetterJob
<1>12. CASE UNCHANGED vars
  BY <1>3, <1>12 DEF vars
<1> QED
  BY <1>1, <1>2, <1>4, <1>5, <1>6, <1>7, <1>8, <1>9, <1>10, <1>11, <1>12
  DEF Next

(* A terminated trial has no invite left to accept and its cleanup job. *)
THEOREM InvitesDie == Spec => []InvitesDieWithTrial
<1>1. Init => InvitesDieWithTrial
  BY DEF Init, InvitesDieWithTrial
<1> QED
  BY <1>1, InvitesStep, TypeCorrect, PTL DEF Spec

(* No step moves a terminated trial, its sessions or its tasks. *)
LEMMA StopsStep ==
  ASSUME TypeOK, InvitesDieWithTrial, [Next]_vars, trial.status = "terminated"
  PROVE  /\ trial'.status = "terminated"
         /\ session' = session /\ taskSource' = taskSource
<1> DEFINE Still == trial'.status = "terminated" /\ session' = session
                      /\ taskSource' = taskSource
<1> USE DEF TypeOK, Trials
<1>1. CASE Terminate
  <2>1. session' = [c \in Candidates |-> session[c]]
    BY <1>1
    DEF Terminate, expire_pending_candidate_sessions, cancel_pending_trial_jobs,
        InvitesDieWithTrial
  <2> QED
    BY <1>1, <2>1
    DEF Terminate, expire_pending_candidate_sessions, cancel_pending_trial_jobs
<1>2. ASSUME NEW c \in Candidates, Invite(c) PROVE Still
  BY <1>2 DEF Invite, create_or_resend_invite, require_trial_invitable
<1>3. CASE Activate
  BY <1>3 DEF Activate, apply_status_transition, ALLOWED_TRANSITIONS
<1>4. CASE RestorePlaceholder
  BY <1>4 DEF RestorePlaceholder
<1>5. CASE RequestRegeneration
  BY <1>5 DEF RequestRegeneration, apply_status_transition, ALLOWED_TRANSITIONS
<1>6. ASSUME NEW v \in Versions, Approve(v) \/ UseFallback(v) PROVE Still
  BY <1>6 DEF Approve, UseFallback
<1>7. ASSUME NEW text, NEW status, UpdateActive(text, status) PROVE Still
  BY <1>7 DEF UpdateActive
<1>8. ASSUME NEW v \in Versions, NEW text \in Texts, PatchVersion(v, text)
      PROVE  Still
  BY <1>8 DEF PatchVersion
<1>9. ASSUME NEW j \in Jobs, RunHandler(j) PROVE Still
  <2>1. generation_target(j) = None
    BY DEF generation_target, handler_may_apply
  <2>2. None \notin Versions
    BY TrialLifecycleAssumption DEF None, Versions
  <2> QED
    BY <1>9, <2>1, <2>2 DEF RunHandler
<1>10. ASSUME NEW j \in Jobs, RequeueJob(j) \/ FinishJob(j) \/ DeadLetterJob(j)
       PROVE  Still
  BY <1>10 DEF RequeueJob, FinishJob, DeadLetterJob
<1>11. CASE UNCHANGED vars
  BY <1>11 DEF vars
<1> QED
  BY <1>1, <1>2, <1>3, <1>4, <1>5, <1>6, <1>7, <1>8, <1>9, <1>10, <1>11
  DEF Next

(* A terminated trial stays terminated, with its sessions and its tasks. *)
THEOREM TerminatedIsFinal == Spec => TerminatedStops
<1>1. TypeOK /\ InvitesDieWithTrial /\ [Next]_vars
        => [trial.status = "terminated" =>
              /\ trial'.status = "terminated"
              /\ session' = session /\ taskSource' = taskSource]_vars
  BY StopsStep
<1> QED
  BY <1>1, TypeCorrect, InvitesDie, PTL DEF Spec, TerminatedStops


-----------------------------------------------------------------------------
(* Only creation's job changes a locked version, and only version 1.       *)
LEMMA LockedStep ==
  ASSUME TrialInv, [Next]_vars, NEW v \in Versions,
         version[v].status = "locked", version'[v] # version[v]
  PROVE  v = 1 /\ trial.active = 1 /\ Live(Creation)
<1> USE TrialLifecycleAssumption
    DEF TrialInv, TypeOK, VersionRows, Versions, None
<1>1. \A u \in Versions : version' # Locked(u)
  BY DEF Locked
<1>2. ASSUME NEW u \in Versions, Approve(u) \/ UseFallback(u) PROVE FALSE
  BY <1>1, <1>2 DEF Approve, UseFallback
<1>3. CASE Activate
  BY <1>3 DEF Activate
<1>4. CASE RestorePlaceholder
  BY <1>4 DEF RestorePlaceholder, Grounded, Exists
<1>5. CASE RequestRegeneration
  BY <1>5 DEF RequestRegeneration, next_version_index, Exists
<1>6. ASSUME NEW text, NEW status, UpdateActive(text, status) PROVE FALSE
  BY <1>6 DEF UpdateActive, ensure_scenario_version_mutable
<1>7. ASSUME NEW u \in Versions, NEW text \in Texts, PatchVersion(u, text)
      PROVE  FALSE
  BY <1>7 DEF PatchVersion, ensure_patch_allowed
<1>8. ASSUME NEW c \in Candidates, Invite(c) PROVE FALSE
  <2>1. trial.active \in Versions
    BY <1>8 DEF Invite, create_or_resend_invite, Trials
  <2> QED
    BY <1>1, <1>8, <2>1 DEF Invite, create_or_resend_invite
<1>9. CASE Terminate
  BY <1>9
  DEF Terminate, expire_pending_candidate_sessions, cancel_pending_trial_jobs
<1>10. ASSUME NEW j \in Jobs, RequeueJob(j) \/ FinishJob(j) \/ DeadLetterJob(j)
       PROVE  FALSE
  BY <1>10 DEF RequeueJob, FinishJob, DeadLetterJob
<1>11. ASSUME NEW j \in Jobs, RunHandler(j)
       PROVE  v = 1 /\ trial.active = 1 /\ Live(Creation)
  <2>1. PICK u \in Versions, t \in Texts :
          /\ u = generation_target(j)
          /\ version' = [version EXCEPT ![u] = [status |-> "ready", text |-> t]]
    BY <1>11 DEF RunHandler
  <2>2. u = v
    BY <2>1
  <2>3. j = Creation /\ v = 1
    BY <2>1, <2>2 DEF generation_target
  <2>4. ~skipped_active_version_moved(trial)
    BY <2>1, <2>3 DEF generation_target
  <2>5. Live(Creation)
    BY <1>11, <2>3 DEF RunHandler
  <2> QED
    BY <2>3, <2>4, <2>5
    DEF skipped_active_version_moved, Grounded, Trials, Exists
<1>12. CASE UNCHANGED vars
  BY <1>12 DEF vars
<1> QED
  BY <1>2, <1>3, <1>4, <1>5, <1>6, <1>7, <1>8, <1>9, <1>10, <1>11, <1>12
  DEF Next


(* A pinned, locked version changes only under a re-run of creation's job. *)
THEOREM PinnedVersions == Spec => PinnedChangesOnlyByRerun
<1>1. TrialInv /\ [Next]_vars
        => [\A v \in Versions :
              Pinned(v) /\ version[v].status = "locked" /\ version'[v] # version[v]
                => v = 1 /\ trial.active = 1 /\ Live(Creation)]_vars
  BY LockedStep
<1> QED
  BY <1>1, InvHolds, PTL DEF Spec, PinnedChangesOnlyByRerun

(* Candidates work from reviewed, locked versions of trials that are not    *)
(* terminated (approve_scenario_version, activate_trial, terminate_trial).  *)
THEOREM InvitesReviewed == Spec => []InvitesAreReviewed
<1>1. VersionsReviewed /\ InvitingIsLocked /\ InvitesDieWithTrial => InvitesAreReviewed
  BY DEF InvitesAreReviewed
<1> QED
  BY <1>1, RegeneratedReviewed, InvitingLocked, InvitesDie, PTL

(* The end of a trial and the versions candidates were invited to stay      *)
(* (terminate_trial, the generation handler).                               *)
THEOREM SettledForGood == Spec => SettledStays
  BY TerminatedIsFinal, PinnedVersions DEF SettledStays
=============================================================================
