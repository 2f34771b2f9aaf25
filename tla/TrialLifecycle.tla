--------------------------- MODULE TrialLifecycle ---------------------------
(***************************************************************************)
(* One trial of app/trials: its status, the scenario versions talent       *)
(* partners review, the scenario_generation jobs that write them, and the  *)
(* candidate sessions invited to them.                                     *)
(*                                                                         *)
(* Every operation selects the trial row FOR UPDATE and commits once, so   *)
(* each is one step.  What makes the lifecycle hard is the jobs: a handler *)
(* commits before its job is marked succeeded, so after a crash, a lost    *)
(* lease or an operator's requeue it runs again, with other text, at any   *)
(* later time (module JobQueue has the queue itself).                      *)
(*                                                                         *)
(* A version keeps its status and one token for all of its generated text; *)
(* locked_at is not kept apart, as every writer sets it with the status.   *)
(***************************************************************************)
EXTENDS Integers, FiniteSets

CONSTANTS
  MaxVersion,      \* bound: versions a trial may have
  Candidates,      \* invited e-mail addresses
  Texts,           \* scenario texts a model or a talent partner may write
  NoText,          \* storyline "" and no prompts
  OperatorBudget   \* bound: requeues of jobs and fallback switches

ASSUME TrialLifecycleAssumption ==
  /\ MaxVersion \in Nat \ {0}
  /\ NoText \notin Texts
  /\ OperatorBudget \in Nat

VARIABLES
  trial,       \* status, active_scenario_version_id, pending_scenario_version_id
  version,     \* the trial's scenario_versions rows, by version_index
  taskSource,  \* the version whose generation last wrote the trial's task rows
  job,         \* scenario_generation jobs: 0 is creation's, v is version v's
  session,     \* candidate_sessions rows, by invite_email
  cleanup,     \* the trial_cleanup job has been enqueued
  budget,      \* operator interventions still allowed
  switched     \* history: an operator switched the active version

vars == <<trial, version, taskSource, job, session, cleanup, budget, switched>>

-----------------------------------------------------------------------------
None == 0                                       \* a NULL version id
Versions == 1..MaxVersion
Jobs == 0..MaxVersion
Creation == 0                                   \* the job create_trial enqueues

TRIAL_STATUSES == {"draft", "generating", "ready_for_review",
                   "active_inviting", "terminated"}
VersionStatuses == {"absent", "draft", "generating", "ready", "locked"}
JobStatuses == {"absent", "queued", "ran", "succeeded", "dead_letter"}
SessionStatuses == {"none", "not_started", "expired"}

Trials == [status : TRIAL_STATUSES, active : Versions \cup {None},
           pending : Versions \cup {None}]
VersionRows == [status : VersionStatuses, text : Texts \cup {NoText}]
SessionRows == [status : SessionStatuses, version : Versions \cup {None}]

AbsentVersion == [status |-> "absent", text |-> NoText]
NoSession == [status |-> "none", version |-> None]

(* Types of the trial's rows. *)
TypeOK ==
  /\ trial \in Trials
  /\ version \in [Versions -> VersionRows]
  /\ taskSource \in Versions \cup {None}
  /\ job \in [Jobs -> JobStatuses]
  /\ session \in [Candidates -> SessionRows]
  /\ cleanup \in BOOLEAN
  /\ budget \in Nat
  /\ switched \in BOOLEAN

(* create_trial_with_tasks: the trial, its tasks and its job, one commit. *)
Init ==
  /\ trial = [status |-> "generating", active |-> None, pending |-> None]
  /\ version = [v \in Versions |-> AbsentVersion]
  /\ taskSource = None
  /\ job = [j \in Jobs |-> IF j = Creation THEN "queued" ELSE "absent"]
  /\ session = [c \in Candidates |-> NoSession]
  /\ cleanup = FALSE
  /\ budget = OperatorBudget
  /\ switched = FALSE

-----------------------------------------------------------------------------
(* Rules. *)

ALLOWED_TRANSITIONS ==
  { <<"draft", "generating">>,
    <<"generating", "ready_for_review">>,
    <<"ready_for_review", "active_inviting">>,
    <<"active_inviting", "ready_for_review">> }

(* Mutation: every status may go back to review. *)
ReviewFromAnywhere(from, to) ==
  \/ from = to \/ to \in {"terminated", "ready_for_review"}
  \/ <<from, to>> \in ALLOWED_TRANSITIONS

(* apply_status_transition raises unless this holds. *)
apply_status_transition(from, to) ==
  \/ from = to
  \/ to = "terminated"
  \/ <<from, to>> \in ALLOWED_TRANSITIONS

(* The CHECK constraint ck_trials_active_scenario_required. *)
active_scenario_required(t) ==
  t.status \in {"draft", "generating"} \/ t.active # None

(* Mutation: a status check that only looks for a pending version. *)
InvitableUnlessPending(t) == t.pending = None

require_trial_invitable(t) ==
  /\ t.pending = None
  /\ t.status = "active_inviting"

Exists(v) == version[v].status # "absent"

Lockable(v) == version[v].status \in {"ready", "locked"}

(* Mutation: a status the table does not know. *)
LockedAsApproved(v) == [version EXCEPT ![v].status = "approved"]

(* lock_active_scenario_for_invites on a version that is ready or locked. *)
Locked(v) == [version EXCEPT ![v].status = "locked"]

ensure_scenario_version_mutable(v) == version[v].status # "locked"

(* Mutation: locked versions may be patched. *)
PatchAnyExisting(t, v) ==
  /\ t.status \in {"ready_for_review", "active_inviting"}
  /\ version[v].status \in {"ready", "locked"}

ensure_patch_allowed(t, v) ==
  /\ version[v].status = "ready"
  /\ t.status \in {"ready_for_review", "active_inviting"}

(* Mutation: nothing asks whether the active version is locked. *)
ActiveScenarioExists(v) == v # None

require_locked_active_scenario(v) == v # None /\ version[v].status = "locked"

(* Mutation: an operator may switch while a version awaits approval. *)
FallbackWhilePending(t, v) ==
  t.status # "terminated" /\ Lockable(v)

assert_fallback_eligible(t, v) ==
  /\ t.status # "terminated"
  /\ Lockable(v)
  /\ t.pending = None

(* One more than the largest version_index so far. *)
next_version_index(n) ==
  /\ \A v \in Versions : Exists(v) => v < n
  /\ n = 1 \/ Exists(n - 1)

(* Mutation: the key names the trial, so creation's job is found again. *)
EnqueueUnderTrialKey(n) == job

(* create_or_get under the key of version n. *)
enqueue_regeneration_job(n) ==
  [job EXCEPT ![n] = IF @ = "absent" THEN "queued" ELSE @]

(* A new session is pinned to v; an earlier one of the address keeps its   *)
(* version (its link is sent again, or renewed if it has expired).         *)
create_or_resend_invite(c, v) ==
  [session EXCEPT ![c] = IF @.status = "none"
                         THEN [status |-> "not_started", version |-> v]
                         ELSE @]

expire_pending_candidate_sessions ==
  [c \in Candidates |-> IF session[c].status = "not_started"
                        THEN [session[c] EXCEPT !.status = "expired"]
                        ELSE session[c]]

cancel_pending_trial_jobs ==
  [j \in Jobs |-> IF job[j] \in {"queued", "ran"} THEN "dead_letter" ELSE job[j]]

-----------------------------------------------------------------------------
(* Talent partners. *)

Approve(v) ==
  /\ Lockable(v)
  /\ \/ trial.pending = None /\ trial.active = v
     \/ trial.pending = v
  /\ trial' = [trial EXCEPT !.active = v, !.pending = None]
  /\ version' = Locked(v)
  /\ UNCHANGED <<taskSource, job, session, cleanup, budget, switched>>

Activate ==
  /\ trial.pending = None
  /\ require_locked_active_scenario(trial.active)
  /\ apply_status_transition(trial.status, "active_inviting")
  /\ trial' = [trial EXCEPT !.status = "active_inviting"]
  /\ UNCHANGED <<version, taskSource, job, session, cleanup, budget, switched>>

(* A retry of a generation that left no version: the placeholder is made   *)
(* active and a dead-lettered job goes back to the queue.                  *)
RestorePlaceholder ==
  /\ trial.pending = None /\ trial.active = None
  /\ \/ trial.status = "generating"
     \/ job[Creation] = "dead_letter"
  /\ version' = [version EXCEPT ![1] = [status |-> "generating", text |-> NoText]]
  /\ trial' = [trial EXCEPT !.active = 1]
  /\ job' = [job EXCEPT ![Creation] = IF @ = "dead_letter" THEN "queued" ELSE @]
  /\ UNCHANGED <<taskSource, session, cleanup, budget, switched>>

(* The active version is cloned, and its clone awaits generation. *)
RequestRegeneration ==
  /\ trial.pending = None /\ trial.active # None
  /\ apply_status_transition(trial.status, "ready_for_review")
  /\ \E n \in Versions :
       /\ next_version_index(n)
       /\ version' = [version EXCEPT ![n] =
                        [status |-> "generating", text |-> version[trial.active].text]]
       /\ trial' = [trial EXCEPT !.status = "ready_for_review", !.pending = n]
       /\ job' = enqueue_regeneration_job(n)
  /\ UNCHANGED <<taskSource, session, cleanup, budget, switched>>

(* PATCH .../scenario/active; each field may be left out of the request. *)
UpdateActive(text, status) ==
  /\ trial.active # None
  /\ ensure_scenario_version_mutable(trial.active)
  /\ version' = [version EXCEPT ![trial.active] = [status |-> status, text |-> text]]
  /\ UNCHANGED <<trial, taskSource, job, session, cleanup, budget, switched>>

(* PATCH .../scenario/{id} *)
PatchVersion(v, text) ==
  /\ Exists(v)
  /\ ensure_patch_allowed(trial, v)
  /\ version' = [version EXCEPT ![v].text = text]
  /\ UNCHANGED <<trial, taskSource, job, session, cleanup, budget, switched>>

(* One commit, after the e-mail was handed to the provider. *)
Invite(c) ==
  /\ require_trial_invitable(trial)
  /\ trial.active # None /\ Lockable(trial.active)
  /\ version' = Locked(trial.active)
  /\ session' = create_or_resend_invite(c, trial.active)
  /\ UNCHANGED <<trial, taskSource, job, cleanup, budget, switched>>

(* One transaction; the CHECK constraint may refuse it at the flush. *)
Terminate ==
  /\ apply_status_transition(trial.status, "terminated")
  /\ active_scenario_required([trial EXCEPT !.status = "terminated"])
  /\ trial' = [trial EXCEPT !.status = "terminated"]
  /\ session' = expire_pending_candidate_sessions
  /\ job' = cancel_pending_trial_jobs
  /\ cleanup' = TRUE
  /\ UNCHANGED <<version, taskSource, budget, switched>>

-----------------------------------------------------------------------------
(* Operators: use_trial_fallback_scenario, and the requeue of a job (which *)
(* also stands for the worker that requeues a job cancelled under it).     *)

UseFallback(v) ==
  /\ budget > 0
  /\ assert_fallback_eligible(trial, v)
  /\ trial' = [trial EXCEPT !.active = v]
  /\ switched' = (switched \/ trial.active # v)
  /\ budget' = budget - 1
  /\ UNCHANGED <<version, taskSource, job, session, cleanup>>

RequeueJob(j) ==
  /\ budget > 0
  /\ job[j] \in {"ran", "succeeded", "dead_letter"}
  /\ job' = [job EXCEPT ![j] = "queued"]
  /\ budget' = budget - 1
  /\ UNCHANGED <<trial, version, taskSource, session, cleanup, switched>>

-----------------------------------------------------------------------------
(* The worker.  A job that "ran" has a handler that committed and a row    *)
(* that still says running: it may run again, succeed, or dead-letter.     *)

Live(j) == job[j] \in {"queued", "ran"}

handler_may_apply(t) ==
  t.status \in {"generating", "ready_for_review", "active_inviting"}

(* Version 1 is left alone once another version is the active one. *)
skipped_active_version_moved(t) ==
  t.status # "generating" /\ t.active # None /\ t.active # 1

(* Which version the job's handler writes, None if it returns early.  Only *)
(* the path of a named version looks whether that version is locked.       *)
generation_target(j) ==
  IF \/ ~handler_may_apply(trial)
     \/ j = Creation /\ skipped_active_version_moved(trial)
     \/ j # Creation /\ version[j].status = "locked"
  THEN None
  ELSE IF j = Creation THEN 1 ELSE j

(* The handler under the trial's lock, from the read of the trial to its   *)
(* commit; a generation that raises leaves everything as it was.           *)
RunHandler(j) ==
  /\ Live(j)
  /\ \/ /\ generation_target(j) = None
        /\ UNCHANGED <<trial, version, taskSource>>
     \/ \E v \in Versions, t \in Texts :
          /\ v = generation_target(j)
          /\ apply_status_transition(trial.status, "ready_for_review")
          /\ version' = [version EXCEPT ![v] = [status |-> "ready", text |-> t]]
          /\ trial' = [trial EXCEPT !.status = "ready_for_review",
                         !.active = IF j = Creation THEN v ELSE @]
          /\ taskSource' = v
  /\ job' = [job EXCEPT ![j] = "ran"]
  /\ UNCHANGED <<session, cleanup, budget, switched>>

FinishJob(j) ==
  /\ job[j] = "ran"
  /\ job' = [job EXCEPT ![j] = "succeeded"]
  /\ UNCHANGED <<trial, version, taskSource, session, cleanup, budget, switched>>

(* Every attempt raised, or a permanent error. *)
DeadLetterJob(j) ==
  /\ Live(j)
  /\ job' = [job EXCEPT ![j] = "dead_letter"]
  /\ UNCHANGED <<trial, version, taskSource, session, cleanup, budget, switched>>

-----------------------------------------------------------------------------
(* The values a PATCH of the active version leaves behind. *)
TextsOfUpdate == Texts \cup {NoText}
StatusesOfUpdate ==
  {"draft", "ready"}
    \cup (IF trial.active = None THEN {} ELSE {version[trial.active].status})

Next ==
  \/ \E v \in Versions : Approve(v) \/ UseFallback(v)
  \/ Activate
  \/ RestorePlaceholder
  \/ RequestRegeneration
  \/ \E text \in TextsOfUpdate, status \in StatusesOfUpdate : UpdateActive(text, status)
  \/ \E v \in Versions, text \in Texts : PatchVersion(v, text)
  \/ \E c \in Candidates : Invite(c)
  \/ Terminate
  \/ \E j \in Jobs :
       RequeueJob(j) \/ RunHandler(j) \/ FinishJob(j) \/ DeadLetterJob(j)

Spec == Init /\ [][Next]_vars

(* Every live job is run again or dead-lettered (JobQueue, EverySettles). *)
FairSpec == Spec /\ \A j \in Jobs : WF_vars(RunHandler(j) \/ DeadLetterJob(j))

-----------------------------------------------------------------------------

(***************************************************************************)
(* Properties.                                                             *)
(***************************************************************************)

Pinned(v) == \E c \in Candidates : session[c].version = v

(* A version pending approval is a regenerated one: it exists, it is not   *)
(* the active one, nobody has locked it, no session is pinned to it, and   *)
(* its trial is back under review (or was terminated meanwhile).  So no    *)
(* invite can go out while request_scenario_regeneration awaits approval.  *)
PendingUnderReview ==
  trial.pending # None =>
    /\ version[trial.pending].status \in {"generating", "ready"}
    /\ trial.active \notin {None, trial.pending}
    /\ ~Pinned(trial.pending)
    /\ trial.status \in {"ready_for_review", "terminated"}

(* No regenerated version is orphaned: it awaits approval, or it was       *)
(* approved and is locked for good.                                        *)
ApprovedOrPending ==
  \A v \in Versions :
    Exists(v) /\ v # 1 => v = trial.pending \/ version[v].status = "locked"

(* Of the regenerated versions, one at most awaits approval, fresh and     *)
(* under review, and all others went through it, in whatever order jobs,   *)
(* approvals, fallbacks and terminations come.                             *)
VersionsReviewed == PendingUnderReview /\ ApprovedOrPending

(* While a trial invites, nothing awaits approval, and the active version  *)
(* is locked unless an operator switched it: activate_trial's checks hold  *)
(* for as long as the status says active_inviting, through late jobs,      *)
(* edits and approvals.                                                    *)
InvitingIsLocked ==
  trial.status = "active_inviting" =>
    /\ trial.pending = None
    /\ \/ version[trial.active].status = "locked"
       \/ switched

(* terminate_trial leaves no invite to accept, has its cleanup enqueued,   *)
(* and no later invite, approval or job opens one.                         *)
InvitesDieWithTrial ==
  trial.status = "terminated" =>
    cleanup /\ \A c \in Candidates : session[c].status # "not_started"

(* Whom a trial invites works from a version that was reviewed and locked, *)
(* and from none once the trial is terminated (approve_scenario_version,   *)
(* activate_trial, terminate_trial).                                       *)
InvitesAreReviewed == VersionsReviewed /\ InvitingIsLocked /\ InvitesDieWithTrial

(* A terminated trial stays so, and neither its sessions nor the text its  *)
(* candidates work from change again, whatever jobs are still to run.      *)
TerminatedStops ==
  [][trial.status = "terminated" =>
       /\ trial'.status = "terminated"
       /\ session' = session /\ taskSource' = taskSource]_vars

(* A locked version that sessions are pinned to is changed by one thing    *)
(* only: another run of creation's job, while version 1 is the active one. *)
PinnedChangesOnlyByRerun ==
  [][\A v \in Versions :
       Pinned(v) /\ version[v].status = "locked" /\ version'[v] # version[v]
         => v = 1 /\ trial.active = 1 /\ Live(Creation)]_vars

(* What is settled stays: the end of a trial, and the version that a       *)
(* candidate was invited to but for that one rerun.                        *)
SettledStays == TerminatedStops /\ PinnedChangesOnlyByRerun

(* A requested generation ends: the version gets its text, or its job is   *)
(* dead-lettered, or the trial is terminated; and so does the first one.   *)
GenerationSettles ==
  /\ \A v \in Versions :
       trial.pending = v /\ version[v].status = "generating"
         ~> \/ version[v].status # "generating"
            \/ job[v] = "dead_letter" \/ trial.status = "terminated"
  /\ trial.status = "generating"
       ~> trial.status # "generating" \/ job[Creation] = "dead_letter"

(* What the docs and tests say, and the code does not do.                  *)

(* "Any valid status can transition to terminated via termination flow."   *)
AnyStatusMayTerminate == ENABLED Terminate

(* A locked version never changes: the first invite locks the active       *)
(* version and pins the session to it, and edits of it are refused.        *)
LockedStaysLocked ==
  [][\A v \in Versions :
       version[v].status = "locked" => version'[v] = version[v]]_vars

(* Approval is what promotes a version for active use: invited candidates  *)
(* never work from a version that awaits approval.                         *)
UnapprovedTextHidden ==
  (\E c \in Candidates : session[c].status = "not_started")
    /\ trial.pending # None => taskSource # trial.pending

=============================================================================
