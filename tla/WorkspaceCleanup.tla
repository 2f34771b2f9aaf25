-------------------------- MODULE WorkspaceCleanup --------------------------
(***************************************************************************)
(* The clean-up of candidate repositories: terminating a trial cancels its *)
(* jobs and enqueues one trial_cleanup job; workspace_cleanup jobs, one of *)
(* a run key, sweep the whole company.  Either lists its workspace records *)
(* once, then takes the collaborator from each repository whose session is *)
(* cut off and archives or deletes the ones of finished sessions, one      *)
(* commit per record (handlers workspace_cleanup and trial_cleanup of      *)
(* app/shared/jobs and the termination service of app/trials).             *)
(* Meanwhile candidates are invited again to repositories they have lost.  *)
(*                                                                         *)
(* The records, sessions and cutoffs of a sweep are those of its listing:  *)
(* the ORM session does not refresh them, and a commit writes the columns  *)
(* whose value differs from the loaded one.                                *)
(***************************************************************************)
EXTENDS Integers

CONSTANTS
  Trials,          \* ids of the trials of one company
  RunKeys,         \* run keys of the company's sweeps, none the id of a trial
  SamePrefix,      \* <<t, u>>: the digits of u begin with those of t, t # u
  Workspaces,      \* 1..n, in the order of created_at
  TrialOf,         \* the trial of each workspace's session
  Sweepers,        \* workers
  SweepAttempts,   \* TRIAL_CLEANUP_MAX_ATTEMPTS
  CleanupFaults    \* bound: transient GitHub errors, deaths of workers and
                   \* repositories that vanish

ASSUME WorkspaceCleanupAssumption ==
  /\ Trials \subseteq Nat \ {0}
  /\ RunKeys \subseteq Nat \ ({0} \cup Trials)
  /\ SamePrefix \subseteq Trials \X Trials
  /\ Workspaces \subseteq Nat
  /\ TrialOf \in [Workspaces -> Trials]
  /\ SweepAttempts \in Nat \ {0}
  /\ CleanupFaults \in Nat

VARIABLES
  cleanupMode,     \* WORKSPACE_CLEANUP_MODE, WORKSPACE_DELETE_ENABLED
  recorded,        \* workspaces that have a row
  ended,           \* terminated trials
  scenarioJob,     \* a trial's scenario_generation job
  finished,        \* workspaces whose session is completed or expired
  ripe,            \* the retention of the records is over
  cutOff,          \* those whose session has a candidate_day_audits row
  wsRow,           \* the rows' clean-up columns
  repo,            \* the repositories on GitHub
  collaborators,   \* repositories the candidate can write to
  reinvited,       \* history: those of them whose candidate was invited again
                   \* since he was removed
  sweepJob,        \* the jobs, by trial or run key
  sweep,           \* handler runs
  cleanupFaults

cleanupVars == <<cleanupMode, recorded, ended, scenarioJob, finished, ripe,
  cutOff, wsRow, repo, collaborators, reinvited, sweepJob, sweep, cleanupFaults>>

-----------------------------------------------------------------------------
CleanupStatuses == {"none", "pending", "failed", "archived", "deleted"}

(* Of a row: cleanup_status, cleaned_at, and access_revoked_at with        *)
(* access_revocation_error.                                                *)
WorkspaceRows == [status : CleanupStatuses, cleaned : BOOLEAN,
                  revoked : {"no", "yes", "failed"}]
NewRow == [status |-> "none", cleaned |-> FALSE, revoked |-> "no"]

SweepJobs == Trials \cup RunKeys

Sweeps ==
  [at : {"idle", "revoke", "clean", "commit", "raise"}, of : {0} \cup SweepJobs,
   listed : SUBSET Workspaces, todo : SUBSET Workspaces, seen : [Workspaces -> WorkspaceRows],
   row : WorkspaceRows, cut : SUBSET Workspaces, due : SUBSET Workspaces,
   old : BOOLEAN]

IdleSweep ==
  [at |-> "idle", of |-> 0, listed |-> {}, todo |-> {},
   seen |-> [w \in Workspaces |-> NewRow], row |-> NewRow,
   cut |-> {}, due |-> {}, old |-> FALSE]

CleanupTypeOK ==
  /\ cleanupMode \in {"archive", "delete"}
  /\ recorded \subseteq Workspaces
  /\ ended \subseteq Trials
  /\ scenarioJob \in [Trials -> {"pending", "cancelled"}]
  /\ finished \subseteq Workspaces
  /\ ripe \in BOOLEAN /\ cutOff \subseteq Workspaces
  /\ wsRow \in [Workspaces -> WorkspaceRows]
  /\ repo \in [Workspaces -> {"live", "archived", "gone"}]
  /\ collaborators \subseteq Workspaces /\ reinvited \subseteq Workspaces
  /\ sweepJob \in [SweepJobs -> [status : {"absent", "queued", "running", "succeeded", "dead_letter"},
                                 attempt : 0..SweepAttempts]]
  /\ sweep \in [Sweepers -> Sweeps]
  /\ cleanupFaults \in 0..CleanupFaults

CleanupInit ==
  /\ cleanupMode \in {"archive", "delete"}
  /\ recorded \in SUBSET Workspaces
  /\ ended = {}
  /\ scenarioJob = [t \in Trials |-> "pending"]
  /\ finished = {} /\ ripe = FALSE /\ cutOff = {}
  /\ wsRow = [w \in Workspaces |-> NewRow]
  /\ repo = [w \in Workspaces |-> "live"]
  /\ collaborators = Workspaces /\ reinvited = {}
  /\ sweepJob = [j \in SweepJobs |-> [status |-> "absent", attempt |-> 0]]
  /\ sweep = [k \in Sweepers |-> IdleSweep]
  /\ cleanupFaults = CleanupFaults

-----------------------------------------------------------------------------
(* Around the sweeps. *)

github == <<repo, collaborators, reinvited>>
working == <<wsRow, sweepJob, sweep, cleanupFaults>>

RemoveCollaborator(w) ==
  /\ collaborators' = collaborators \ {w}
  /\ reinvited' = reinvited \ {w}

(* The candidate is invited to a recorded repository again, by a resent    *)
(* invitation, which asks for no cutoff, or by an init of the workspace    *)
(* that looked before the session was cut off, completed or terminated.    *)
(* GitHub takes nobody into an archived repository.                        *)
InviteAgain(w) ==
  /\ w \in recorded /\ repo[w] = "live"
  /\ collaborators' = collaborators \cup {w}
  /\ reinvited' = reinvited \cup ({w} \ collaborators)
  /\ UNCHANGED <<cleanupMode, recorded, ended, scenarioJob, finished, ripe, cutOff, repo>>
  /\ UNCHANGED working

(* The day-close audit of a session.  Enforcement takes the collaborator,  *)
(* unless none of that name was found, and marks the workspace's row, not  *)
(* the group's that a sweep lists.                                         *)
CutSession(w) ==
  /\ w \in recorded \ cutOff
  /\ cutOff' = cutOff \cup {w}
  /\ RemoveCollaborator(w) \/ UNCHANGED <<collaborators, reinvited>>
  /\ UNCHANGED <<cleanupMode, recorded, ended, scenarioJob, finished, ripe, repo>>
  /\ UNCHANGED working

(* The session is completed, its coding days closed. *)
FinishSession(w) ==
  /\ w \in cutOff \ finished
  /\ finished' = finished \cup {w}
  /\ UNCHANGED <<cleanupMode, recorded, ended, scenarioJob, ripe, cutOff>>
  /\ UNCHANGED github /\ UNCHANGED working

(* WORKSPACE_RETENTION_DAYS have passed since completed_at or created_at. *)
Ripen ==
  /\ ~ripe
  /\ ripe' = TRUE
  /\ UNCHANGED <<cleanupMode, recorded, ended, scenarioJob, finished, cutOff>>
  /\ UNCHANGED github /\ UNCHANGED working

(* The repository is deleted by hand. *)
Vanish(w) ==
  /\ cleanupFaults > 0
  /\ w \in recorded /\ repo[w] # "gone"
  /\ repo' = [repo EXCEPT ![w] = "gone"]
  /\ cleanupFaults' = cleanupFaults - 1
  /\ UNCHANGED <<cleanupMode, recorded, ended, scenarioJob, finished, ripe, cutOff,
                 collaborators, reinvited, wsRow, sweepJob, sweep>>

(* correlation_id LIKE 'trial:<id>%'. *)
Correlated(t) == {t} \cup {u \in Trials : <<t, u>> \in SamePrefix}

(* _cancel_pending_trial_jobs, of the jobs of trials that run or wait. *)
CancelledJobs(t) ==
  [u \in Trials |->
     IF u \in Correlated(t) THEN "cancelled" ELSE scenarioJob[u]]

(* enqueue_trial_cleanup_job, workspace_cleanup_idempotency_key: one job   *)
(* of a key for good.                                                      *)
EnqueueSweep(j) ==
  sweepJob' = IF sweepJob[j].status = "absent"
              THEN [sweepJob EXCEPT ![j] = [status |-> "queued", attempt |-> 0]]
              ELSE sweepJob

(* terminate_trial_with_cleanup: status, jobs and clean-up in one commit. *)
TerminateWithCleanup(t) ==
  /\ ended' = ended \cup {t}
  /\ scenarioJob' = CancelledJobs(t)
  /\ EnqueueSweep(t)
  /\ UNCHANGED <<cleanupMode, recorded, finished, ripe, cutOff, wsRow, sweep, cleanupFaults>>
  /\ UNCHANGED github

(* enqueue_workspace_cleanup_job, whose key has the run key. *)
SweepCompany(key) ==
  /\ EnqueueSweep(key)
  /\ UNCHANGED <<cleanupMode, recorded, ended, scenarioJob, finished, ripe, cutOff,
                 wsRow, sweep, cleanupFaults>>
  /\ UNCHANGED github

-----------------------------------------------------------------------------
(* A sweep. *)

outside == <<cleanupMode, recorded, ended, scenarioJob, finished, ripe, cutOff>>

Settle(j, status) == sweepJob' = [sweepJob EXCEPT ![j].status = status]

(* The records a sweep finds (_list_company_cleanup_targets,               *)
(* _list_trial_cleanup_targets); none if the trial is not terminated.      *)
TargetsOf(j) ==
  IF j \in RunKeys THEN recorded
  ELSE {w \in recorded : TrialOf[w] = j /\ j \in ended}

(* _retention_cleanup_eligible. *)
CleanupEligible == {w \in recorded : w \in finished \/ TrialOf[w] \in ended}

(* The clean-up of a terminated trial waits for no retention. *)
RetentionOver(j) == j \in Trials \/ ripe

(* The job is claimed, or again when its worker has died, and its records  *)
(* and cutoffs are loaded.                                                 *)
BeginSweep(k, j) ==
  /\ sweep[k].at = "idle"
  /\ \/ sweepJob[j].status = "queued"
     \/ sweepJob[j].status = "running" /\ \A l \in Sweepers : sweep[l].at = "idle" \/ sweep[l].of # j
  /\ IF sweepJob[j].attempt = SweepAttempts
     THEN Settle(j, "dead_letter") /\ UNCHANGED sweep
     ELSE IF TargetsOf(j) = {}
     THEN Settle(j, "succeeded") /\ UNCHANGED sweep
     ELSE /\ sweepJob' = [sweepJob EXCEPT ![j] = [status |-> "running", attempt |-> @.attempt + 1]]
          /\ sweep' = [sweep EXCEPT ![k] =
               [at |-> "revoke", of |-> j, listed |-> TargetsOf(j), todo |-> TargetsOf(j),
                seen |-> wsRow, row |-> NewRow, cut |-> cutOff, due |-> CleanupEligible,
                old |-> RetentionOver(j)]]
  /\ UNCHANGED <<wsRow, cleanupFaults>>
  /\ UNCHANGED outside /\ UNCHANGED github

(* The record at hand, in the order of created_at. *)
Target(k) == CHOOSE w \in sweep[k].todo : \A v \in sweep[k].todo : w <= v
Loaded(k) == sweep[k].seen[Target(k)]

(* _cleanup_is_complete. *)
CleanupComplete(row) == row.status \in {"archived", "deleted"} /\ row.cleaned

(* A status that does not undo a completed clean-up. *)
Marked(row, status) == IF CleanupComplete(row) THEN row ELSE [row EXCEPT !.status = status]

(* Where a record goes once its collaborator needs nothing more. *)
AfterRevocation(k, row) ==
  IF Target(k) \notin sweep[k].due \/ ~sweep[k].old
  THEN [at |-> "commit", row |-> Marked(row, "pending")]
  ELSE IF CleanupComplete(row) THEN [at |-> "commit", row |-> row]
  ELSE [at |-> "clean", row |-> row]

Proceed(k, to) == sweep' = [sweep EXCEPT ![k].at = to.at, ![k].row = to.row]

(* Mutation: whatever the removal of the collaborator comes to, the        *)
(* repository is cleaned up.                                               *)
GoesOn(k) ==
  /\ sweep[k].at = "revoke"
  /\ Proceed(k, AfterRevocation(k, [Loaded(k) EXCEPT !.revoked = "yes"]))
  /\ UNCHANGED <<wsRow, sweepJob, cleanupFaults>>
  /\ UNCHANGED outside /\ UNCHANGED github

(* _enforce_collaborator_revocation: nothing to do, removed or not there   *)
(* any more (404), refused for good (a missing name, a permanent error),   *)
(* or an error that is worth another attempt of the job.                   *)
Revoke(k) ==
  /\ sweep[k].at = "revoke"
  /\ LET w == Target(k)  row == Loaded(k)
     IN \/ /\ w \notin sweep[k].cut \/ row.revoked = "yes"
           /\ Proceed(k, AfterRevocation(k, row))
           /\ UNCHANGED <<collaborators, reinvited, cleanupFaults>>
        \/ /\ w \in sweep[k].cut /\ row.revoked # "yes"
           /\ \/ /\ RemoveCollaborator(w)
                 /\ Proceed(k, AfterRevocation(k, [row EXCEPT !.revoked = "yes"]))
                 /\ UNCHANGED cleanupFaults
              \/ /\ Proceed(k, [at |-> "commit",
                                row |-> [Marked(row, "failed") EXCEPT !.revoked = "failed"]])
                 /\ UNCHANGED <<collaborators, reinvited, cleanupFaults>>
              \/ /\ cleanupFaults > 0
                 /\ cleanupFaults' = cleanupFaults - 1
                 /\ Proceed(k, [at |-> "raise",
                                row |-> [row EXCEPT !.status = "failed", !.revoked = "failed"]])
                 /\ UNCHANGED <<collaborators, reinvited>>
  /\ UNCHANGED <<wsRow, sweepJob, repo>>
  /\ UNCHANGED outside

(* What a successful call makes of the repository and of its row; 404 is a *)
(* repository that is gone already.                                        *)
CleanedRepo(w) == IF cleanupMode = "archive" /\ repo[w] # "gone" THEN "archived" ELSE "gone"
CleanedStatus(w) ==
  IF cleanupMode = "archive" /\ repo[w] # "gone" THEN "archived" ELSE "deleted"

(* _apply_retention_cleanup. *)
Clean(k) ==
  /\ sweep[k].at = "clean"
  /\ LET w == Target(k)  row == sweep[k].row
     IN \/ /\ repo' = [repo EXCEPT ![w] = CleanedRepo(w)]
           /\ Proceed(k, [at |-> "commit",
                row |-> [row EXCEPT !.status = CleanedStatus(w), !.cleaned = TRUE]])
           /\ UNCHANGED cleanupFaults
        \/ /\ Proceed(k, [at |-> "commit", row |-> [row EXCEPT !.status = "failed"]])
           /\ UNCHANGED <<repo, cleanupFaults>>
        \/ /\ cleanupFaults > 0
           /\ cleanupFaults' = cleanupFaults - 1
           /\ Proceed(k, [at |-> "raise", row |-> [row EXCEPT !.status = "failed"]])
           /\ UNCHANGED repo
  /\ UNCHANGED <<wsRow, sweepJob, collaborators, reinvited>>
  /\ UNCHANGED outside

(* The columns that differ from the loaded ones go over the current ones. *)
Written(new, loaded, current) ==
  [c \in DOMAIN new |-> IF new[c] = loaded[c] THEN current[c] ELSE new[c]]

StoredRow(k) ==
  wsRow' = [wsRow EXCEPT ![Target(k)] = Written(sweep[k].row, Loaded(k), @)]

(* Mutation: a record that fails ends the job as if it were the last. *)
FirstFailureEnds(k) ==
  /\ sweep[k].at \in {"commit", "raise"}
  /\ StoredRow(k)
  /\ sweep' = [sweep EXCEPT ![k] = IdleSweep]
  /\ Settle(sweep[k].of, "succeeded")
  /\ UNCHANGED cleanupFaults
  /\ UNCHANGED outside /\ UNCHANGED github

(* The commit of one record, and the next one or the end of the job. *)
StoreTarget(k) ==
  /\ sweep[k].at = "commit"
  /\ StoredRow(k)
  /\ LET left == sweep[k].todo \ {Target(k)}
     IN IF left = {}
        THEN Settle(sweep[k].of, "succeeded") /\ sweep' = [sweep EXCEPT ![k] = IdleSweep]
        ELSE /\ sweep' = [sweep EXCEPT ![k].at = "revoke", ![k].todo = left, ![k].row = NewRow]
             /\ UNCHANGED sweepJob
  /\ UNCHANGED cleanupFaults
  /\ UNCHANGED outside /\ UNCHANGED github

(* A transient error is stored and raised: the records after it wait for   *)
(* the job's next attempt, if there is one.                                *)
RaiseTarget(k) ==
  /\ sweep[k].at = "raise"
  /\ StoredRow(k)
  /\ sweep' = [sweep EXCEPT ![k] = IdleSweep]
  /\ Settle(sweep[k].of,
       IF sweepJob[sweep[k].of].attempt < SweepAttempts THEN "queued" ELSE "dead_letter")
  /\ UNCHANGED cleanupFaults
  /\ UNCHANGED outside /\ UNCHANGED github

CrashSweep(k) ==
  /\ sweep[k].at # "idle"
  /\ cleanupFaults > 0
  /\ cleanupFaults' = cleanupFaults - 1
  /\ sweep' = [sweep EXCEPT ![k] = IdleSweep]
  /\ UNCHANGED <<wsRow, sweepJob>>
  /\ UNCHANGED outside /\ UNCHANGED github

-----------------------------------------------------------------------------
SweepStep(k) == Revoke(k) \/ Clean(k) \/ StoreTarget(k) \/ RaiseTarget(k)

CleanupNext ==
  \/ \E w \in Workspaces :
       CutSession(w) \/ InviteAgain(w) \/ FinishSession(w) \/ Vanish(w)
  \/ \E t \in Trials : TerminateWithCleanup(t)
  \/ Ripen
  \/ \E key \in RunKeys : SweepCompany(key)
  \/ \E k \in Sweepers : SweepStep(k) \/ CrashSweep(k)
  \/ \E k \in Sweepers, j \in SweepJobs : BeginSweep(k, j)

CleanupSpec == CleanupInit /\ [][CleanupNext]_cleanupVars

-----------------------------------------------------------------------------
(* Properties. *)

(* Repositories whose candidate can write and was not invited again since  *)
(* he was last removed.                                                    *)
NeverLeft == collaborators \ reinvited

(* What a record says of its repository and of the candidate's access is   *)
(* so, whatever two sweeps with stale records write over each other and    *)
(* wherever one dies, unless the candidate was invited again since         *)
(* (_apply_retention_cleanup after the call to GitHub,                     *)
(* _enforce_collaborator_revocation).                                      *)
RecordsTellTruth ==
  \A w \in Workspaces :
    /\ wsRow[w].status = "archived" /\ wsRow[w].cleaned => repo[w] # "live"
    /\ wsRow[w].status = "deleted" => repo[w] = "gone"
    /\ wsRow[w].revoked = "yes" => w \notin NeverLeft

(* A repository that a sweep archives or deletes belongs to a session that *)
(* is over, and if the sweep found it cut off the candidate was removed    *)
(* before and can write to it only by a later invitation                   *)
(* (_REVOCATION_BLOCKING_FAILURES).                                        *)
OverBeforeCleaned ==
  \A k \in Sweepers :
    sweep[k].at = "clean" =>
      /\ Target(k) \in finished \/ TrialOf[Target(k)] \in ended
      /\ Target(k) \in sweep[k].cut => Target(k) \notin NeverLeft

(* The same whoever was invited again: TLC refutes it, and no later sweep  *)
(* makes it true, since a record that says revoked is left alone           *)
(* (ensure_existing_workspace, _enforce_collaborator_revocation).          *)
RevokedStaysOut ==
  \A w \in Workspaces : wsRow[w].revoked = "yes" => w \notin collaborators

(* A job of clean-up that succeeds has left a verdict on every record it   *)
(* listed, earlier failures and deaths of workers notwithstanding          *)
(* (_process_cleanup_target, handle_trial_cleanup).                        *)
SuccessMeansSwept ==
  [][\A k \in Sweepers, j \in SweepJobs :
       (sweep[k].at # "idle" /\ sweep[k].of = j
          /\ sweepJob[j].status # "succeeded" /\ sweepJob'[j].status = "succeeded")
       => \A w \in sweep[k].listed : wsRow'[w].status # "none"]_cleanupVars

(* Terminating a trial cancels no job of another trial                     *)
(* (_cancel_pending_trial_jobs: "Cancel pending jobs scoped to the         *)
(* terminated trial.").                                                    *)
CancelsOwnJobs == \A t \in Trials : scenarioJob[t] = "cancelled" => t \in ended
=============================================================================
