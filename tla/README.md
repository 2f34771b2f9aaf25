# Verification of the Winoe backend

TLA+ models of the Winoe backend (`src/app`, `src/alembic`, `src/scripts`), the TLC configurations that
check them on small instances, and TLAPS proofs of what matters most for every
instance. A talent partner creates a *trial*, a language model writes its
scenario, the trial is approved and invites candidates, a candidate works
through five days of tasks, and an evaluation turns the evidence into a report.
Nearly everything after a request's own commit happens in *jobs*, which may run
late, twice, at the same time as a request, or half. That is what the models
are about.

## 1. The system

FastAPI routes call services, services call repositories (SQLAlchemy, one
`AsyncSession` per request, `autoflush=False`, `expire_on_commit=False`), and
one or more worker processes run jobs from a table. There is no shared memory
between processes: the database, GitHub, the object storage and the language
and speech providers are all they share.

| Component | State it keeps | Operations | Talks to | What is hard | What makes it correct |
|---|---|---|---|---|---|
| Job queue (`shared/jobs`) | rows of `jobs`: status, attempt, next_run_at, locked_at, locked_by | enqueue, claim, settle, retry, reschedule, dead-letter, cancel, requeue | every component enqueues; workers run handlers | a lease nobody renews, a last write that names only the row's id, crashes between any two commits | one owner per claim, bounded retries, every job ends |
| Trial lifecycle (`trials`) | trial status, active and pending version, `scenario_versions`, `tasks` | create, regenerate, edit, approve, activate, invite, terminate; the generation handler | queue, candidate sessions | the handler runs again at any time; several versions' jobs in any order | nothing unapproved is used, nothing locked changes, termination is final |
| Drafts and submissions (`submissions`, `tasks`, `day_close_finalize_text`) | `task_drafts`, `submissions`, session status | save a draft, submit, close a text day | queue, notification | requests check the clock and write later; the closing job runs beside them | what was saved in time counts, once; completion is earned and happens |
| Coding workspaces (`submissions`, `integrations/github`, `day_close_enforcement`) | workspace and group rows, revocation, day audits, the repository | codespace init, resent invitation, submit, close a coding day | GitHub, queue | two systems of record, several commits per handler, a candidate who names a branch | the cutoff is the head of the default branch, closed until the next invitation, and has what was submitted from it |
| Recordings (`media`, `transcribe_recording`) | `recording_assets`, `transcripts`, objects in storage | init, complete, delete, purge, transcribe | storage, speech provider, queue | the handler works without a lock; the purge removes before it commits | deleted words stay deleted, ready stays ready, every upload is settled |
| Evaluation (`evaluations`) | `evaluation_runs`, scores, report marker | ask for a report, run, fetch | language model, queue, notification | a job found by its key may be settled already; a run is written in a long transaction | one evaluation per job at a time, a finished run never changes, a report stays readable |
| Workspace clean-up (`workspace_cleanup`, `trial_cleanup`) | clean-up status of each workspace record | terminate, sweep a trial, sweep a company | GitHub, queue | one listing at the start of a long job, two sweeps at once, failures in the middle | what a record says of the repository, and of a candidate who was not invited again, is so; a job that succeeded swept everything it could |
| Candidate sessions (`candidates`, invites of `trials`, admin of `talent_partners`) | `candidate_sessions`: token, claim, schedule, status | invite, resend, claim, open, schedule, reset, move day windows | auth, queue, e-mail | reads without a lock before reads with one; schedule against jobs already enqueued | a mailed link works, what the candidate chose stands, scheduled days close |
| Workflow runs (`integrations/github`, run and submit of `tasks`) | caches of a process, the submission's run and results, parse jobs | dispatch, observe, poll, webhook, parse | GitHub, queue | a dispatch does not say which run it made; webhooks are lost, repeated, reordered | a submission gets the results of its own run |
| Bootstrap of repositories (`submissions`, `trials`) | group and workspace rows, the repository | invite or init, create, seed, let in, store; the seeded evidence workflow | GitHub, e-mail | a dozen calls before the one commit | a stored workspace has a seeded repository |
| Schema migrations (`alembic`, `core/db`) | every table of the trial's family | upgrade, downgrade | database | two parent tables, children with either column, half repaired databases | every row and link survives, or the migration refuses |
| Scores and reports (`evaluations`, `ai`) | policy and rubric snapshots, reviewer reports, day scores | freeze, evaluate a day, aggregate, compose | language models | rules change under an evaluation; providers mix up days | candidates are judged by the same rules until the version is generated again, each day counts once |
| Notifications and e-mail | delivery audit rows, invite e-mail columns | invite, confirm, notify, retry | e-mail provider, queue | the mail leaves before the row that says so; a lease that runs out under its worker | sent means delivered; a second copy has an excuse |
| Worker process | `worker_heartbeats` | start, loop, beat, stop | queue, readiness | a beat in flight at the end, a loop without its beat | a worker that looks ready is there |
| Readiness and provider calls (`shared/http`, `ai`, `integrations`) | settings | probe, build, ask, fall back | all providers | the probe and the factories decide twice | ready means it can be built |
| Demo dataset (`demo`, `scripts`) | every table | clear, write | GitHub's stand-in | two transactions and services that commit by themselves | whole or gone |
| Media storage (`integrations/storage_media`, `media`) | objects, their descriptions, signed links | declare, sign, upload, complete, watch, purge | object storage | two files per object, memories of processes, links that outlive rows | accepted is stored, purged never plays |
| Talent partners and companies (`talent_partners`) | companies, users, admin audits | - | - | - | - |
| Shared HTTP, auth, rate limits, logging, config, database engine | an in-memory counter per process | - | - | - | - |

`PROJECT.json` has the same list with the modules and, for what is not
modelled, the reason. Its `hazards` name the lines where the code is hard to
test.

## 2. Modules

Each component has a module `X.tla` (its state, one action per operation,
handler step or outside event, its properties and the mutations that a test of
the properties substitutes). The seven of the core have an `MCX.tla` with values
for TLC, and six of them an `XProofs.tla`. The others, which share no state with
them or among each other, are checked side by side in `MCGithubServices`
(WorkspaceCleanup, WorkflowRuns, RepoBootstrap) and `MCOfficeServices`
(SchemaUpgrades, ReportScores, Notifications, WorkerHealth, ServiceReadiness,
DemoSeed, MediaStorage): a variable says whose behaviour it is, and the
variables of the others stay as they began. `InvitesProofs` has the theorems of
CandidateSessions, of the three of `MCGithubServices` and of their composition,
`OfficeProofs` those of the seven of `MCOfficeServices` and of theirs.

### JobQueue, ClaimTokens

`row[j]` is the `jobs` row of an idempotency key, `worker[w]` what a worker
process holds between two statements, `client[c]` an ORM edit of an API call
whose SELECT and flush are apart, `retried`, `retries` and `disturbed`
histories.

| Action | Code |
|---|---|
| SelectCandidate, ClaimUpdate, ReadClaimed | `claim_next_runnable`: the SELECT, the conditional UPDATE, the read-back |
| MarkSucceeded, DeadLetterPermanent, RetryOrDeadLetter | the last write of `run_once` after success, `PermanentJobError`, any other error |
| HandlerReschedule, VerifyRescheduled | a handler that put its own job off, and the check after it |
| Enqueue | `create_or_get_idempotent` |
| LoadMutable, LoadPending, LoadDeadLetter; UpdateExisting, CancelTrialJob, RequeueDeadLetter | `create_or_update_idempotent`, `_cancel_pending_trial_jobs`, `requeue_dead_letter_jobs`: SELECT, then flush of the changed columns |
| AdminRequeue | the admin's requeue of a dead or stale job |
| Crash, Tick | a worker dies; time passes |

Time is relative (ticks until due, ticks since locked), so no clock has to be
bounded. `ClaimTokens` is the abstract specification: attempt numbers are
tokens, given out once each, in sequence. `JobQueue` implements it under the
mapping `last[j] = row[j].attempt`, `token[w]` = the claim an executing worker
holds.

### TrialLifecycle

`trial` (status, active, pending), `version` (status and one token for all
generated text), `taskSource` (the version that last wrote the shared `tasks`
rows), `job` (0 is creation's, v is version v's), `session` (invites),
`cleanup`. Every service locks the trial row and commits once, so each is one
action: Approve, Activate, RestorePlaceholder, RequestRegeneration,
UpdateActive, PatchVersion, Invite, Terminate, UseFallback (admin), RequeueJob
(operator). The handler is RunHandler (its commit), FinishJob
(`mark_succeeded`) and DeadLetterJob; between the first two the job may run
again, which is what a crash or a lost lease of JobQueue amounts to.

### DaySubmissions

`now` in half days (day *d* is open while `now = 2d - 1`), `draft`,
`submission`, `completed`, `notified`, `job`, `request` (a PUT of a draft, a
submit or a handoff completion, at one of its steps), `worker` (a run of the
finalize job at one of its steps). Requests: PutDraft, LoadDraft, WriteDraft;
Submit, Create, Settle, Notify; CompleteHandoff; CutOff (the request dies).
The job: StartFinalize, ReadCutoff, CreateFromCutoff, MarkDraft, Progress,
ReportSuccess, FailFinalize. A request does not outlast a night (guard of
Tick).

### CodingDays

The same clock from day 2 on. `stored`, `revokedAt`, `audit`, `submission`,
`job` are rows; `repo` and `access` are GitHub's; `pushes`, `cut`,
`overwritten` and `forced` are histories (`cut[d]` is whether the job of day
*d* has removed the candidate and whether an invitation has come since). A
commit is its number, a branch the set of commits it has: the default branch,
whose head is the cutoff, and one other, which a submission may name
(`payload.branch`). Requests: InitCodespace, Regrant, Inspect, Seed, Grant,
Store; Submit, RunTests (on the branch that was named), CreateSubmission;
CutOff. The talent partner: ResendInvite, on any day and whatever was cut or
revoked. The candidate: Push, to either branch, on top of any commits. The job:
StartEnforcement, ReadState, Revoke, RecordRevoked, ReadHead, CreateAudit,
ReportSuccess, WorkspaceMissing, FailEnforcement.

### Recordings

`phase` (the day's window open, closed, retention expired), `status`,
`transcript`, `stored` (the object), `submitted` (the recording the handoff
submission points to), `job`, `purge`, `worker`; histories `overlap` and
`halfPurged`. The candidate: InitUpload, PutObject (straight to the storage),
Complete, Delete. The purge: SelectExpired, RemoveObject, CommitPurge,
FailPurge. The handler: StartTranscription, MarkProcessing, Transcribe,
MarkReady, MarkRetrying, MarkFailure, ReportSuccess, ReportError, Crash.

### EvaluationRuns

The reports of one candidate session. `evidence` numbers what the submissions,
audits and transcript have been, `request` is the fingerprint a request has
computed, `job` and `run` are the jobs and the committed `evaluation_runs` rows
by the fingerprint of the job, `marker` the `winoe_reports` row, `notice` the
notification job, `worker` a run of the handler. The run row is inserted
and flushed before the language model is asked and committed with the outcome:
in between only the unique index knows of it (`Inserted`). Requests:
ComputeBasis, EnqueueRun. The handler: StartEvaluation, ReadEvidence, LookUp,
StartRun, RecordInvalid, Evaluate, SelectMarker, InsertMarker, CommitRun,
MarkFailedRun; what the queue makes of it: ReportSuccess, ReportFailed,
ReportError; around it NewEvidence, RequeueDeadLetter, Crash. `FetchStatus` is
what the talent partner sees.

### CandidateSessions

One invited session. `session` is the row, `holder` the holder of its lock,
`partner` the invite transaction (staged token, mail, commit are three steps),
`req` the candidate's requests with the view each has loaded, `job`, `run` and
`closed` the closing jobs, their handlers and the days with a cutoff. A request
that goes by the session's id reads first without a lock, and `Identity` keeps
that view when it locks: the ORM does not refresh. StageInvite, SendInvite,
CommitInvite, FailInvite; BeginClaim, BeginSchedule, BeginOpen, LockRow,
LockOpen, CommitClaim, CommitSchedule, Refuse; ResetSession and SetDayWindow
(operator); ClaimJob, ReadWindows, FinishJob, CrashWorker. DaySubmissions and
CodingDays start where this module's schedule is committed.

### WorkspaceCleanup

`wsRow` (clean-up columns), `repo` and `collaborators` (GitHub), `sweepJob` (one
per trial, and for the company one per run key), `sweep` (a handler run with the
targets, rows and cut-offs it listed), `reinvited` (history: who was let in again
after a removal). TerminateWithCleanup cancels jobs by prefix and enqueues,
SweepCompany enqueues under a run key; BeginSweep lists; Revoke, Clean and
StoreTarget are the calls and the commit of a target; RaiseTarget and CrashSweep
end a run early. InviteAgain is `ensure_existing_workspace`, which adds the
collaborator of any stored workspace. `Written` is the unit of work: an UPDATE
sets the columns that differ from what was loaded.

### WorkflowRuns

GitHub: `branchHead`, `workflowRun`, `shown` (what a listing shows), `recent`,
`deliveries`. The process: `listed` and `answered`, its caches. The database:
`codeSubmission`, `parseJob`. A request goes ListRuns, Dispatch, Observe or
GiveUp, Answered; GitHub goes Push, Show, Age, Upload, CompleteAttempt, Rerun,
LoseDelivery; Deliver is the webhook, Parse the job, Poll a later look.

### RepoBootstrap

`commits` is the history of the branch, `repository` what else GitHub has,
`workspace` the rows, `opener` the requests that ensure the workspace, one step
per GitHub call from CreateEmptyRepo to AddCandidate; StoreWorkspace or
MailAndCommit stores; MailFails, RequestFails and Abandon are the ways out.
CandidatePush, RunEvidence and SubmitDiff are what follows. `CaptureArtifacts`
is the workflow that the bootstrap writes, `ParseTestResults` the parser.

### SchemaUpgrades

`database` is both parent tables, their columns, the children's links and
foreign keys. Of a trial's columns, `body` stands for those that the unification
compares, `aside` for those of newer code that it does not compare, `extra` for
one that newer code does not have. Each migration is one action, but for the unification, whose
steps are UnifyParents, UnifyChildren, UnifyUniques, UnifyKeys, DropLegacy and
FinishUnification, any of which may raise and restore `beforehand`. CreateAll and
WriteDraft are newer code that runs on the older schema.

### ReportScores

`version` has the policy snapshot and its `edition` (how often it was written
since the first invitation), `rubricRows` the rubric snapshots, `attempt` the
evaluation under way, `evaluated` its outcome per session with the version as it
was when policy and rubrics were read, `shown` which edition and days the
candidate was told of. GenerateVersion writes policy and rubrics, also of a
locked version, which it unlocks (a re-run of creation's job); LockVersion and
RenderClaim freeze and show; BeginEvaluation, ReadRubrics, ReviewDay,
DeterministicReview, ProviderFails, GiveUpAttempt, StartAggregation,
AggregateWinoeReport, AggregateDeterministic and MarkFailedRun evaluate;
UpdateTrial and ReplaceCompanyRubric change the rules under all of them.

### Notifications

`mailer` is a request or worker between its look at the audit, the provider's
answer and its commit; `inbox` counts what was delivered, `audit` what is
recorded. ClaimNotice goes by the lease alone: a running notice may be taken
from a worker that is dead or still at it, and the latter counts in the history
`overlaps`. `excused` is a history of answers and rows that were lost.

### WorkerHealth, ServiceReadiness

`process` is the loop, `beat` the task beside it, `heartbeat` the rows by
instance; two processes may share an instance id, as a restarted container
does. `settings` ranges over complete settings and each of their parts left
out; `probed` is the last answer of `/ready`, `call` one language model call.

### DemoSeed

`rows` are the committed rows by kind and seed, `seeder` the run of the script
with what its open transaction added and removed. UseDemo and InviteGuest are
what people do between two seeds; SeedFails rolls back at any step.

### MediaStorage

`asset` rows, `object` and `sidecar` (the bytes and the file that describes
them), `memory` of each process, `link` (when the last signed link ends). With
S3 the candidate's browser puts the object (PutToS3), with the fake storage a
process takes it (TakeUpload, WriteBytes, WriteDescription). Recordings has the
rows' other transitions.

## 3. Runs

| Run | Question | Properties |
|---|---|---|
| `job_queue` | two workers, an API session, one job; crashes, overrun leases, cancels and requeues | RetryBudget; ClaimsAreOwned = ClaimsUnique, OwnedUntilDisturbed; ClaimsFollowTokens = ImplementsClaimTokens, StaleSelectionNeverClaims; EverySettles |
| `trial_lifecycle` | three versions, one invited address, re-run jobs, one operator intervention | InvitesAreReviewed = VersionsReviewed, InvitingIsLocked, InvitesDieWithTrial; SettledStays = TerminatedStops, PinnedChangesOnlyByRerun; GenerationSettles |
| `day_submissions` | a handoff and a text day, two requests, two workers, two faults | CutoffsTakeDrafts = LastSaveIsSubmitted, ClosedDaysAreClosed; ProgressIsEarned; DaysCloseForGood = SubmissionsAreFinal, EveryTextDayCloses, AllSubmittedCompletes |
| `coding_days` | two coding days, two requests, two workers, two pushes, resent invitations, a fault | CutoffIsAllWork = CutoffIsHead, SubmittedWorkIsCut; DaysAreCutOnce = CutoffIsWrittenOnce, EveryCodingDayIsCut |
| `recordings` | a demo recording and a supplement, two workers, three attempts, a fault | RecordingsAgree = RedactedHasNoText, StatusesAgree, StorageAgrees, SubmittedIsTranscribed; ReadyIsKept; EveryUploadSettles |
| `evaluation_runs` | evidence that changes once, one request at a time, two workers, two attempts, two faults | ReportsAreTrue = ReportsAreAnnounced, OneEvaluationPerJob, AnswersAreFresh; OutcomesStay = RunsAreFinal, ReadyForGood; EveryRequestSettles |
| `candidate_sessions` | two requests, an invite that expires once, one reset or day-window control, one fault | SessionIsReachable = ScheduledIsOwned, NewestLinkWorks; NothingIsTakenBack = ScheduleStands, LinksStayValid; ScheduledDaysClose |
| `github_services` | one record swept by two jobs, of a trial or of run keys, its candidate invited again, in both modes, or two records by one job; two runs and a submission; two requests for one repository, with and without demo mode; one fault each | CleanupIsTrue = RecordsTellTruth, OverBeforeCleaned; SuccessMeansSwept; ResultsAreItsOwn = ResultsArrive, RunIsOfTheRequest; StoredRepositoryIsSeeded |
| `office_services` | legacy and half repaired databases; two sessions, two editions of a version, two providers and one failure; two mailers, one overrun lease and one fault; three processes of two instances; every single wrong setting; two seeds; two storages, two processes, one upload | UnificationKeepsAll = UnificationLosesNothing, UpgradeIsRepeatable; ReportsAreFair = SameRulesForAll, DaysAccountedFor; MailsAreTrue = SentMeansTold, SecondCopiesExcused; ReadyMeansWorking = ReadyMeansAlive, LostBeatEndsWork, ReadyServicesWork; DemoIsWholeOrGone; MediaIsKeptAsSaid = AcceptedIsStored, UploadsEndInTime, PurgedNeverPlays |
| `coding_day3_closed` | finding | EveryCodingDayOpens is violated |
| `s3_recordings_refused` | finding | DeclaredRecordingsAccepted is violated |
| `seeded_results_unreadable` | finding | TestResultsAreRead is violated |

Every passing run also checks a type invariant (`TypeOK`, `GithubTypeOK`,
`OfficeTypeOK`). A property written `A = B, C` is the
conjunction of the named parts.

**Bounds and why they are enough.** Races in this code are between two actors:
two workers with one lease overrun, a request and a worker, two requests. Each
run has two of the kinds that its liveness and its mutations need; every
safety property that a passing run checks is proved for any number (section 4). `MaxAttempts` is 2 (3 for
recordings, because a transcription shows its failure one attempt early), so
that the first and the last attempt differ. Budgets of faults and
interventions (`Budget`, `Faults`, `OperatorBudget`) reach the shortest bad
scenario of every property's mutation. Ages of leases are
counted up to `AgeCap`, beyond every threshold they are compared with.
`MaxVersion` 3 lets a version be regenerated while another is active and a third
be requested after that. `day_submissions` has the two kinds of days that
differ in who closes them (the handoff day comes first, so that the order
matters), `LastEvidence` 1 gives two jobs that may run at once. Texts are two
where a property tells whether a text changed (the versions of `trial_lifecycle`, and FinalizedDraftsFrozen) and one elsewhere. No symmetry is used, but `OneStartsFirst` names the first
of two equal worker processes.

`coding_days` has two of everything, but not all at once (`SecondsAlone`): a side
branch or a second push, and a second request that creates the repository, come
where one worker does the jobs and no fault happens, and not both; two workers
and a fault come with one branch and one request. An invitation that is resent
to a stored workspace is free to come at any time.

The last two runs are larger in kinds than in numbers. `OneSweep`, `TwoSweeps`,
`RelevantRuns` and the initial conditions of `MCGithubServices` leave out what
two records under two sweeps would repeat, a third job, runs that no request
will look at again, and changes of a cache that nobody reads. Those of
`MCOfficeServices` leave out that two equal sessions, mailers or processes change
places (`OneIsEvaluatedFirst`, `OneSendsFirst`, `OneStartsFirst`) and settings
changed when no generation or lock can read them (`SettingsAreRead`).
`LastEdition` 2 is a version that is generated again once after it was locked,
`LastRubric` 1 a company rubric that appears in between, `LastOverlap` 1 one
lease that runs out under a worker at work. One fault per component is enough
for every mutation. Databases are enumerated by what the migrations tell apart. Those
that were repaired by hand have one parent table or both, a row in either with
columns that are null, agree or conflict, a version to spare, a session that
names its trial in the old column or the new, and foreign keys to either table:
some the unification finishes, some it refuses.
Settings are complete ones with each part wrong in turn, since the checks of
readiness do not depend on each other.

**Deadlock.** The queue, the trial and the evaluations never stop, so their
runs check it. The
other systems really end (the last day is over and all jobs are settled; the
retention has expired, every fault is spent, the last push, mail or second is
over), and their cfgs say
`CHECK_DEADLOCK FALSE`.

**Fairness.** `run_worker_forever` polls for ever and each handler returns or
raises in the end, so a worker's next step and the claim of a due job are
weakly fair, and so is a session that has begun its flush. Time passes. A
trial's job is fair in the same sense (`RunHandler` or `DeadLetterJob`), which
is what `EverySettles` of JobQueue establishes. No fairness is assumed of
candidates, talent partners, operators, crashes, faults, new evidence, or of
whoever starts a purge: nothing in the application enqueues `media_retention_purge`.

## 4. Proofs

`tlapm` checks the theorems for any number of workers, requests, versions,
recordings, records, runs, mailers, processes, seeds, uploads, databases, faults
and texts, from one named assumption per module. They say that null values are
not values, bounds are naturals and caps are not below what they cap. A few say
more, and each is something the code or its surroundings see to:

- `CandidateSessionsAssumption`: every closing day is one of the trial's days,
  and all of them fit before `LastTime`.
- `WorkspaceCleanupAssumption`: `TrialOf` gives each record a trial, and no run
  key is the id of a trial (their jobs have keys of different kinds).
- `NotificationsAssumption`: there are finitely many mailers, as copies are
  counted.
- `MediaStorageAssumption`: retention ends after the last upload URL has
  (`RetentionEnd > WindowEnd + MaxLife`: days against hours).
- `DemoAssumption`: finitely many demo candidates, none called like the guest or
  the demo's own rows.
- `ReportAssumption`: a candidate's work is a record for each day, and answers
  are mixed up among the days.
- `SchemaAssumption`: the databases that the migrations may find are well typed;
  they fit their schema (`FitsSchema`: nothing is stored in a table or a column
  that is not there, which the database itself sees to); active and pinned
  versions belong to their trials (`OwnVersions`); the old ones have only the table
  "simulations" and a trial for each session, and those repaired by hand have
  versions. It says nothing of whether both tables, both columns or their keys
  agree: that is what the unification has to find out.

| Module | Theorems | Inductive invariant and why it is needed |
|---|---|---|
| JobQueueProofs | TypeCorrect, ClaimsAreUnique, RetriesAreBounded, Ownership, ClaimsOwned, ClaimsAreRechecked, TokensRefined, ClaimsAreTokens | `ClaimInv`: a worker's claim was issued (its number is at most the row's) and each number re-queues at most once, in `retried`, below `MaxAttempts`; uniqueness alone is not preserved by a claim unless old claims are known to be smaller. `OwnInv`: an undisturbed executing claim is the row's latest, locked for that worker, and its lease is not overrun, because only then do the claim filters exclude it |
| TrialLifecycleProofs | TypeCorrect, RegeneratedReviewed, InvitingLocked, InvitesDie, InvitesReviewed, TerminatedIsFinal, PinnedVersions, SettledForGood | `TrialInv` adds `Grounded`: absent versions are after the present ones, a job exists only for a present version, what is pinned exists |
| DaySubmissionsProofs | TypeCorrect, CutoffTakesLastSave, ClosedDays, CutoffsTake, NoSubmissionReplaced, EarnedProgress | `DayInv` says of each request and run what it has established by the step it is at (`Held`, `Run`): the draft it read is the draft that is there unless it was saved late, the submissions before its day are there; and `ClosedWhenDue`: a job runs only after its day |
| CodingDaysProofs | TypeCorrect, CutoffHead, SubmittedInCutoff, CutoffsHaveAll, CutoffsAreFinal | `CodingInv`: `Numbered` and `Looked` (commits are numbered as they come, so a bootstrap that drops none changes none), `Seen` (what anybody saw of the default branch is on it while nothing was dropped), `Closed` (nobody is a collaborator between a removal and the next invitation), `Cutting` and `Audited` (a handler past the removal knows of it, and the head it read is the head until the next invitation) |
| RecordingsProofs | TypeCorrect, RedactedForGood, ReadyTogether, StorageInStep, SubmittedTranscribed, RecordingsTellOneStory, ReadyKept | `RecordingsInv`: per recording, `Asset`; per run, `Run` (its job is running with its attempt, or was taken over and `overlap` says so); per pair of runs, `Apart`. The lemma `NewlyReady` shows that only `_mark_ready` makes a recording ready, `OthersRun` that a step of one worker keeps the invariant of another's run |
| EvaluationRunsProofs | TypeCorrect, RunsFinal, ReadyKept, OutcomesFinal, Announced, OneEvaluation, FreshAnswers, ReportsTrue | `EvaluationInv`: `Exclusive` (an uncommitted run row is the only one of its job, and none is committed), `Outcome` (what a handler is about to answer is what the committed run says), `Forward` (no request, job or handler is ahead of the evidence, and what is evaluated is not older than its job). The lemmas `RunWrittenOnce` and `CompletedByCommit` say who writes a run and how often |
| InvitesProofs, CandidateSessions | SessionInvariance, SessionTypeCorrect, SessionReachable, NothingTakenBack | `SessionInv`: `Locked` (the row's lock is held by whoever may change claim or schedule), `Fresh` (so what a scheduling request has loaded is still so, though the ORM does not refresh), `Drawn` and `Mailed` (tokens are drawn in order, and while no transaction failed the mailed one is never ahead of the row and its transaction) |
| InvitesProofs, WorkspaceCleanup | CleanupInvariance, CleanupSuccess | `CleanupInv`: `SweepsInOrder`, `SweepsTellTruth` (`RowIsTrue` of every row, also of those that a sweep loaded long ago: they are stale but not false, for nothing at GitHub is undone but a removal, and that only by an invitation, which `reinvited` records), `SweepsLeaveVerdicts` (behind the sweep's target every record has a verdict, and no loaded verdict was taken back), `CleansTheDue` (who was cut off and is cleaned up was removed, and can write only by a later invitation) |
| InvitesProofs, WorkflowRuns | WorkflowInvariance | `WorkflowInv`: `LatestIsSomewhere` (the report of a run's last attempt is on its way, lost, in a job or in the submission), `SureRequests` (every run that a request could still take for its own was dispatched after it began) |
| InvitesProofs, RepoBootstrap | BootstrapInvariance, BootstrapIsSeeded | `BootstrapInv`: `FullTreesAreSeeded` (a tree with all the files descends from a seeded commit, so a look at the tree is enough), `InvitedFirst` (the invitation that makes the session is alone), `SeededBehind` (who is past the bootstrap left a seeded branch), `DemoIsUndisturbed` (the demo provider starts a new history, so nobody may seed between another's look and first file) |
| InvitesProofs, MCGithubServices | GithubServicesImplement, GithubInvariance, GithubTypeCorrect, CleanupTellsTruth, SweptOnSuccess, ResultsAreOwn, RepositoriesAreSeeded | `GithubInv`, the three together. Each component's variables move by its own steps or not at all, so the composition implements each specification and has its invariant |
| OfficeProofs, ServiceReadiness | ReadinessInvariance | `ReadinessInv`: `ProbeIsCurrent` (a probe's answer is about the surroundings as they are), `CallInOrder` and `StandInsAsked` (whom a call has asked by the step it is at) |
| OfficeProofs, WorkerHealth | HealthInvariance | `HealthInv`: `InOrder` (a process that took a job after its beat failed takes no other), `RowHasWriter` (a running row was written by a process that lives, or died without a word since) |
| OfficeProofs, MediaStorage | MediaInvariance, MediaAccepted, MediaUploadsEnd, MediaNeverPlaysPurged | `MediaInv`: `Held` (what the fake storage holds or remembers of an awaited upload is what was declared, bytes before description; S3 keeps both together; a purged object is gone), `WriterInOrder` (a write ends before the retention does, a removal begins after) |
| OfficeProofs, Notifications | MailInvariance | `MailInv`: `MailLedger` (deliveries are sent rows, excused losses and the mailers that still owe a row) and `MailCopies` (sent rows and the mailers that owe one or may yet send are at most one more than the overlaps), both by counting, for any number of mailers at a notice; `NoticesTold`, `NothingConfirmed` and `MailerInOrder` say what each knows by the step it is at |
| OfficeProofs, DemoSeed | DemoInvariance | `DemoInv`: `ClearedInOrder` (nothing that stays needs what is deleted, only rows by use have come since the ids were selected), `FilledInOrder` (each candidate is written or still to come, and the repositories, which no rollback undoes, are there) |
| OfficeProofs, ReportScores | ReportInvariance | `ReportInv`: `PagesAreTrue` (a claim page has the days of its edition), `RunsAreTrue` (who was evaluated was shown something, and the run agrees with it if the edition is the same), `RulesArePast` and `OneRubricEach` (versions that were read are never written again as they were, so those who read the same have one rubric), `AttemptInOrder` and `AttemptHasRubrics` (the evaluation under way has the rubrics of the version it read and one answer for each day that it asked about) |
| OfficeProofs, SchemaUpgrades | SchemaInvariance | `SchemaInv`: the database is `Sound` after each migration; `AtStep` has what each step of the unification may rely on and that every fact and link of `beforehand` is kept so far (`KeptSoFar`), and of the columns that are not compared what the standing row says, the new table's or, without one, the old one's; `StillSays` that what a finished unification said, whatever table and column says it, survives every downgrade, so that doing it again gives the same database |
| OfficeProofs, MCOfficeServices | OfficeServicesImplement, OfficeInvariance, OfficeTypeCorrect, NothingIsLost, ReportsAreAlwaysFair, MailsTellTruth, ReadinessTellsTruth, DemoStaysWhole, MediaStaysAsSaid | `OfficeInv`, the seven together, as above |

Each invariant proof has one lemma or step per action; the safety theorems are
its conjuncts, and the action properties follow from it step by step. The
theorems about a conjunction cite those about its parts. Those about a component
are stated for its own specification and carried over to the composition that
the run checks.

Only model-checked:

- the liveness properties (EverySettles, GenerationSettles, EveryTextDayCloses,
  AllSubmittedCompletes, EveryCodingDayIsCut, EveryUploadSettles,
  EveryRequestSettles, ScheduledDaysClose), since the prover has no liveness under
  fairness; with them DaysCloseForGood and DaysAreCutOnce, whose other parts are
  proved;
- the findings, which are counterexamples, and AnyStatusMayTerminate, which
  speaks of ENABLED.

The proofs corrected the models where a run had found nothing wrong. Half
repaired databases had been chosen so that the unification finished too few of
them; repeating it keeps less than had been stated (section 5, the hand-repaired
column); and two bounds had to be positive for a start to exist.

## 5. Where the code and its texts disagree

Three have a run:

1. **The end of day 2 closes day 3** (`coding_day3_closed`). Both days share a
   workspace row; its `access_revoked_at` is never cleared and the gate of
   day 3 reads it.
2. **Behind S3 no recording is accepted** (`s3_recordings_refused`). Completion
   refuses a recording whose metadata has no duration, and the S3 provider's
   metadata is length and type. The fake storage repeats the declared duration.
3. **The seeded workflow's test results cannot be read**
   (`seeded_results_unreadable`). It writes `test_results.json` with a status
   and the output; the parser and `docs/codespaces_actions.md:25` ask for
   `winoe-test-results.json`, or any JSON with passed, failed and total.

The others are stated as properties of their modules, and TLC refutes each when
it is put into the cfg named here:

| Property | Put into | What happens |
|---|---|---|
| TrialLifecycle.AnyStatusMayTerminate | `MCTrialLifecycle.cfg` | a generating trial cannot be terminated: `ck_trials_active_scenario_required` wants an active version (`docs/trial_lifecycle.md:29`: any status can) |
| TrialLifecycle.LockedStaysLocked | `MCTrialLifecycle.cfg` | a re-run of creation's job rewrites and unlocks a locked version 1; every other path refuses locked versions |
| TrialLifecycle.UnapprovedTextHidden | `MCTrialLifecycle.cfg` | a regeneration rewrites the tasks of invited candidates before it is approved (`docs/api.md:2175`) |
| DaySubmissions.FinalizedDraftsFrozen | `MCDaySubmissions.cfg` with two `Texts` | a PUT that loaded a draft before the day ended rewrites it after it was finalized (`docs/api.md:1469`) |
| CodingDays.ClosedStaysClosed | `MCCodingDays.cfg` | an invitation that is resent after the cutoff, or an init in flight when the day ends, makes the candidate a collaborator again, and the branch moves past its cutoff |
| CodingDays.WorkOfEveryBranchIsCut | `MCCodingDays.cfg` | what was submitted from a branch that the candidate named is in no cutoff, which is read from the default branch |
| EvaluationRuns.ActiveIsRunning | `MCEvaluationRuns.cfg` | after a failed run, the running job of a new request is shown as failed (`docs/ai_evaluation_jobs_integration.md:40`) |
| CandidateSessions.OneClaimant | `MCCandidateSessions.cfg` with two `Subs` | a sign-in that waited for the lock still sees no claim and overwrites the one just committed |
| WorkspaceCleanup.CancelsOwnJobs | `MCGithubServices.cfg` with `Trials = {1, 10}` and `SamePrefix = {<<1, 10>>}` | terminating trial 1 cancels jobs of trial 10 (`LIKE 'trial:1%'`) |
| WorkspaceCleanup.RevokedStaysOut | `MCGithubServices.cfg` | a resent invitation gives access back; the record still says revoked, and later sweeps skip it for that |
| WorkflowRuns.PollsFindArtifacts | `MCGithubServices.cfg` | an empty list of artifacts is cached and later polls find none |
| RepoBootstrap.DiffShowsAllWork | `MCGithubServices.cfg` | a call fails after the seeding, and the request that starts over finds the repository seeded and stores the workspace with no base commit; a submission's diff then starts at its own head and shows no work |
| ReportScores.SameRulesForGood | `MCOfficeServices.cfg` | creation's job runs again after an invitation: policy and rubrics of the locked version change, and two candidates of the version are judged by different rules, or by others than they were shown |
| Notifications.NoticesComeOnce | `MCOfficeServices.cfg` | the lease of a notice runs out under its worker; two workers look before either commits, and both send |
| SchemaUpgrades.NothingLeftBehind | `MCOfficeServices.cfg` | rows of both tables that agree in the compared columns pass for equal; what the old one says in the others (`company_context`, the day windows, `ai_eval_enabled_by_day` and more) is dropped with its table |
| ReportScores.DisabledDaysUnscored | `MCOfficeServices.cfg` | a mixed up answer gives a disabled day a score (`docs/mvp1/rubric_transparency.md:35`) |
| Notifications.EveryReportAnnounced | `MCOfficeServices.cfg` with `LastReport = 2` | the notice of a second report is taken for the first one's and not sent |
| ServiceReadiness.ReadyMeansBuilt | `MCOfficeServices.cfg` | transcription by Anthropic, or S3 without a region, is called ready and cannot be built |

Behaviour the models have that no text of the repository contradicts, and that
is therefore no finding: a cancelled job may be re-queued by the error of the
worker that was running it; a completion mail is lost with its request and is
never sent when the closing job completes the session; a missed code or handoff
day blocks the session for good; a second bootstrap overwrites pushed commits; a slow transcription that
lost its lease can erase a ready transcript; a purge that fails after it
removed the object leaves a row that looks playable; a failed recording that is
completed again stays `uploaded` because its job is settled; abandoned uploads
are never purged (the filter leaves out `uploading` and `processing`); a
recording is shown as failed one attempt before the queue gives up; after a
failed run or a dead letter, asking for a report on the same evidence is
answered `queued` with the settled job and nothing runs (the reuse is
documented); requeueing the job of a failed run dead-letters it again; when two
jobs of a session insert the report marker at once, the slower one loses its
evaluation and an attempt; a closing job that ran before an operator's reset is
settled, and the new schedule's day has none; a webhook that comes before its
submission is committed finds none and is not asked for again; a confirmation
of a schedule is tried once and lost with its request; an orderly stop of the
last worker makes the service not ready, and a worker that a handler blocks
looks stale; `/ready` answers 500, not 503, when the database is down, because
its worker check asks it again; an invitation that fails after its repository
was created may leave the repository; links stay valid until they expire, also
after the recording is deleted; a column that newer code does not know, in a
table "trials" repaired by hand, survives the unification, but after a downgrade
the next one finds it in the old table, and drops it when it is empty or refuses
when it is not.

## 6. Abstractions

- A database transaction that locks its rows is one step; one that does not is
  split at every point where another process may commit. A request that fails
  is one that wrote nothing.
- Texts, prompts, recordings, commits and e-mail addresses are members of small
  sets. Payload validation, formatting, presentation, logging and metrics are
  left out.
- JobQueue: the order in which runnable jobs are taken is open, the eight tries
  of a claim are one loop, `payload`, `result` and `last_error` are not kept.
  The other modules have the job of their own component with the same claims
  and re-runs, and a stale claim as a further start of the same job.
- TrialLifecycle: `locked_at` follows the status; a session is an invite that
  exists, expired or not.
- DaySubmissions: the duplicate check and the reads of the closing job are one
  step; the conflict path after a rollback may raise, which is FailFinalize and
  a re-run. The window is fixed (a rescheduled job is JobQueue's
  HandlerReschedule).
- CodingDays: the two gate checks of a submit are one; the creation of the
  repository and the look at its branch are one step, and so are a resent
  invitation's look for the stored workspace and its call; group and workspace
  rows are one commit; GitHub's pending invitations count as access; of the
  branches beside the default one there is one; legacy workspaces per task,
  codespace state and the local day-window tool are left out.
  EveryCodingDayIsCut says that again and again no ended day waits, because a stale
  worker may queue a dead-lettered job once more.
- Recordings: one purge at a time (a second waits for the row lock); audit
  rows, consent and duration checks are left out.
- EvaluationRuns: the evidence is read in one step (the handler's SELECTs
  are apart) and never returns to an earlier state. Which of several completed
  runs is the latest is left out: it goes by `started_at`, so a run that read
  older evidence can be shown over one that read newer. A run's fingerprint may
  differ from its job's, so the same evidence may be evaluated under two jobs.
- CandidateSessions: consent, listings and the reviews of a talent partner are
  left out; tokens are numbers in the order in which they were drawn.
- WorkspaceCleanup: grouped and ungrouped records are one kind of row.
  InviteAgain may come at any time to a recorded, live repository: it stands for
  resent invitations and for inits whose checks are CodingDays'.
- WorkflowRuns: one process, one task; the fallbacks between workflow file
  names, signatures and payload decoding are left out. The results of an
  attempt are its number.
- RepoBootstrap: files are names; the evidence workflow is the names and keys of
  what it uploads.
- SchemaUpgrades: a trial is its id, a body, its owner columns, one column that
  is not compared, one that newer code does not know, and whether it is
  past drafting; ids and bodies are any naturals. Of the children there are
  versions and sessions; tasks follow as sessions do. Migrations that only add
  tables, columns or indexes are left out.
- ReportScores: scores are computed as the code does, in hundredths; prompts and
  the texts of evidence are left out. The version is the trial's first, whose
  generation may be run again (TrialLifecycle); one evaluation is made at a time
  (EvaluationRuns has two).
- Notifications: a notice's claim counts as an overlap whenever another worker
  is at the same notice, also one that has committed and is only settling.
- MediaStorage: sizes, durations and lives are scaled to their limits. The look
  at the stored object and the commit of a completion are one step, so "stored"
  means stored at the time of the check.

## 7. Not modelled

See `components` of `PROJECT.json`. HTTP middleware, authentication, rate
limits, logging, configuration and the engine are outside the protocols the
models are about. Trial, task, candidate and report pages read rows and format
answers. Talent partners and companies are single inserts. Operator scripts and
manual checks are for developers. `create_or_update_many_idempotent` is the
queue's Enqueue and UpdateExisting in a loop with one commit. The purge of
recordings for a data request has no caller in `src/app`.

What is worth adding:

1. Abstract specifications: a report's life (asked, being made, ready or failed)
   implemented by EvaluationRuns; a day's life (open, closed, settled)
   implemented by DaySubmissions and CodingDays.
2. Liveness of the clean-up and of the parse jobs, from the queue's fairness.
3. Several trials of a company in one module with the queue.
