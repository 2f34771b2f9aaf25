------------------------------ MODULE CodingDays ------------------------------
(***************************************************************************)
(* Days 2 and 3 of a scheduled candidate session: the one repository that  *)
(* both days share is created and opened to the candidate by codespace     *)
(* init, and when a day ends the day_close_enforcement job takes the push  *)
(* right away and records the head of the branch as the day's cutoff.  The *)
(* talent partner may invite the candidate again at any time, which gives  *)
(* the push right back.                                                    *)
(*                                                                         *)
(* GitHub and the database change in separate steps: a request looks at    *)
(* the clock, the cutoffs and the workspace row first and calls GitHub     *)
(* afterwards, the job revokes, commits, reads the head and commits again, *)
(* and two workers may run the same job (module JobQueue).                 *)
(*                                                                         *)
(* Clock: as in DaySubmissions, day d is open while now = 2d - 1 and the   *)
(* night after it is now = 2d.                                             *)
(***************************************************************************)
EXTENDS Integers, FiniteSets

CONSTANTS
  Requests,      \* candidate requests in flight at a time
  Workers,       \* workers that run enforcement jobs
  MaxPushes,     \* bound: commits the candidate pushes
  MaxAttempts,   \* DAY_CLOSE_ENFORCEMENT_MAX_ATTEMPTS
  Faults         \* bound: handlers that crash or raise

ASSUME CodingDaysAssumption ==
  /\ MaxPushes \in Nat
  /\ MaxAttempts \in Nat \ {0}
  /\ Faults \in Nat

VARIABLES
  now,          \* the clock, in half days
  stored,       \* the coding workspace (and its group) has its rows
  revokedAt,    \* workspaces.access_revoked_at, 0 if NULL
  audit,        \* candidate_day_audits rows, by day
  submission,   \* submissions rows of the coding days
  job,          \* day_close_enforcement jobs, by day
  repo,         \* the repository on GitHub
  access,       \* the candidate is a collaborator of it
  request,      \* requests in flight
  worker,       \* handler runs
  faults,       \* faults still allowed
  pushes,       \* history: commits pushed by the candidate so far
  cut,          \* history: by day, whether its job took the push right away
                \*   and whether the candidate was invited again since
  overwritten,  \* history: a bootstrap dropped commits of the candidate
  forced        \* history: the candidate dropped some by a forced push

db == <<now, stored, revokedAt, audit, submission, job>>
github == <<repo, access, pushes, cut, overwritten, forced>>
vars == <<db, github, request, worker, faults>>

-----------------------------------------------------------------------------
CodingDays == 2..3      \* _DAY_FLOW_INDEXES, _CODING_DAY_INDEXES
End(d) == 2 * d
LastTick == End(3)
InWindow(d) == now = End(d) - 1

(* Commits of the candidate, numbered as they are pushed. *)
Work == SUBSET (1..MaxPushes)

(* The default branch, whose head is the cutoff, and any other one. *)
Branches == {"default", "other"}

Head(branch) == IF branch = "default" THEN repo.work ELSE repo.side

NoRow == [there |-> FALSE, work |-> {}]
Rows == [there : BOOLEAN, work : Work]

NoSubmission == [there |-> FALSE, work |-> {}, branch |-> "default"]
SubmissionRows == [there : BOOLEAN, work : Work, branch : Branches]

JobRows == [status : {"queued", "running", "succeeded", "dead_letter"},
            attempt : 0..MaxAttempts]

RequestStates ==
  [at : {"idle", "create", "seed", "grant", "store", "regrant",
         "run", "submit"},
   day : {0} \cup CodingDays, work : Work, branch : Branches,
   since : 0..LastTick]
IdleRequest == [at |-> "idle", day |-> 0, work |-> {}, branch |-> "default",
                since |-> 0]

WorkerStates ==
  [at : {"idle", "read", "revoke", "record", "head", "audit", "report"},
   day : {0} \cup CodingDays, work : Work, attempt : 0..MaxAttempts]
IdleWorker == [at |-> "idle", day |-> 0, work |-> {}, attempt |-> 0]

(* Types of the rows, of the repository and of what requests and handlers hold. *)
TypeOK ==
  /\ now \in (End(2) - 1)..LastTick
  /\ stored \in BOOLEAN
  /\ revokedAt \in {0} \cup {End(d) : d \in CodingDays}
  /\ audit \in [CodingDays -> Rows]
  /\ submission \in [CodingDays -> SubmissionRows]
  /\ job \in [CodingDays -> JobRows]
  /\ repo \in [seeded : BOOLEAN, work : Work, side : Work]
  /\ access \in BOOLEAN
  /\ pushes \in 0..MaxPushes
  /\ cut \in [CodingDays -> {"no", "removed", "reopened"}]
  /\ overwritten \in BOOLEAN
  /\ forced \in BOOLEAN
  /\ request \in [Requests -> RequestStates]
  /\ worker \in [Workers -> WorkerStates]
  /\ faults \in 0..Faults

(* Day 2 opens; day 1 is submitted.  The invite has provisioned the        *)
(* workspace if the candidate's GitHub name was known by then.             *)
Init ==
  /\ now = End(2) - 1
  /\ stored \in BOOLEAN
  /\ revokedAt = 0
  /\ audit = [d \in CodingDays |-> NoRow]
  /\ submission = [d \in CodingDays |-> NoSubmission]
  /\ job = [d \in CodingDays |-> [status |-> "queued", attempt |-> 0]]
  /\ repo = [seeded |-> stored, work |-> {}, side |-> {}]
  /\ access = stored
  /\ pushes = 0
  /\ cut = [d \in CodingDays |-> "no"]
  /\ overwritten = FALSE
  /\ forced = FALSE
  /\ request = [r \in Requests |-> IdleRequest]
  /\ worker = [w \in Workers |-> IdleWorker]
  /\ faults = Faults

-----------------------------------------------------------------------------
(* Guards of the requests. *)

(* ensure_in_order, with day 1 submitted. *)
IsCurrent(d) ==
  ~submission[d].there /\ \A e \in CodingDays : e < d => submission[e].there

(* ensure_day_flow_open: the day's cutoff decides, or else the revocation  *)
(* recorded on the workspace.                                              *)
DayFlowOpen(d) ==
  IF audit[d].there THEN now < End(d) ELSE revokedAt = 0 \/ now < revokedAt

MayWork(d) == InWindow(d) /\ IsCurrent(d) /\ DayFlowOpen(d)

Started(r, d, at) ==
  request' = [request EXCEPT ![r] =
    [IdleRequest EXCEPT !.at = at, !.day = d, !.since = now]]

Proceed(r, at) == request' = [request EXCEPT ![r].at = at]
Done(r) == request' = [request EXCEPT ![r] = IdleRequest]

(* add_collaborator_if_needed; a GitHub error is swallowed. *)
AddCollaborator ==
  \/ /\ access' = TRUE
     /\ cut' = [d \in CodingDays |-> IF cut[d] = "removed" THEN "reopened"
                                     ELSE cut[d]]
  \/ UNCHANGED <<access, cut>>

-----------------------------------------------------------------------------
(* POST /tasks/{id}/codespace/init. *)

(* init_codespace up to ensure_workspace; day 3 creates no repository. *)
InitCodespace(r, d) ==
  /\ request[r].at = "idle"
  /\ MayWork(d)
  /\ stored \/ d = 2
  /\ Started(r, d, IF stored THEN "regrant" ELSE "create")
  /\ UNCHANGED <<db, github, worker, faults>>

(* The talent partner invites the candidate once more, on any day or night *)
(* and whatever was cut or revoked; preprovision_workspaces ensures the    *)
(* workspace.  A workspace that is there stays, so that looking it up and  *)
(* the invitation to it are one step.  Another one is provisioned for no   *)
(* day (0), with the session row locked meanwhile.                         *)
ResendInvite(r) ==
  /\ request[r].at = "idle"
  /\ IF stored
     THEN /\ AddCollaborator
          /\ UNCHANGED request
     ELSE /\ \A q \in Requests : request[q].at # "idle" => request[q].day # 0
          /\ Started(r, 0, "create")
          /\ UNCHANGED <<access, cut>>
  /\ UNCHANGED <<db, repo, pushes, overwritten, forced, worker, faults>>

(* ensure_existing_workspace: the candidate is invited again. *)
Regrant(r) ==
  /\ request[r].at = "regrant"
  /\ AddCollaborator
  /\ Done(r)
  /\ UNCHANGED <<db, repo, pushes, overwritten, forced, worker, faults>>

(* create_empty_repo, where a 422 means that the repository is there       *)
(* already; bootstrap_empty_candidate_repo then reads the branch and looks *)
(* for the files.                                                          *)
Inspect(r) ==
  /\ request[r].at = "create"
  /\ request' = [request EXCEPT ![r].work = repo.work,
                                ![r].at = IF repo.seeded THEN "grant" ELSE "seed"]
  /\ UNCHANGED <<db, github, worker, faults>>

(* Its commit goes on top of the branch it read: update_ref, force=True. *)
Seed(r) ==
  /\ request[r].at = "seed"
  /\ repo' = [repo EXCEPT !.seeded = TRUE, !.work = request[r].work]
  /\ overwritten' = (overwritten \/ ~(repo.work \subseteq request[r].work))
  /\ Proceed(r, "grant")
  /\ UNCHANGED <<db, access, pushes, cut, forced, worker, faults>>

(* The codespace is created, then the candidate becomes a collaborator. *)
Grant(r) ==
  /\ request[r].at = "grant"
  /\ AddCollaborator
  /\ Proceed(r, "store")
  /\ UNCHANGED <<db, repo, pushes, overwritten, forced, worker, faults>>

(* Group and workspace rows, in one commit.  The unique index tells a      *)
(* loser, which invites the candidate to the stored repository once more.  *)
Store(r) ==
  /\ request[r].at = "store"
  /\ stored' = TRUE
  /\ IF stored THEN AddCollaborator ELSE UNCHANGED <<access, cut>>
  /\ Done(r)
  /\ UNCHANGED <<now, revokedAt, audit, submission, job, repo, pushes,
                 overwritten, forced, worker, faults>>

-----------------------------------------------------------------------------
(* POST /tasks/{id}/submit and pushes. *)

(* validate_submission_flow and fetch_workspace_and_branch. *)
Submit(r, d) ==
  /\ request[r].at = "idle"
  /\ MayWork(d)
  /\ stored
  /\ Started(r, d, "run")
  /\ UNCHANGED <<db, github, worker, faults>>

(* run_actions_tests: the workflow runs on the head of the branch that the *)
(* candidate names, or else of the default branch; GitHub refuses one that *)
(* is not there.                                                           *)
RunTests(r) ==
  /\ request[r].at = "run"
  /\ \E named \in Branches :
       /\ named = "other" => repo.side # {}
       /\ request' = [request EXCEPT ![r].work = Head(named), ![r].branch = named,
                                     ![r].at = "submit"]
  /\ UNCHANGED <<db, github, worker, faults>>

(* create_submission: the unique index keeps an earlier row. *)
CreateSubmission(r) ==
  LET me == request[r] IN
  /\ me.at = "submit"
  /\ submission' = [submission EXCEPT ![me.day] =
       IF @.there THEN @
       ELSE [there |-> TRUE, work |-> me.work, branch |-> me.branch]]
  /\ Done(r)
  /\ UNCHANGED <<now, stored, revokedAt, audit, job, github, worker, faults>>

(* The API process dies or GitHub refuses a call. *)
CutOff(r) ==
  /\ request[r].at # "idle"
  /\ Done(r)
  /\ UNCHANGED <<db, github, worker, faults>>

(* A branch moves to a new commit on top of any that there are: a side     *)
(* branch starts, a merge brings it in, a forced push drops what was there.*)
Push(branch) ==
  /\ access
  /\ repo.seeded
  /\ pushes < MaxPushes
  /\ pushes' = pushes + 1
  /\ \E base \in SUBSET (1..pushes) :
       IF branch = "default"
       THEN /\ repo' = [repo EXCEPT !.work = base \cup {pushes + 1}]
            /\ forced' = (forced \/ ~(repo.work \subseteq base))
       ELSE /\ repo' = [repo EXCEPT !.side = base \cup {pushes + 1}]
            /\ UNCHANGED forced
  /\ UNCHANGED <<db, access, cut, overwritten, request, worker, faults>>

-----------------------------------------------------------------------------
(* The day_close_enforcement job. *)

Due(d) == now >= End(d)

(* Job.attempt + 1, which only matters up to MaxAttempts. *)
NextAttempt(d) ==
  IF job[d].attempt < MaxAttempts THEN job[d].attempt + 1 ELSE job[d].attempt

(* claim_next_runnable: a queued job, or one whose lease may have run out. *)
StartEnforcement(w, d) ==
  /\ worker[w].at = "idle"
  /\ Due(d)
  /\ job[d].status \in {"queued", "running"}
  /\ job' = [job EXCEPT ![d] = [status |-> "running", attempt |-> NextAttempt(d)]]
  /\ worker' = [worker EXCEPT ![w] =
       [at |-> "read", day |-> d, work |-> {}, attempt |-> NextAttempt(d)]]
  /\ UNCHANGED <<now, stored, revokedAt, audit, submission, github, request,
                 faults>>

(* Mutation: a recorded revocation passes for the cutoff. *)
RevokedMeansCut(w) ==
  LET d == worker[w].day IN
  /\ worker[w].at = "read"
  /\ audit[d].there \/ stored
  /\ worker' = [worker EXCEPT ![w].at =
       IF audit[d].there \/ revokedAt # 0 THEN "report" ELSE "revoke"]
  /\ UNCHANGED <<db, github, request, faults>>

(* A day that has its cutoff is left alone; else the workspace is loaded. *)
ReadState(w) ==
  LET d == worker[w].day IN
  /\ worker[w].at = "read"
  /\ audit[d].there \/ stored
  /\ worker' = [worker EXCEPT ![w].at = IF audit[d].there THEN "report" ELSE "revoke"]
  /\ UNCHANGED <<db, github, request, faults>>

(* Mutation: a workspace recorded as revoked is not revoked again. *)
RevokeUnlessRecorded(w) ==
  /\ worker[w].at = "revoke"
  /\ access' = (access /\ revokedAt # 0)
  /\ cut' = [cut EXCEPT ![worker[w].day] = IF @ = "no" THEN "removed" ELSE @]
  /\ worker' = [worker EXCEPT ![w].at = "record"]
  /\ UNCHANGED <<db, repo, pushes, overwritten, forced, request, faults>>

(* _revoke_repo_write_access; no collaborator (404) is as good. *)
Revoke(w) ==
  /\ worker[w].at = "revoke"
  /\ access' = FALSE
  /\ cut' = [cut EXCEPT ![worker[w].day] = IF @ = "no" THEN "removed" ELSE @]
  /\ worker' = [worker EXCEPT ![w].at = "record"]
  /\ UNCHANGED <<db, repo, pushes, overwritten, forced, request, faults>>

(* Mutation: the time of the job is recorded. *)
RecordRevokedNow(w) ==
  /\ worker[w].at = "record"
  /\ revokedAt' = now
  /\ worker' = [worker EXCEPT ![w].at = "head"]
  /\ UNCHANGED <<now, stored, audit, submission, job, github, request, faults>>

(* set_access_revocation_state commits the end of the day as the time. *)
RecordRevoked(w) ==
  /\ worker[w].at = "record"
  /\ revokedAt' = End(worker[w].day)
  /\ worker' = [worker EXCEPT ![w].at = "head"]
  /\ UNCHANGED <<now, stored, audit, submission, job, github, request, faults>>

(* extract_head_sha(get_branch). *)
ReadHead(w) ==
  /\ worker[w].at = "head"
  /\ worker' = [worker EXCEPT ![w].at = "audit", ![w].work = repo.work]
  /\ UNCHANGED <<db, github, request, faults>>

(* create_day_audit_once: an audit that is there, or that wins the unique  *)
(* index, is kept.                                                         *)
CreateAudit(w) ==
  LET me == worker[w] IN
  /\ me.at = "audit"
  /\ audit' = [audit EXCEPT ![me.day] =
       IF @.there THEN @ ELSE [there |-> TRUE, work |-> me.work]]
  /\ worker' = [worker EXCEPT ![w].at = "report"]
  /\ UNCHANGED <<now, stored, revokedAt, submission, job, github, request, faults>>

(* run_once marks the job succeeded. *)
ReportSuccess(w) ==
  /\ worker[w].at = "report"
  /\ job' = [job EXCEPT ![worker[w].day].status = "succeeded"]
  /\ worker' = [worker EXCEPT ![w] = IdleWorker]
  /\ UNCHANGED <<now, stored, revokedAt, audit, submission, github, request,
                 faults>>

(* retry_or_dead_letter writes the job by its id, whatever another worker  *)
(* has made of it, by the attempt that this worker claimed.                *)
Retried(w) ==
  [job EXCEPT ![worker[w].day].status =
     IF worker[w].attempt < MaxAttempts THEN "queued" ELSE "dead_letter"]

(* day_close_enforcement_workspace_missing_for_coding_day. *)
WorkspaceMissing(w) ==
  LET d == worker[w].day IN
  /\ worker[w].at = "read"
  /\ ~audit[d].there /\ ~stored
  /\ job' = Retried(w)
  /\ worker' = [worker EXCEPT ![w] = IdleWorker]
  /\ UNCHANGED <<now, stored, revokedAt, audit, submission, github, request,
                 faults>>

(* The handler raises, or the worker crashes and its lease runs out. *)
FailEnforcement(w) ==
  /\ worker[w].at # "idle"
  /\ faults > 0
  /\ faults' = faults - 1
  /\ job' = Retried(w) \/ job' = job
  /\ worker' = [worker EXCEPT ![w] = IdleWorker]
  /\ UNCHANGED <<now, stored, revokedAt, audit, submission, github, request>>

(* A request lasts less than a night: none is open over two ticks. *)
Tick ==
  /\ now < LastTick
  /\ \A r \in Requests : request[r].at # "idle" => request[r].since = now
  /\ now' = now + 1
  /\ UNCHANGED <<stored, revokedAt, audit, submission, job, github, request,
                 worker, faults>>

-----------------------------------------------------------------------------
RequestStep(r) ==
  \/ Regrant(r) \/ Inspect(r) \/ Seed(r) \/ Grant(r) \/ Store(r)
  \/ RunTests(r) \/ CreateSubmission(r)

EnforcementStep(w) ==
  \/ ReadState(w) \/ WorkspaceMissing(w) \/ Revoke(w) \/ RecordRevoked(w)
  \/ ReadHead(w) \/ CreateAudit(w) \/ ReportSuccess(w)

Next ==
  \/ \E r \in Requests, d \in CodingDays : InitCodespace(r, d) \/ Submit(r, d)
  \/ \E r \in Requests : ResendInvite(r) \/ RequestStep(r) \/ CutOff(r)
  \/ \E branch \in Branches : Push(branch)
  \/ \E w \in Workers, d \in CodingDays : StartEnforcement(w, d)
  \/ \E w \in Workers : EnforcementStep(w) \/ FailEnforcement(w)
  \/ Tick

Spec == Init /\ [][Next]_vars

(* Workers poll for ever and a handler returns or raises in the end; the   *)
(* candidate owes nothing.                                                 *)
Fairness ==
  /\ \A w \in Workers : WF_vars(EnforcementStep(w))
  /\ \A d \in CodingDays : WF_vars(\E w \in Workers : StartEnforcement(w, d))

FairSpec == Spec /\ Fairness

-----------------------------------------------------------------------------
(* Properties. *)

(* From a day's cutoff on, the recorded commit is the head of the default  *)
(* branch: the push right went first.  Excepted are a candidate who was    *)
(* invited again since, by a resent invitation or by an init that was in   *)
(* flight when the day ended, and a second bootstrap that overwrote the    *)
(* branch (handle_day_close_enforcement_impl).                             *)
CutoffIsHead ==
  \A d \in CodingDays :
    audit[d].there /\ cut[d] = "removed" /\ ~overwritten =>
      audit[d].work = repo.work /\ ~access

(* What a coding day submitted from the default branch is part of its      *)
(* cutoff, which talent partners see in its place, with the same races     *)
(* excepted and unless the candidate dropped it by a forced push           *)
(* (run_code_submission, create_day_audit_once).                           *)
SubmittedWorkIsCut ==
  \A d \in CodingDays :
    /\ submission[d].there /\ submission[d].branch = "default"
    /\ audit[d].there /\ cut[d] = "removed" /\ ~overwritten /\ ~forced
    => submission[d].work \subseteq audit[d].work

(* What talent partners are shown of a coding day is all that was pushed   *)
(* to the default branch and submitted from it in time, and nothing that   *)
(* came later.                                                             *)
CutoffIsAllWork == CutoffIsHead /\ SubmittedWorkIsCut

(* The same without the exceptions a candidate or a talent partner can     *)
(* bring about, a new invitation and another branch: TLC refutes both      *)
(* (ensure_existing_workspace, fetch_workspace_and_branch).                *)
ClosedStaysClosed ==
  \A d \in CodingDays : audit[d].there /\ ~overwritten =>
    audit[d].work = repo.work /\ ~access

WorkOfEveryBranchIsCut ==
  \A d \in CodingDays :
    submission[d].there /\ audit[d].there /\ cut[d] = "removed"
    /\ ~overwritten /\ ~forced
    => submission[d].work \subseteq audit[d].work

(* A cutoff is written once, by whichever worker comes first, and every    *)
(* later run of the job leaves it as it is (create_day_audit_once).        *)
CutoffIsWrittenOnce ==
  [][\A d \in CodingDays : audit[d].there => audit'[d] = audit[d]]_vars

(* A coding day that is over does not wait for its cutoff for ever if the  *)
(* session has a workspace, unless its job used up its attempts: again and *)
(* again no day waits (enqueue_day_close_jobs,                             *)
(* handle_day_close_enforcement_impl).                                     *)
EveryCodingDayIsCut ==
  []<>(\A d \in CodingDays :
         Due(d) /\ stored => audit[d].there \/ job[d].status = "dead_letter")

(* A coding day gets one cutoff, and keeps it (create_day_audit_once).     *)
DaysAreCutOnce == CutoffIsWrittenOnce /\ EveryCodingDayIsCut

(* Days 2 and 3 are both for implementation: a candidate who did day 2 can *)
(* work on day 3 (ensure_day_flow_open, init_codespace).                   *)
EveryCodingDayOpens ==
  \A d \in CodingDays : InWindow(d) /\ IsCurrent(d) /\ stored => DayFlowOpen(d)

===============================================================================
