--------------------------- MODULE DaySubmissions ---------------------------
(***************************************************************************)
(* The days of one scheduled candidate session: drafts saved, tasks        *)
(* submitted, and text days closed by the day_close_finalize_text job when *)
(* the candidate did not submit (app/submissions, app/tasks and the        *)
(* day_close_finalize_text handler of app/shared/jobs).                    *)
(*                                                                         *)
(* A request checks the clock and the progress first, loads and writes in  *)
(* later steps and locks nothing, so it may write after the day has ended, *)
(* while the job that closes the day is running.  Only the unique indexes  *)
(* on submissions and drafts arbitrate.  A worker may lose its lease, so   *)
(* two may run the same job (module JobQueue).                             *)
(*                                                                         *)
(* Clock: the window of day d is open while now = 2d - 1 and the night     *)
(* after it is now = 2d.                                                   *)
(***************************************************************************)
EXTENDS Integers, FiniteSets

CONSTANTS
  LastDay,       \* the trial has the tasks of days 1..LastDay
  Kind,          \* task of each day: "text", "code" or "handoff"
  Requests,      \* candidate requests in flight at a time
  Workers,       \* workers that run day-close jobs
  Texts,         \* what a candidate may write
  NoText,        \* no draft; in a submission, the no-draft marker
  MaxAttempts,   \* DAY_CLOSE_FINALIZE_TEXT_MAX_ATTEMPTS
  Faults         \* bound: requests cut off, handlers that crash or raise

ASSUME DaySubmissionsAssumption ==
  /\ LastDay \in Nat \ {0}
  /\ Kind \in [1..LastDay -> {"text", "code", "handoff"}]
  /\ NoText \notin Texts
  /\ MaxAttempts \in Nat \ {0}
  /\ Faults \in Nat

VARIABLES
  now,          \* the clock, in half days
  draft,        \* task_drafts rows, by day
  submission,   \* submissions rows, by day
  completed,    \* candidate_session.status = "completed"
  notified,     \* the candidate_completed_notification job exists
  job,          \* day_close_finalize_text jobs, by day
  request,      \* requests in flight
  worker,       \* handler runs
  faults,       \* faults still allowed
  lateSave      \* history: days with a draft written after their end

vars == <<now, draft, submission, completed, notified, job, request, worker,
          faults, lateSave>>

-----------------------------------------------------------------------------
Days == 1..LastDay
End(d) == 2 * d
InWindow(d) == now = End(d) - 1
FinalizeDays == {d \in Days : Kind[d] = "text"}

NoDraft == [text |-> NoText, finalized |-> FALSE]
DraftRows == {NoDraft} \cup [text : Texts, finalized : BOOLEAN]

NoSubmission == [by |-> "none", text |-> NoText]
SubmissionRows ==
  {NoSubmission} \cup [by : {"candidate", "cutoff"}, text : Texts \cup {NoText}]
Submitted(d) == submission[d].by # "none"

JobRows == [status : {"absent", "queued", "running", "succeeded", "dead_letter"},
            attempt : 0..MaxAttempts]

RequestStates ==
  [at : {"idle", "loadDraft", "writeDraft", "create", "settle", "notify"},
   day : 0..LastDay, text : Texts \cup {NoText},
   loaded : Texts \cup {NoText}, since : 0..End(LastDay)]
IdleRequest ==
  [at |-> "idle", day |-> 0, text |-> NoText, loaded |-> NoText, since |-> 0]

WorkerStates ==
  [at : {"idle", "read", "create", "mark", "progress", "report"},
   day : 0..LastDay, loaded : Texts \cup {NoText}, attempt : 0..MaxAttempts]
IdleWorker == [at |-> "idle", day |-> 0, loaded |-> NoText, attempt |-> 0]

(* Types of the rows and of what each request and handler holds. *)
TypeOK ==
  /\ now \in 0..End(LastDay)
  /\ draft \in [Days -> DraftRows]
  /\ submission \in [Days -> SubmissionRows]
  /\ completed \in BOOLEAN
  /\ notified \in BOOLEAN
  /\ job \in [Days -> JobRows]
  /\ request \in [Requests -> RequestStates]
  /\ worker \in [Workers -> WorkerStates]
  /\ faults \in 0..Faults
  /\ lateSave \in [Days -> BOOLEAN]

(* The schedule is set: _set_new_schedule has enqueued the jobs. *)
Init ==
  /\ now = 0
  /\ draft = [d \in Days |-> NoDraft]
  /\ submission = [d \in Days |-> NoSubmission]
  /\ completed = FALSE
  /\ notified = FALSE
  /\ job = [d \in Days |-> [status |-> IF d \in FinalizeDays THEN "queued"
                                       ELSE "absent",
                            attempt |-> 0]]
  /\ request = [r \in Requests |-> IdleRequest]
  /\ worker = [w \in Workers |-> IdleWorker]
  /\ faults = Faults
  /\ lateSave = [d \in Days |-> FALSE]

-----------------------------------------------------------------------------
(* Helpers. *)

(* summarize_progress over the submissions as they are now. *)
is_complete(s) == \A d \in Days : s[d].by # "none"

(* Mutation: any open day may be submitted. *)
AnyOpenDay(d) == ~Submitted(d)

(* ensure_in_order: the task of the lowest day without a submission. *)
IsCurrent(d) == ~Submitted(d) /\ \A e \in 1..(d - 1) : Submitted(e)

(* Mutation: the row that is there is overwritten. *)
SubmissionReplaced(d, by, text) ==
  [submission EXCEPT ![d] = [by |-> by, text |-> text]]

(* The insert of create_submission: the unique index keeps an earlier row. *)
SubmissionCreated(d, by, text) ==
  [submission EXCEPT ![d] = IF @.by = "none" THEN [by |-> by, text |-> text]
                            ELSE @]

(* mark_finalized on a draft row. *)
DraftFinalized(d) == [draft EXCEPT ![d].finalized = TRUE]

(* The flush of upsert_draft writes text only if it differs from the text  *)
(* loaded; an insert over another request's row fails on the unique index. *)
DraftSaved(d, text, loaded) ==
  CASE loaded = NoText /\ draft[d].text = NoText ->
         [draft EXCEPT ![d] = [text |-> text, finalized |-> FALSE]]
    [] loaded # NoText /\ text # loaded -> [draft EXCEPT ![d].text = text]
    [] OTHER -> draft

(* progress_after_submission: the session completes with its last task. *)
ProgressRecomputed == completed' = (completed \/ is_complete(submission))

-----------------------------------------------------------------------------
(* The candidate. *)

(* put_task_draft_route up to the duplicate check. *)
PutDraft(r, d, t) ==
  /\ request[r].at = "idle"
  /\ InWindow(d)
  /\ ~Submitted(d)
  /\ request' = [request EXCEPT ![r] =
       [at |-> "loadDraft", day |-> d, text |-> t, loaded |-> NoText,
        since |-> now]]
  /\ UNCHANGED <<now, draft, submission, completed, notified, job, worker,
                 faults, lateSave>>

(* upsert_draft loads the row; a finalized one is refused with a 409. *)
LoadDraft(r) ==
  LET d == request[r].day IN
  /\ request[r].at = "loadDraft"
  /\ request' = [request EXCEPT ![r] =
       IF draft[d].finalized THEN IdleRequest
       ELSE [@ EXCEPT !.at = "writeDraft", !.loaded = draft[d].text]]
  /\ UNCHANGED <<now, draft, submission, completed, notified, job, worker,
                 faults, lateSave>>

(* upsert_draft flushes and the route commits. *)
WriteDraft(r) ==
  LET me == request[r] IN
  /\ me.at = "writeDraft"
  /\ draft' = DraftSaved(me.day, me.text, me.loaded)
  /\ lateSave' = [lateSave EXCEPT ![me.day] = @ \/ now >= End(me.day)]
  /\ request' = [request EXCEPT ![r] = IdleRequest]
  /\ UNCHANGED <<now, submission, completed, notified, job, worker, faults>>

(* submit_task up to create_submission; a code task runs its tests here. *)
Submit(r, d, t) ==
  /\ request[r].at = "idle"
  /\ InWindow(d)
  /\ IsCurrent(d)
  /\ request' = [request EXCEPT ![r] =
       [at |-> "create", day |-> d, text |-> t, loaded |-> NoText,
        since |-> now]]
  /\ UNCHANGED <<now, draft, submission, completed, notified, job, worker,
                 faults, lateSave>>

(* create_submission commits; over an earlier row it is a 409. *)
Create(r) ==
  LET me == request[r] IN
  /\ me.at = "create"
  /\ submission' = SubmissionCreated(me.day, "candidate", me.text)
  /\ request' = [request EXCEPT ![r] =
       IF Submitted(me.day) THEN IdleRequest ELSE [@ EXCEPT !.at = "settle"]]
  /\ UNCHANGED <<now, draft, completed, notified, job, worker, faults, lateSave>>

(* The rest of submit_task: the draft is marked and progress recomputed;   *)
(* the draft's row lock keeps writers out until the commit.                *)
Settle(r) ==
  LET d == request[r].day IN
  /\ request[r].at = "settle"
  /\ draft' = IF draft[d].text # NoText THEN DraftFinalized(d) ELSE draft
  /\ ProgressRecomputed
  /\ request' = [request EXCEPT ![r] =
       IF is_complete(submission) THEN [@ EXCEPT !.at = "notify"]
       ELSE IdleRequest]
  /\ UNCHANGED <<now, submission, notified, job, worker, faults, lateSave>>

(* enqueue_candidate_completed_notification, by its idempotency key. *)
Notify(r) ==
  /\ request[r].at = "notify"
  /\ notified' = TRUE
  /\ request' = [request EXCEPT ![r] = IdleRequest]
  /\ UNCHANGED <<now, draft, submission, completed, job, worker, faults, lateSave>>

(* complete_handoff_upload: one transaction that inserts the submission or *)
(* points it at the new recording; order and progress are not looked at.   *)
CompleteHandoff(d) ==
  /\ Kind[d] = "handoff"
  /\ InWindow(d)
  /\ submission' = SubmissionCreated(d, "candidate", NoText)
  /\ UNCHANGED <<now, draft, completed, notified, job, request, worker, faults,
                 lateSave>>

(* The API process dies or the connection to the database is lost. *)
CutOff(r) ==
  /\ request[r].at # "idle"
  /\ faults > 0
  /\ faults' = faults - 1
  /\ request' = [request EXCEPT ![r] = IdleRequest]
  /\ UNCHANGED <<now, draft, submission, completed, notified, job, worker,
                 lateSave>>

-----------------------------------------------------------------------------
(* The day_close_finalize_text job. *)

(* Mutation: the job is due when the window opens. *)
DueAtOpening(d) == now >= End(d) - 1

(* next_run_at of the job, and the handler's own gate, is window_end_at. *)
Due(d) == now >= End(d)

(* Mutation: a job whose worker died is never claimed again. *)
QueuedOnly(d) == Due(d) /\ job[d].status = "queued"

(* A due job that is queued, or running with a lease that ran out. *)
Claimable(d) == Due(d) /\ job[d].status \in {"queued", "running"}

(* Job.attempt + 1, which only matters up to MaxAttempts. *)
NextAttempt(d) ==
  IF job[d].attempt < MaxAttempts THEN job[d].attempt + 1 ELSE job[d].attempt

(* claim_next_runnable; the handler runs on the row as it was claimed. *)
StartFinalize(w, d) ==
  /\ worker[w].at = "idle"
  /\ Claimable(d)
  /\ job' = [job EXCEPT ![d] = [status |-> "running", attempt |-> NextAttempt(d)]]
  /\ worker' = [worker EXCEPT ![w] =
       [at |-> "read", day |-> d, loaded |-> NoText, attempt |-> NextAttempt(d)]]
  /\ UNCHANGED <<now, draft, submission, completed, notified, request, faults,
                 lateSave>>

(* _finalize_submission_from_cutoff looks for a submission and the draft. *)
ReadCutoff(w) ==
  LET d == worker[w].day IN
  /\ worker[w].at = "read"
  /\ worker' = [worker EXCEPT ![w] =
       [@ EXCEPT !.at = IF Submitted(d) THEN "mark" ELSE "create",
                 !.loaded = draft[d].text]]
  /\ UNCHANGED <<now, draft, submission, completed, notified, job, request,
                 faults, lateSave>>

(* The draft, or a marker that there was none, is submitted; a conflict    *)
(* means that somebody else's submission is there.                         *)
CreateFromCutoff(w) ==
  LET me == worker[w] IN
  /\ me.at = "create"
  /\ submission' = SubmissionCreated(me.day, "cutoff", me.loaded)
  /\ worker' = [worker EXCEPT ![w].at = "mark"]
  /\ UNCHANGED <<now, draft, completed, notified, job, request, faults, lateSave>>

(* Mutation: only a draft that was submitted by the job is marked. *)
MarkIfSubmitted(d, loaded) ==
  IF loaded # NoText /\ submission[d].by = "cutoff" THEN DraftFinalized(d)
  ELSE draft

(* Mutation: a draft is marked whether one was loaded or not. *)
MarkAlways(d, loaded) == DraftFinalized(d)

(* _mark_draft_finalized_if_pending on the row the handler loaded. *)
MarkIfPending(d, loaded) == IF loaded # NoText THEN DraftFinalized(d) ELSE draft

MarkDraft(w) ==
  LET me == worker[w] IN
  /\ me.at = "mark"
  /\ draft' = MarkIfPending(me.day, me.loaded)
  /\ worker' = [worker EXCEPT ![w].at = "progress"]
  /\ UNCHANGED <<now, submission, completed, notified, job, request, faults,
                 lateSave>>

(* Mutation: the handler forgets the progress. *)
ProgressForgotten(w) == completed' = completed

(* progress_after_submission, in a transaction of its own. *)
HandlerProgress(w) == ProgressRecomputed

Progress(w) ==
  /\ worker[w].at = "progress"
  /\ HandlerProgress(w)
  /\ worker' = [worker EXCEPT ![w].at = "report"]
  /\ UNCHANGED <<now, draft, submission, notified, job, request, faults, lateSave>>

(* run_once marks the job succeeded. *)
ReportSuccess(w) ==
  /\ worker[w].at = "report"
  /\ job' = [job EXCEPT ![worker[w].day].status = "succeeded"]
  /\ worker' = [worker EXCEPT ![w] = IdleWorker]
  /\ UNCHANGED <<now, draft, submission, completed, notified, request, faults,
                 lateSave>>

(* The handler raises, and retry_or_dead_letter writes its job by id,      *)
(* whatever another worker has made of it; or the worker crashes and the   *)
(* job stays running until its lease runs out.                             *)
FailFinalize(w) ==
  LET me == worker[w] IN
  /\ me.at # "idle"
  /\ faults > 0
  /\ faults' = faults - 1
  /\ \/ job' = [job EXCEPT ![me.day].status =
                  IF me.attempt < MaxAttempts THEN "queued" ELSE "dead_letter"]
     \/ job' = job
  /\ worker' = [worker EXCEPT ![w] = IdleWorker]
  /\ UNCHANGED <<now, draft, submission, completed, notified, request, lateSave>>

(* A request lasts less than a night: none is open over two ticks. *)
Tick ==
  /\ now < End(LastDay)
  /\ \A r \in Requests : request[r].at # "idle" => request[r].since = now
  /\ now' = now + 1
  /\ UNCHANGED <<draft, submission, completed, notified, job, request, worker,
                 faults, lateSave>>

-----------------------------------------------------------------------------
RequestStep(r) ==
  LoadDraft(r) \/ WriteDraft(r) \/ Create(r) \/ Settle(r) \/ Notify(r)

FinalizeStep(w) ==
  ReadCutoff(w) \/ CreateFromCutoff(w) \/ MarkDraft(w) \/ Progress(w) \/ ReportSuccess(w)

Next ==
  \/ \E r \in Requests, d \in Days, t \in Texts : PutDraft(r, d, t) \/ Submit(r, d, t)
  \/ \E r \in Requests : RequestStep(r) \/ CutOff(r)
  \/ \E d \in Days : CompleteHandoff(d)
  \/ \E w \in Workers, d \in Days : StartFinalize(w, d)
  \/ \E w \in Workers : FinalizeStep(w) \/ FailFinalize(w)
  \/ Tick

Spec == Init /\ [][Next]_vars

(* Workers poll for ever and a handler returns or raises in the end; the   *)
(* candidate owes nothing.                                                 *)
Fairness ==
  /\ \A w \in Workers : WF_vars(FinalizeStep(w))
  /\ \A d \in Days : WF_vars(\E w \in Workers : StartFinalize(w, d))

FairSpec == Spec /\ Fairness

-----------------------------------------------------------------------------
(* Properties. *)

(* What a text day submits for a silent candidate is the last draft saved  *)
(* before the day ended, or the marker if there was none; only a save that *)
(* straddled the end may make a difference                                 *)
(* (_finalize_submission_from_cutoff, put_task_draft_route).               *)
LastSaveIsSubmitted ==
  \A d \in Days :
    submission[d].by = "cutoff" /\ ~lateSave[d] => submission[d].text = draft[d].text

(* Once the job of a day has succeeded, the day has a submission and no    *)
(* draft is left open beside it, unless one was written after the end      *)
(* (_mark_draft_finalized_if_pending).                                     *)
ClosedDaysAreClosed ==
  \A d \in Days :
    job[d].status = "succeeded" =>
      /\ Submitted(d)
      /\ draft[d].text = NoText \/ draft[d].finalized \/ lateSave[d]

(* The end of a text day neither loses what was saved in time nor leaves   *)
(* anything open (handle_day_close_finalize_text).                         *)
CutoffsTakeDrafts == LastSaveIsSubmitted /\ ClosedDaysAreClosed

(* A completed session has a submission for every task, whichever of the   *)
(* candidate and the workers completed it (progress_after_submission).     *)
CompletionIsEarned == completed => \A d \in Days : Submitted(d)

(* A task submitted through submit_task comes after the tasks of all       *)
(* earlier days, although the order is checked long before the insert      *)
(* (ensure_in_order, create_submission).                                   *)
SubmittedInOrder ==
  \A d \in Days :
    submission[d].by = "candidate" /\ Kind[d] # "handoff" =>
      \A e \in 1..(d - 1) : Submitted(e)

(* Nobody gets ahead in the five days: not within them and not past them.  *)
ProgressIsEarned == CompletionIsEarned /\ SubmittedInOrder

(* Neither a second request nor the day's job replaces a submission        *)
(* (uq_submissions_candidate_session_task, SubmissionConflict).            *)
SubmissionsAreFinal ==
  [][\A d \in Days : Submitted(d) => submission'[d] = submission[d]]_vars

(* A text day that is over gets a submission, unless its job used up its   *)
(* attempts (enqueue_day_close_jobs, handle_day_close_finalize_text).      *)
EveryTextDayCloses ==
  \A d \in FinalizeDays :
    Due(d) ~> (Submitted(d) \/ job[d].status = "dead_letter")

(* A session with all its submissions becomes completed after its last     *)
(* day, even if the request that made the last one was cut off before it   *)
(* recomputed the progress (progress_after_submission in the handler).     *)
AllSubmittedCompletes ==
  (Due(LastDay) /\ is_complete(submission)) ~>
    (completed \/ \E d \in FinalizeDays : job[d].status = "dead_letter")

(* A silent candidate's days are closed and a diligent one's session is    *)
(* completed, whatever requests and workers die on the way, and what was   *)
(* submitted stays (handle_day_close_finalize_text, create_submission).    *)
DaysCloseForGood == SubmissionsAreFinal /\ EveryTextDayCloses /\ AllSubmittedCompletes

(* A draft that was finalized is not changed any more                      *)
(* (TaskDraftFinalizedError, raised when attempting to modify one).        *)
FinalizedDraftsFrozen ==
  [][\A d \in Days : draft[d].finalized => draft'[d] = draft[d]]_vars

=============================================================================
