---------------------------- MODULE EvaluationRuns ----------------------------
(***************************************************************************)
(* The reports of one candidate session: a talent partner asks for one,    *)
(* the evaluation_run job of the evidence at that moment is enqueued or    *)
(* found, and its handler evaluates the evidence it finds when it runs     *)
(* (app/evaluations and the evaluation_run handler of app/shared/jobs).    *)
(*                                                                         *)
(* The handler inserts its evaluation_runs row, flushes, and keeps the     *)
(* transaction open while the language model works: nobody else sees the   *)
(* row, but whoever inserts one for the same job waits on the unique index *)
(* until that transaction ends.  A worker may lose its lease, so two may   *)
(* run one job, and two jobs of a session may run at once (JobQueue).      *)
(***************************************************************************)
EXTENDS Integers

CONSTANTS
  LastEvidence,  \* bound: how often the evidence changes
  Clients,       \* requests for a report in flight at a time
  Workers,       \* workers that run evaluation jobs
  MaxAttempts,   \* EVALUATION_RUN_JOB_MAX_ATTEMPTS
  Faults         \* bound: crashes, broken snapshots, operators' requeues

ASSUME EvaluationRunsAssumption ==
  /\ LastEvidence \in Nat
  /\ MaxAttempts \in Nat \ {0}
  /\ Faults \in Nat

VARIABLES
  evidence,   \* submissions, audits and transcript, numbered as they change
  request,    \* the basis fingerprint a request has computed, or None
  job,        \* evaluation_run jobs, by basis fingerprint
  run,        \* committed evaluation_runs rows, by the basis of their job
  marker,     \* the winoe_reports row
  notice,     \* the winoe_report_ready_notification job
  worker,     \* handler runs, and the evidence each worker read last
  faults      \* faults still allowed

vars == <<evidence, request, job, run, marker, notice, worker, faults>>

-----------------------------------------------------------------------------
Evidence == 0..LastEvidence
None == -1

JobRows == [status : {"absent", "queued", "running", "succeeded", "dead_letter"},
            attempt : 0..MaxAttempts]

RunRows == [status : {"absent", "completed", "failed"},
            basis : Evidence \cup {None}]
NoRun == [status |-> "absent", basis |-> None]

WorkerStates ==
  [at : {"idle", "read", "lookup", "insert", "evaluate", "marker",
         "insertMarker", "commit", "commitNew", "failing", "invalid",
         "return", "failed", "raise"},
   of : Evidence, attempt : 0..MaxAttempts, basis : Evidence \cup {None}]

(* Types of the rows and of what requests and handlers hold. *)
TypeOK ==
  /\ evidence \in Evidence
  /\ request \in [Clients -> Evidence \cup {None}]
  /\ job \in [Evidence -> JobRows]
  /\ run \in [Evidence -> RunRows]
  /\ marker \in BOOLEAN
  /\ notice \in BOOLEAN
  /\ worker \in [Workers -> WorkerStates]
  /\ faults \in 0..Faults

(* The candidate session is there; nobody has asked for a report. *)
Init ==
  /\ evidence = 0
  /\ request = [c \in Clients |-> None]
  /\ job = [b \in Evidence |-> [status |-> "absent", attempt |-> 0]]
  /\ run = [b \in Evidence |-> NoRun]
  /\ marker = FALSE
  /\ notice = FALSE
  /\ worker = [w \in Workers |->
       [at |-> "idle", of |-> 0, attempt |-> 0, basis |-> None]]
  /\ faults = Faults

Goto(w, at) == worker' = [worker EXCEPT ![w].at = at]

-----------------------------------------------------------------------------
(* The evidence and the requests. *)

(* A submission, a cutoff or a transcript is written, or one is erased. *)
NewEvidence ==
  /\ evidence < LastEvidence
  /\ evidence' = evidence + 1
  /\ UNCHANGED <<request, job, run, marker, notice, worker, faults>>

(* _build_generation_basis_fingerprint. *)
ComputeBasis(c) ==
  /\ request[c] = None
  /\ request' = [request EXCEPT ![c] = evidence]
  /\ UNCHANGED <<evidence, job, run, marker, notice, worker, faults>>

(* enqueue_evaluation_run: the job of this basis, whatever became of it. *)
EnqueueRun(c) ==
  /\ request[c] # None
  /\ job' = [job EXCEPT ![request[c]].status = IF @ = "absent" THEN "queued" ELSE @]
  /\ request' = [request EXCEPT ![c] = None]
  /\ UNCHANGED <<evidence, run, marker, notice, worker, faults>>

(* An operator requeues a dead-lettered job. *)
RequeueDeadLetter(b) ==
  /\ job[b].status = "dead_letter"
  /\ faults > 0
  /\ faults' = faults - 1
  /\ job' = [job EXCEPT ![b].status = "queued"]
  /\ UNCHANGED <<evidence, request, run, marker, notice, worker>>

(* Mutation: the newest outcome is shown, even if it hides a report. *)
FailedFirst ==
  IF \E b \in Evidence : run[b].status = "failed" THEN "failed"
  ELSE IF \E b \in Evidence : run[b].status = "completed" THEN "ready"
  ELSE IF \E b \in Evidence : job[b].status \in {"queued", "running"} THEN "running"
  ELSE "not_started"

(* fetch_winoe_report; a row of another status is never committed. *)
FetchStatus ==
  IF \E b \in Evidence : run[b].status = "completed" THEN "ready"
  ELSE IF \E b \in Evidence : run[b].status = "failed" THEN "failed"
  ELSE IF \E b \in Evidence : job[b].status \in {"queued", "running"} THEN "running"
  ELSE "not_started"

-----------------------------------------------------------------------------
(* The handler, up to its run row. *)

(* Job.attempt + 1, which only matters up to MaxAttempts. *)
NextAttempt(b) ==
  IF job[b].attempt < MaxAttempts THEN job[b].attempt + 1 ELSE job[b].attempt

(* Mutation: a job whose worker died is not claimed again. *)
QueuedOnly(b) == job[b].status = "queued"

(* The filter of claim_next_runnable: a lease may have run out. *)
Claimable(b) == job[b].status \in {"queued", "running"}

StartEvaluation(w, b) ==
  /\ worker[w].at = "idle"
  /\ Claimable(b)
  /\ job' = [job EXCEPT ![b] = [status |-> "running", attempt |-> NextAttempt(b)]]
  /\ worker' = [worker EXCEPT ![w] =
       [@ EXCEPT !.at = "read", !.of = b, !.attempt = NextAttempt(b)]]
  /\ UNCHANGED <<evidence, request, run, marker, notice, faults>>

(* Mutation: the session outlives the job, with all it has loaded. *)
KeptSession(w) == IF worker[w].basis = None THEN evidence ELSE worker[w].basis

(* Each run opens a session of its own and reads the evidence of now, not  *)
(* that of the job's key.                                                  *)
EvidenceRead(w) == evidence

(* The evidence is read and the frozen AI policy snapshot is validated. *)
ReadEvidence(w) ==
  /\ worker[w].at = "read"
  /\ \/ /\ worker' = [worker EXCEPT ![w] =
             [@ EXCEPT !.at = "lookup", !.basis = EvidenceRead(w)]]
        /\ UNCHANGED faults
     \/ /\ faults > 0
        /\ faults' = faults - 1
        /\ Goto(w, "invalid")
  /\ UNCHANGED <<evidence, request, job, run, marker, notice>>

(* get_run_by_job_id: a settled run of the job is the answer. *)
LookUp(w) ==
  /\ worker[w].at = "lookup"
  /\ \/ run[worker[w].of].status = "completed" /\ Goto(w, "return")
     \/ run[worker[w].of].status = "failed" /\ Goto(w, "failed")
     \/ run[worker[w].of].status = "absent" /\ Goto(w, "insert")
  /\ UNCHANGED <<evidence, request, job, run, marker, notice, faults>>

(* The run row of job b, inserted by w, is not committed yet. *)
Holds(w, b) ==
  /\ worker[w].of = b
  /\ worker[w].at \in {"evaluate", "marker", "insertMarker", "commit",
                       "commitNew", "failing"}

Inserted(b) == \E v \in Workers : Holds(v, b)

(* Mutation: ix_evaluation_runs_job_id is not unique. *)
PlainIndex(w, at) == Goto(w, at)

(* The unique index: an insert waits for an uncommitted row of the job and *)
(* fails on a committed one.                                               *)
UniqueIndex(w, at) ==
  /\ ~Inserted(worker[w].of)
  /\ Goto(w, IF run[worker[w].of].status = "absent" THEN at ELSE "raise")

(* start_run, flushed. *)
StartRun(w) ==
  /\ worker[w].at = "insert"
  /\ UniqueIndex(w, "evaluate")
  /\ UNCHANGED <<evidence, request, job, run, marker, notice, faults>>

RunWritten(w, status) ==
  run' = [run EXCEPT ![worker[w].of] =
    [status |-> status,
     basis |-> IF status = "completed" THEN worker[w].basis ELSE None]]

(* _record_invalid_snapshot_run inserts a failed run without looking for   *)
(* an earlier one.                                                         *)
RecordInvalid(w) ==
  /\ worker[w].at = "invalid"
  /\ UniqueIndex(w, "failed")
  /\ IF run[worker[w].of].status = "absent"
     THEN RunWritten(w, "failed") ELSE UNCHANGED run
  /\ UNCHANGED <<evidence, request, job, marker, notice, faults>>

-----------------------------------------------------------------------------
(* The evaluation and what it commits. *)

(* The language model answers, fails for now, or fails. *)
Evaluate(w) ==
  /\ worker[w].at = "evaluate"
  /\ Goto(w, "marker") \/ Goto(w, "raise") \/ Goto(w, "failing")
  /\ UNCHANGED <<evidence, request, job, run, marker, notice, faults>>

(* upsert_marker: the SELECT. *)
SelectMarker(w) ==
  /\ worker[w].at = "marker"
  /\ Goto(w, IF marker THEN "commit" ELSE "insertMarker")
  /\ UNCHANGED <<evidence, request, job, run, marker, notice, faults>>

(* Mutation: upsert_marker commits, as it does by default. *)
MarkerCommitted(w) ==
  /\ worker[w].at = "insertMarker"
  /\ ~marker
  /\ marker' = TRUE
  /\ RunWritten(w, "completed")
  /\ Goto(w, "return")
  /\ UNCHANGED <<evidence, request, job, notice, faults>>

(* upsert_marker: the INSERT, which waits for another one and fails on its *)
(* row; the session is then unusable, so _mark_failed_run raises as well   *)
(* and the run row is rolled back.                                         *)
InsertMarker(w) ==
  /\ worker[w].at = "insertMarker"
  /\ \A v \in Workers : worker[v].at # "commitNew"
  /\ Goto(w, IF marker THEN "raise" ELSE "commitNew")
  /\ UNCHANGED <<evidence, request, job, run, marker, notice, faults>>

(* _evaluate_and_finalize_run: run, marker and notification, one commit. *)
CommitRun(w) ==
  /\ worker[w].at \in {"commit", "commitNew"}
  /\ RunWritten(w, "completed")
  /\ marker' = TRUE
  /\ notice' = TRUE
  /\ Goto(w, "return")
  /\ UNCHANGED <<evidence, request, job, faults>>

(* _mark_failed_run. *)
MarkFailedRun(w) ==
  /\ worker[w].at = "failing"
  /\ RunWritten(w, "failed")
  /\ Goto(w, "failed")
  /\ UNCHANGED <<evidence, request, job, marker, notice, faults>>

-----------------------------------------------------------------------------
(* What the queue makes of the outcome; each write goes by the job's id. *)

Settle(w, status) ==
  /\ job' = [job EXCEPT ![worker[w].of].status = status]
  /\ Goto(w, "idle")
  /\ UNCHANGED <<evidence, request, run, marker, notice, faults>>

ReportSuccess(w) == worker[w].at = "return" /\ Settle(w, "succeeded")

(* Mutation: the run's status is taken for the job's. *)
FailedIsFailed(w) == worker[w].at = "failed" /\ Settle(w, "failed")

(* handle_evaluation_run raises PermanentJobError. *)
ReportFailed(w) == worker[w].at = "failed" /\ Settle(w, "dead_letter")

(* The queue retries any other error, by the attempt claimed. *)
AfterError(w) == IF worker[w].attempt < MaxAttempts THEN "queued" ELSE "dead_letter"

ReportError(w) == worker[w].at = "raise" /\ Settle(w, AfterError(w))

(* The worker dies and its transaction is rolled back. *)
Crash(w) ==
  /\ worker[w].at # "idle"
  /\ faults > 0
  /\ faults' = faults - 1
  /\ Goto(w, "idle")
  /\ UNCHANGED <<evidence, request, job, run, marker, notice>>

-----------------------------------------------------------------------------
HandlerStep(w) ==
  \/ ReadEvidence(w) \/ LookUp(w) \/ StartRun(w) \/ RecordInvalid(w)
  \/ Evaluate(w) \/ SelectMarker(w) \/ InsertMarker(w) \/ CommitRun(w)
  \/ MarkFailedRun(w) \/ ReportSuccess(w) \/ ReportFailed(w) \/ ReportError(w)

Next ==
  \/ NewEvidence
  \/ \E c \in Clients : ComputeBasis(c) \/ EnqueueRun(c)
  \/ \E b \in Evidence : RequeueDeadLetter(b)
  \/ \E w \in Workers, b \in Evidence : StartEvaluation(w, b)
  \/ \E w \in Workers : HandlerStep(w) \/ Crash(w)

Spec == Init /\ [][Next]_vars

(* Workers poll for ever and a handler returns or raises in the end; a     *)
(* waiting insert gets its answer when the other transaction ends.         *)
Fairness ==
  /\ \A w \in Workers : WF_vars(HandlerStep(w))
  /\ \A b \in Evidence : WF_vars(\E w \in Workers : StartEvaluation(w, b))

FairSpec == Spec /\ Fairness

-----------------------------------------------------------------------------
(* Properties. *)

(* A run that was committed never changes, whoever runs its job again      *)
(* (ensure_transition, _get_or_start_run, ix_evaluation_runs_job_id).      *)
RunsAreFinal ==
  [][\A b \in Evidence : run[b].status # "absent" => run'[b] = run[b]]_vars

(* A report that talent partners can read stays readable while newer runs  *)
(* run and fail (fetch_winoe_report).                                      *)
ReadyForGood == [][FetchStatus = "ready" => FetchStatus' = "ready"]_vars

(* The marker that lists show and the mail to the talent partner exist if  *)
(* and only if there is a report, although two evaluations of the session  *)
(* may finish at once (_evaluate_and_finalize_run).                        *)
ReportsAreAnnounced ==
  /\ marker = (\E b \in Evidence : run[b].status = "completed")
  /\ notice = marker

(* A job is only reported as succeeded, to whoever polls it, if its report *)
(* is there (handle_evaluation_run).                                       *)
SucceededHasReport ==
  \A b \in Evidence : job[b].status = "succeeded" => run[b].status = "completed"

(* However leases are lost, no two workers have the model evaluate for the *)
(* same job at once, and none for a job that is settled (start_run).       *)
OneEvaluationPerJob ==
  \A w \in Workers :
    worker[w].at = "evaluate" =>
      /\ run[worker[w].of].status = "absent"
      /\ \A v \in Workers \ {w} :
           worker[v].at = "evaluate" => worker[v].of # worker[w].of

(* A report rests on evidence no older than that of the request it answers *)
(* (_build_generation_basis_fingerprint, process_evaluation_run_job_impl). *)
FreshEvidence ==
  \A b \in Evidence : run[b].status = "completed" => run[b].basis >= b

(* What a talent partner reads once the job they asked for has succeeded   *)
(* is a report, and of no older evidence than they asked about, however    *)
(* late, often or by how many workers the job was run.                     *)
AnswersAreFresh == SucceededHasReport /\ FreshEvidence

(* A report is announced once, made once and about what was asked, however *)
(* two workers and two jobs race for it.                                   *)
ReportsAreTrue == ReportsAreAnnounced /\ OneEvaluationPerJob /\ AnswersAreFresh

(* What was committed stays, to the evaluation and to the talent partner.  *)
OutcomesStay == RunsAreFinal /\ ReadyForGood

(* Every request ends in a readable report or in a dead-lettered job       *)
(* (enqueue_evaluation_run).                                               *)
EveryRequestSettles ==
  \A b \in Evidence :
    job[b].status = "queued" ~>
      \/ job[b].status = "succeeded" /\ FetchStatus = "ready"
      \/ job[b].status = "dead_letter"

(* While there is no report and a job that has no outcome yet is active,   *)
(* the status is running (docs/ai_evaluation_jobs_integration.md, Read     *)
(* Model Behavior).                                                        *)
ActiveIsRunning ==
  (\E b \in Evidence :
     job[b].status \in {"queued", "running"} /\ run[b].status = "absent") /\
  (\A b \in Evidence : run[b].status # "completed")
    => FetchStatus = "running"
===============================================================================
