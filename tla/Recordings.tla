------------------------------ MODULE Recordings ------------------------------
(***************************************************************************)
(* The recordings of a candidate's handoff day: uploaded straight to the   *)
(* storage with a signed URL, completed, transcribed by a                  *)
(* transcribe_recording job, deleted by the candidate, and purged when     *)
(* their retention is over (app/media and the transcribe_recording handler *)
(* of app/shared/jobs).                                                    *)
(*                                                                         *)
(* Every write of a recording locks its row, but the handler locks it anew *)
(* for each of its writes and not while the provider transcribes, and a    *)
(* worker may lose its lease, so two may run the same job (JobQueue).  The *)
(* purge removes the object before it commits.                             *)
(***************************************************************************)
EXTENDS Integers, FiniteSets

CONSTANTS
  Recordings,    \* recording assets
  Kind,          \* asset_kind of each: "recording" or "supplemental"
  Workers,       \* workers that run transcription jobs
  NoRecording,   \* a submission without a recording
  MaxAttempts,   \* TRANSCRIBE_RECORDING_MAX_ATTEMPTS
  Faults         \* bound: workers that crash, purges that fail

ASSUME RecordingsAssumption ==
  /\ Kind \in [Recordings -> {"recording", "supplemental"}]
  /\ NoRecording \notin Recordings
  /\ MaxAttempts \in Nat \ {0}
  /\ Faults \in Nat

VARIABLES
  phase,        \* the day's window is open, closed, or retention has expired
  status,       \* recording_assets.status
  transcript,   \* transcripts rows
  stored,       \* the recording's object is in the storage
  submitted,    \* submissions.recording_id of the handoff task
  job,          \* transcribe_recording jobs
  purge,        \* the running purge: selected, or its object removed
  worker,       \* handler runs
  faults,       \* faults still allowed
  overlap,      \* history: two workers ran the recording's job at once
  halfPurged    \* history: a purge failed after it had removed the object

vars == <<phase, status, transcript, stored, submitted, job, purge, worker,
          faults, overlap, halfPurged>>

-----------------------------------------------------------------------------
Statuses == {"absent", "uploading", "uploaded", "processing", "ready", "failed",
             "deleted", "purged"}

TranscriptRows == [status : {"absent", "pending", "processing", "ready", "failed"},
                   text : BOOLEAN, deleted : BOOLEAN]
NoTranscript == [status |-> "absent", text |-> FALSE, deleted |-> FALSE]

JobRows == [status : {"absent", "queued", "running", "succeeded", "dead_letter"},
            attempt : 0..MaxAttempts]

WorkerStates ==
  [at : {"idle", "begin", "transcribe", "done", "retryable", "permanent",
         "raise", "return"},
   of : Recordings \cup {NoRecording}, attempt : 0..MaxAttempts]
IdleWorker == [at |-> "idle", of |-> NoRecording, attempt |-> 0]

(* Types of the rows and of what the handlers hold. *)
TypeOK ==
  /\ phase \in {"open", "closed", "expired"}
  /\ status \in [Recordings -> Statuses]
  /\ transcript \in [Recordings -> TranscriptRows]
  /\ stored \in [Recordings -> BOOLEAN]
  /\ submitted \in Recordings \cup {NoRecording}
  /\ job \in [Recordings -> JobRows]
  /\ purge \in [Recordings -> {"no", "selected", "removed"}]
  /\ worker \in [Workers -> WorkerStates]
  /\ faults \in 0..Faults
  /\ overlap \in [Recordings -> BOOLEAN]
  /\ halfPurged \in [Recordings -> BOOLEAN]

(* The handoff day has opened and the candidate has given consent. *)
Init ==
  /\ phase = "open"
  /\ status = [m \in Recordings |-> "absent"]
  /\ transcript = [m \in Recordings |-> NoTranscript]
  /\ stored = [m \in Recordings |-> FALSE]
  /\ submitted = NoRecording
  /\ job = [m \in Recordings |-> [status |-> "absent", attempt |-> 0]]
  /\ purge = [m \in Recordings |-> "no"]
  /\ worker = [w \in Workers |-> IdleWorker]
  /\ faults = Faults
  /\ overlap = [m \in Recordings |-> FALSE]
  /\ halfPurged = [m \in Recordings |-> FALSE]

-----------------------------------------------------------------------------
(* Helpers. *)

DOWNLOADABLE_RECORDING_STATUSES == {"uploaded", "processing", "ready"}

is_deleted_or_purged(m) == status[m] \in {"deleted", "purged"}

(* Whoever wants the row's lock waits for a purge that holds it. *)
Unlocked(m) == purge[m] # "removed"

(* Mutation: a new transcript takes the status of its recording. *)
TranscriptInStep(m) ==
  IF transcript[m].status = "absent"
  THEN [status |-> status[m], text |-> FALSE, deleted |-> FALSE]
  ELSE transcript[m]

(* get_or_create_transcript. *)
TranscriptOf(m) ==
  IF transcript[m].status = "absent"
  THEN [status |-> "pending", text |-> FALSE, deleted |-> FALSE]
  ELSE transcript[m]

(* Deletion and purge both empty the row, if there is one. *)
Redacted(m) ==
  [transcript EXCEPT ![m] =
     IF @.status = "absent" THEN @ ELSE [@ EXCEPT !.text = FALSE, !.deleted = TRUE]]

(* Both rows of a recording, in one commit of the handler. *)
Marked(m, s, text) ==
  /\ status' = [status EXCEPT ![m] = s]
  /\ transcript' = [transcript EXCEPT ![m] =
       [TranscriptOf(m) EXCEPT !.status = s, !.text = text]]

-----------------------------------------------------------------------------
(* The candidate. *)

InitUpload(m) ==
  /\ phase = "open"
  /\ status[m] = "absent"
  /\ status' = [status EXCEPT ![m] = "uploading"]
  /\ UNCHANGED <<phase, transcript, stored, submitted, job, purge, worker, faults,
                 overlap, halfPurged>>

(* PUT to the signed URL, which lives for half an hour at most. *)
PutObject(m) ==
  /\ phase # "expired"
  /\ status[m] # "absent"
  /\ stored' = [stored EXCEPT ![m] = TRUE]
  /\ UNCHANGED <<phase, status, transcript, submitted, job, purge, worker, faults,
                 overlap, halfPurged>>

(* Mutation: the object is not looked for. *)
ObjectNotChecked(m) == TRUE

(* load_uploaded_object_metadata, for a recording that waits for its object. *)
ObjectChecked(m) == status[m] \in {"uploading", "failed"} => stored[m]

(* Mutation: every completed asset becomes the submission. *)
AnyAsset(m) == TRUE

(* A supplement of the demo has neither transcript nor submission. *)
IsRecording(m) == Kind[m] = "recording"

(* complete_handoff_upload; a deleted recording is completed like any other. *)
Complete(m) ==
  /\ phase = "open"
  /\ status[m] # "absent"
  /\ Unlocked(m)
  /\ ObjectChecked(m)
  /\ status' = [status EXCEPT ![m] =
       IF @ \in {"uploading", "failed"} THEN "uploaded" ELSE @]
  /\ IF IsRecording(m)
     THEN /\ transcript' = [transcript EXCEPT ![m] = TranscriptOf(m)]
          /\ submitted' = m
          /\ job' = [job EXCEPT ![m].status = IF @ = "absent" THEN "queued" ELSE @]
     ELSE UNCHANGED <<transcript, submitted, job>>
  /\ UNCHANGED <<phase, stored, purge, worker, faults, overlap, halfPurged>>

(* delete_recording_asset. *)
Delete(m) ==
  /\ status[m] # "absent"
  /\ Unlocked(m)
  /\ status' = [status EXCEPT ![m] = IF @ = "purged" THEN @ ELSE "deleted"]
  /\ transcript' = Redacted(m)
  /\ UNCHANGED <<phase, stored, submitted, job, purge, worker, faults, overlap,
                 halfPurged>>

(* The window closes; a day later at least, retention expires. *)
Tick ==
  /\ phase # "expired"
  /\ phase' = IF phase = "open" THEN "closed" ELSE "expired"
  /\ UNCHANGED <<status, transcript, stored, submitted, job, purge, worker, faults,
                 overlap, halfPurged>>

-----------------------------------------------------------------------------
(* purge_expired_media_assets, one run at a time. *)

(* retention_expires_at, or created_at without one, lies in the past. *)
RetentionExpired == phase = "expired"

(* get_expired_for_retention, without a lock. *)
SelectExpired(m) ==
  /\ RetentionExpired
  /\ purge[m] = "no"
  /\ status[m] \in {"uploaded", "ready", "failed", "deleted"}
  /\ purge' = [purge EXCEPT ![m] = "selected"]
  /\ UNCHANGED <<phase, status, transcript, stored, submitted, job, worker, faults,
                 overlap, halfPurged>>

(* _purge_recording locks the row and removes the object; the row that the *)
(* session has loaded is not looked at again.                              *)
RemoveObject(m) ==
  /\ purge[m] = "selected"
  /\ stored' = [stored EXCEPT ![m] = FALSE]
  /\ purge' = [purge EXCEPT ![m] = "removed"]
  /\ UNCHANGED <<phase, status, transcript, submitted, job, worker, faults, overlap,
                 halfPurged>>

(* redact_by_recording_id, mark_purged and the audit, in one commit. *)
CommitPurge(m) ==
  /\ purge[m] = "removed"
  /\ status' = [status EXCEPT ![m] = "purged"]
  /\ transcript' = Redacted(m)
  /\ purge' = [purge EXCEPT ![m] = "no"]
  /\ UNCHANGED <<phase, stored, submitted, job, worker, faults, overlap, halfPurged>>

(* The storage refuses, the commit fails or the process dies. *)
FailPurge(m) ==
  /\ purge[m] # "no"
  /\ faults > 0
  /\ faults' = faults - 1
  /\ halfPurged' = [halfPurged EXCEPT ![m] = @ \/ purge[m] = "removed"]
  /\ purge' = [purge EXCEPT ![m] = "no"]
  /\ UNCHANGED <<phase, status, transcript, stored, submitted, job, worker, overlap>>

-----------------------------------------------------------------------------
(* The transcribe_recording job. *)

(* Job.attempt + 1, which only matters up to MaxAttempts. *)
NextAttempt(m) ==
  IF job[m].attempt < MaxAttempts THEN job[m].attempt + 1 ELSE job[m].attempt

Active(w, m) == worker[w].at # "idle" /\ worker[w].of = m

Goto(w, at) == worker' = [worker EXCEPT ![w].at = at]

(* claim_next_runnable: a queued job, or one whose lease may have run out. *)
StartTranscription(w, m) ==
  /\ worker[w].at = "idle"
  /\ job[m].status \in {"queued", "running"}
  /\ job' = [job EXCEPT ![m] = [status |-> "running", attempt |-> NextAttempt(m)]]
  /\ overlap' = [overlap EXCEPT ![m] = @ \/ \E v \in Workers : Active(v, m)]
  /\ worker' = [worker EXCEPT ![w] =
       [at |-> "begin", of |-> m, attempt |-> NextAttempt(m)]]
  /\ UNCHANGED <<phase, status, transcript, stored, submitted, purge, faults,
                 halfPurged>>

AlreadyReady(m) == status[m] = "ready" /\ transcript[m].status = "ready"

(* Mutation: a recording that is ready is transcribed again. *)
OnlyTheGone(m) == is_deleted_or_purged(m)

(* The early returns of _mark_processing. *)
NothingToDo(m) == is_deleted_or_purged(m) \/ AlreadyReady(m)

(* _mark_processing; the text is kept. *)
MarkProcessing(w) ==
  LET m == worker[w].of IN
  /\ worker[w].at = "begin"
  /\ Unlocked(m)
  /\ IF NothingToDo(m)
     THEN Goto(w, "return") /\ UNCHANGED <<status, transcript>>
     ELSE Goto(w, "transcribe") /\ Marked(m, "processing", transcript[m].text)
  /\ UNCHANGED <<phase, stored, submitted, job, purge, faults, overlap, halfPurged>>

(* The row is read once more, then the provider fetches the object. *)
Transcribe(w) ==
  LET m == worker[w].of IN
  /\ worker[w].at = "transcribe"
  /\ \/ is_deleted_or_purged(m) /\ Goto(w, "return")
     \/ ~is_deleted_or_purged(m) /\ stored[m] /\ Goto(w, "done")
     \/ ~is_deleted_or_purged(m) /\ (Goto(w, "retryable") \/ Goto(w, "permanent"))
  /\ UNCHANGED <<phase, status, transcript, stored, submitted, job, purge, faults,
                 overlap, halfPurged>>

(* Mutation: what the candidate deleted meanwhile is not looked at. *)
WriteAnyway(m, s, text) == Marked(m, s, text)

(* The guard of _mark_ready, _mark_retrying and _mark_failure. *)
MarkedUnlessGone(m, s, text) ==
  IF is_deleted_or_purged(m) THEN UNCHANGED <<status, transcript>>
  ELSE Marked(m, s, text)

(* Mutation: the transcript is stored, the recording is left processing. *)
TranscriptOnly(m) ==
  /\ transcript' = [transcript EXCEPT ![m] =
       IF is_deleted_or_purged(m) THEN @
       ELSE [TranscriptOf(m) EXCEPT !.status = "ready", !.text = TRUE]]
  /\ UNCHANGED status

MarkedReady(m) == MarkedUnlessGone(m, "ready", TRUE)

MarkReady(w) ==
  LET m == worker[w].of IN
  /\ worker[w].at = "done"
  /\ Unlocked(m)
  /\ MarkedReady(m)
  /\ Goto(w, "return")
  /\ UNCHANGED <<phase, stored, submitted, job, purge, faults, overlap, halfPurged>>

(* _transcription_job_view_for_retry_headroom adds one to the attempt. *)
RetryHeadroom(m) == job[m].attempt + 1 < MaxAttempts

MarkRetrying(w) ==
  LET m == worker[w].of IN
  /\ worker[w].at = "retryable"
  /\ RetryHeadroom(m)
  /\ Unlocked(m)
  /\ MarkedUnlessGone(m, "processing", FALSE)
  /\ Goto(w, "raise")
  /\ UNCHANGED <<phase, stored, submitted, job, purge, faults, overlap, halfPurged>>

MarkFailure(w) ==
  LET m == worker[w].of IN
  /\ worker[w].at = "permanent" \/ (worker[w].at = "retryable" /\ ~RetryHeadroom(m))
  /\ Unlocked(m)
  /\ MarkedUnlessGone(m, "failed", FALSE)
  /\ Goto(w, "raise")
  /\ UNCHANGED <<phase, stored, submitted, job, purge, faults, overlap, halfPurged>>

(* run_once marks the job succeeded. *)
ReportSuccess(w) ==
  /\ worker[w].at = "return"
  /\ job' = [job EXCEPT ![worker[w].of].status = "succeeded"]
  /\ worker' = [worker EXCEPT ![w] = IdleWorker]
  /\ UNCHANGED <<phase, status, transcript, stored, submitted, purge, faults, overlap,
                 halfPurged>>

(* Mutation: an error ends the job. *)
NeverAgain(w) == "succeeded"

(* The queue retries every error of this handler, by the attempt claimed. *)
AfterError(w) == IF worker[w].attempt < MaxAttempts THEN "queued" ELSE "dead_letter"

ReportError(w) ==
  /\ worker[w].at = "raise"
  /\ job' = [job EXCEPT ![worker[w].of].status = AfterError(w)]
  /\ worker' = [worker EXCEPT ![w] = IdleWorker]
  /\ UNCHANGED <<phase, status, transcript, stored, submitted, purge, faults, overlap,
                 halfPurged>>

(* The worker dies; its job stays running until its lease runs out. *)
Crash(w) ==
  /\ worker[w].at # "idle"
  /\ faults > 0
  /\ faults' = faults - 1
  /\ worker' = [worker EXCEPT ![w] = IdleWorker]
  /\ UNCHANGED <<phase, status, transcript, stored, submitted, job, purge, overlap,
                 halfPurged>>

-----------------------------------------------------------------------------
HandlerStep(w) ==
  \/ MarkProcessing(w) \/ Transcribe(w) \/ MarkReady(w) \/ MarkRetrying(w)
  \/ MarkFailure(w) \/ ReportSuccess(w) \/ ReportError(w)

Next ==
  \/ \E m \in Recordings :
       \/ InitUpload(m) \/ PutObject(m) \/ Complete(m) \/ Delete(m)
       \/ SelectExpired(m) \/ RemoveObject(m) \/ CommitPurge(m) \/ FailPurge(m)
  \/ \E w \in Workers, m \in Recordings : StartTranscription(w, m)
  \/ \E w \in Workers : HandlerStep(w) \/ Crash(w)
  \/ Tick

Spec == Init /\ [][Next]_vars

(* Workers poll for ever, handlers and transactions end; the candidate and *)
(* whoever starts a purge owe nothing.                                     *)
Fairness ==
  /\ \A w \in Workers : WF_vars(HandlerStep(w))
  /\ \A m \in Recordings :
       /\ WF_vars(\E w \in Workers : StartTranscription(w, m))
       /\ WF_vars(CommitPurge(m))

FairSpec == Spec /\ Fairness

-----------------------------------------------------------------------------
(* Properties. *)

(* Nothing of what was said is kept once a recording is deleted or purged, *)
(* even if its transcription was in flight then                            *)
(* (delete_recording_asset, _mark_ready).                                  *)
RedactedHasNoText ==
  \A m \in Recordings :
    is_deleted_or_purged(m) \/ transcript[m].deleted => ~transcript[m].text

(* The recording, shown to the candidate, and the transcript, read by the  *)
(* evaluation, say the same: ready, with a text, or not                    *)
(* (_mark_processing, _mark_ready, _mark_retrying, _mark_failure).         *)
StatusesAgree ==
  \A m \in Recordings :
    ~is_deleted_or_purged(m) =>
      /\ (status[m] = "ready") = (transcript[m].status = "ready")
      /\ (status[m] = "ready") = transcript[m].text

(* A recording that may be played has its object, except while a purge     *)
(* holds it and after one that failed halfway                              *)
(* (is_downloadable, load_uploaded_object_metadata, _purge_recording).     *)
PlayableIsStored ==
  \A m \in Recordings :
    status[m] \in DOWNLOADABLE_RECORDING_STATUSES /\ Unlocked(m) /\ ~halfPurged[m] =>
      stored[m]

(* The recording that a candidate is judged by was there when it was       *)
(* completed, and is one that gets a transcript: a supplement never takes  *)
(* its place (complete_handoff_upload, upsert_submission_recording_pointer). *)
SubmittedIsTranscribed ==
  submitted # NoRecording =>
    /\ Kind[submitted] = "recording"
    /\ status[submitted] \notin {"absent", "uploading"}
    /\ job[submitted].status # "absent" /\ transcript[submitted].status # "absent"

(* Nothing of a purged recording comes back to the storage: its signed URL *)
(* is long dead (get_expired_for_retention, resolve_signed_url_ttl).       *)
PurgedIsGone == \A m \in Recordings : status[m] = "purged" => ~stored[m]

(* The rows and the object storage, which share no transaction, agree on   *)
(* what is stored.                                                         *)
StorageAgrees == PlayableIsStored /\ PurgedIsGone

(* The recording, its transcript, its submission and its object tell one   *)
(* story, through deletions, purges, retries and crashes.                  *)
RecordingsAgree ==
  RedactedHasNoText /\ StatusesAgree /\ SubmittedIsTranscribed /\ StorageAgrees

(* A transcript that is ready is lost only to deletion and purge, whatever *)
(* crashes and retries there are, as long as no two workers ran the job at *)
(* once (_mark_processing, _mark_failure, complete_handoff_upload).        *)
ReadyIsKept ==
  [][\A m \in Recordings :
       AlreadyReady(m) /\ ~overlap[m] => (AlreadyReady(m) \/ is_deleted_or_purged(m))']_vars

(* A completed recording is transcribed or fails in the end, unless its    *)
(* job used up its attempts or two workers ran it at once                  *)
(* (complete_handoff_upload, handle_transcribe_recording_impl).            *)
EveryUploadSettles ==
  \A m \in Recordings :
    (Kind[m] = "recording" /\ status[m] \in {"uploaded", "processing"}) ~>
      (\/ status[m] \in {"ready", "failed", "deleted", "purged"}
       \/ job[m].status = "dead_letter" \/ overlap[m])

===============================================================================
