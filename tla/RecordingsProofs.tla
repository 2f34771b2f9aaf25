--------------------------- MODULE RecordingsProofs ---------------------------
(***************************************************************************)
(* Proofs about Recordings, for any recordings of either kind, any number  *)
(* of workers, attempts and faults.                                        *)
(***************************************************************************)
EXTENDS Recordings, TLAPS

-----------------------------------------------------------------------------
(* The inductive invariant. *)

Gone == {"deleted", "purged"}

(* What the rows of a recording say of each other and of its object. *)
Asset(m) ==
  /\ job[m].status # "absent" =>
       status[m] \notin {"absent", "uploading"} /\ transcript[m].status # "absent"
  /\ status[m] \in {"uploaded", "processing", "ready", "failed"} =>
       stored[m] \/ purge[m] = "removed" \/ halfPurged[m]
  /\ purge[m] # "no" => phase = "expired"
  /\ purge[m] = "removed" => ~stored[m]
  /\ status[m] = "purged" => phase = "expired" /\ ~stored[m]
  /\ transcript[m].deleted => status[m] \in Gone

(* A handler's job exists; alone with it, a handler that is past           *)
(* _mark_processing has left no ready transcript behind.                   *)
Run(w) ==
  worker[w].at # "idle" =>
    /\ worker[w].of \in Recordings
    /\ job[worker[w].of].status # "absent"
    /\ worker[w].at \in {"transcribe", "done", "retryable", "permanent"}
         /\ ~overlap[worker[w].of] => ~AlreadyReady(worker[w].of)

(* Two handlers of one recording are remembered. *)
Apart(w, v) ==
  w # v /\ worker[w].at # "idle" /\ worker[v].at # "idle"
    /\ worker[w].of = worker[v].of => overlap[worker[w].of]

RecordingsInv ==
  /\ TypeOK
  /\ \A m \in Recordings : Asset(m)
  /\ \A w \in Workers : Run(w)
  /\ \A w, v \in Workers : Apart(w, v)
  /\ RedactedHasNoText
  /\ StatusesAgree
  /\ SubmittedIsTranscribed

-----------------------------------------------------------------------------
(* Types. *)

LEMMA InitType == Init => TypeOK
<1> SUFFICES ASSUME Init PROVE TypeOK
  OBVIOUS
<1> USE RecordingsAssumption
<1>1. NoTranscript \in TranscriptRows
  BY DEF NoTranscript, TranscriptRows
<1>2. [status |-> "absent", attempt |-> 0] \in JobRows
  BY DEF JobRows
<1>3. IdleWorker \in WorkerStates
  BY DEF IdleWorker, WorkerStates
<1> QED
  BY <1>1, <1>2, <1>3 DEF Init, TypeOK, Statuses

(* get_or_create_transcript returns a row. *)
LEMMA TranscriptOfType ==
  ASSUME TypeOK, NEW m \in Recordings
  PROVE  TranscriptOf(m) \in TranscriptRows
BY DEF TypeOK, TranscriptRows, TranscriptOf

LEMMA MarkedType ==
  ASSUME TypeOK, NEW m \in Recordings, NEW s \in {"processing", "ready", "failed"},
         NEW text \in BOOLEAN, Marked(m, s, text)
  PROVE  /\ status' \in [Recordings -> Statuses]
         /\ transcript' \in [Recordings -> TranscriptRows]
<1>1. [TranscriptOf(m) EXCEPT !.status = s, !.text = text] \in TranscriptRows
  BY TranscriptOfType DEF TranscriptRows
<1> QED
  BY <1>1 DEF TypeOK, Marked, Statuses

LEMMA MarkedUnlessGoneType ==
  ASSUME TypeOK, NEW m \in Recordings, NEW s \in {"processing", "ready", "failed"},
         NEW text \in BOOLEAN, MarkedUnlessGone(m, s, text)
  PROVE  /\ status' \in [Recordings -> Statuses]
         /\ transcript' \in [Recordings -> TranscriptRows]
<1>1. CASE is_deleted_or_purged(m)
  BY <1>1 DEF MarkedUnlessGone, TypeOK
<1>2. CASE ~is_deleted_or_purged(m)
  BY <1>2, MarkedType DEF MarkedUnlessGone
<1> QED
  BY <1>1, <1>2

LEMMA RedactedType ==
  ASSUME TypeOK, NEW m \in Recordings
  PROVE  Redacted(m) \in [Recordings -> TranscriptRows]
<1>1. [transcript[m] EXCEPT !.text = FALSE, !.deleted = TRUE] \in TranscriptRows
  BY ZenonT(60) DEF TypeOK, TranscriptRows
<1> QED
  BY <1>1 DEF TypeOK, Redacted

(* The next attempt stays within the bound. *)
LEMMA NextAttemptType ==
  ASSUME TypeOK, NEW m \in Recordings
  PROVE  NextAttempt(m) \in 0..MaxAttempts
<1>1. job[m].attempt \in 0..MaxAttempts
  BY DEF TypeOK, JobRows
<1> QED
  BY <1>1, RecordingsAssumption DEF NextAttempt

(* A worker that moves on stays one. *)
LEMMA GotoType ==
  ASSUME TypeOK, NEW w \in Workers,
         NEW at \in {"transcribe", "done", "retryable", "permanent", "raise", "return"},
         Goto(w, at)
  PROVE  worker' \in [Workers -> WorkerStates]
BY DEF TypeOK, Goto, WorkerStates

(* Only a handler that runs takes a step. *)
LEMMA HandlerRuns ==
  ASSUME NEW w \in Workers, Run(w), HandlerStep(w)
  PROVE  worker[w].at # "idle" /\ worker[w].of \in Recordings
BY DEF Run, HandlerStep, MarkProcessing, Transcribe, MarkReady, MarkRetrying,
       MarkFailure, ReportSuccess, ReportError

(* Every step keeps the types. *)
LEMMA StepType == TypeOK /\ (\A w \in Workers : Run(w)) /\ [Next]_vars => TypeOK'
<1> SUFFICES ASSUME TypeOK, \A w \in Workers : Run(w), [Next]_vars PROVE TypeOK'
  OBVIOUS
<1> USE RecordingsAssumption
<1>1. ASSUME NEW m \in Recordings, InitUpload(m) PROVE TypeOK'
  BY <1>1 DEF InitUpload, TypeOK, Statuses
<1>2. ASSUME NEW m \in Recordings, PutObject(m) PROVE TypeOK'
  BY <1>2 DEF PutObject, TypeOK
<1>3. ASSUME NEW m \in Recordings, Complete(m) PROVE TypeOK'
  <2>1. status' \in [Recordings -> Statuses]
    BY <1>3 DEF Complete, TypeOK, Statuses
  <2>2. transcript' \in [Recordings -> TranscriptRows]
    BY <1>3, TranscriptOfType DEF Complete, TypeOK
  <2>3. job' \in [Recordings -> JobRows]
    BY <1>3 DEF Complete, TypeOK, JobRows
  <2>4. submitted' \in Recordings \cup {NoRecording}
    BY <1>3 DEF Complete, TypeOK
  <2> QED
    BY <1>3, <2>1, <2>2, <2>3, <2>4 DEF Complete, TypeOK
<1>4. ASSUME NEW m \in Recordings, Delete(m) PROVE TypeOK'
  BY <1>4, RedactedType DEF Delete, TypeOK, Statuses
<1>5. ASSUME NEW m \in Recordings, SelectExpired(m) PROVE TypeOK'
  BY <1>5 DEF SelectExpired, TypeOK
<1>6. ASSUME NEW m \in Recordings, RemoveObject(m) PROVE TypeOK'
  BY <1>6 DEF RemoveObject, TypeOK
<1>7. ASSUME NEW m \in Recordings, CommitPurge(m) PROVE TypeOK'
  BY <1>7, RedactedType DEF CommitPurge, TypeOK, Statuses
<1>8. ASSUME NEW m \in Recordings, FailPurge(m) PROVE TypeOK'
  BY <1>8 DEF FailPurge, TypeOK
<1>9. ASSUME NEW w \in Workers, NEW m \in Recordings, StartTranscription(w, m)
      PROVE  TypeOK'
  <2>1. [status |-> "running", attempt |-> NextAttempt(m)] \in JobRows
    BY NextAttemptType DEF JobRows
  <2>2. [at |-> "begin", of |-> m, attempt |-> NextAttempt(m)] \in WorkerStates
    BY NextAttemptType DEF WorkerStates
  <2>3. overlap' \in [Recordings -> BOOLEAN]
    BY <1>9 DEF StartTranscription, TypeOK
  <2> QED
    BY <1>9, <2>1, <2>2, <2>3 DEF StartTranscription, TypeOK
<1>10. ASSUME NEW w \in Workers, HandlerStep(w) PROVE TypeOK'
  <2> DEFINE m == worker[w].of
  <2> m \in Recordings
    BY <1>10, HandlerRuns
  <2>1. CASE MarkProcessing(w)
    <3>1. transcript[m].text \in BOOLEAN
      BY <1>10 DEF TypeOK, TranscriptRows
    <3>2. /\ status' \in [Recordings -> Statuses]
          /\ transcript' \in [Recordings -> TranscriptRows]
      BY <1>10, <2>1, <3>1, MarkedType DEF MarkProcessing, TypeOK
    <3>3. worker' \in [Workers -> WorkerStates]
      BY <2>1, GotoType DEF MarkProcessing
    <3> QED
      BY <2>1, <3>2, <3>3 DEF MarkProcessing, TypeOK
  <2>2. CASE Transcribe(w)
    <3>1. worker' \in [Workers -> WorkerStates]
      BY <2>2, GotoType DEF Transcribe
    <3> QED
      BY <2>2, <3>1 DEF Transcribe, TypeOK
  <2>3. CASE MarkReady(w)
    BY <1>10, <2>3, GotoType, MarkedUnlessGoneType DEF MarkReady, MarkedReady, TypeOK
  <2>4. CASE MarkRetrying(w)
    BY <1>10, <2>4, GotoType, MarkedUnlessGoneType DEF MarkRetrying, TypeOK
  <2>5. CASE MarkFailure(w)
    BY <1>10, <2>5, GotoType, MarkedUnlessGoneType DEF MarkFailure, TypeOK
  <2>6. ASSUME NEW s \in {"queued", "succeeded", "dead_letter"},
               job' = [job EXCEPT ![m].status = s]
        PROVE  job' \in [Recordings -> JobRows]
    BY <1>10, <2>6 DEF TypeOK, JobRows
  <2>7. IdleWorker \in WorkerStates
    BY DEF IdleWorker, WorkerStates
  <2>8. CASE ReportSuccess(w)
    BY <2>6, <2>7, <2>8 DEF ReportSuccess, TypeOK
  <2>9. CASE ReportError(w)
    BY <2>6, <2>7, <2>9 DEF ReportError, AfterError, TypeOK
  <2> QED
    BY <1>10, <2>1, <2>2, <2>3, <2>4, <2>5, <2>8, <2>9 DEF HandlerStep
<1>11. ASSUME NEW w \in Workers, Crash(w) PROVE TypeOK'
  <2>1. IdleWorker \in WorkerStates
    BY DEF IdleWorker, WorkerStates
  <2> QED
    BY <1>11, <2>1 DEF Crash, TypeOK
<1>12. CASE Tick
  BY <1>12 DEF Tick, TypeOK
<1>13. CASE UNCHANGED vars
  BY <1>13 DEF vars, TypeOK
<1> QED
  BY <1>1, <1>2, <1>3, <1>4, <1>5, <1>6, <1>7, <1>8, <1>9, <1>10, <1>11, <1>12, <1>13
     DEF Next

-----------------------------------------------------------------------------
(* What the helpers leave in the rows. *)

LEMMA MarkedRows ==
  ASSUME TypeOK, NEW m \in Recordings, NEW s, NEW text, Marked(m, s, text)
  PROVE  /\ status'[m] = s /\ transcript'[m].status = s /\ transcript'[m].text = text
         /\ transcript'[m].deleted => transcript[m].deleted
         /\ \A n \in Recordings \ {m} :
              status'[n] = status[n] /\ transcript'[n] = transcript[n]
<1>1. TranscriptOf(m) \in TranscriptRows
  BY TranscriptOfType
<1>2. TranscriptOf(m).deleted => transcript[m].deleted
  BY DEF TranscriptOf
<1>3. transcript'[m] = [TranscriptOf(m) EXCEPT !.status = s, !.text = text]
  BY DEF Marked, TypeOK
<1> QED
  BY <1>1, <1>2, <1>3 DEF Marked, TypeOK, TranscriptRows

(* Rows that do not change, or are marked while they are not gone. *)
LEMMA MarkedUnlessGoneRows ==
  ASSUME TypeOK, NEW m \in Recordings, NEW s, NEW text, MarkedUnlessGone(m, s, text)
  PROVE  /\ \A n \in Recordings \ {m} :
              status'[n] = status[n] /\ transcript'[n] = transcript[n]
         /\ \/ /\ status[m] \in Gone
               /\ status'[m] = status[m] /\ transcript'[m] = transcript[m]
            \/ /\ status[m] \notin Gone
               /\ status'[m] = s
               /\ transcript'[m].status = s /\ transcript'[m].text = text
               /\ transcript'[m].deleted => transcript[m].deleted
BY MarkedRows DEF MarkedUnlessGone, is_deleted_or_purged, Gone

LEMMA RedactedRows ==
  ASSUME TypeOK, NEW m \in Recordings, transcript' = Redacted(m),
         transcript[m].status = "absent" => ~transcript[m].text
  PROVE  /\ \A n \in Recordings \ {m} : transcript'[n] = transcript[n]
         /\ ~transcript'[m].text
         /\ transcript'[m].status = transcript[m].status
BY DEF Redacted, TypeOK, TranscriptRows

(* A row that is not there says nothing. *)
LEMMA NoWordsWithoutRow ==
  ASSUME RecordingsInv, NEW m \in Recordings, transcript[m].status = "absent"
  PROVE  ~transcript[m].text
BY DEF RecordingsInv, RedactedHasNoText, StatusesAgree

-----------------------------------------------------------------------------
(* The rows of a recording, its object and its purge. *)

(* A handler marks only a recording whose job, and object, is there. *)
LEMMA MarkedAsset ==
  ASSUME RecordingsInv, NEW n \in Recordings, NEW m \in Recordings,
         job[m].status # "absent", job' = job,
         NEW s \in {"processing", "ready", "failed"}, NEW text,
         MarkedUnlessGone(m, s, text), UNCHANGED <<phase, stored, purge, halfPurged>>
  PROVE  Asset(n)'
<1>1. Asset(m) /\ Asset(n) /\ TypeOK
  BY DEF RecordingsInv
<1>2. \/ status'[n] = status[n] /\ transcript'[n] = transcript[n]
      \/ /\ n = m /\ status[m] \notin Gone
         /\ status'[m] = s /\ transcript'[m].status = s
         /\ transcript'[m].deleted => transcript[m].deleted
  BY <1>1, MarkedUnlessGoneRows
<1>3. CASE status'[n] = status[n] /\ transcript'[n] = transcript[n]
  BY <1>1, <1>3 DEF Asset, Gone
<1>4. CASE /\ n = m /\ status[m] \notin Gone
           /\ status'[m] = s /\ transcript'[m].status = s
           /\ transcript'[m].deleted => transcript[m].deleted
  <2>1. stored[m] \/ purge[m] = "removed" \/ halfPurged[m]
    BY <1>1, <1>4 DEF Asset, TypeOK, Statuses, Gone
  <2> QED
    BY <1>1, <1>4, <2>1 DEF Asset, Gone
<1> QED
  BY <1>2, <1>3, <1>4

LEMMA AssetStep == RecordingsInv /\ [Next]_vars => \A n \in Recordings : Asset(n)'
<1> SUFFICES ASSUME RecordingsInv, [Next]_vars, NEW n \in Recordings PROVE Asset(n)'
  OBVIOUS
<1> USE DEF RecordingsInv, Gone
<1>0. Asset(n) /\ TypeOK
  OBVIOUS
<1>1. ASSUME NEW m \in Recordings, InitUpload(m) PROVE Asset(n)'
  BY <1>0, <1>1 DEF InitUpload, TypeOK, Asset
<1>2. ASSUME NEW m \in Recordings, PutObject(m) PROVE Asset(n)'
  BY <1>0, <1>2 DEF PutObject, TypeOK, Asset
<1>3. ASSUME NEW m \in Recordings, Complete(m) PROVE Asset(n)'
  <2>1. /\ phase = "open" /\ stored' = stored /\ purge' = purge
        /\ phase' = phase /\ halfPurged' = halfPurged
    BY <1>3 DEF Complete
  <2>2. CASE n # m
    BY <1>0, <1>3, <2>1, <2>2 DEF Complete, TypeOK, Asset
  <2>3. CASE n = m
    <3>1. /\ status'[m] \notin {"absent", "uploading"}
          /\ status'[m] \in {"uploaded", "processing", "ready", "failed"} =>
               stored[m] \/ purge[m] = "removed" \/ halfPurged[m]
          /\ status'[m] = "purged" => status[m] = "purged"
          /\ status[m] \in Gone => status'[m] \in Gone
      BY <1>0, <1>3, <2>3 DEF Complete, ObjectChecked, TypeOK, Asset, Statuses
    <3>2. transcript'[m].deleted => transcript[m].deleted
      BY <1>0, <1>3 DEF Complete, TranscriptOf, TypeOK
    <3>3. job'[m].status # "absent" => transcript'[m].status # "absent"
      BY <1>0, <1>3, <2>3 DEF Complete, TranscriptOf, TypeOK, Asset
    <3> QED
      BY <1>0, <2>1, <2>3, <3>1, <3>2, <3>3 DEF Asset
  <2> QED
    BY <2>2, <2>3
<1>4. ASSUME NEW m \in Recordings, Delete(m) PROVE Asset(n)'
  BY <1>0, <1>4, RedactedRows, NoWordsWithoutRow DEF Delete, TypeOK, Asset
<1>5. ASSUME NEW m \in Recordings, SelectExpired(m) PROVE Asset(n)'
  BY <1>0, <1>5 DEF SelectExpired, RetentionExpired, TypeOK, Asset
<1>6. ASSUME NEW m \in Recordings, RemoveObject(m) PROVE Asset(n)'
  BY <1>0, <1>6 DEF RemoveObject, TypeOK, Asset
<1>7. ASSUME NEW m \in Recordings, CommitPurge(m) PROVE Asset(n)'
  <2>1. Asset(m)
    OBVIOUS
  <2> QED
    BY <1>0, <1>7, <2>1, RedactedRows, NoWordsWithoutRow DEF CommitPurge, TypeOK, Asset
<1>8. ASSUME NEW m \in Recordings, FailPurge(m) PROVE Asset(n)'
  BY <1>0, <1>8 DEF FailPurge, TypeOK, Asset
<1>9. ASSUME NEW w \in Workers, NEW m \in Recordings, StartTranscription(w, m)
      PROVE  Asset(n)'
  BY <1>0, <1>9 DEF StartTranscription, TypeOK, Asset
<1>10. ASSUME NEW w \in Workers, HandlerStep(w) PROVE Asset(n)'
  <2> DEFINE m == worker[w].of
  <2>0. m \in Recordings /\ job[m].status # "absent"
    BY <1>10, HandlerRuns DEF Run
  <2>1. ASSUME job' = job, NEW s \in {"processing", "ready", "failed"}, NEW text,
               MarkedUnlessGone(m, s, text),
               UNCHANGED <<phase, stored, purge, halfPurged>>
        PROVE  Asset(n)'
    BY <2>0, <2>1, MarkedAsset
  <2>2. CASE MarkProcessing(w)
    <3>1. CASE NothingToDo(m)
      BY <1>0, <2>2, <3>1 DEF MarkProcessing, Asset
    <3>2. CASE ~NothingToDo(m)
      BY <2>1, <2>2, <3>2 DEF MarkProcessing, NothingToDo, MarkedUnlessGone
    <3> QED
      BY <3>1, <3>2
  <2>3. CASE Transcribe(w)
    BY <1>0, <2>3 DEF Transcribe, Asset
  <2>4. CASE MarkReady(w)
    BY <2>1, <2>4 DEF MarkReady, MarkedReady
  <2>5. CASE MarkRetrying(w)
    BY <2>1, <2>5 DEF MarkRetrying
  <2>6. CASE MarkFailure(w)
    BY <2>1, <2>6 DEF MarkFailure
  <2>7. CASE ReportSuccess(w)
    BY <1>0, <2>0, <2>7 DEF ReportSuccess, TypeOK, Asset
  <2>8. CASE ReportError(w)
    BY <1>0, <2>0, <2>8 DEF ReportError, TypeOK, Asset
  <2> QED
    BY <1>10, <2>2, <2>3, <2>4, <2>5, <2>6, <2>7, <2>8 DEF HandlerStep
<1>11. ASSUME NEW w \in Workers, Crash(w) PROVE Asset(n)'
  BY <1>0, <1>11 DEF Crash, Asset
<1>12. CASE Tick
  BY <1>0, <1>12 DEF Tick, Asset
<1>13. CASE UNCHANGED vars
  BY <1>0, <1>13 DEF vars, Asset
<1> QED
  BY <1>1, <1>2, <1>3, <1>4, <1>5, <1>6, <1>7, <1>8, <1>9, <1>10, <1>11, <1>12, <1>13
     DEF Next

-----------------------------------------------------------------------------
(* What a transcript says, and what its recording says of it. *)

Words(n) ==
  /\ status[n] \in Gone \/ transcript[n].deleted => ~transcript[n].text
  /\ status[n] \notin Gone =>
       /\ (status[n] = "ready") = (transcript[n].status = "ready")
       /\ (status[n] = "ready") = transcript[n].text

LEMMA WordsMeaning ==
  (RedactedHasNoText /\ StatusesAgree) = (\A n \in Recordings : Words(n))
BY DEF RedactedHasNoText, StatusesAgree, Words, Gone, is_deleted_or_purged

(* A handler that marks a recording says the same in both rows. *)
LEMMA MarkedWords ==
  ASSUME RecordingsInv, NEW n \in Recordings, NEW m \in Recordings,
         NEW s \in {"processing", "ready", "failed"}, NEW text \in BOOLEAN,
         text = (s = "ready"), MarkedUnlessGone(m, s, text)
  PROVE  Words(n)'
<1>1. Words(n) /\ Asset(n) /\ TypeOK
  BY WordsMeaning DEF RecordingsInv
<1>2. \/ status'[n] = status[n] /\ transcript'[n] = transcript[n]
      \/ /\ n = m /\ status[m] \notin Gone
         /\ status'[m] = s /\ transcript'[m].status = s /\ transcript'[m].text = text
         /\ transcript'[m].deleted => transcript[m].deleted
  BY <1>1, MarkedUnlessGoneRows
<1> QED
  BY <1>1, <1>2 DEF Words, Asset, Gone

LEMMA WordsStep == RecordingsInv /\ [Next]_vars => \A n \in Recordings : Words(n)'
<1> SUFFICES ASSUME RecordingsInv, [Next]_vars, NEW n \in Recordings PROVE Words(n)'
  OBVIOUS
<1>0. Words(n) /\ Asset(n) /\ TypeOK
  BY WordsMeaning DEF RecordingsInv
<1>1. ASSUME UNCHANGED <<status, transcript>> PROVE Words(n)'
  BY <1>0, <1>1 DEF Words
<1>2. ASSUME NEW m \in Recordings, InitUpload(m) PROVE Words(n)'
  BY <1>0, <1>2 DEF InitUpload, TypeOK, Words, Gone
<1>3. ASSUME NEW m \in Recordings, Complete(m) PROVE Words(n)'
  <2>1. CASE n # m
    <3>1. status'[n] = status[n] /\ transcript'[n] = transcript[n]
      BY <1>0, <1>3, <2>1 DEF Complete, TypeOK
    <3> QED
      BY <1>0, <3>1 DEF Words
  <2>2. CASE n = m
    <3>1. /\ (status'[m] = "ready") = (status[m] = "ready")
          /\ (status'[m] \in Gone) = (status[m] \in Gone)
      BY <1>0, <1>3, <2>2 DEF Complete, TypeOK, Gone
    <3>2. transcript[m] \in TranscriptRows
      BY <1>0, <2>2 DEF TypeOK
    <3>3. transcript'[m] = transcript[m] \/ transcript'[m] = TranscriptOf(m)
      BY <1>0, <1>3, <2>2 DEF Complete, TypeOK
    <3>4. transcript[m].status = "absent" => ~transcript[m].text
      BY <2>2, NoWordsWithoutRow
    <3>5. /\ (transcript'[m].status = "ready") = (transcript[m].status = "ready")
          /\ transcript'[m].text <=> transcript[m].text
          /\ transcript'[m].deleted => transcript[m].deleted
      <4>1. CASE transcript'[m] = transcript[m]
        BY <4>1
      <4>2. CASE transcript[m].status = "absent" /\ transcript'[m] = TranscriptOf(m)
        BY <3>4, <4>2 DEF TranscriptOf
      <4> QED
        BY <3>3, <4>1, <4>2 DEF TranscriptOf
    <3>6. transcript'[m].text \in BOOLEAN /\ transcript[m].text \in BOOLEAN
      BY <3>2, <3>3, TranscriptOfType, <1>0 DEF TranscriptRows
    <3> QED
      BY <1>0, <2>2, <3>1, <3>5, <3>6 DEF Words
  <2> QED
    BY <2>1, <2>2
<1>4. ASSUME NEW m \in Recordings, Delete(m) PROVE Words(n)'
  BY <1>0, <1>4, RedactedRows, NoWordsWithoutRow DEF Delete, TypeOK, Words, Gone
<1>5. ASSUME NEW m \in Recordings, CommitPurge(m) PROVE Words(n)'
  BY <1>0, <1>5, RedactedRows, NoWordsWithoutRow DEF CommitPurge, TypeOK, Words, Gone
<1>6. ASSUME NEW w \in Workers, HandlerStep(w) PROVE Words(n)'
  <2> DEFINE m == worker[w].of
  <2>0. m \in Recordings
    BY <1>6, HandlerRuns DEF RecordingsInv
  <2>1. CASE MarkProcessing(w)
    <3>1. CASE NothingToDo(m)
      BY <1>1, <2>1, <3>1 DEF MarkProcessing
    <3>2. CASE ~NothingToDo(m)
      <4>1. Words(m)
        BY <2>0, WordsMeaning DEF RecordingsInv
      <4>2. transcript[m].text = FALSE
        BY <3>2, <4>1 DEF NothingToDo, AlreadyReady, is_deleted_or_purged, Words, Gone
      <4>3. MarkedUnlessGone(m, "processing", FALSE)
        BY <2>1, <3>2, <4>2 DEF MarkProcessing, NothingToDo, MarkedUnlessGone
      <4> QED
        BY <2>0, <4>3, MarkedWords
    <3> QED
      BY <3>1, <3>2
  <2>2. CASE Transcribe(w)
    BY <1>1, <2>2 DEF Transcribe
  <2>3. CASE MarkReady(w)
    BY <2>0, <2>3, MarkedWords DEF MarkReady, MarkedReady
  <2>4. CASE MarkRetrying(w)
    BY <2>0, <2>4, MarkedWords DEF MarkRetrying
  <2>5. CASE MarkFailure(w)
    BY <2>0, <2>5, MarkedWords DEF MarkFailure
  <2>6. CASE ReportSuccess(w) \/ ReportError(w)
    BY <1>1, <2>6 DEF ReportSuccess, ReportError
  <2> QED
    BY <1>6, <2>1, <2>2, <2>3, <2>4, <2>5, <2>6 DEF HandlerStep
<1>7. ASSUME NEW m \in Recordings,
             PutObject(m) \/ SelectExpired(m) \/ RemoveObject(m) \/ FailPurge(m)
      PROVE  Words(n)'
  BY <1>1, <1>7 DEF PutObject, SelectExpired, RemoveObject, FailPurge
<1>8. ASSUME NEW w \in Workers, NEW m \in Recordings,
             StartTranscription(w, m) \/ Crash(w)
      PROVE  Words(n)'
  BY <1>1, <1>8 DEF StartTranscription, Crash
<1>9. CASE Tick \/ UNCHANGED vars
  BY <1>1, <1>9 DEF Tick, vars
<1> QED
  BY <1>2, <1>3, <1>4, <1>5, <1>6, <1>7, <1>8, <1>9 DEF Next

-----------------------------------------------------------------------------
(* The handlers. *)

(* Only _mark_ready makes a recording ready. *)
LEMMA NewlyReady ==
  ASSUME RecordingsInv, [Next]_vars, NEW n \in Recordings, AlreadyReady(n)', ~AlreadyReady(n)
  PROVE  \E w \in Workers : MarkReady(w) /\ worker[w].of = n
<1>0. TypeOK
  BY DEF RecordingsInv
<1>1. ASSUME UNCHANGED <<status, transcript>> PROVE FALSE
  BY <1>1 DEF AlreadyReady
<1>2. ASSUME NEW m \in Recordings,
             InitUpload(m) \/ Complete(m) \/ Delete(m) \/ CommitPurge(m)
      PROVE  FALSE
  <2>1. CASE InitUpload(m)
    BY <1>0, <2>1 DEF InitUpload, AlreadyReady, TypeOK
  <2>2. CASE Complete(m)
    BY <1>0, <2>2 DEF Complete, TranscriptOf, AlreadyReady, TypeOK
  <2>3. CASE Delete(m)
    BY <1>0, <2>3 DEF Delete, Redacted, AlreadyReady, TypeOK
  <2>4. CASE CommitPurge(m)
    BY <1>0, <2>4 DEF CommitPurge, Redacted, AlreadyReady, TypeOK
  <2> QED
    BY <1>2, <2>1, <2>2, <2>3, <2>4
<1>3. ASSUME NEW w \in Workers, HandlerStep(w), ~(MarkReady(w) /\ worker[w].of = n)
      PROVE  FALSE
  <2> DEFINE m == worker[w].of
  <2>0. m \in Recordings
    BY <1>3, HandlerRuns DEF RecordingsInv
  <2>1. ASSUME NEW s \in {"processing", "failed"}, NEW text, MarkedUnlessGone(m, s, text)
        PROVE  FALSE
    BY <1>0, <2>0, <2>1, MarkedUnlessGoneRows DEF AlreadyReady
  <2>2. CASE MarkProcessing(w)
    <3>1. CASE NothingToDo(m)
      BY <1>1, <2>2, <3>1 DEF MarkProcessing
    <3>2. CASE ~NothingToDo(m)
      BY <2>1, <2>2, <3>2 DEF MarkProcessing, NothingToDo, MarkedUnlessGone
    <3> QED
      BY <3>1, <3>2
  <2>3. CASE MarkReady(w)
    BY <1>0, <1>3, <2>0, <2>3, MarkedUnlessGoneRows DEF MarkReady, MarkedReady, AlreadyReady
  <2>4. CASE MarkRetrying(w)
    BY <2>1, <2>4 DEF MarkRetrying
  <2>5. CASE MarkFailure(w)
    BY <2>1, <2>5 DEF MarkFailure
  <2>6. CASE Transcribe(w) \/ ReportSuccess(w) \/ ReportError(w)
    BY <1>1, <2>6 DEF Transcribe, ReportSuccess, ReportError
  <2> QED
    BY <1>3, <2>2, <2>3, <2>4, <2>5, <2>6 DEF HandlerStep
<1>4. ASSUME NEW m \in Recordings,
             PutObject(m) \/ SelectExpired(m) \/ RemoveObject(m) \/ FailPurge(m)
      PROVE  FALSE
  BY <1>1, <1>4 DEF PutObject, SelectExpired, RemoveObject, FailPurge
<1>5. ASSUME NEW w \in Workers, NEW m \in Recordings,
             StartTranscription(w, m) \/ Crash(w)
      PROVE  FALSE
  BY <1>1, <1>5 DEF StartTranscription, Crash
<1>6. ASSUME Tick \/ UNCHANGED vars PROVE FALSE
  BY <1>1, <1>6 DEF Tick, vars
<1> QED
  BY <1>2, <1>3, <1>4, <1>5, <1>6 DEF Next

(* No step forgets a job or that handlers overlapped. *)
LEMMA JobsStay ==
  ASSUME RecordingsInv, [Next]_vars, NEW n \in Recordings
  PROVE  /\ job[n].status # "absent" => job'[n].status # "absent"
         /\ overlap[n] => overlap'[n]
<1>0. TypeOK
  BY DEF RecordingsInv
<1>1. ASSUME NEW m \in Recordings, Complete(m)
      PROVE  /\ job[n].status # "absent" => job'[n].status # "absent"
             /\ overlap' = overlap
  BY <1>0, <1>1 DEF Complete, TypeOK, JobRows
<1>2. ASSUME NEW w \in Workers, NEW m \in Recordings, StartTranscription(w, m)
      PROVE  /\ job[n].status # "absent" => job'[n].status # "absent"
             /\ overlap[n] => overlap'[n]
  BY <1>0, <1>2 DEF StartTranscription, TypeOK, JobRows
<1>3. ASSUME NEW w \in Workers, ReportSuccess(w) \/ ReportError(w)
      PROVE  /\ job[n].status # "absent" => job'[n].status # "absent"
             /\ overlap' = overlap
  BY <1>0, <1>3 DEF ReportSuccess, ReportError, AfterError, TypeOK, JobRows
<1> QED
  BY <1>1, <1>2, <1>3 DEF Next, HandlerStep, InitUpload, PutObject, Delete, SelectExpired,
     RemoveObject, CommitPurge, FailPurge, MarkProcessing, Transcribe, MarkReady,
     MarkRetrying, MarkFailure, Crash, Tick, vars

(* A handler that does not move keeps what it knows: whoever else makes its *)
(* recording ready overlaps with it.                                        *)
LEMMA OthersRun ==
  ASSUME RecordingsInv, [Next]_vars, NEW v \in Workers, worker'[v] = worker[v]
  PROVE  Run(v)'
<1> SUFFICES ASSUME worker[v].at # "idle" PROVE Run(v)'
  BY DEF Run
<1> DEFINE n == worker[v].of
<1>1. Run(v) /\ n \in Recordings /\ job'[n].status # "absent"
  BY JobsStay DEF RecordingsInv, Run
<1>2. ASSUME worker[v].at \in {"transcribe", "done", "retryable", "permanent"},
             ~overlap'[n]
      PROVE  ~AlreadyReady(n)'
  <2>1. ~overlap[n]
    BY <1>1, <1>2, JobsStay
  <2>2. ~AlreadyReady(n)
    BY <1>1, <1>2, <2>1 DEF Run
  <2>3. SUFFICES ASSUME AlreadyReady(n)' PROVE FALSE
    OBVIOUS
  <2>4. PICK w \in Workers : MarkReady(w) /\ worker[w].of = n
    BY <1>1, <2>2, <2>3, NewlyReady
  <2>5. w # v
    <3>1. worker[w].at = "done" /\ worker'[w].at = "return"
      BY <2>4 DEF MarkReady, Goto, RecordingsInv, TypeOK, WorkerStates
    <3> QED
      BY <3>1
  <2>6. worker[w].at # "idle"
    BY <2>4 DEF MarkReady
  <2> QED
    BY <2>1, <2>4, <2>5, <2>6 DEF RecordingsInv, Apart
<1> QED
  BY <1>1, <1>2 DEF Run

LEMMA RunStep == RecordingsInv /\ [Next]_vars => \A v \in Workers : Run(v)'
<1> SUFFICES ASSUME RecordingsInv, [Next]_vars, NEW v \in Workers PROVE Run(v)'
  OBVIOUS
<1>0. TypeOK /\ Run(v)
  BY DEF RecordingsInv
<1>1. ASSUME worker' = worker PROVE Run(v)'
  BY <1>1, OthersRun
<1>2. ASSUME NEW w \in Workers, NEW m \in Recordings, StartTranscription(w, m)
      PROVE  Run(v)'
  <2>1. CASE v # w
    BY <1>0, <1>2, <2>1, OthersRun DEF StartTranscription, TypeOK
  <2>2. CASE v = w
    <3>1. worker'[v].at = "begin" /\ worker'[v].of = m
      BY <1>0, <1>2, <2>2 DEF StartTranscription, TypeOK
    <3>2. job'[m].status = "running"
      BY <1>0, <1>2 DEF StartTranscription, TypeOK
    <3> QED
      BY <3>1, <3>2 DEF Run
  <2> QED
    BY <2>1, <2>2
<1>3. ASSUME NEW w \in Workers, HandlerStep(w) PROVE Run(v)'
  <2>1. CASE v # w
    <3>1. worker'[v] = worker[v]
      BY <1>0, <1>3, <2>1 DEF HandlerStep, MarkProcessing, Transcribe, MarkReady, MarkRetrying,
         MarkFailure, ReportSuccess, ReportError, Goto, TypeOK
    <3> QED
      BY <3>1, OthersRun
  <2>2. CASE v = w
    <3> DEFINE m == worker[v].of
    <3>1. /\ m \in Recordings /\ job'[m].status # "absent"
          /\ worker[v].at # "idle"
      BY <1>0, <1>3, <2>2, HandlerRuns, JobsStay DEF Run
    <3>2. ASSUME NEW at, Goto(v, at) PROVE worker'[v].at = at /\ worker'[v].of = m
      BY <1>0, <3>2 DEF Goto, TypeOK, WorkerStates
    <3>3. CASE MarkProcessing(v)
      <4>1. CASE NothingToDo(m)
        BY <3>1, <3>2, <3>3, <4>1 DEF MarkProcessing, Run
      <4>2. CASE ~NothingToDo(m)
        <5>1. status'[m] = "processing"
          BY <1>0, <3>1, <3>3, <4>2, MarkedRows DEF MarkProcessing
        <5> QED
          BY <3>1, <3>2, <3>3, <4>2, <5>1 DEF MarkProcessing, Run, AlreadyReady
      <4> QED
        BY <4>1, <4>2
    <3>4. CASE Transcribe(v)
      <4>1. /\ worker'[v].at \in {"return", "done", "retryable", "permanent"}
            /\ worker'[v].of = m
        BY <3>2, <3>4 DEF Transcribe
      <4>2. ~overlap[m] => ~AlreadyReady(m)
        BY <1>0, <3>4 DEF Run, Transcribe
      <4>3. (~overlap[m] => ~AlreadyReady(m))'
        BY <3>4, <4>1, <4>2 DEF Transcribe, AlreadyReady
      <4> QED
        BY <3>1, <4>1, <4>3 DEF Run
    <3>5. CASE MarkReady(v) \/ MarkRetrying(v) \/ MarkFailure(v)
      <4>1. worker'[v].at \in {"return", "raise"} /\ worker'[v].of = m
        BY <3>2, <3>5 DEF MarkReady, MarkRetrying, MarkFailure
      <4> QED
        BY <3>1, <4>1 DEF Run
    <3>6. CASE ReportSuccess(v) \/ ReportError(v)
      BY <1>0, <3>6 DEF ReportSuccess, ReportError, IdleWorker, Run, TypeOK
    <3> QED
      BY <1>3, <2>2, <3>3, <3>4, <3>5, <3>6 DEF HandlerStep
  <2> QED
    BY <2>1, <2>2
<1>4. ASSUME NEW w \in Workers, Crash(w) PROVE Run(v)'
  <2>1. CASE v # w
    BY <1>0, <1>4, <2>1, OthersRun DEF Crash, TypeOK
  <2>2. CASE v = w
    BY <1>0, <1>4, <2>2 DEF Crash, IdleWorker, Run, TypeOK
  <2> QED
    BY <2>1, <2>2
<1> QED
  BY <1>1, <1>2, <1>3, <1>4 DEF Next, InitUpload, PutObject, Complete, Delete, SelectExpired,
     RemoveObject, CommitPurge, FailPurge, Tick, vars

LEMMA ApartStep == RecordingsInv /\ [Next]_vars => \A u, v \in Workers : Apart(u, v)'
<1> SUFFICES ASSUME RecordingsInv, [Next]_vars, NEW u \in Workers, NEW v \in Workers
             PROVE  Apart(u, v)'
  OBVIOUS
<1>0. TypeOK /\ Apart(u, v) /\ Run(u) /\ Run(v)
  BY DEF RecordingsInv
<1>1. ASSUME worker'[u] = worker[u] \/ worker'[u].at = "idle" \/
               (worker'[u].of = worker[u].of /\ worker[u].at # "idle"),
             worker'[v] = worker[v] \/ worker'[v].at = "idle" \/
               (worker'[v].of = worker[v].of /\ worker[v].at # "idle")
      PROVE  Apart(u, v)'
  BY <1>0, <1>1, JobsStay DEF Apart, Run
<1>2. ASSUME NEW w \in Workers, NEW m \in Recordings, StartTranscription(w, m)
      PROVE  Apart(u, v)'
  <2>1. CASE u # w /\ v # w
    BY <1>0, <1>1, <1>2, <2>1 DEF StartTranscription, TypeOK
  <2>2. ASSUME NEW x \in Workers, x # w, worker'[x].at # "idle", worker'[x].of = m
        PROVE  overlap'[m]
    <3>1. Active(x, m)
      BY <1>0, <1>2, <2>2 DEF StartTranscription, Active, TypeOK
    <3> QED
      BY <1>0, <1>2, <3>1 DEF StartTranscription, TypeOK
  <2>3. worker'[w].of = m
    BY <1>0, <1>2 DEF StartTranscription, TypeOK
  <2>4. CASE u = w \/ v = w
    BY <2>2, <2>3, <2>4 DEF Apart
  <2> QED
    BY <2>1, <2>4
<1>3. ASSUME NEW w \in Workers, HandlerStep(w) PROVE Apart(u, v)'
  <2>1. \A x \in Workers : x # w => worker'[x] = worker[x]
    BY <1>0, <1>3 DEF HandlerStep, MarkProcessing, Transcribe, MarkReady, MarkRetrying,
       MarkFailure, ReportSuccess, ReportError, Goto, TypeOK
  <2>2. worker[w].at # "idle"
    BY <1>3, HandlerRuns DEF RecordingsInv
  <2>3. ASSUME NEW at, Goto(w, at) PROVE worker'[w].of = worker[w].of
    BY <1>0, <2>3 DEF Goto, TypeOK, WorkerStates
  <2>4. worker'[w].at = "idle" \/ worker'[w].of = worker[w].of
    <3>1. CASE ReportSuccess(w) \/ ReportError(w)
      BY <1>0, <3>1 DEF ReportSuccess, ReportError, IdleWorker, TypeOK
    <3>2. CASE \E at : Goto(w, at)
      BY <2>3, <3>2
    <3> QED
      BY <1>3, <3>1, <3>2 DEF HandlerStep, MarkProcessing, Transcribe, MarkReady,
         MarkRetrying, MarkFailure
  <2> QED
    BY <1>1, <2>1, <2>2, <2>4
<1>4. ASSUME NEW w \in Workers, Crash(w) PROVE Apart(u, v)'
  BY <1>0, <1>1, <1>4 DEF Crash, IdleWorker, TypeOK
<1>5. ASSUME worker' = worker PROVE Apart(u, v)'
  BY <1>1, <1>5
<1> QED
  BY <1>2, <1>3, <1>4, <1>5 DEF Next, InitUpload, PutObject, Complete, Delete, SelectExpired,
     RemoveObject, CommitPurge, FailPurge, Tick, vars

-----------------------------------------------------------------------------
(* The submission. *)

LEMMA SubmittedStep == RecordingsInv /\ [Next]_vars => SubmittedIsTranscribed'
<1> SUFFICES ASSUME RecordingsInv, [Next]_vars PROVE SubmittedIsTranscribed'
  OBVIOUS
<1>0. TypeOK
  BY DEF RecordingsInv
<1>1. ASSUME NEW n \in Recordings, job[n].status # "absent"
      PROVE  /\ job'[n].status # "absent"
             /\ status'[n] \notin {"absent", "uploading"}
             /\ transcript'[n].status # "absent"
  BY <1>1, JobsStay, AssetStep DEF Asset
<1>2. CASE submitted' = submitted
  <2>1. submitted \in Recordings \cup {NoRecording}
    BY <1>0 DEF TypeOK
  <2> QED
    BY <1>1, <1>2, <2>1 DEF RecordingsInv, SubmittedIsTranscribed
<1>3. ASSUME NEW m \in Recordings, Complete(m), submitted' # submitted
      PROVE  SubmittedIsTranscribed'
  <2>1. submitted' = m /\ Kind[m] = "recording" /\ job'[m].status # "absent"
    BY <1>0, <1>3 DEF Complete, IsRecording, TypeOK, JobRows
  <2>2. Asset(m)'
    BY AssetStep
  <2> QED
    BY <2>1, <2>2 DEF SubmittedIsTranscribed, Asset
<1> QED
  BY <1>2, <1>3 DEF Next, InitUpload, PutObject, Delete, SelectExpired, RemoveObject,
     CommitPurge, FailPurge, StartTranscription, HandlerStep, MarkProcessing, Transcribe,
     MarkReady, MarkRetrying, MarkFailure, ReportSuccess, ReportError, Crash, Tick, vars

-----------------------------------------------------------------------------
(* The theorems. *)

LEMMA InitInv == Init => RecordingsInv
<1> SUFFICES ASSUME Init PROVE RecordingsInv
  OBVIOUS
<1>1. TypeOK
  BY InitType
<1>2. \A m \in Recordings : Asset(m)
  BY DEF Init, Asset, NoTranscript
<1>3. \A w, v \in Workers : Run(w) /\ Apart(w, v)
  BY DEF Init, Run, Apart, IdleWorker
<1>4. RedactedHasNoText /\ StatusesAgree
  BY DEF Init, RedactedHasNoText, StatusesAgree, NoTranscript
<1>5. SubmittedIsTranscribed
  BY DEF Init, SubmittedIsTranscribed
<1> QED
  BY <1>1, <1>2, <1>3, <1>4, <1>5 DEF RecordingsInv

(* Rows, objects and handlers stay as the inductive invariant describes.   *)
THEOREM RecordingsInvariant == Spec => []RecordingsInv
<1>1. Init => RecordingsInv
  BY InitInv
<1>2. RecordingsInv /\ [Next]_vars => RecordingsInv'
  <2> SUFFICES ASSUME RecordingsInv, [Next]_vars PROVE RecordingsInv'
    OBVIOUS
  <2>1. TypeOK'
    BY StepType DEF RecordingsInv
  <2>2. (\A m \in Recordings : Asset(m))' /\ (\A w \in Workers : Run(w))'
    BY AssetStep, RunStep
  <2>3. (\A w, v \in Workers : Apart(w, v))'
    BY ApartStep
  <2>4. (RedactedHasNoText /\ StatusesAgree)'
    BY WordsStep
       DEF RedactedHasNoText, StatusesAgree, Words, Gone, is_deleted_or_purged
  <2>5. SubmittedIsTranscribed'
    BY SubmittedStep
  <2> QED
    BY <2>1, <2>2, <2>3, <2>4, <2>5 DEF RecordingsInv
<1> QED
  BY <1>1, <1>2, PTL DEF Spec

(* Rows and what handlers hold keep their types. *)
THEOREM TypeCorrect == Spec => []TypeOK
BY RecordingsInvariant, PTL DEF RecordingsInv

(* Deletion and purge outlive a transcription in flight: no later mark of  *)
(* any worker puts words back (_mark_ready, delete_recording_asset).       *)
THEOREM RedactedForGood == Spec => []RedactedHasNoText
BY RecordingsInvariant, PTL DEF RecordingsInv

(* Recording and transcript never disagree about being ready               *)
(* (_mark_processing, _mark_ready, _mark_retrying, _mark_failure).         *)
THEOREM ReadyTogether == Spec => []StatusesAgree
BY RecordingsInvariant, PTL DEF RecordingsInv

(* A playable recording has its object, but for a purge under way or       *)
(* broken off, and nothing of a purged one comes back                      *)
(* (load_uploaded_object_metadata, _purge_recording).                      *)
THEOREM StorageInStep == Spec => []StorageAgrees
<1>1. RecordingsInv => PlayableIsStored
  BY DEF RecordingsInv, Asset, PlayableIsStored, Unlocked, DOWNLOADABLE_RECORDING_STATUSES
<1>2. RecordingsInv => PurgedIsGone
  BY DEF RecordingsInv, Asset, PurgedIsGone
<1>3. RecordingsInv => StorageAgrees
  BY <1>1, <1>2 DEF StorageAgrees
<1> QED
  BY <1>3, RecordingsInvariant, PTL

(* The submission points to a recording with a transcript and a job        *)
(* (complete_handoff_upload).                                              *)
THEOREM SubmittedTranscribed == Spec => []SubmittedIsTranscribed
BY RecordingsInvariant, PTL DEF RecordingsInv

(* A ready transcript is lost to deletion and purge only, unless two       *)
(* workers ran its job at once (_mark_processing, _mark_failure).          *)
THEOREM ReadyKept == Spec => ReadyIsKept
<1>1. ASSUME RecordingsInv, [Next]_vars
      PROVE  \A m \in Recordings :
               AlreadyReady(m) /\ ~overlap[m] =>
                 (AlreadyReady(m) \/ is_deleted_or_purged(m))'
  <2> SUFFICES ASSUME NEW n \in Recordings, AlreadyReady(n), ~overlap[n]
               PROVE  (AlreadyReady(n) \/ is_deleted_or_purged(n))'
    OBVIOUS
  <2>0. TypeOK
    BY <1>1 DEF RecordingsInv
  <2>1. ASSUME UNCHANGED <<status, transcript>> PROVE AlreadyReady(n)'
    BY <2>1 DEF AlreadyReady
  <2>2. ASSUME NEW m \in Recordings, InitUpload(m) \/ Complete(m) PROVE AlreadyReady(n)'
    BY <2>0, <2>2 DEF InitUpload, Complete, TranscriptOf, AlreadyReady, TypeOK
  <2>3. ASSUME NEW m \in Recordings, Delete(m) \/ CommitPurge(m)
        PROVE  (AlreadyReady(n) \/ is_deleted_or_purged(n))'
    <3>1. CASE n = m
      BY <2>0, <2>3, <3>1 DEF Delete, CommitPurge, is_deleted_or_purged, TypeOK
    <3>2. CASE n # m
      BY <2>0, <2>3, <3>2 DEF Delete, CommitPurge, Redacted, AlreadyReady, TypeOK
    <3> QED
      BY <3>1, <3>2
  <2>4. ASSUME NEW w \in Workers, HandlerStep(w) PROVE AlreadyReady(n)'
    <3> DEFINE m == worker[w].of
    <3>0. m \in Recordings /\ Run(w)
      BY <1>1, <2>4, HandlerRuns DEF RecordingsInv
    <3>1. ASSUME NEW s, NEW text, MarkedUnlessGone(m, s, text), m # n
          PROVE  AlreadyReady(n)'
      BY <2>0, <3>0, <3>1, MarkedUnlessGoneRows DEF AlreadyReady
    <3>2. ASSUME worker[w].at \in {"done", "retryable", "permanent"} PROVE m # n
      BY <3>0, <3>2 DEF Run
    <3>3. CASE MarkProcessing(w)
      <4>1. CASE NothingToDo(m)
        BY <2>1, <3>3, <4>1 DEF MarkProcessing
      <4>2. CASE ~NothingToDo(m)
        BY <3>1, <3>3, <4>2 DEF MarkProcessing, NothingToDo, MarkedUnlessGone
      <4> QED
        BY <4>1, <4>2
    <3>4. CASE MarkReady(w)
      BY <3>1, <3>2, <3>4 DEF MarkReady, MarkedReady
    <3>5. CASE MarkRetrying(w)
      BY <3>1, <3>2, <3>5 DEF MarkRetrying
    <3>6. CASE MarkFailure(w)
      BY <3>1, <3>2, <3>6 DEF MarkFailure
    <3>7. CASE Transcribe(w) \/ ReportSuccess(w) \/ ReportError(w)
      BY <2>1, <3>7 DEF Transcribe, ReportSuccess, ReportError
    <3> QED
      BY <2>4, <3>3, <3>4, <3>5, <3>6, <3>7 DEF HandlerStep
  <2>5. ASSUME NEW m \in Recordings,
               PutObject(m) \/ SelectExpired(m) \/ RemoveObject(m) \/ FailPurge(m)
        PROVE  AlreadyReady(n)'
    BY <2>1, <2>5 DEF PutObject, SelectExpired, RemoveObject, FailPurge
  <2>6. ASSUME NEW w \in Workers, NEW m \in Recordings,
               StartTranscription(w, m) \/ Crash(w)
        PROVE  AlreadyReady(n)'
    BY <2>1, <2>6 DEF StartTranscription, Crash
  <2>7. ASSUME Tick \/ UNCHANGED vars PROVE AlreadyReady(n)'
    BY <2>1, <2>7 DEF Tick, vars
  <2> QED
    BY <1>1, <2>2, <2>3, <2>4, <2>5, <2>6, <2>7 DEF Next
<1>2. RecordingsInv /\ [Next]_vars =>
        [\A m \in Recordings :
           AlreadyReady(m) /\ ~overlap[m] =>
             (AlreadyReady(m) \/ is_deleted_or_purged(m))']_vars
  BY <1>1
<1> QED
  BY <1>2, RecordingsInvariant, PTL DEF Spec, ReadyIsKept

(* Recording, transcript, submission and object agree                       *)
(* (complete_handoff_upload, the transcription handler, _purge_recording).  *)
THEOREM RecordingsTellOneStory == Spec => []RecordingsAgree
<1>1. RedactedHasNoText /\ StatusesAgree /\ SubmittedIsTranscribed /\ StorageAgrees => RecordingsAgree
  BY DEF RecordingsAgree
<1> QED
  BY <1>1, RedactedForGood, ReadyTogether, SubmittedTranscribed, StorageInStep, PTL
===============================================================================
