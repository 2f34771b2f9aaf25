------------------------ MODULE DaySubmissionsProofs ------------------------
(***************************************************************************)
(* Proofs about DaySubmissions, for any number of days of any kinds, of    *)
(* requests, workers, texts, attempts and faults.                          *)
(***************************************************************************)
EXTENDS DaySubmissions, TLAPS

-----------------------------------------------------------------------------
(* The inductive invariant.  Requests and handlers act on what they read   *)
(* in an earlier step; Held and Run say what of it is still true.          *)

(* What an open request knows of the rows it checked. *)
Held(r) ==
  LET me == request[r] IN
  me.at # "idle" =>
    /\ me.day \in Days
    /\ me.text \in Texts
    /\ me.at = "writeDraft" /\ me.loaded # NoText => draft[me.day].text # NoText
    /\ me.at = "create" => \A e \in 1..(me.day - 1) : Submitted(e)

(* What a handler knows of the day it closes. *)
Run(w) ==
  LET me == worker[w] IN
  me.at # "idle" =>
    /\ me.day \in Days
    /\ Due(me.day)
    /\ me.at = "mark" /\ me.loaded # NoText => draft[me.day].text # NoText
    /\ me.at = "create" /\ me.loaded # NoText => draft[me.day].text # NoText
    /\ me.at \in {"create", "mark"} /\ ~lateSave[me.day] =>
         me.loaded = draft[me.day].text
    /\ me.at \in {"mark", "progress", "report"} => Submitted(me.day)
    /\ me.at \in {"progress", "report"} =>
         \/ draft[me.day].text = NoText
         \/ draft[me.day].finalized
         \/ lateSave[me.day]

(* A day is closed by its job only after its end. *)
ClosedWhenDue ==
  \A d \in Days :
    submission[d].by = "cutoff" \/ job[d].status = "succeeded" => Due(d)

DayInv ==
  /\ TypeOK
  /\ \A r \in Requests : Held(r)
  /\ \A w \in Workers : Run(w)
  /\ ClosedWhenDue

-----------------------------------------------------------------------------
(* The initial rows have the types of the tables. *)
LEMMA InitType == Init => TypeOK
<1> SUFFICES ASSUME Init PROVE TypeOK
  OBVIOUS
<1> USE DaySubmissionsAssumption
<1>1. now \in 0..End(LastDay) /\ faults \in 0..Faults
  BY DEF Init, End
<1>2. NoDraft \in DraftRows /\ NoSubmission \in SubmissionRows
  BY DEF DraftRows, SubmissionRows
<1>3. draft \in [Days -> DraftRows] /\ submission \in [Days -> SubmissionRows]
  BY <1>2 DEF Init
<1>4. job \in [Days -> JobRows]
  BY DEF Init, JobRows
<1>5. IdleRequest \in RequestStates
  BY DEF IdleRequest, RequestStates, End
<1>6. IdleWorker \in WorkerStates
  BY DEF IdleWorker, WorkerStates
<1>7. completed \in BOOLEAN /\ notified \in BOOLEAN /\ lateSave \in [Days -> BOOLEAN]
  BY Zenon DEF Init
<1> QED
  BY <1>1, <1>3, <1>4, <1>5, <1>6, <1>7 DEF Init, TypeOK

(* Marking a draft that is there leaves a draft there. *)
LEMMA FinalizedType ==
  ASSUME draft \in [Days -> DraftRows], NEW d \in Days, draft[d].text # NoText
  PROVE DraftFinalized(d) \in [Days -> DraftRows]
<1>1. draft[d] \in [text : Texts, finalized : BOOLEAN]
  BY DEF DraftRows, NoDraft
<1>2. [draft[d] EXCEPT !.finalized = TRUE] \in DraftRows
  BY <1>1 DEF DraftRows
<1> QED
  BY <1>2 DEF DraftFinalized

(* Every action keeps the types of the rows.  That a request's day is a    *)
(* day and its text a text comes from the invariant.                       *)
LEMMA NextType == DayInv /\ [Next]_vars => TypeOK'
<1> SUFFICES ASSUME DayInv, [Next]_vars PROVE TypeOK'
  OBVIOUS
<1> USE DaySubmissionsAssumption DEF DayInv, TypeOK
<1>1. ASSUME NEW r \in Requests, NEW d \in Days, NEW t \in Texts,
             PutDraft(r, d, t) \/ Submit(r, d, t)
      PROVE TypeOK'
  <2>1. now \in 0..End(LastDay) /\ d \in 0..LastDay
    BY DEF Days
  <2> QED
    <3>1. \A at \in {"loadDraft", "create"} :
            [at |-> at, day |-> d, text |-> t, loaded |-> NoText, since |-> now]
              \in RequestStates
      BY <2>1 DEF RequestStates
    <3> QED
      BY <1>1, <3>1 DEF PutDraft, Submit
<1>2. ASSUME NEW r \in Requests, LoadDraft(r) PROVE TypeOK'
  <2>1. request[r].day \in Days /\ draft[request[r].day].text \in Texts \cup {NoText}
    BY <1>2 DEF LoadDraft, Held, DraftRows, NoDraft
  <2>2. IdleRequest \in RequestStates
    BY DEF IdleRequest, RequestStates, End
  <2>3. [request[r] EXCEPT !.at = "writeDraft",
                           !.loaded = draft[request[r].day].text] \in RequestStates
    BY ZenonT(60), <2>1 DEF RequestStates
  <2> QED
    BY <1>2, <2>2, <2>3 DEF LoadDraft
<1>3. ASSUME NEW r \in Requests, WriteDraft(r) PROVE TypeOK'
  <2> DEFINE me == request[r]
  <2>1. me.day \in Days /\ me.text \in Texts
        /\ (me.loaded # NoText => draft[me.day].text # NoText)
    BY <1>3 DEF WriteDraft, Held
  <2>2. draft' \in [Days -> DraftRows]
    BY <1>3, <2>1 DEF WriteDraft, DraftSaved, DraftRows, NoDraft
  <2>3. lateSave' \in [Days -> BOOLEAN]
    <3>1. (lateSave[me.day] \/ now >= End(me.day)) \in BOOLEAN
      OBVIOUS
    <3> QED
      BY <1>3, <3>1, Zenon DEF WriteDraft
  <2>4. IdleRequest \in RequestStates
    BY DEF IdleRequest, RequestStates, End
  <2> QED
    BY <1>3, <2>2, <2>3, <2>4 DEF WriteDraft
<1>4. ASSUME NEW r \in Requests, Create(r) PROVE TypeOK'
  <2>1. request[r].day \in Days /\ request[r].text \in Texts
    BY <1>4 DEF Create, Held
  <2>2. submission' \in [Days -> SubmissionRows]
    BY <1>4, <2>1 DEF Create, SubmissionCreated, SubmissionRows, NoSubmission
  <2>3. IdleRequest \in RequestStates
    BY DEF IdleRequest, RequestStates, End
  <2>4. [request[r] EXCEPT !.at = "settle"] \in RequestStates
    BY ZenonT(60) DEF RequestStates
  <2> QED
    BY <1>4, <2>2, <2>3, <2>4 DEF Create
<1>5. ASSUME NEW r \in Requests, Settle(r) PROVE TypeOK'
  <2>1. draft' \in [Days -> DraftRows]
    <3>1. request[r].day \in Days
      BY <1>5 DEF Settle, Held
    <3> QED
      BY <1>5, <3>1, FinalizedType DEF Settle
  <2>2. completed' \in BOOLEAN
    <3>1. (completed \/ is_complete(submission)) \in BOOLEAN
      BY DEF is_complete
    <3> QED
      BY <1>5, <3>1, Zenon DEF Settle, ProgressRecomputed
  <2>3. IdleRequest \in RequestStates
    BY DEF IdleRequest, RequestStates, End
  <2>4. [request[r] EXCEPT !.at = "notify"] \in RequestStates
    BY DEF RequestStates
  <2> QED
    BY <1>5, <2>1, <2>2, <2>3, <2>4 DEF Settle
<1>6. ASSUME NEW r \in Requests, Notify(r) \/ CutOff(r) PROVE TypeOK'
  <2>1. IdleRequest \in RequestStates
    BY DEF IdleRequest, RequestStates, End
  <2> QED
    <3>1. request' \in [Requests -> RequestStates]
      BY <1>6, <2>1 DEF Notify, CutOff
    <3>2. notified' \in BOOLEAN
      BY <1>6, Zenon DEF Notify, CutOff
    <3>3. faults' \in 0..Faults
      BY <1>6 DEF Notify, CutOff
    <3> QED
      BY <1>6, <3>1, <3>2, <3>3 DEF Notify, CutOff
<1>7. ASSUME NEW d \in Days, CompleteHandoff(d) PROVE TypeOK'
  <2>1. submission' \in [Days -> SubmissionRows]
    BY <1>7 DEF CompleteHandoff, SubmissionCreated, SubmissionRows, NoSubmission
  <2> QED
    BY <1>7, <2>1 DEF CompleteHandoff
<1>8. ASSUME NEW w \in Workers, NEW d \in Days, StartFinalize(w, d) PROVE TypeOK'
  <2>0. NextAttempt(d) \in 0..MaxAttempts
    BY DEF NextAttempt, JobRows
  <2>1. job' \in [Days -> JobRows]
    BY <1>8, <2>0 DEF StartFinalize, JobRows
  <2>2. [at |-> "read", day |-> d, loaded |-> NoText, attempt |-> NextAttempt(d)]
          \in WorkerStates
    BY <2>0 DEF WorkerStates, Days
  <2> QED
    BY <1>8, <2>1, <2>2 DEF StartFinalize
<1>9. ASSUME NEW w \in Workers, ReadCutoff(w) PROVE TypeOK'
  <2>1. draft[worker[w].day].text \in Texts \cup {NoText}
    BY <1>9 DEF ReadCutoff, Run, DraftRows, NoDraft
  <2>2. worker' \in [Workers -> WorkerStates]
    BY ZenonT(60), <1>9, <2>1 DEF ReadCutoff, WorkerStates
  <2> QED
    BY <1>9, <2>2 DEF ReadCutoff
<1>10. ASSUME NEW w \in Workers, CreateFromCutoff(w) PROVE TypeOK'
  <2>1. submission' \in [Days -> SubmissionRows]
    BY <1>10 DEF CreateFromCutoff, SubmissionCreated, SubmissionRows, NoSubmission,
                 WorkerStates
  <2>2. worker' \in [Workers -> WorkerStates]
    BY <1>10 DEF CreateFromCutoff, WorkerStates
  <2> QED
    BY <1>10, <2>1, <2>2 DEF CreateFromCutoff
<1>11. ASSUME NEW w \in Workers, MarkDraft(w) PROVE TypeOK'
  <2>1. draft' \in [Days -> DraftRows]
    <3>1. worker[w].day \in Days
          /\ (worker[w].loaded # NoText => draft[worker[w].day].text # NoText)
      BY <1>11 DEF MarkDraft, Run
    <3> QED
      BY <1>11, <3>1, FinalizedType DEF MarkDraft, MarkIfPending
  <2>2. worker' \in [Workers -> WorkerStates]
    BY <1>11 DEF MarkDraft, WorkerStates
  <2> QED
    BY <1>11, <2>1, <2>2 DEF MarkDraft
<1>15. ASSUME NEW w \in Workers, Progress(w) PROVE TypeOK'
  <2>1. completed' \in BOOLEAN
    <3>1. (completed \/ is_complete(submission)) \in BOOLEAN
      BY DEF is_complete
    <3> QED
      BY <1>15, <3>1, Zenon DEF Progress, HandlerProgress, ProgressRecomputed
  <2>2. worker' \in [Workers -> WorkerStates]
    BY <1>15 DEF Progress, WorkerStates
  <2> QED
    BY <1>15, <2>1, <2>2 DEF Progress
<1>12. ASSUME NEW w \in Workers, ReportSuccess(w) \/ FailFinalize(w) PROVE TypeOK'
  <2>1. IdleWorker \in WorkerStates
    BY DEF IdleWorker, WorkerStates
  <2>2. job' \in [Days -> JobRows]
    <3> DEFINE d == worker[w].day
    <3>1. d \in Days
      BY <1>12 DEF ReportSuccess, FailFinalize, Run
    <3>2. \A st \in {"absent", "queued", "running", "succeeded", "dead_letter"} :
            [job EXCEPT ![d].status = st] \in [Days -> JobRows]
      BY <3>1 DEF JobRows
    <3>3. job[d].status \in {"absent", "queued", "running", "succeeded", "dead_letter"}
      BY <3>1 DEF JobRows
    <3> QED
      BY <1>12, <3>2, <3>3 DEF ReportSuccess, FailFinalize
  <2>3. faults' \in 0..Faults
    BY <1>12 DEF ReportSuccess, FailFinalize
  <2> QED
    BY <1>12, <2>1, <2>2, <2>3 DEF ReportSuccess, FailFinalize
<1>13. CASE Tick
  BY <1>13 DEF Tick, End
<1>14. CASE UNCHANGED vars
  BY <1>14 DEF vars
<1> QED
  BY <1>1, <1>2, <1>3, <1>4, <1>5, <1>6, <1>7, <1>8, <1>9, <1>10, <1>11, <1>12,
     <1>13, <1>14, <1>15 DEF Next, RequestStep, FinalizeStep

-----------------------------------------------------------------------------
(* What no step takes back: a submission, a draft, its mark, the time; and *)
(* once a day is due, its draft only changes by a late save.               *)
RowsKept(d) ==
  /\ Submitted(d) => submission'[d] = submission[d]
  /\ draft[d].text # NoText => draft'[d].text # NoText
  /\ draft[d].finalized => draft'[d].finalized
  /\ lateSave[d] => lateSave'[d]
  /\ Due(d) => Due(d)'
  /\ Due(d) /\ ~lateSave'[d] => draft'[d].text = draft[d].text

LEMMA StepKeepsRows == DayInv /\ [Next]_vars => \A d \in Days : RowsKept(d)
<1> SUFFICES ASSUME DayInv, [Next]_vars, NEW d \in Days PROVE RowsKept(d)
  OBVIOUS
<1> USE DaySubmissionsAssumption DEF DayInv, TypeOK, RowsKept, Submitted
<1>a. draft[d] \in DraftRows /\ submission[d] \in SubmissionRows
  OBVIOUS
<1>b. now' = now => (Due(d) => Due(d)')
  BY DEF Due
<1>1. ASSUME now' = now, draft' = draft, lateSave' = lateSave,
             Submitted(d) => submission'[d] = submission[d]
      PROVE RowsKept(d)
  BY <1>1, <1>b
<1>2. ASSUME NEW r \in Requests, WriteDraft(r) PROVE RowsKept(d)
  <2> DEFINE me == request[r]
  <2>1. now' = now /\ submission' = submission
    BY <1>2 DEF WriteDraft
  <2>2. me.day \in Days /\ me.text \in Texts
        /\ (me.loaded # NoText => draft[me.day].text # NoText)
    BY <1>2 DEF WriteDraft, Held
  <2>3. lateSave' = [lateSave EXCEPT ![me.day] = @ \/ now >= End(me.day)]
    BY <1>2 DEF WriteDraft
  <2>4. (lateSave[d] => lateSave'[d])
        /\ (d = me.day /\ Due(d) => lateSave'[d])
    BY <2>2, <2>3 DEF Due
  <2>5. d # me.day => draft'[d] = draft[d]
    BY <1>2 DEF WriteDraft, DraftSaved
  <2>6. d = me.day =>
          /\ draft[d].text # NoText => draft'[d].text # NoText
          /\ draft[d].finalized => draft'[d].finalized
    BY <1>a, <1>2, <2>2 DEF WriteDraft, DraftSaved, DraftRows, NoDraft
  <2> QED
    BY <1>b, <2>1, <2>4, <2>5, <2>6
<1>3. ASSUME NEW e \in Days, draft' = DraftFinalized(e), submission' = submission,
             now' = now, lateSave' = lateSave
      PROVE RowsKept(d)
  <2>1. draft'[d].text = draft[d].text /\ (draft[d].finalized => draft'[d].finalized)
    BY <1>a, <1>3 DEF DraftFinalized, DraftRows, NoDraft
  <2> QED
    BY <1>b, <1>3, <2>1
<1>4. ASSUME NEW r \in Requests, Settle(r) PROVE RowsKept(d)
  <2>1. request[r].day \in Days
    BY <1>4 DEF Settle, Held
  <2> QED
    BY <1>1, <1>3, <1>4, <2>1 DEF Settle
<1>5. ASSUME NEW w \in Workers, MarkDraft(w) PROVE RowsKept(d)
  <2>1. worker[w].day \in Days
    BY <1>5 DEF MarkDraft, Run
  <2> QED
    BY <1>1, <1>3, <1>5, <2>1 DEF MarkDraft, MarkIfPending
<1>6. ASSUME NEW e, NEW by, NEW text, submission' = SubmissionCreated(e, by, text)
      PROVE Submitted(d) => submission'[d] = submission[d]
  BY <1>6 DEF SubmissionCreated
<1>7. ASSUME NEW r \in Requests, Create(r) PROVE RowsKept(d)
  BY <1>1, <1>6, <1>7 DEF Create
<1>8. ASSUME NEW w \in Workers, CreateFromCutoff(w) PROVE RowsKept(d)
  BY <1>1, <1>6, <1>8 DEF CreateFromCutoff
<1>9. ASSUME NEW e \in Days, CompleteHandoff(e) PROVE RowsKept(d)
  BY <1>1, <1>6, <1>9 DEF CompleteHandoff
<1>10. CASE Tick
  BY <1>10 DEF Tick, Due, End, Days
<1>11. ASSUME NEW r \in Requests, NEW e \in Days, NEW t \in Texts,
              PutDraft(r, e, t) \/ Submit(r, e, t)
       PROVE RowsKept(d)
  BY <1>1, <1>11 DEF PutDraft, Submit
<1>12. ASSUME NEW r \in Requests, LoadDraft(r) \/ Notify(r) \/ CutOff(r)
       PROVE RowsKept(d)
  BY <1>1, <1>12 DEF LoadDraft, Notify, CutOff
<1>13. ASSUME NEW w \in Workers, NEW e \in Days, StartFinalize(w, e) PROVE RowsKept(d)
  BY <1>1, <1>13 DEF StartFinalize
<1>14. ASSUME NEW w \in Workers,
              ReadCutoff(w) \/ Progress(w) \/ ReportSuccess(w) \/ FailFinalize(w)
       PROVE RowsKept(d)
  BY <1>1, <1>14 DEF ReadCutoff, Progress, ReportSuccess, FailFinalize
<1>15. CASE UNCHANGED vars
  BY <1>1, <1>15 DEF vars
<1> QED
  BY <1>2, <1>4, <1>5, <1>7, <1>8, <1>9, <1>10, <1>11, <1>12, <1>13, <1>14, <1>15
     DEF Next, RequestStep, FinalizeStep

(* What an open request checked stays true until it acts on it. *)
LEMMA NextHeld == DayInv /\ [Next]_vars => \A r \in Requests : Held(r)'
<1> SUFFICES ASSUME DayInv, [Next]_vars, NEW r \in Requests PROVE Held(r)'
  OBVIOUS
<1> USE DaySubmissionsAssumption
<1>a. Held(r) /\ request \in [Requests -> RequestStates]
  BY DEF DayInv, TypeOK
<1>b. \A d \in Days : RowsKept(d)
  BY StepKeepsRows
<1>c. \A d \in Days : Submitted(d) => Submitted(d)'
  BY <1>b DEF RowsKept, Submitted
<1>d. \A d \in Days : \A e \in 1..(d - 1) : e \in Days
  BY DEF Days
<1>1. ASSUME request'[r] = request[r] PROVE Held(r)'
  BY <1>1, <1>a, <1>b, <1>c, <1>d DEF Held, RowsKept
<1>2. ASSUME request'[r] = IdleRequest PROVE Held(r)'
  BY <1>2 DEF Held, IdleRequest
<1>3. ASSUME NEW d \in Days, NEW t \in Texts, PutDraft(r, d, t) PROVE Held(r)'
  BY <1>3, <1>a DEF PutDraft, Held
<1>4. ASSUME NEW d \in Days, NEW t \in Texts, Submit(r, d, t) PROVE Held(r)'
  <2>1. request'[r] = [at |-> "create", day |-> d, text |-> t, loaded |-> NoText,
                       since |-> now]
    BY <1>4, <1>a DEF Submit
  <2>2. \A e \in 1..(d - 1) : Submitted(e)'
    BY <1>4, <1>c, <1>d DEF Submit, IsCurrent
  <2> QED
    BY <2>1, <2>2 DEF Held
<1>5. CASE LoadDraft(r)
  <2>1. request[r].day \in Days /\ request[r].text \in Texts
    BY <1>5, <1>a DEF LoadDraft, Held
  <2>2. CASE draft[request[r].day].finalized
    BY <1>2, <1>5, <1>a, <2>2 DEF LoadDraft
  <2>3. CASE ~draft[request[r].day].finalized
    <3>1. request'[r] = [request[r] EXCEPT !.at = "writeDraft",
                                           !.loaded = draft[request[r].day].text]
      BY <1>5, <1>a, <2>3 DEF LoadDraft
    <3>2. /\ request'[r].at = "writeDraft"
          /\ request'[r].day = request[r].day
          /\ request'[r].text = request[r].text
          /\ request'[r].loaded = draft[request[r].day].text
      BY <1>a, <3>1 DEF RequestStates
    <3>3. draft' = draft
      BY <1>5 DEF LoadDraft
    <3> QED
      BY <2>1, <3>2, <3>3 DEF Held
  <2> QED
    BY <2>2, <2>3
<1>6. CASE Create(r)
  <2>1. CASE Submitted(request[r].day)
    BY <1>2, <1>6, <1>a, <2>1 DEF Create
  <2>2. CASE ~Submitted(request[r].day)
    <3>1. request'[r] = [request[r] EXCEPT !.at = "settle"]
      BY <1>6, <1>a, <2>2 DEF Create
    <3> QED
      BY <1>6, <1>a, <3>1 DEF Create, Held, RequestStates
  <2> QED
    BY <2>1, <2>2
<1>7. CASE Settle(r)
  <2>1. request'[r] = IdleRequest \/ request'[r] = [request[r] EXCEPT !.at = "notify"]
    BY <1>7, <1>a DEF Settle
  <2> QED
    BY <1>2, <1>7, <1>a, <2>1 DEF Settle, Held, RequestStates
<1>8. CASE WriteDraft(r) \/ Notify(r) \/ CutOff(r)
  BY <1>2, <1>8, <1>a DEF WriteDraft, Notify, CutOff
<1>9. ASSUME NEW q \in Requests \ {r},
             \/ \E d \in Days, t \in Texts : PutDraft(q, d, t) \/ Submit(q, d, t)
             \/ RequestStep(q)
             \/ CutOff(q)
      PROVE Held(r)'
  BY <1>1, <1>9, <1>a DEF PutDraft, Submit, RequestStep, LoadDraft, WriteDraft,
                          Create, Settle, Notify, CutOff
<1>10. ASSUME \/ \E d \in Days : CompleteHandoff(d)
              \/ \E w \in Workers, d \in Days : StartFinalize(w, d)
              \/ \E w \in Workers : FinalizeStep(w) \/ FailFinalize(w)
              \/ Tick
              \/ UNCHANGED vars
       PROVE Held(r)'
  BY <1>1, <1>10 DEF CompleteHandoff, StartFinalize, FinalizeStep, ReadCutoff,
     CreateFromCutoff, MarkDraft, Progress, ReportSuccess, FailFinalize, Tick, vars
<1> QED
  BY <1>3, <1>4, <1>5, <1>6, <1>7, <1>8, <1>9, <1>10 DEF Next, RequestStep

(* What a handler knows of its day stays true until it acts on it; a save  *)
(* that comes between is a late one.                                       *)
LEMMA NextRun == DayInv /\ [Next]_vars => \A w \in Workers : Run(w)'
<1> SUFFICES ASSUME DayInv, [Next]_vars, NEW w \in Workers PROVE Run(w)'
  OBVIOUS
<1> USE DaySubmissionsAssumption
<1>a. Run(w) /\ worker \in [Workers -> WorkerStates] /\ draft \in [Days -> DraftRows]
      /\ submission \in [Days -> SubmissionRows] /\ lateSave \in [Days -> BOOLEAN]
  BY DEF DayInv, TypeOK
<1>b. \A d \in Days : RowsKept(d)
  BY StepKeepsRows
<1>c. \A d \in Days : Submitted(d) => Submitted(d)'
  BY <1>b DEF RowsKept, Submitted
<1>1. ASSUME worker'[w] = worker[w] PROVE Run(w)'
  BY <1>1, <1>a, <1>b, <1>c DEF Run, RowsKept
<1>2. ASSUME worker'[w] = IdleWorker PROVE Run(w)'
  BY <1>2 DEF Run, IdleWorker
<1>3. ASSUME NEW d \in Days, StartFinalize(w, d) PROVE Run(w)'
  <2>1. worker'[w] =
          [at |-> "read", day |-> d, loaded |-> NoText, attempt |-> NextAttempt(d)]
    BY <1>3, <1>a DEF StartFinalize
  <2>2. Due(d)'
    BY <1>3, <1>b DEF StartFinalize, Claimable, RowsKept
  <2> QED
    BY <2>1, <2>2 DEF Run
<1>4. CASE ReadCutoff(w)
  <2>0. PICK d \in Days : d = worker[w].day
    BY <1>4, <1>a DEF ReadCutoff, Run
  <2>1. d \in Days /\ Due(d) /\ draft' = draft /\ submission' = submission
    BY <1>4, <1>a, <2>0 DEF ReadCutoff, Run
  <2>2. worker'[w] = [worker[w] EXCEPT
                        !.at = IF Submitted(d) THEN "mark" ELSE "create",
                        !.loaded = draft[d].text]
    BY <1>4, <1>a, <2>0 DEF ReadCutoff
  <2>3. /\ worker'[w].at = IF Submitted(d) THEN "mark" ELSE "create"
        /\ worker'[w].day = d
        /\ worker'[w].loaded = draft[d].text
    BY <1>a, <2>0, <2>2 DEF WorkerStates
  <2>4. Due(d)'
    BY <1>b, <2>1 DEF RowsKept
  <2>5. worker'[w].loaded = draft'[d].text
    BY <2>1, <2>3
  <2>6. CASE Submitted(d)
    BY <1>c, <2>1, <2>3, <2>4, <2>5, <2>6 DEF Run
  <2>7. CASE ~Submitted(d)
    BY <2>1, <2>3, <2>4, <2>5, <2>7 DEF Run
  <2> QED
    BY <2>6, <2>7
<1>5. CASE CreateFromCutoff(w)
  <2>0. PICK d \in Days : d = worker[w].day
    BY <1>5, <1>a DEF CreateFromCutoff, Run
  <2>1. worker'[w] = [worker[w] EXCEPT !.at = "mark"]
    BY <1>5, <1>a DEF CreateFromCutoff
  <2>2. worker'[w].at = "mark" /\ worker'[w].day = d
        /\ worker'[w].loaded = worker[w].loaded
    BY <1>a, <2>0, <2>1 DEF WorkerStates
  <2>3. d \in Days /\ Due(d)' /\ draft' = draft /\ lateSave' = lateSave
    BY <1>5, <1>a, <1>b, <2>0 DEF CreateFromCutoff, Run, RowsKept
  <2>4. Submitted(d)'
    BY <1>5, <1>a, <2>0, <2>3 DEF CreateFromCutoff, SubmissionCreated, Submitted
  <2> QED
    BY <1>5, <1>a, <2>0, <2>2, <2>3, <2>4 DEF CreateFromCutoff, Run
<1>6. CASE MarkDraft(w)
  <2>0. PICK d \in Days : d = worker[w].day
    BY <1>6, <1>a DEF MarkDraft, Run
  <2>1. worker'[w] = [worker[w] EXCEPT !.at = "progress"]
    BY <1>6, <1>a DEF MarkDraft
  <2>2. worker'[w].at = "progress" /\ worker'[w].day = d
    BY <1>a, <2>0, <2>1 DEF WorkerStates
  <2>3. d \in Days /\ Due(d)' /\ Submitted(d)' /\ lateSave' = lateSave
    BY <1>6, <1>a, <1>b, <1>c, <2>0 DEF MarkDraft, Run, RowsKept
  <2>4. draft'[d].text = NoText \/ draft'[d].finalized \/ lateSave'[d]
    <3>1. CASE worker[w].loaded # NoText
      <4>1. draft[d] \in [text : Texts, finalized : BOOLEAN]
        BY <1>6, <1>a, <2>0, <2>3, <3>1 DEF MarkDraft, Run, DraftRows, NoDraft
      <4> QED
        BY <1>6, <1>a, <2>0, <2>3, <3>1, <4>1 DEF MarkDraft, MarkIfPending, DraftFinalized
    <3>2. CASE worker[w].loaded = NoText
      BY <1>6, <1>a, <2>0, <2>3, <3>2 DEF MarkDraft, MarkIfPending, Run
    <3> QED
      BY <3>1, <3>2
  <2> QED
    BY <2>2, <2>3, <2>4 DEF Run
<1>10. CASE Progress(w)
  <2>0. PICK d \in Days : d = worker[w].day
    BY <1>10, <1>a DEF Progress, Run
  <2>1. worker'[w] = [worker[w] EXCEPT !.at = "report"]
    BY <1>10, <1>a DEF Progress
  <2>2. worker'[w].at = "report" /\ worker'[w].day = d
    BY <1>a, <2>0, <2>1 DEF WorkerStates
  <2>3. d \in Days /\ Due(d)' /\ Submitted(d)' /\ lateSave' = lateSave /\ draft' = draft
    BY <1>10, <1>a, <1>b, <1>c, <2>0 DEF Progress, Run, RowsKept
  <2> QED
    BY <1>10, <1>a, <2>0, <2>2, <2>3 DEF Progress, Run
<1>7. CASE ReportSuccess(w) \/ FailFinalize(w)
  BY <1>2, <1>7, <1>a DEF ReportSuccess, FailFinalize
<1>8. ASSUME NEW v \in Workers \ {w},
             \/ \E d \in Days : StartFinalize(v, d)
             \/ FinalizeStep(v)
             \/ FailFinalize(v)
      PROVE Run(w)'
  BY <1>1, <1>8, <1>a DEF StartFinalize, FinalizeStep, ReadCutoff, CreateFromCutoff,
                          MarkDraft, Progress, ReportSuccess, FailFinalize
<1>9. ASSUME \/ \E r \in Requests, d \in Days, t \in Texts :
                  PutDraft(r, d, t) \/ Submit(r, d, t)
             \/ \E r \in Requests : RequestStep(r) \/ CutOff(r)
             \/ \E d \in Days : CompleteHandoff(d)
             \/ Tick
             \/ UNCHANGED vars
      PROVE Run(w)'
  BY <1>1, <1>9 DEF PutDraft, Submit, RequestStep, LoadDraft, WriteDraft, Create,
                    Settle, Notify, CutOff, CompleteHandoff, Tick, vars
<1> QED
  BY <1>3, <1>4, <1>5, <1>6, <1>7, <1>8, <1>9, <1>10 DEF Next, FinalizeStep

(* Where a submission or the end of a job can come from. *)
NewRowsOf(d) ==
  /\ \/ submission'[d] = submission[d]
     \/ /\ ~Submitted(d)
        /\ Kind[d] = "handoff"
        /\ submission'[d].by = "candidate" /\ submission'[d].text = NoText
     \/ \E r \in Requests :
          /\ ~Submitted(d) /\ Create(r) /\ request[r].day = d
          /\ submission'[d].by = "candidate" /\ submission'[d].text = request[r].text
     \/ \E w \in Workers :
          /\ ~Submitted(d) /\ CreateFromCutoff(w) /\ worker[w].day = d
          /\ submission'[d].by = "cutoff" /\ submission'[d].text = worker[w].loaded
  /\ job'[d].status = "succeeded" =>
       \/ job[d].status = "succeeded"
       \/ \E w \in Workers : ReportSuccess(w) /\ worker[w].day = d

LEMMA NewRows == DayInv /\ [Next]_vars => \A d \in Days : NewRowsOf(d)
<1> SUFFICES ASSUME DayInv, [Next]_vars, NEW d \in Days PROVE NewRowsOf(d)
  OBVIOUS
<1> USE DEF DayInv, TypeOK, NewRowsOf
<1>0. job[d] \in JobRows /\ submission[d] \in SubmissionRows
  OBVIOUS
<1> DEFINE Same == submission'[d] = submission[d] /\ job'[d] = job[d]
<1>1. ASSUME NEW r \in Requests, Create(r) PROVE
        \/ Same
        \/ ~Submitted(d) /\ request[r].day = d /\ job'[d] = job[d]
           /\ submission'[d].by = "candidate" /\ submission'[d].text = request[r].text
  BY <1>1 DEF Create, SubmissionCreated, Submitted
<1>2. ASSUME NEW e \in Days, CompleteHandoff(e) PROVE
        \/ Same
        \/ ~Submitted(d) /\ Kind[d] = "handoff" /\ job'[d] = job[d]
           /\ submission'[d].by = "candidate" /\ submission'[d].text = NoText
  BY <1>2 DEF CompleteHandoff, SubmissionCreated, Submitted
<1>3. ASSUME NEW w \in Workers, CreateFromCutoff(w) PROVE
        \/ Same
        \/ ~Submitted(d) /\ worker[w].day = d /\ job'[d] = job[d]
           /\ submission'[d].by = "cutoff" /\ submission'[d].text = worker[w].loaded
  BY <1>3 DEF CreateFromCutoff, SubmissionCreated, Submitted
<1>4. ASSUME NEW w \in Workers, ReportSuccess(w) PROVE
        submission'[d] = submission[d] /\ (worker[w].day # d => job'[d] = job[d])
  BY <1>4 DEF ReportSuccess
<1>5. ASSUME NEW w \in Workers, FailFinalize(w) PROVE
        /\ submission'[d] = submission[d]
        /\ job'[d].status = "succeeded" => job[d].status = "succeeded"
  BY <1>0, <1>5 DEF FailFinalize, JobRows
<1>6. ASSUME NEW w \in Workers, NEW e \in Days, StartFinalize(w, e) PROVE
        submission'[d] = submission[d]
        /\ (job'[d].status = "succeeded" => job[d].status = "succeeded")
  BY <1>0, <1>6 DEF StartFinalize, JobRows
<1>7. ASSUME NEW r \in Requests, NEW e \in Days, NEW t \in Texts,
             PutDraft(r, e, t) \/ Submit(r, e, t)
      PROVE Same
  BY <1>7 DEF PutDraft, Submit
<1>8. ASSUME NEW r \in Requests,
             LoadDraft(r) \/ WriteDraft(r) \/ Settle(r) \/ Notify(r) \/ CutOff(r)
      PROVE Same
  BY <1>8 DEF LoadDraft, WriteDraft, Settle, Notify, CutOff
<1>9. ASSUME NEW w \in Workers, ReadCutoff(w) \/ MarkDraft(w) \/ Progress(w) PROVE Same
  BY <1>9 DEF ReadCutoff, MarkDraft, Progress
<1>10. ASSUME Tick \/ UNCHANGED vars PROVE Same
  BY <1>10 DEF Tick, vars
<1> QED
  BY <1>1, <1>2, <1>3, <1>4, <1>5, <1>6, <1>7, <1>8, <1>9, <1>10
     DEF Next, RequestStep, FinalizeStep

(* A cutoff submission and a finished job are made by a handler, whose day *)
(* is due.                                                                 *)
LEMMA NextClosed == DayInv /\ [Next]_vars => ClosedWhenDue'
<1> SUFFICES ASSUME DayInv, [Next]_vars, NEW d \in Days,
                    submission'[d].by = "cutoff" \/ job'[d].status = "succeeded"
             PROVE Due(d)'
  BY DEF ClosedWhenDue
<1>1. Due(d) => Due(d)'
  BY StepKeepsRows DEF RowsKept
<1>2. \A w \in Workers : worker[w].at # "idle" => Due(worker[w].day)
  BY DEF DayInv, Run
<1>3. NewRowsOf(d)
  BY NewRows
<1>4. submission'[d].by = "cutoff" => Due(d)
  BY <1>2, <1>3 DEF NewRowsOf, DayInv, ClosedWhenDue, CreateFromCutoff
<1>5. job'[d].status = "succeeded" => Due(d)
  BY <1>2, <1>3 DEF NewRowsOf, DayInv, ClosedWhenDue, ReportSuccess
<1> QED
  BY <1>1, <1>4, <1>5

(* Nothing is open in the initial state. *)
LEMMA InitInv == Init => DayInv
<1> SUFFICES ASSUME Init PROVE DayInv
  OBVIOUS
<1>1. TypeOK
  BY InitType
<1>2. \A r \in Requests : Held(r)
  BY DEF Init, Held, IdleRequest
<1>3. \A w \in Workers : Run(w)
  BY DEF Init, Run, IdleWorker
<1>4. ClosedWhenDue
  BY DEF Init, ClosedWhenDue, NoSubmission
<1> QED
  BY <1>1, <1>2, <1>3, <1>4 DEF DayInv

(* The inductive invariant holds throughout. *)
THEOREM DayInvariant == Spec => []DayInv
<1>1. DayInv /\ [Next]_vars => DayInv'
  BY NextType, NextHeld, NextRun, NextClosed DEF DayInv
<1> QED
  BY InitInv, <1>1, PTL DEF Spec

-----------------------------------------------------------------------------
(* The theorems. *)

(* Every row keeps the type of its table. *)
THEOREM TypeCorrect == Spec => []TypeOK
<1>1. DayInv => TypeOK
  BY DEF DayInv
<1> QED
  BY DayInvariant, <1>1, PTL

(* A submission is never replaced, by whom it was made does not matter.    *)
THEOREM NoSubmissionReplaced == Spec => SubmissionsAreFinal
<1>1. DayInv /\ [Next]_vars =>
        [\A d \in Days : Submitted(d) => submission'[d] = submission[d]]_vars
  BY StepKeepsRows DEF RowsKept
<1> QED
  BY DayInvariant, <1>1, PTL DEF Spec, SubmissionsAreFinal

(* What is submitted at the cutoff is the last draft saved in time: the    *)
(* handler read it after the end, when only a late save can change it.     *)
THEOREM CutoffTakesLastSave == Spec => []LastSaveIsSubmitted
<1>1. Init => LastSaveIsSubmitted
  BY DEF Init, LastSaveIsSubmitted, NoSubmission
<1>2. DayInv /\ LastSaveIsSubmitted /\ [Next]_vars => LastSaveIsSubmitted'
  <2> SUFFICES ASSUME DayInv, LastSaveIsSubmitted, [Next]_vars, NEW d \in Days,
                      submission'[d].by = "cutoff", ~lateSave'[d]
               PROVE submission'[d].text = draft'[d].text
    BY DEF LastSaveIsSubmitted
  <2>1. RowsKept(d)
    BY StepKeepsRows
  <2>2. CASE submission'[d] = submission[d]
    <3>1. Due(d) /\ submission[d].by = "cutoff"
      BY <2>2 DEF DayInv, ClosedWhenDue
    <3> QED
      BY <2>1, <2>2, <3>1 DEF RowsKept, LastSaveIsSubmitted
  <2>3. CASE submission'[d] # submission[d]
    <3>0. NewRowsOf(d)
      BY NewRows
    <3>1. PICK w \in Workers :
            CreateFromCutoff(w) /\ worker[w].day = d
            /\ submission'[d].text = worker[w].loaded
      BY <2>3, <3>0 DEF NewRowsOf
    <3>2. draft' = draft /\ ~lateSave[d]
      BY <2>1, <3>1 DEF CreateFromCutoff, RowsKept
    <3>3. worker[w].loaded = draft[d].text
      BY <3>1, <3>2 DEF DayInv, Run, CreateFromCutoff
    <3> QED
      BY <3>1, <3>2, <3>3
  <2> QED
    BY <2>2, <2>3
<1> QED
  BY DayInvariant, <1>1, <1>2, PTL DEF Spec

(* A finished job left a submission and no open draft.  Its own handler    *)
(* saw to that; a draft opened since was saved late.                       *)
THEOREM ClosedDays == Spec => []ClosedDaysAreClosed
<1>1. Init => ClosedDaysAreClosed
  BY DEF Init, ClosedDaysAreClosed
<1>2. DayInv /\ ClosedDaysAreClosed /\ [Next]_vars => ClosedDaysAreClosed'
  <2> SUFFICES ASSUME DayInv, ClosedDaysAreClosed, [Next]_vars, NEW d \in Days,
                      job'[d].status = "succeeded"
               PROVE  /\ Submitted(d)'
                      /\ \/ draft'[d].text = NoText
                         \/ draft'[d].finalized
                         \/ lateSave'[d]
    BY DEF ClosedDaysAreClosed
  <2>1. RowsKept(d)
    BY StepKeepsRows
  <2>2. Due(d) /\ Submitted(d)
        /\ (draft[d].text = NoText \/ draft[d].finalized \/ lateSave[d])
    <3>1. NewRowsOf(d)
      BY NewRows
    <3>2. CASE job[d].status = "succeeded"
      BY <3>2 DEF DayInv, ClosedWhenDue, ClosedDaysAreClosed
    <3>3. CASE job[d].status # "succeeded"
      <4>1. PICK w \in Workers : ReportSuccess(w) /\ worker[w].day = d
        BY <3>1, <3>3 DEF NewRowsOf
      <4> QED
        BY <4>1 DEF DayInv, Run, ReportSuccess
    <3> QED
      BY <3>2, <3>3
  <2>3. Submitted(d)'
    BY <2>1, <2>2 DEF RowsKept, Submitted
  <2> QED
    BY <2>1, <2>2, <2>3 DEF RowsKept
<1> QED
  BY DayInvariant, <1>1, <1>2, PTL DEF Spec

(* Only a recomputation over all submissions completes the session, and    *)
(* none of them disappears afterwards.                                     *)
THEOREM CompletedMeansAll == Spec => []CompletionIsEarned
<1>1. Init => CompletionIsEarned
  BY DEF Init, CompletionIsEarned
<1>2. DayInv /\ CompletionIsEarned /\ [Next]_vars => CompletionIsEarned'
  <2> SUFFICES ASSUME DayInv, CompletionIsEarned, [Next]_vars, completed',
                      NEW d \in Days
               PROVE Submitted(d)'
    BY DEF CompletionIsEarned
  <2>1. completed \/ is_complete(submission)
    <3>1. CASE completed' = completed
      BY <3>1
    <3>2. CASE completed' # completed
      BY <3>2 DEF Next, RequestStep, FinalizeStep, PutDraft, Submit, LoadDraft,
         WriteDraft, Create, Settle, Notify, CutOff, CompleteHandoff, StartFinalize,
         ReadCutoff, CreateFromCutoff, MarkDraft, Progress, ReportSuccess, FailFinalize,
         Tick, vars, HandlerProgress, ProgressRecomputed
    <3> QED
      BY <3>1, <3>2
  <2>2. Submitted(d)
    BY <2>1 DEF CompletionIsEarned, is_complete, Submitted
  <2>3. RowsKept(d)
    BY StepKeepsRows
  <2> QED
    BY <2>2, <2>3 DEF RowsKept, Submitted
<1> QED
  BY DayInvariant, <1>1, <1>2, PTL DEF Spec

(* The order was checked when the request came in, and the submissions it  *)
(* found are still there when it inserts its own.                          *)
THEOREM SubmissionsInOrder == Spec => []SubmittedInOrder
<1>1. Init => SubmittedInOrder
  BY DEF Init, SubmittedInOrder, NoSubmission
<1>2. DayInv /\ SubmittedInOrder /\ [Next]_vars => SubmittedInOrder'
  <2> SUFFICES ASSUME DayInv, SubmittedInOrder, [Next]_vars, NEW d \in Days,
                      submission'[d].by = "candidate", Kind[d] # "handoff",
                      NEW e \in 1..(d - 1)
               PROVE Submitted(e)'
    BY DEF SubmittedInOrder
  <2>1. e \in Days
    BY DaySubmissionsAssumption DEF Days
  <2>2. RowsKept(e)
    BY <2>1, StepKeepsRows
  <2>3. NewRowsOf(d)
    BY NewRows
  <2>4. Submitted(e)
    <3>1. CASE submission'[d] = submission[d]
      BY <3>1 DEF SubmittedInOrder
    <3>2. CASE submission'[d] # submission[d]
      <4>1. PICK r \in Requests : Create(r) /\ request[r].day = d
        BY <2>3, <3>2 DEF NewRowsOf
      <4> QED
        BY <4>1 DEF DayInv, Held, Create
    <3> QED
      BY <3>1, <3>2
  <2> QED
    BY <2>2, <2>4 DEF RowsKept, Submitted
<1> QED
  BY DayInvariant, <1>1, <1>2, PTL DEF Spec

(* Both: progress is made in order, and completion with the last task.     *)
THEOREM EarnedProgress == Spec => []ProgressIsEarned
  BY CompletedMeansAll, SubmissionsInOrder, PTL DEF ProgressIsEarned

(* A text day's end takes the last draft and leaves nothing open            *)
(* (handle_day_close_finalize_text).                                        *)
THEOREM CutoffsTake == Spec => []CutoffsTakeDrafts
<1>1. LastSaveIsSubmitted /\ ClosedDaysAreClosed => CutoffsTakeDrafts
  BY DEF CutoffsTakeDrafts
<1> QED
  BY <1>1, CutoffTakesLastSave, ClosedDays, PTL
=============================================================================
