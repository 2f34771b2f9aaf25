------------------------- MODULE EvaluationRunsProofs -------------------------
(***************************************************************************)
(* Proofs about EvaluationRuns, for any evidence, requests, workers,       *)
(* attempts and faults.                                                    *)
(***************************************************************************)
EXTENDS EvaluationRuns, TLAPS

-----------------------------------------------------------------------------
(* The inductive invariant. *)

(* Handlers that have a run row, or are about to insert one. *)
Evaluating == {"lookup", "insert", "evaluate", "marker", "insertMarker",
               "commit", "commitNew", "failing"}

(* An uncommitted run row is the only one of its job. *)
Exclusive ==
  \A b \in Evidence, w \in Workers :
    Holds(w, b) =>
      /\ run[b].status = "absent"
      /\ \A v \in Workers : Holds(v, b) => v = w

(* What a handler answers is what its job's run says. *)
Outcome(w) ==
  /\ worker[w].at = "return" => run[worker[w].of].status = "completed"
  /\ worker[w].at = "failed" => run[worker[w].of].status = "failed"

(* A handler's job is of evidence that was there, and what it evaluates is *)
(* not older.                                                              *)
Abreast(w) ==
  /\ worker[w].at # "idle" => worker[w].of <= evidence
  /\ worker[w].at \in Evaluating => worker[w].of <= worker[w].basis

(* Nobody is ahead of the evidence. *)
Forward ==
  /\ \A c \in Clients : request[c] <= evidence
  /\ \A b \in Evidence : job[b].status # "absent" => b <= evidence
  /\ \A w \in Workers : Abreast(w)

EvaluationInv ==
  /\ TypeOK
  /\ Exclusive
  /\ \A w \in Workers : Outcome(w)
  /\ Forward
  /\ SucceededHasReport
  /\ ReportsAreAnnounced
  /\ FreshEvidence

-----------------------------------------------------------------------------
(* Types. *)

LEMMA InitType == Init => TypeOK
<1> SUFFICES ASSUME Init PROVE TypeOK
  OBVIOUS
<1> USE EvaluationRunsAssumption DEF Evidence
<1>1. [status |-> "absent", attempt |-> 0] \in JobRows
  BY DEF JobRows
<1>2. NoRun \in RunRows
  BY DEF NoRun, RunRows
<1>3. [at |-> "idle", of |-> 0, attempt |-> 0, basis |-> None] \in WorkerStates
  BY DEF WorkerStates
<1>4. evidence \in Evidence /\ faults \in 0..Faults
  BY DEF Init
<1>5. request \in [Clients -> Evidence \cup {None}]
  BY DEF Init
<1>6. job \in [Evidence -> JobRows]
  BY <1>1 DEF Init
<1>7. run \in [Evidence -> RunRows]
  BY <1>2 DEF Init
<1>8. worker \in [Workers -> WorkerStates]
  BY <1>3 DEF Init
<1> QED
  BY <1>4, <1>5, <1>6, <1>7, <1>8 DEF Init, TypeOK

(* The parts of a row. *)
LEMMA RowTypes ==
  ASSUME TypeOK
  PROVE  /\ \A b \in Evidence :
              /\ job[b] \in JobRows
              /\ job[b].attempt \in 0..MaxAttempts
              /\ run[b].status \in {"absent", "completed", "failed"}
         /\ \A w \in Workers :
              /\ worker[w] \in WorkerStates
              /\ worker[w].of \in Evidence
              /\ worker[w].basis \in Evidence \cup {None}
BY DEF TypeOK, JobRows, RunRows, WorkerStates

LEMMA NextAttemptType ==
  ASSUME TypeOK, NEW b \in Evidence
  PROVE  NextAttempt(b) \in 0..MaxAttempts
BY RowTypes, EvaluationRunsAssumption DEF NextAttempt

(* A worker that moves on stays one, and the others stay where they are. *)
LEMMA GotoType ==
  ASSUME TypeOK, NEW w \in Workers,
         NEW at \in {"idle", "lookup", "insert", "evaluate", "marker", "insertMarker",
                     "commit", "commitNew", "failing", "invalid", "return", "failed", "raise"},
         Goto(w, at)
  PROVE  worker' \in [Workers -> WorkerStates]
BY DEF TypeOK, Goto, WorkerStates

LEMMA GotoMoves ==
  ASSUME TypeOK, NEW w \in Workers, NEW at, Goto(w, at)
  PROVE  /\ worker'[w].at = at
         /\ worker'[w].of = worker[w].of
         /\ worker'[w].basis = worker[w].basis
         /\ \A v \in Workers \ {w} : worker'[v] = worker[v]
<1>1. worker[w] \in WorkerStates
  BY RowTypes
<1> QED
  BY <1>1 DEF TypeOK, Goto, WorkerStates

(* What a handler that has read holds. *)
LEMMA ReadMoves ==
  ASSUME TypeOK, NEW w \in Workers, ReadEvidence(w)
  PROVE  /\ worker'[w].at \in {"lookup", "invalid"}
         /\ worker'[w].of = worker[w].of
         /\ worker'[w].at = "lookup" => worker'[w].basis = evidence
         /\ \A v \in Workers \ {w} : worker'[v] = worker[v]
<1>1. worker[w] \in WorkerStates
  BY RowTypes
<1>2. CASE worker' = [worker EXCEPT ![w] =
             [@ EXCEPT !.at = "lookup", !.basis = EvidenceRead(w)]]
  BY <1>1, <1>2 DEF EvidenceRead, TypeOK, WorkerStates
<1>3. CASE Goto(w, "invalid")
  BY <1>3, GotoMoves
<1> QED
  BY <1>2, <1>3 DEF ReadEvidence

LEMMA RunWrittenType ==
  ASSUME TypeOK, NEW w \in Workers, NEW s \in {"completed", "failed"}, RunWritten(w, s)
  PROVE  run' \in [Evidence -> RunRows]
BY RowTypes DEF RunWritten, TypeOK, RunRows

LEMMA RunWrittenSets ==
  ASSUME TypeOK, NEW w \in Workers, NEW s \in {"completed", "failed"}, RunWritten(w, s)
  PROVE  /\ run'[worker[w].of].status = s
         /\ s = "completed" => run'[worker[w].of].basis = worker[w].basis
         /\ \A b \in Evidence : b # worker[w].of => run'[b] = run[b]
BY RowTypes DEF RunWritten, TypeOK

LEMMA SettleType ==
  ASSUME TypeOK, NEW w \in Workers,
         NEW s \in {"queued", "succeeded", "dead_letter"}, Settle(w, s)
  PROVE  TypeOK'
<1>1. job' \in [Evidence -> JobRows]
  BY DEF Settle, TypeOK, JobRows
<1>2. worker' \in [Workers -> WorkerStates]
  BY GotoType DEF Settle
<1> QED
  BY <1>1, <1>2 DEF Settle, TypeOK

LEMMA StepType == TypeOK /\ [Next]_vars => TypeOK'
<1> SUFFICES ASSUME TypeOK, [Next]_vars PROVE TypeOK'
  OBVIOUS
<1>1. CASE NewEvidence
  BY <1>1, EvaluationRunsAssumption DEF NewEvidence, TypeOK, Evidence
<1>2. ASSUME NEW c \in Clients, ComputeBasis(c) PROVE TypeOK'
  BY <1>2 DEF ComputeBasis, TypeOK
<1>3. ASSUME NEW c \in Clients, EnqueueRun(c) PROVE TypeOK'
  <2>1. job' \in [Evidence -> JobRows]
    BY <1>3 DEF EnqueueRun, TypeOK, JobRows
  <2> QED
    BY <1>3, <2>1 DEF EnqueueRun, TypeOK
<1>4. ASSUME NEW b \in Evidence, RequeueDeadLetter(b) PROVE TypeOK'
  <2>1. job' \in [Evidence -> JobRows]
    BY <1>4 DEF RequeueDeadLetter, TypeOK, JobRows
  <2>2. faults' \in 0..Faults
    BY <1>4, EvaluationRunsAssumption DEF RequeueDeadLetter, TypeOK
  <2> QED
    BY <1>4, <2>1, <2>2 DEF RequeueDeadLetter, TypeOK
<1>5. ASSUME NEW w \in Workers, NEW b \in Evidence, StartEvaluation(w, b) PROVE TypeOK'
  <2>1. job' \in [Evidence -> JobRows]
    BY <1>5, NextAttemptType DEF StartEvaluation, TypeOK, JobRows
  <2>2. worker' \in [Workers -> WorkerStates]
    BY ZenonT(60), <1>5, NextAttemptType DEF StartEvaluation, TypeOK, WorkerStates
  <2> QED
    BY <1>5, <2>1, <2>2 DEF StartEvaluation, TypeOK
<1>6. ASSUME NEW w \in Workers, ReadEvidence(w) PROVE TypeOK'
  <2>1. worker' \in [Workers -> WorkerStates]
    <3>1. [worker[w] EXCEPT !.at = "lookup", !.basis = evidence] \in WorkerStates
      BY DEF TypeOK, WorkerStates
    <3>2. CASE worker' = [worker EXCEPT ![w] =
                 [@ EXCEPT !.at = "lookup", !.basis = EvidenceRead(w)]]
      BY <3>1, <3>2 DEF EvidenceRead, TypeOK
    <3>3. CASE Goto(w, "invalid")
      BY <3>3, GotoType
    <3> QED
      BY <1>6, <3>2, <3>3 DEF ReadEvidence
  <2>2. faults' \in 0..Faults
    BY <1>6, EvaluationRunsAssumption DEF ReadEvidence, TypeOK
  <2> QED
    BY <1>6, <2>1, <2>2 DEF ReadEvidence, TypeOK
<1>7. ASSUME NEW w \in Workers, LookUp(w) PROVE TypeOK'
  BY <1>7, RowTypes, GotoType DEF LookUp, TypeOK
<1>8. ASSUME NEW w \in Workers, StartRun(w) PROVE TypeOK'
  BY <1>8, GotoType DEF StartRun, UniqueIndex, TypeOK
<1>9. ASSUME NEW w \in Workers, RecordInvalid(w) PROVE TypeOK'
  BY <1>9, GotoType, RunWrittenType DEF RecordInvalid, UniqueIndex, TypeOK
<1>10. ASSUME NEW w \in Workers, Evaluate(w) PROVE TypeOK'
  BY <1>10, GotoType DEF Evaluate, TypeOK
<1>11. ASSUME NEW w \in Workers, SelectMarker(w) PROVE TypeOK'
  BY <1>11, GotoType DEF SelectMarker, TypeOK
<1>12. ASSUME NEW w \in Workers, InsertMarker(w) PROVE TypeOK'
  BY <1>12, GotoType DEF InsertMarker, TypeOK
<1>13. ASSUME NEW w \in Workers, CommitRun(w) PROVE TypeOK'
  BY <1>13, GotoType, RunWrittenType DEF CommitRun, TypeOK
<1>14. ASSUME NEW w \in Workers, MarkFailedRun(w) PROVE TypeOK'
  BY <1>14, GotoType, RunWrittenType DEF MarkFailedRun, TypeOK
<1>15. ASSUME NEW w \in Workers, ReportSuccess(w) PROVE TypeOK'
  BY <1>15, SettleType DEF ReportSuccess
<1>16. ASSUME NEW w \in Workers, ReportFailed(w) PROVE TypeOK'
  BY <1>16, SettleType DEF ReportFailed
<1>17. ASSUME NEW w \in Workers, ReportError(w) PROVE TypeOK'
  BY <1>17, SettleType DEF ReportError, AfterError
<1>18. ASSUME NEW w \in Workers, Crash(w) PROVE TypeOK'
  <2>1. faults' \in 0..Faults
    BY <1>18, EvaluationRunsAssumption DEF Crash, TypeOK
  <2> QED
    BY <1>18, <2>1, GotoType DEF Crash, TypeOK
<1>19. CASE UNCHANGED vars
  BY <1>19 DEF vars, TypeOK
<1> QED
  BY <1>1, <1>2, <1>3, <1>4, <1>5, <1>6, <1>7, <1>8, <1>9, <1>10, <1>11, <1>12,
     <1>13, <1>14, <1>15, <1>16, <1>17, <1>18, <1>19 DEF Next, HandlerStep

-----------------------------------------------------------------------------
(* Run rows, committed and not. *)

(* Handlers whose run row is not committed. *)
Held == {"evaluate", "marker", "insertMarker", "commit", "commitNew", "failing"}

(* After a move, a row is held by who held it or by who moved. *)
LEMMA HeldLater ==
  ASSUME TypeOK, NEW w \in Workers, NEW at, Goto(w, at)
  PROVE  \A v \in Workers, b \in Evidence :
           Holds(v, b)' => \/ v # w /\ Holds(v, b)
                           \/ v = w /\ b = worker[w].of /\ at \in Held
<1> SUFFICES ASSUME NEW v \in Workers, NEW b \in Evidence, Holds(v, b)'
             PROVE  \/ v # w /\ Holds(v, b)
                    \/ v = w /\ b = worker[w].of /\ at \in Held
  OBVIOUS
<1>1. worker'[v].of = b /\ worker'[v].at \in Held
  BY DEF Holds, Held
<1>2. CASE v = w
  BY <1>1, <1>2, GotoMoves
<1>3. CASE v # w
  BY <1>1, <1>3, GotoMoves DEF Holds, Held
<1> QED
  BY <1>2, <1>3

(* Moves that keep a row, or give none, keep the rows apart. *)
LEMMA MovesExclusive ==
  ASSUME TypeOK, Exclusive, NEW w \in Workers, NEW at, Goto(w, at),
         at \in Held => worker[w].at \in Held, run' = run
  PROVE  Exclusive'
<1>1. \A v \in Workers, b \in Evidence : Holds(v, b)' => Holds(v, b)
  BY HeldLater DEF Holds, Held
<1> QED
  BY <1>1 DEF Exclusive

(* What a handler writes when it alone has the row, and lets it go. *)
LEMMA WritesExclusive ==
  ASSUME TypeOK, Exclusive, NEW w \in Workers, NEW at, Goto(w, at), at \notin Held,
         \A v \in Workers : Holds(v, worker[w].of) => v = w,
         \A b \in Evidence : b # worker[w].of => run'[b] = run[b]
  PROVE  Exclusive'
<1>1. \A v \in Workers, b \in Evidence :
        Holds(v, b)' => Holds(v, b) /\ b # worker[w].of
  BY HeldLater
<1> QED
  BY <1>1 DEF Exclusive

LEMMA StepExclusive == EvaluationInv /\ [Next]_vars => Exclusive'
<1> SUFFICES ASSUME EvaluationInv, [Next]_vars PROVE Exclusive'
  OBVIOUS
<1> TypeOK /\ Exclusive
  BY DEF EvaluationInv
<1>1. CASE UNCHANGED <<worker, run>>
  BY <1>1 DEF Exclusive, Holds
<1>2. ASSUME NEW w \in Workers, NEW b \in Evidence, StartEvaluation(w, b) PROVE Exclusive'
  <2>1. worker'[w].at = "read" /\ \A v \in Workers \ {w} : worker'[v] = worker[v]
    BY <1>2, RowTypes DEF StartEvaluation, TypeOK, WorkerStates
  <2>2. \A v \in Workers, a \in Evidence : Holds(v, a)' => Holds(v, a)
    BY <2>1 DEF Holds
  <2> QED
    BY <1>2, <2>2 DEF StartEvaluation, Exclusive
<1>3. ASSUME NEW w \in Workers, ReadEvidence(w) PROVE Exclusive'
  <2>1. /\ worker'[w].at \in {"lookup", "invalid"}
        /\ \A v \in Workers \ {w} : worker'[v] = worker[v]
    BY <1>3, ReadMoves
  <2>2. \A v \in Workers, a \in Evidence : Holds(v, a)' => Holds(v, a)
    BY <2>1 DEF Holds
  <2> QED
    BY <1>3, <2>2 DEF ReadEvidence, Exclusive
<1>4. ASSUME NEW w \in Workers, LookUp(w) PROVE Exclusive'
  BY <1>4, MovesExclusive DEF LookUp, Held
<1>5. ASSUME NEW w \in Workers, StartRun(w) PROVE Exclusive'
  <2>1. CASE run[worker[w].of].status = "absent"
    <3>1. Goto(w, "evaluate") /\ ~Inserted(worker[w].of) /\ run' = run
      BY <1>5, <2>1 DEF StartRun, UniqueIndex
    <3>2. \A v \in Workers, b \in Evidence :
            Holds(v, b)' => \/ Holds(v, b) /\ b # worker[w].of
                            \/ v = w /\ b = worker[w].of
      BY <3>1, HeldLater DEF Inserted
    <3> QED
      BY <2>1, <3>1, <3>2 DEF Exclusive
  <2>2. CASE run[worker[w].of].status # "absent"
    BY <1>5, <2>2, MovesExclusive DEF StartRun, UniqueIndex, Held
  <2> QED
    BY <2>1, <2>2
<1>6. ASSUME NEW w \in Workers, RecordInvalid(w) PROVE Exclusive'
  <2>1. CASE run[worker[w].of].status = "absent"
    <3>1. Goto(w, "failed") /\ ~Inserted(worker[w].of) /\ RunWritten(w, "failed")
      BY <1>6, <2>1 DEF RecordInvalid, UniqueIndex
    <3> QED
      BY <3>1, RunWrittenSets, WritesExclusive DEF Inserted, Held
  <2>2. CASE run[worker[w].of].status # "absent"
    BY <1>6, <2>2, MovesExclusive DEF RecordInvalid, UniqueIndex, Held
  <2> QED
    BY <2>1, <2>2
<1>7. ASSUME NEW w \in Workers, Evaluate(w) PROVE Exclusive'
  BY <1>7, MovesExclusive DEF Evaluate, Held
<1>8. ASSUME NEW w \in Workers, SelectMarker(w) PROVE Exclusive'
  BY <1>8, MovesExclusive DEF SelectMarker, Held
<1>9. ASSUME NEW w \in Workers, InsertMarker(w) PROVE Exclusive'
  BY <1>9, MovesExclusive DEF InsertMarker, Held
<1>10. ASSUME NEW w \in Workers, CommitRun(w) PROVE Exclusive'
  <2>1. Holds(w, worker[w].of) /\ worker[w].of \in Evidence
    BY <1>10, RowTypes DEF CommitRun, Holds
  <2>2. Goto(w, "return") /\ RunWritten(w, "completed")
    BY <1>10 DEF CommitRun
  <2> QED
    BY <2>1, <2>2, RunWrittenSets, WritesExclusive DEF Exclusive, Held
<1>11. ASSUME NEW w \in Workers, MarkFailedRun(w) PROVE Exclusive'
  <2>1. Holds(w, worker[w].of) /\ worker[w].of \in Evidence
    BY <1>11, RowTypes DEF MarkFailedRun, Holds
  <2>2. Goto(w, "failed") /\ RunWritten(w, "failed")
    BY <1>11 DEF MarkFailedRun
  <2> QED
    BY <2>1, <2>2, RunWrittenSets, WritesExclusive DEF Exclusive, Held
<1>12. ASSUME NEW w \in Workers, NEW s, Settle(w, s) PROVE Exclusive'
  BY <1>12, MovesExclusive DEF Settle, Held
<1>13. ASSUME NEW w \in Workers, Crash(w) PROVE Exclusive'
  BY <1>13, MovesExclusive DEF Crash, Held
<1> QED
  BY <1>1, <1>2, <1>3, <1>4, <1>5, <1>6, <1>7, <1>8, <1>9, <1>10, <1>11, <1>12, <1>13
     DEF Next, HandlerStep, vars, NewEvidence, ComputeBasis, EnqueueRun,
         RequeueDeadLetter, ReportSuccess, ReportFailed, ReportError

(* A run is written by the one handler that has its row, and once. *)
LEMMA RunWrittenOnce ==
  EvaluationInv /\ [Next]_vars =>
    \A b \in Evidence : run[b].status # "absent" => run'[b] = run[b]
<1> SUFFICES ASSUME EvaluationInv, [Next]_vars, NEW b \in Evidence,
                    run[b].status # "absent"
             PROVE  run'[b] = run[b]
  OBVIOUS
<1> TypeOK /\ Exclusive
  BY DEF EvaluationInv
<1>1. CASE UNCHANGED run
  BY <1>1
<1>2. ASSUME NEW w \in Workers, RecordInvalid(w) PROVE run'[b] = run[b]
  BY <1>2, RunWrittenSets DEF RecordInvalid
<1>3. ASSUME NEW w \in Workers, CommitRun(w) PROVE run'[b] = run[b]
  <2>1. Holds(w, worker[w].of) /\ worker[w].of \in Evidence
    BY <1>3, RowTypes DEF CommitRun, Holds
  <2> QED
    BY <1>3, <2>1, RunWrittenSets DEF CommitRun, Exclusive
<1>4. ASSUME NEW w \in Workers, MarkFailedRun(w) PROVE run'[b] = run[b]
  <2>1. Holds(w, worker[w].of) /\ worker[w].of \in Evidence
    BY <1>4, RowTypes DEF MarkFailedRun, Holds
  <2> QED
    BY <1>4, <2>1, RunWrittenSets DEF MarkFailedRun, Exclusive
<1> QED
  BY <1>1, <1>2, <1>3, <1>4
     DEF Next, HandlerStep, vars, NewEvidence, ComputeBasis, EnqueueRun, RequeueDeadLetter,
         StartEvaluation, ReadEvidence, LookUp, StartRun, Evaluate, SelectMarker,
         InsertMarker, ReportSuccess, ReportFailed, ReportError, Settle, Crash

-----------------------------------------------------------------------------
(* What handlers answer, and what they have read. *)

(* An answer stays true: its run is committed. *)
LEMMA OutcomeStays ==
  ASSUME TypeOK, NEW v \in Workers, Outcome(v), worker'[v] = worker[v],
         \A b \in Evidence : run[b].status # "absent" => run'[b] = run[b]
  PROVE  Outcome(v)'
<1>1. worker[v].of \in Evidence
  BY RowTypes
<1> QED
  BY <1>1 DEF Outcome

(* A move of w keeps the answers if it gives none, or a true one. *)
LEMMA MovesOutcome ==
  ASSUME TypeOK, \A v \in Workers : Outcome(v), NEW w \in Workers, NEW at, Goto(w, at),
         \A b \in Evidence : run[b].status # "absent" => run'[b] = run[b],
         at = "return" => run'[worker[w].of].status = "completed",
         at = "failed" => run'[worker[w].of].status = "failed"
  PROVE  \A v \in Workers : Outcome(v)'
<1> TAKE v \in Workers
<1>1. CASE v = w
  BY <1>1, GotoMoves DEF Outcome
<1>2. CASE v # w
  BY <1>2, GotoMoves, OutcomeStays
<1> QED
  BY <1>1, <1>2

LEMMA StepOutcome == EvaluationInv /\ [Next]_vars => \A w \in Workers : Outcome(w)'
<1> SUFFICES ASSUME EvaluationInv, [Next]_vars PROVE \A w \in Workers : Outcome(w)'
  OBVIOUS
<1> TypeOK /\ \A w \in Workers : Outcome(w)
  BY DEF EvaluationInv
<1>0. \A b \in Evidence : run[b].status # "absent" => run'[b] = run[b]
  BY RunWrittenOnce
<1>1. CASE UNCHANGED <<worker, run>>
  BY <1>1 DEF Outcome
<1>2. ASSUME NEW w \in Workers, NEW b \in Evidence, StartEvaluation(w, b)
      PROVE  \A v \in Workers : Outcome(v)'
  <2>1. worker'[w].at = "read" /\ \A v \in Workers \ {w} : worker'[v] = worker[v]
    BY <1>2, RowTypes DEF StartEvaluation, TypeOK, WorkerStates
  <2>2. Outcome(w)'
    BY <2>1 DEF Outcome
  <2>3. \A v \in Workers \ {w} : Outcome(v)'
    BY <1>0, <2>1, OutcomeStays
  <2> QED
    BY <2>2, <2>3
<1>3. ASSUME NEW w \in Workers, ReadEvidence(w) PROVE \A v \in Workers : Outcome(v)'
  <2>1. Outcome(w)'
    BY <1>3, ReadMoves DEF Outcome
  <2>2. \A v \in Workers \ {w} : Outcome(v)'
    BY <1>0, <1>3, ReadMoves, OutcomeStays
  <2> QED
    BY <2>1, <2>2
<1>4. ASSUME NEW w \in Workers, LookUp(w) PROVE \A v \in Workers : Outcome(v)'
  BY <1>0, <1>4, MovesOutcome DEF LookUp
<1>5. ASSUME NEW w \in Workers, StartRun(w) PROVE \A v \in Workers : Outcome(v)'
  BY <1>0, <1>5, MovesOutcome DEF StartRun, UniqueIndex
<1>6. ASSUME NEW w \in Workers, RecordInvalid(w) PROVE \A v \in Workers : Outcome(v)'
  BY <1>0, <1>6, RunWrittenSets, MovesOutcome DEF RecordInvalid, UniqueIndex
<1>7. ASSUME NEW w \in Workers, Evaluate(w) PROVE \A v \in Workers : Outcome(v)'
  BY <1>0, <1>7, MovesOutcome DEF Evaluate
<1>8. ASSUME NEW w \in Workers, SelectMarker(w) PROVE \A v \in Workers : Outcome(v)'
  BY <1>0, <1>8, MovesOutcome DEF SelectMarker
<1>9. ASSUME NEW w \in Workers, InsertMarker(w) PROVE \A v \in Workers : Outcome(v)'
  BY <1>0, <1>9, MovesOutcome DEF InsertMarker
<1>10. ASSUME NEW w \in Workers, CommitRun(w) PROVE \A v \in Workers : Outcome(v)'
  BY <1>0, <1>10, RunWrittenSets, MovesOutcome DEF CommitRun
<1>11. ASSUME NEW w \in Workers, MarkFailedRun(w) PROVE \A v \in Workers : Outcome(v)'
  BY <1>0, <1>11, RunWrittenSets, MovesOutcome DEF MarkFailedRun
<1>12. ASSUME NEW w \in Workers, NEW s, Settle(w, s) PROVE \A v \in Workers : Outcome(v)'
  BY <1>0, <1>12, MovesOutcome DEF Settle
<1>13. ASSUME NEW w \in Workers, Crash(w) PROVE \A v \in Workers : Outcome(v)'
  BY <1>0, <1>13, MovesOutcome DEF Crash
<1> QED
  BY <1>1, <1>2, <1>3, <1>4, <1>5, <1>6, <1>7, <1>8, <1>9, <1>10, <1>11, <1>12, <1>13
     DEF Next, HandlerStep, vars, NewEvidence, ComputeBasis, EnqueueRun,
         RequeueDeadLetter, ReportSuccess, ReportFailed, ReportError

(* A move keeps to the evidence if it starts no evaluation. *)
LEMMA MovesAbreast ==
  ASSUME TypeOK, \A v \in Workers : Abreast(v), NEW w \in Workers, NEW at, Goto(w, at),
         worker[w].at # "idle", at \in Evaluating => worker[w].at \in Evaluating,
         evidence' = evidence
  PROVE  \A v \in Workers : Abreast(v)'
<1> TAKE v \in Workers
<1>1. CASE v = w
  BY <1>1, GotoMoves DEF Abreast
<1>2. CASE v # w
  BY <1>2, GotoMoves DEF Abreast
<1> QED
  BY <1>1, <1>2

LEMMA StepAbreast == EvaluationInv /\ [Next]_vars => \A w \in Workers : Abreast(w)'
<1> SUFFICES ASSUME EvaluationInv, [Next]_vars PROVE \A w \in Workers : Abreast(w)'
  OBVIOUS
<1> TypeOK /\ Forward /\ \A w \in Workers : Abreast(w)
  BY DEF EvaluationInv, Forward
<1>1. CASE UNCHANGED <<worker, evidence>>
  BY <1>1 DEF Abreast
<1>2. CASE NewEvidence
  <2> TAKE w \in Workers
  <2>1. worker[w].of \in Nat /\ evidence \in Nat
    BY RowTypes, EvaluationRunsAssumption DEF TypeOK, Evidence
  <2> QED
    BY <1>2, <2>1 DEF NewEvidence, Abreast
<1>3. ASSUME NEW w \in Workers, NEW b \in Evidence, StartEvaluation(w, b)
      PROVE  \A v \in Workers : Abreast(v)'
  <2>1. /\ worker'[w].at = "read" /\ worker'[w].of = b
        /\ \A v \in Workers \ {w} : worker'[v] = worker[v]
    BY <1>3, RowTypes DEF StartEvaluation, TypeOK, WorkerStates
  <2>2. b <= evidence
    BY <1>3 DEF StartEvaluation, Claimable, Forward
  <2>3. Abreast(w)'
    BY <1>3, <2>1, <2>2 DEF StartEvaluation, Abreast, Evaluating
  <2>4. \A v \in Workers \ {w} : Abreast(v)'
    BY <1>3, <2>1 DEF StartEvaluation, Abreast
  <2> QED
    BY <2>3, <2>4
<1>4. ASSUME NEW w \in Workers, ReadEvidence(w) PROVE \A v \in Workers : Abreast(v)'
  <2>1. evidence' = evidence /\ worker[w].of <= evidence
    BY <1>4 DEF ReadEvidence, Abreast
  <2>2. Abreast(w)'
    BY <1>4, <2>1, ReadMoves DEF Abreast, Evaluating
  <2>3. \A v \in Workers \ {w} : Abreast(v)'
    BY <1>4, <2>1, ReadMoves DEF Abreast
  <2> QED
    BY <2>2, <2>3
<1>5. ASSUME NEW w \in Workers, LookUp(w) PROVE \A v \in Workers : Abreast(v)'
  BY <1>5, MovesAbreast DEF LookUp, Evaluating
<1>6. ASSUME NEW w \in Workers, StartRun(w) PROVE \A v \in Workers : Abreast(v)'
  BY <1>6, MovesAbreast DEF StartRun, UniqueIndex, Evaluating
<1>7. ASSUME NEW w \in Workers, RecordInvalid(w) PROVE \A v \in Workers : Abreast(v)'
  BY <1>7, MovesAbreast DEF RecordInvalid, UniqueIndex, Evaluating
<1>8. ASSUME NEW w \in Workers, Evaluate(w) PROVE \A v \in Workers : Abreast(v)'
  BY <1>8, MovesAbreast DEF Evaluate, Evaluating
<1>9. ASSUME NEW w \in Workers, SelectMarker(w) PROVE \A v \in Workers : Abreast(v)'
  BY <1>9, MovesAbreast DEF SelectMarker, Evaluating
<1>10. ASSUME NEW w \in Workers, InsertMarker(w) PROVE \A v \in Workers : Abreast(v)'
  BY <1>10, MovesAbreast DEF InsertMarker, Evaluating
<1>11. ASSUME NEW w \in Workers, CommitRun(w) PROVE \A v \in Workers : Abreast(v)'
  BY <1>11, MovesAbreast DEF CommitRun, Evaluating
<1>12. ASSUME NEW w \in Workers, MarkFailedRun(w) PROVE \A v \in Workers : Abreast(v)'
  BY <1>12, MovesAbreast DEF MarkFailedRun, Evaluating
<1>13. ASSUME NEW w \in Workers, NEW s, worker[w].at # "idle", Settle(w, s)
       PROVE  \A v \in Workers : Abreast(v)'
  BY <1>13, MovesAbreast DEF Settle, Evaluating
<1>14. ASSUME NEW w \in Workers, Crash(w) PROVE \A v \in Workers : Abreast(v)'
  BY <1>14, MovesAbreast DEF Crash, Evaluating
<1> QED
  BY <1>1, <1>2, <1>3, <1>4, <1>5, <1>6, <1>7, <1>8, <1>9, <1>10, <1>11, <1>12, <1>13, <1>14
     DEF Next, HandlerStep, vars, ComputeBasis, EnqueueRun,
         RequeueDeadLetter, ReportSuccess, ReportFailed, ReportError

LEMMA StepForward == EvaluationInv /\ [Next]_vars => Forward'
<1> SUFFICES ASSUME EvaluationInv, [Next]_vars PROVE Forward'
  OBVIOUS
<1> TypeOK /\ Forward
  BY DEF EvaluationInv
<1>0. \A w \in Workers : Abreast(w)'
  BY StepAbreast
<1>1. CASE NewEvidence
  <2>1. evidence \in Nat /\ evidence' = evidence + 1
    BY <1>1, EvaluationRunsAssumption DEF NewEvidence, TypeOK, Evidence
  <2>2. \A c \in Clients : request[c] \in Int
    BY EvaluationRunsAssumption DEF TypeOK, Evidence, None
  <2>3. \A b \in Evidence : b \in Int
    BY DEF Evidence
  <2> QED
    BY <1>0, <1>1, <2>1, <2>2, <2>3 DEF NewEvidence, Forward
<1>2. ASSUME NEW c \in Clients, ComputeBasis(c) PROVE Forward'
  <2>1. evidence \in Int
    BY DEF TypeOK, Evidence
  <2>2. \A d \in Clients : request'[d] = request[d] \/ request'[d] = evidence
    BY <1>2 DEF ComputeBasis, TypeOK
  <2> QED
    BY <1>0, <1>2, <2>1, <2>2 DEF ComputeBasis, Forward
<1>3. ASSUME NEW c \in Clients, EnqueueRun(c) PROVE Forward'
  <2>1. evidence \in Nat
    BY EvaluationRunsAssumption DEF TypeOK, Evidence
  <2>2. \A d \in Clients : request'[d] = request[d] \/ request'[d] = None
    BY <1>3 DEF EnqueueRun, TypeOK
  <2>3. \A b \in Evidence : b # request[c] => job'[b] = job[b]
    BY <1>3 DEF EnqueueRun, TypeOK
  <2> QED
    BY <1>0, <1>3, <2>1, <2>2, <2>3 DEF EnqueueRun, Forward, None
<1>4. ASSUME NEW b \in Evidence, RequeueDeadLetter(b) PROVE Forward'
  <2>1. \A a \in Evidence : a # b => job'[a] = job[a]
    BY <1>4 DEF RequeueDeadLetter, TypeOK
  <2> QED
    BY <1>0, <1>4, <2>1 DEF RequeueDeadLetter, Forward
<1>5. ASSUME NEW w \in Workers, NEW b \in Evidence, StartEvaluation(w, b) PROVE Forward'
  <2>1. \A a \in Evidence : a # b => job'[a] = job[a]
    BY <1>5 DEF StartEvaluation, TypeOK
  <2> QED
    BY <1>0, <1>5, <2>1 DEF StartEvaluation, Claimable, Forward
<1>6. ASSUME NEW w \in Workers, NEW s, worker[w].at # "idle", Settle(w, s) PROVE Forward'
  <2>1. \A a \in Evidence : a # worker[w].of => job'[a] = job[a]
    BY <1>6 DEF Settle, TypeOK
  <2> QED
    BY <1>0, <1>6, <2>1, RowTypes DEF Settle, Forward, Abreast
<1>7. CASE UNCHANGED <<evidence, request, job>>
  BY <1>0, <1>7 DEF Forward
<1> QED
  BY <1>1, <1>2, <1>3, <1>4, <1>5, <1>6, <1>7
     DEF Next, HandlerStep, vars, ReadEvidence, LookUp, StartRun, RecordInvalid, Evaluate,
         SelectMarker, InsertMarker, CommitRun, MarkFailedRun, ReportSuccess,
         ReportFailed, ReportError, Crash

-----------------------------------------------------------------------------
(* Reports. *)

LEMMA StepSucceeded == EvaluationInv /\ [Next]_vars => SucceededHasReport'
<1> SUFFICES ASSUME EvaluationInv, [Next]_vars, NEW b \in Evidence,
                    job'[b].status = "succeeded"
             PROVE  run'[b].status = "completed"
  BY DEF SucceededHasReport
<1> TypeOK /\ SucceededHasReport
  BY DEF EvaluationInv
<1>0. run[b].status = "completed" => run'[b].status = "completed"
  BY RunWrittenOnce
<1>1. CASE UNCHANGED job
  BY <1>0, <1>1 DEF SucceededHasReport
<1>2. ASSUME NEW c \in Clients, EnqueueRun(c) PROVE run'[b].status = "completed"
  <2>1. job[b].status = "succeeded"
    BY <1>2 DEF EnqueueRun, TypeOK, JobRows
  <2> QED
    BY <1>0, <2>1 DEF SucceededHasReport
<1>3. ASSUME NEW a \in Evidence, RequeueDeadLetter(a) PROVE run'[b].status = "completed"
  <2>1. job[b].status = "succeeded"
    BY <1>3 DEF RequeueDeadLetter, TypeOK, JobRows
  <2> QED
    BY <1>0, <2>1 DEF SucceededHasReport
<1>4. ASSUME NEW w \in Workers, NEW a \in Evidence, StartEvaluation(w, a)
      PROVE  run'[b].status = "completed"
  <2>1. job[b].status = "succeeded"
    BY <1>4 DEF StartEvaluation, TypeOK, JobRows
  <2> QED
    BY <1>0, <2>1 DEF SucceededHasReport
<1>5. ASSUME NEW w \in Workers, ReportSuccess(w) PROVE run'[b].status = "completed"
  <2>1. b # worker[w].of => job[b].status = "succeeded"
    BY <1>5 DEF ReportSuccess, Settle, TypeOK
  <2>2. b = worker[w].of => run[b].status = "completed"
    BY <1>5 DEF ReportSuccess, EvaluationInv, Outcome
  <2> QED
    BY <1>0, <2>1, <2>2 DEF SucceededHasReport
<1>6. ASSUME NEW w \in Workers, NEW s \in {"queued", "dead_letter"}, Settle(w, s)
      PROVE  run'[b].status = "completed"
  <2>1. job[b].status = "succeeded"
    BY <1>6 DEF Settle, TypeOK, JobRows
  <2> QED
    BY <1>0, <2>1 DEF SucceededHasReport
<1> QED
  BY <1>1, <1>2, <1>3, <1>4, <1>5, <1>6
     DEF Next, HandlerStep, vars, NewEvidence, ComputeBasis, ReadEvidence, LookUp, StartRun,
         RecordInvalid, Evaluate, SelectMarker, InsertMarker, CommitRun, MarkFailedRun,
         ReportFailed, ReportError, AfterError, Crash

(* A run is completed by CommitRun and by nothing else. *)
LEMMA CompletedByCommit ==
  EvaluationInv /\ [Next]_vars =>
    \A b \in Evidence :
      run[b].status # "completed" /\ run'[b].status = "completed" =>
        \E w \in Workers : CommitRun(w) /\ worker[w].of = b
<1> SUFFICES ASSUME EvaluationInv, [Next]_vars, NEW b \in Evidence,
                    run[b].status # "completed", run'[b].status = "completed"
             PROVE  \E w \in Workers : CommitRun(w) /\ worker[w].of = b
  OBVIOUS
<1> TypeOK
  BY DEF EvaluationInv
<1>1. ASSUME NEW w \in Workers, CommitRun(w) PROVE worker[w].of = b
  BY <1>1, RunWrittenSets DEF CommitRun
<1>2. ASSUME NEW w \in Workers, MarkFailedRun(w) PROVE FALSE
  BY <1>2, RunWrittenSets DEF MarkFailedRun
<1>3. ASSUME NEW w \in Workers, RecordInvalid(w) PROVE FALSE
  BY <1>3, RunWrittenSets DEF RecordInvalid
<1>4. CASE UNCHANGED run
  BY <1>4
<1> QED
  BY <1>1, <1>2, <1>3, <1>4
     DEF Next, HandlerStep, vars, NewEvidence, ComputeBasis, EnqueueRun, RequeueDeadLetter,
         StartEvaluation, ReadEvidence, LookUp, StartRun, Evaluate, SelectMarker,
         InsertMarker, ReportSuccess, ReportFailed, ReportError, Settle, Crash

LEMMA StepAnnounced == EvaluationInv /\ [Next]_vars => ReportsAreAnnounced'
<1> SUFFICES ASSUME EvaluationInv, [Next]_vars PROVE ReportsAreAnnounced'
  OBVIOUS
<1> TypeOK /\ ReportsAreAnnounced
  BY DEF EvaluationInv
<1>1. ASSUME NEW w \in Workers, CommitRun(w) PROVE ReportsAreAnnounced'
  <2>1. run'[worker[w].of].status = "completed" /\ worker[w].of \in Evidence
    BY <1>1, RunWrittenSets, RowTypes DEF CommitRun
  <2> QED
    BY <1>1, <2>1 DEF CommitRun, ReportsAreAnnounced
<1>2. CASE ~\E w \in Workers : CommitRun(w)
  <2>1. \A b \in Evidence : run'[b].status = "completed" <=> run[b].status = "completed"
    BY <1>2, RunWrittenOnce, CompletedByCommit
  <2>2. UNCHANGED <<marker, notice>>
    BY <1>2 DEF Next, HandlerStep, vars, NewEvidence, ComputeBasis, EnqueueRun,
         RequeueDeadLetter, StartEvaluation, ReadEvidence, LookUp, StartRun, RecordInvalid,
         Evaluate, SelectMarker, InsertMarker, MarkFailedRun, ReportSuccess,
         ReportFailed, ReportError, Settle, Crash
  <2> QED
    BY <2>1, <2>2 DEF ReportsAreAnnounced
<1> QED
  BY <1>1, <1>2

LEMMA StepFresh == EvaluationInv /\ [Next]_vars => FreshEvidence'
<1> SUFFICES ASSUME EvaluationInv, [Next]_vars, NEW b \in Evidence,
                    run'[b].status = "completed"
             PROVE  run'[b].basis >= b
  BY DEF FreshEvidence
<1> TypeOK /\ FreshEvidence /\ Forward
  BY DEF EvaluationInv
<1>1. CASE run[b].status = "completed"
  BY <1>1, RunWrittenOnce DEF FreshEvidence
<1>2. CASE run[b].status # "completed"
  <2>1. PICK w \in Workers : CommitRun(w) /\ worker[w].of = b
    BY <1>2, CompletedByCommit
  <2>2. run'[b].basis = worker[w].basis
    BY <2>1, RunWrittenSets DEF CommitRun
  <2>3. worker[w].of <= worker[w].basis
    BY <2>1 DEF CommitRun, Forward, Abreast, Evaluating
  <2>4. worker[w].basis \in Int /\ b \in Int
    BY RowTypes DEF Evidence, None
  <2> QED
    BY <2>1, <2>2, <2>3, <2>4
<1> QED
  BY <1>1, <1>2

-----------------------------------------------------------------------------
(* The theorems. *)

LEMMA InitInv == Init => EvaluationInv
<1> SUFFICES ASSUME Init PROVE EvaluationInv
  OBVIOUS
<1>1. \A b \in Evidence : run[b].status = "absent" /\ job[b].status = "absent"
  BY DEF Init, NoRun
<1>2. \A w \in Workers : worker[w].at = "idle"
  BY DEF Init
<1>3. \A c \in Clients : request[c] <= evidence
  BY DEF Init, None
<1>4. Exclusive
  BY <1>2 DEF Exclusive, Holds
<1>5. Forward /\ \A w \in Workers : Outcome(w)
  BY <1>1, <1>2, <1>3 DEF Forward, Abreast, Outcome, Evaluating
<1>6. ReportsAreAnnounced
  BY <1>1 DEF Init, ReportsAreAnnounced
<1> QED
  BY InitType, <1>1, <1>4, <1>5, <1>6
     DEF EvaluationInv, SucceededHasReport, FreshEvidence

LEMMA StepInv == EvaluationInv /\ [Next]_vars => EvaluationInv'
<1> SUFFICES ASSUME EvaluationInv, [Next]_vars PROVE EvaluationInv'
  OBVIOUS
<1>1. TypeOK'
  BY StepType DEF EvaluationInv
<1>2. \A w \in Workers : Outcome(w)'
  BY StepOutcome
<1> QED
  BY <1>1, <1>2, StepExclusive, StepForward, StepSucceeded, StepAnnounced, StepFresh
     DEF EvaluationInv

(* The invariant holds in every reachable state. *)
THEOREM Invariant == Spec => []EvaluationInv
BY InitInv, StepInv, PTL DEF Spec

(* Rows, requests and handlers keep their types. *)
THEOREM TypeCorrect == Spec => []TypeOK
<1>1. EvaluationInv => TypeOK
  BY DEF EvaluationInv
<1> QED
  BY <1>1, Invariant, PTL

(* A committed run never changes, whoever runs its job again               *)
(* (_get_or_start_run, ix_evaluation_runs_job_id).                         *)
THEOREM RunsFinal == Spec => RunsAreFinal
<1>1. EvaluationInv /\ [Next]_vars =>
        [\A b \in Evidence : run[b].status # "absent" => run'[b] = run[b]]_vars
  BY RunWrittenOnce
<1> QED
  BY <1>1, Invariant, PTL DEF Spec, RunsAreFinal

(* A readable report stays readable (fetch_winoe_report). *)
THEOREM ReadyKept == Spec => ReadyForGood
<1>1. EvaluationInv /\ [Next]_vars => [FetchStatus = "ready" => FetchStatus' = "ready"]_vars
  <2> SUFFICES ASSUME EvaluationInv, [Next]_vars, FetchStatus = "ready"
               PROVE  FetchStatus' = "ready"
    OBVIOUS
  <2>1. PICK b \in Evidence : run[b].status = "completed"
    BY DEF FetchStatus
  <2>2. run'[b].status = "completed"
    BY <2>1, RunWrittenOnce
  <2> QED
    BY <2>2 DEF FetchStatus
<1> QED
  BY <1>1, Invariant, PTL DEF Spec, ReadyForGood

(* Marker and mail exist if and only if a report does                      *)
(* (_evaluate_and_finalize_run).                                           *)
THEOREM Announced == Spec => []ReportsAreAnnounced
<1>1. EvaluationInv => ReportsAreAnnounced
  BY DEF EvaluationInv
<1> QED
  BY <1>1, Invariant, PTL

(* One evaluation of a job at a time, and none once its run is settled     *)
(* (start_run).                                                            *)
THEOREM OneEvaluation == Spec => []OneEvaluationPerJob
<1>1. EvaluationInv => OneEvaluationPerJob
  <2> SUFFICES ASSUME EvaluationInv, NEW w \in Workers, worker[w].at = "evaluate"
               PROVE  /\ run[worker[w].of].status = "absent"
                      /\ \A v \in Workers \ {w} :
                           worker[v].at = "evaluate" => worker[v].of # worker[w].of
    BY DEF OneEvaluationPerJob
  <2>1. Holds(w, worker[w].of) /\ worker[w].of \in Evidence
    BY RowTypes DEF EvaluationInv, Holds
  <2>2. \A v \in Workers : worker[v].at = "evaluate" => Holds(v, worker[v].of)
    BY DEF Holds
  <2> QED
    BY <2>1, <2>2 DEF EvaluationInv, Exclusive
<1> QED
  BY <1>1, Invariant, PTL

(* A job that succeeded has its report, and a report rests on evidence no  *)
(* older than its job's (handle_evaluation_run,                            *)
(* process_evaluation_run_job_impl).                                       *)
THEOREM FreshAnswers == Spec => []AnswersAreFresh
<1>1. EvaluationInv => AnswersAreFresh
  BY DEF EvaluationInv, AnswersAreFresh
<1> QED
  BY <1>1, Invariant, PTL

(* Reports are announced once, made once and fresh                          *)
(* (_evaluate_and_finalize_run, handle_evaluation_run).                     *)
THEOREM ReportsTrue == Spec => []ReportsAreTrue
<1>1. ReportsAreAnnounced /\ OneEvaluationPerJob /\ AnswersAreFresh => ReportsAreTrue
  BY DEF ReportsAreTrue
<1> QED
  BY <1>1, Announced, OneEvaluation, FreshAnswers, PTL

(* Runs and readable reports stay (ensure_transition, fetch_winoe_report).  *)
THEOREM OutcomesFinal == Spec => OutcomesStay
  BY RunsFinal, ReadyKept DEF OutcomesStay
===============================================================================
