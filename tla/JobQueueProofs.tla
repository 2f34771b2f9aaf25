--------------------------- MODULE JobQueueProofs ---------------------------
(***************************************************************************)
(* Proofs about JobQueue, for every number of jobs, workers and clients    *)
(* and every value of the time constants.                                  *)
(***************************************************************************)
EXTENDS JobQueue, FiniteSetTheorems, TLAPS

(* The row edits keep rows rows. *)
LEMMA RowEdits ==
  ASSUME NEW r \in Rows
  PROVE  /\ Unlocked(r) \in Rows
         /\ \A delay \in Time : Requeued(r, delay) \in Rows
         /\ \A status \in Statuses : Finished(r, status) \in Rows
         /\ \A w \in Workers, n \in Nat : ClaimedRow(r, w, n) \in Rows
         /\ \A delay \in Time : [r EXCEPT !.nextRun = delay] \in Rows
         /\ \A delay \in Time :
              [r EXCEPT !.status = "queued", !.nextRun = delay] \in Rows
         /\ [r EXCEPT !.nextRun = Sooner(@), !.lockAge = Older(@)] \in Rows
<1>1. Unlocked(r) \in Rows
  BY DEF Unlocked, Rows, Time
<1>2. ASSUME NEW delay \in Time
      PROVE  Requeued(r, delay) \in Rows
  BY <1>1 DEF Requeued, Rows, Statuses
<1>3. ASSUME NEW status \in Statuses
      PROVE  Finished(r, status) \in Rows
  BY <1>1 DEF Finished, Rows, Time
<1>4. ASSUME NEW w \in Workers, NEW n \in Nat
      PROVE  ClaimedRow(r, w, n) \in Rows
  BY DEF ClaimedRow, Rows, Statuses, Time
<1>5. ASSUME NEW delay \in Time
      PROVE  /\ [r EXCEPT !.nextRun = delay] \in Rows
             /\ [r EXCEPT !.status = "queued", !.nextRun = delay] \in Rows
  BY DEF Rows, Statuses
<1>6. Sooner(r.nextRun) \in Time /\ Older(r.lockAge) \in Time
  BY JobQueueAssumption DEF Sooner, Older, Rows, Time, Never
<1>7. [r EXCEPT !.nextRun = Sooner(@), !.lockAge = Older(@)] \in Rows
  BY <1>6 DEF Rows
<1> QED
  BY <1>1, <1>2, <1>3, <1>4, <1>5, <1>7

(* An ORM flush changes no row into something else either. *)
LEMMA FlushType ==
  ASSUME NEW r \in Rows, NEW seen \in Rows, NEW new \in Rows
  PROVE  OrmFlush(r, seen, new) \in Rows
BY DEF Rows, OrmFlush

(* The backoff of an error is a number of ticks. *)
LEMMA RetryDelaysType ==
  ASSUME NEW attempt \in Nat, NEW age \in Nat,
         NEW delay \in RetryDelays(attempt)
  PROVE  DelayLeft(delay, age) \in Time
<1>1. \A base, max \in Nat : compute_backoff_seconds(attempt, base, max) \in Nat
  BY DEF compute_backoff_seconds
<1>2. Max2(BaseBackoff, ProviderBase) \in Nat /\ Max2(MaxBackoff, ProviderMax) \in Nat
  BY JobQueueAssumption DEF Max2
<1>3. delay \in Nat
  BY <1>1, <1>2, JobQueueAssumption DEF RetryDelays
<1> QED
  BY <1>3 DEF DelayLeft, Time, Never

LEMMA Constants ==
  /\ AbsentRow \in Rows
  /\ IdleWorker \in WorkerRecords /\ IdleWorker.pc = "idle" /\ IdleWorker.age = 0
  /\ IdleClient \in ClientRecords /\ IdleClient.op = "none"
BY DEF AbsentRow, Rows, IdleWorker, WorkerRecords, WorkerStates, IdleClient,
       ClientRecords, ClientOps, Statuses, Time, Never

-----------------------------------------------------------------------------
(* Every step keeps the types of the tables and of the local states. *)
LEMMA TypeStep ==
  ASSUME TypeOK, [Next]_vars
  PROVE  TypeOK'
<1> USE DEF TypeOK
<1>1. ASSUME NEW w \in Workers, SelectCandidate(w)
      PROVE  TypeOK'
  BY <1>1 DEF SelectCandidate, WorkerRecords, WorkerStates, Rows
<1>2. ASSUME NEW w \in Workers, ClaimUpdate(w)
      PROVE  TypeOK'
  <2> DEFINE j == worker[w].job
             n == worker[w].claim + 1
  <2>1. j \in Jobs /\ n \in Nat
    BY <1>2 DEF ClaimUpdate, WorkerRecords
  <2>2. ClaimedRow(row[j], w, n) \in Rows
    BY <2>1, RowEdits
  <2>3. row' \in [Jobs -> Rows]
    BY <1>2, <2>2 DEF ClaimUpdate
  <2>4. /\ worker' \in [Workers -> WorkerRecords]
        /\ \A v \in Workers :
             /\ worker'[v].pc # "idle" => worker'[v].job \in Jobs
             /\ worker'[v].pc \in {"idle", "selected"} => worker'[v].age = 0
    BY <1>2, <2>1, Constants DEF ClaimUpdate, WorkerRecords, WorkerStates
  <2> QED
    BY <1>2, <2>3, <2>4 DEF ClaimUpdate
<1>3. ASSUME NEW w \in Workers, ReadClaimed(w)
      PROVE  TypeOK'
  BY ZenonT(60), <1>3 DEF ReadClaimed, WorkerRecords, WorkerStates, Rows
<1>4. ASSUME NEW w \in Workers, MarkSucceeded(w)
      PROVE  TypeOK'
  BY <1>4, RowEdits, Constants DEF MarkSucceeded, Statuses
<1>5. ASSUME NEW w \in Workers, DeadLetterPermanent(w)
      PROVE  TypeOK'
  BY <1>5, RowEdits, Constants DEF DeadLetterPermanent, Statuses
<1>6. ASSUME NEW w \in Workers, RetryOrDeadLetter(w)
      PROVE  TypeOK'
  <2>1. /\ worker[w].job \in Jobs /\ worker[w].attempt \in Nat
        /\ worker[w].age \in Nat /\ worker[w].claim \in Nat
    BY <1>6 DEF RetryOrDeadLetter, WorkerRecords
  <2>2. /\ worker' \in [Workers -> WorkerRecords]
        /\ \A v \in Workers :
             /\ worker'[v].pc # "idle" => worker'[v].job \in Jobs
             /\ worker'[v].pc \in {"idle", "selected"} => worker'[v].age = 0
    BY <1>6, Constants DEF RetryOrDeadLetter
  <2>3. /\ retried' \in [Jobs -> SUBSET Nat]
        /\ retries' \in [Jobs -> Nat]
    BY <1>6, <2>1 DEF RetryOrDeadLetter
  <2>4. row' \in [Jobs -> Rows]
    <3> DEFINE r == row[worker[w].job]
    <3>1. \A delay \in RetryDelays(worker[w].attempt) :
            Requeued(r, DelayLeft(delay, worker[w].age)) \in Rows
      BY <2>1, RowEdits, RetryDelaysType
    <3>2. Finished(r, "dead_letter") \in Rows
      BY <2>1, RowEdits DEF Statuses
    <3> QED
      BY <1>6, <3>1, <3>2 DEF RetryOrDeadLetter
  <2> QED
    BY <1>6, <2>2, <2>3, <2>4 DEF RetryOrDeadLetter
<1>7. ASSUME NEW w \in Workers, HandlerReschedule(w)
      PROVE  TypeOK'
  <2>1. worker[w].job \in Jobs
    BY <1>7 DEF HandlerReschedule, WorkerRecords
  <2>2. row' \in [Jobs -> Rows]
    <3>1. \A delay \in Delays : Requeued(row[worker[w].job], delay) \in Rows
      <4> Delays \subseteq Time
        BY JobQueueAssumption DEF Time
      <4> QED
        BY <2>1, RowEdits
    <3> QED
      BY <1>7, <3>1 DEF HandlerReschedule
  <2>3. /\ worker' \in [Workers -> WorkerRecords]
        /\ \A v \in Workers :
             /\ worker'[v].pc # "idle" => worker'[v].job \in Jobs
             /\ worker'[v].pc \in {"idle", "selected"} => worker'[v].age = 0
    BY <1>7, <2>1 DEF HandlerReschedule, WorkerRecords, WorkerStates
  <2>4. budget' \in Nat
    BY <1>7 DEF HandlerReschedule, SpendBudget
  <2>5. disturbed' \in [Jobs -> BOOLEAN]
    BY <1>7, <2>1 DEF HandlerReschedule, Disturb, Held
  <2> QED
    BY <1>7, <2>2, <2>3, <2>4, <2>5 DEF HandlerReschedule
<1>8. ASSUME NEW w \in Workers, VerifyRescheduled(w)
      PROVE  TypeOK'
  BY <1>8, Constants DEF VerifyRescheduled, WorkerRecords, WorkerStates
<1>9. ASSUME NEW w \in Workers, Crash(w)
      PROVE  TypeOK'
  BY <1>9, Constants DEF Crash, SpendBudget
<1>10. ASSUME NEW j \in Jobs, Enqueue(j)
       PROVE  TypeOK'
  <2>1. \A delay \in Delays :
          [row[j] EXCEPT !.status = "queued", !.nextRun = delay] \in Rows
    <3> Delays \subseteq Time
      BY JobQueueAssumption DEF Time
    <3> QED
      BY RowEdits
  <2> QED
    BY <1>10, <2>1 DEF Enqueue
<1>11. ASSUME NEW c \in Clients, NEW j \in Jobs,
              LoadMutable(c, j) \/ LoadPending(c, j) \/ LoadDeadLetter(c, j)
       PROVE  TypeOK'
  BY <1>11 DEF LoadMutable, LoadPending, LoadDeadLetter, Load, SpendBudget,
               ClientRecords, ClientOps
<1>12. ASSUME NEW c \in Clients, UpdateExisting(c)
       PROVE  TypeOK'
  <2>1. client[c].job \in Jobs
    BY <1>12 DEF UpdateExisting
  <2>2. \A delay \in Delays :
          [row[client[c].job] EXCEPT !.nextRun = delay] \in Rows
    <3> Delays \subseteq Time
      BY JobQueueAssumption DEF Time
    <3> QED
      BY <2>1, RowEdits
  <2> QED
    BY <1>12, <2>2, Constants DEF UpdateExisting
<1>13. ASSUME NEW c \in Clients, CancelTrialJob(c)
       PROVE  TypeOK'
  <2>1. client[c].job \in Jobs /\ client[c].seen \in Rows
    BY <1>13 DEF CancelTrialJob, ClientRecords
  <2> QED
    BY <1>13, <2>1, RowEdits, FlushType, Constants
    DEF CancelTrialJob, Statuses, Disturb, Held
<1>14. ASSUME NEW c \in Clients, RequeueDeadLetter(c)
       PROVE  TypeOK'
  <2>1. client[c].job \in Jobs /\ client[c].seen \in Rows /\ 0 \in Time
    BY <1>14 DEF RequeueDeadLetter, ClientRecords, Time
  <2> QED
    BY <1>14, <2>1, RowEdits, FlushType, Constants
    DEF RequeueDeadLetter, Disturb, Held
<1>15. ASSUME NEW j \in Jobs, NEW force \in BOOLEAN, AdminRequeue(j, force)
       PROVE  TypeOK'
  <2>1. Requeued(row[j], 0) \in Rows
    <3> 0 \in Time
      BY DEF Time
    <3> QED
      BY RowEdits
  <2> QED
    BY <1>15, <2>1 DEF AdminRequeue, SpendBudget, Disturb, Held
<1>16. ASSUME Tick
       PROVE  TypeOK'
  <2>1. row' \in [Jobs -> Rows]
    BY <1>16, RowEdits DEF Tick
  <2>2. \A w \in Workers : Older(worker[w].age) \in Nat
    BY JobQueueAssumption DEF Older, WorkerRecords, Never
  <2>3. /\ worker' \in [Workers -> WorkerRecords]
        /\ \A v \in Workers :
             /\ worker'[v].pc # "idle" => worker'[v].job \in Jobs
             /\ worker'[v].pc \in {"idle", "selected"} => worker'[v].age = 0
    <3>1. \A v \in Workers :
            [worker[v] EXCEPT !.age = Older(@)] \in WorkerRecords
      BY <2>2 DEF WorkerRecords
    <3>2. worker' \in [Workers -> WorkerRecords]
      BY <1>16, <3>1 DEF Tick
    <3>3. \A v \in Workers :
            /\ worker'[v].pc = worker[v].pc
            /\ worker'[v].job = worker[v].job
            /\ ~Holding(v) => worker'[v] = worker[v]
      BY <1>16 DEF Tick, WorkerRecords
    <3> QED
      BY <3>2, <3>3 DEF Holding
  <2>4. disturbed' \in [Jobs -> BOOLEAN]
    BY <1>16 DEF Tick
  <2> QED
    BY <1>16, <2>1, <2>3, <2>4 DEF Tick
<1>17. CASE UNCHANGED vars
  BY <1>17 DEF vars
<1> QED
  BY <1>1, <1>2, <1>3, <1>4, <1>5, <1>6, <1>7, <1>8, <1>9, <1>10, <1>11,
     <1>12, <1>13, <1>14, <1>15, <1>16, <1>17
  DEF Next, Claiming, Settling, Flushing

(* The jobs table, the workers and the sessions keep their types. *)
THEOREM TypeCorrect == Spec => []TypeOK
<1>1. Init => TypeOK
  BY Constants, JobQueueAssumption DEF Init, TypeOK
<1>2. TypeOK /\ [Next]_vars => TypeOK'
  BY TypeStep
<1> QED
  BY <1>1, <1>2, PTL DEF Spec

-----------------------------------------------------------------------------
(* Claims.  The invariant that makes the claim protocol and the retry      *)
(* budget inductive: a held claim is one that was issued, the number a     *)
(* worker read back is not older than its claim, and the claims whose      *)
(* errors re-queued the job are distinct, already issued, and settled.     *)
ClaimIssued ==
  \A w \in Workers : Holding(w) =>
    /\ worker[w].claim \in 1..row[worker[w].job].attempt
    /\ worker[w].pc # "claimed" => worker[w].claim <= worker[w].attempt

RetriedOnce ==
  \A j \in Jobs :
    /\ retried[j] \subseteq 1..(MaxAttempts - 1)
    /\ \A n \in retried[j] : n <= row[j].attempt
    /\ \A w \in Workers :
         Holding(w) /\ worker[w].job = j => worker[w].claim \notin retried[j]
    /\ retries[j] = Cardinality(retried[j])

ClaimInv == TypeOK /\ ClaimIssued /\ ClaimsUnique /\ RetriedOnce

(* A step that issues no claim and retries nothing: attempt numbers stay,  *)
(* and who still holds a claim held it before.                             *)
Quiet ==
  /\ \A j \in Jobs : row'[j].attempt = row[j].attempt
  /\ \A w \in Workers : Holding(w)' =>
       /\ Holding(w)
       /\ worker'[w].job = worker[w].job
       /\ worker'[w].claim = worker[w].claim
       /\ \/ worker'[w].pc = "claimed"
          \/ worker[w].pc # "claimed" /\ worker'[w].attempt = worker[w].attempt
          \/ worker'[w].attempt = row[worker[w].job].attempt
  /\ UNCHANGED <<retried, retries>>

(* A successful UPDATE of claim_next_runnable. *)
Claims(w) ==
  LET j == worker[w].job
      n == row[j].attempt + 1
  IN
  /\ worker[w].pc = "selected"
  /\ runnable_filter(row[j])
  /\ row' = [row EXCEPT ![j] = ClaimedRow(@, w, n)]
  /\ worker' = [worker EXCEPT ![w].pc = "claimed", ![w].claim = n]
  /\ UNCHANGED <<client, budget, retried, retries, disturbed>>

(* The retry branch of retry_or_dead_letter. *)
Retries(w) ==
  LET j == worker[w].job
      me == worker[w]
  IN
  /\ me.pc \in {"running", "raised"}
  /\ MayRetry(me.attempt)
  /\ \E delay \in RetryDelays(me.attempt) :
       row' = [row EXCEPT ![j] = Requeued(@, DelayLeft(delay, me.age))]
  /\ retried' = [retried EXCEPT ![j] = @ \cup {me.claim}]
  /\ retries' = [retries EXCEPT ![j] = @ + 1]
  /\ worker' = [worker EXCEPT ![w] = IdleWorker]

(* No edit of a row other than the claim's touches its attempt number. *)
LEMMA AttemptKept ==
  ASSUME NEW r \in Rows
  PROVE  /\ \A delay : Requeued(r, delay).attempt = r.attempt
         /\ \A status : Finished(r, status).attempt = r.attempt
         /\ \A delay : [r EXCEPT !.nextRun = delay].attempt = r.attempt
         /\ [r EXCEPT !.nextRun = Sooner(@), !.lockAge = Older(@)].attempt
            = r.attempt
BY DEF Rows, Requeued, Finished, Unlocked

LEMMA FlushKeepsAttempt ==
  ASSUME NEW r \in Rows, NEW seen \in Rows, NEW new \in Rows,
         new.attempt = seen.attempt
  PROVE  OrmFlush(r, seen, new).attempt = r.attempt
BY DEF Rows, OrmFlush

(* Every step claims, retries or is quiet. *)
LEMMA StepKinds ==
  ASSUME TypeOK, [Next]_vars
  PROVE  Quiet \/ \E w \in Workers : Claims(w) \/ Retries(w)
<1> USE DEF TypeOK
<1>1. ASSUME NEW w \in Workers, SelectCandidate(w)
      PROVE  Quiet
  BY <1>1 DEF SelectCandidate, Quiet, Holding
<1>2. ASSUME NEW w \in Workers, ClaimUpdate(w)
      PROVE  Quiet \/ Claims(w)
  <2> DEFINE j == worker[w].job
  <2>1. j \in Jobs
    BY <1>2 DEF ClaimUpdate
  <2>2. CASE row[j].attempt = worker[w].claim /\ runnable_filter(row[j])
    <3>1. worker' = [worker EXCEPT ![w].pc = "claimed",
                                   ![w].claim = row[j].attempt + 1]
      BY <1>2, <2>2 DEF ClaimUpdate, WorkerRecords
    <3> QED
      BY <1>2, <2>2, <3>1 DEF ClaimUpdate, Claims
  <2>3. CASE ~(row[j].attempt = worker[w].claim /\ runnable_filter(row[j]))
    BY <1>2, <2>3, Constants DEF ClaimUpdate, Quiet, Holding
  <2> QED
    BY <2>2, <2>3
<1>3. ASSUME NEW w \in Workers, ReadClaimed(w)
      PROVE  Quiet
  BY <1>3 DEF ReadClaimed, Quiet, Holding, WorkerRecords
<1>4. ASSUME NEW w \in Workers, MarkSucceeded(w) \/ DeadLetterPermanent(w)
      PROVE  Quiet
  <2>1. \A j \in Jobs : row'[j].attempt = row[j].attempt
    BY <1>4, AttemptKept DEF MarkSucceeded, DeadLetterPermanent
  <2> QED
    BY <1>4, <2>1, Constants
    DEF MarkSucceeded, DeadLetterPermanent, Quiet, Holding
<1>5. ASSUME NEW w \in Workers, RetryOrDeadLetter(w)
      PROVE  Quiet \/ Retries(w)
  <2>1. CASE MayRetry(worker[w].attempt)
    BY <1>5, <2>1 DEF RetryOrDeadLetter, Retries
  <2>2. CASE ~MayRetry(worker[w].attempt)
    <3>1. \A j \in Jobs : row'[j].attempt = row[j].attempt
      BY <1>5, <2>2, AttemptKept DEF RetryOrDeadLetter
    <3> QED
      BY <1>5, <2>2, <3>1, Constants DEF RetryOrDeadLetter, Quiet, Holding
  <2> QED
    BY <2>1, <2>2
<1>6. ASSUME NEW w \in Workers, HandlerReschedule(w)
      PROVE  Quiet
  <2>1. \A j \in Jobs : row'[j].attempt = row[j].attempt
    BY <1>6, AttemptKept DEF HandlerReschedule
  <2> QED
    BY <1>6, <2>1 DEF HandlerReschedule, Quiet, Holding, WorkerRecords
<1>7. ASSUME NEW w \in Workers, VerifyRescheduled(w) \/ Crash(w)
      PROVE  Quiet
  BY <1>7, Constants
  DEF VerifyRescheduled, Crash, Quiet, Holding, WorkerRecords
<1>8. ASSUME NEW j \in Jobs, Enqueue(j)
      PROVE  Quiet
  BY <1>8 DEF Enqueue, Quiet, Holding, Rows
<1>9. ASSUME NEW c \in Clients, NEW j \in Jobs,
             LoadMutable(c, j) \/ LoadPending(c, j) \/ LoadDeadLetter(c, j)
      PROVE  Quiet
  BY <1>9 DEF LoadMutable, LoadPending, LoadDeadLetter, Load, Quiet, Holding
<1>10. ASSUME NEW c \in Clients, UpdateExisting(c)
       PROVE  Quiet
  <2>1. \A j \in Jobs : row'[j].attempt = row[j].attempt
    BY <1>10, AttemptKept DEF UpdateExisting
  <2> QED
    BY <1>10, <2>1 DEF UpdateExisting, Quiet, Holding
<1>11. ASSUME NEW c \in Clients, CancelTrialJob(c) \/ RequeueDeadLetter(c)
       PROVE  Quiet
  <2> DEFINE seen == client[c].seen
  <2>1. client[c].job \in Jobs /\ seen \in Rows
    BY <1>11 DEF CancelTrialJob, RequeueDeadLetter, ClientRecords
  <2>2. /\ Finished(seen, "dead_letter") \in Rows
        /\ Requeued(seen, 0) \in Rows
    BY <2>1, RowEdits DEF Statuses, Time
  <2>3. /\ Finished(seen, "dead_letter").attempt = seen.attempt
        /\ Requeued(seen, 0).attempt = seen.attempt
    BY <2>1, AttemptKept
  <2>4. \A j \in Jobs :
          /\ OrmFlush(row[j], seen, Finished(seen, "dead_letter")).attempt
             = row[j].attempt
          /\ OrmFlush(row[j], seen, Requeued(seen, 0)).attempt = row[j].attempt
    BY <2>1, <2>2, <2>3, FlushKeepsAttempt
  <2>5. \A j \in Jobs : row'[j].attempt = row[j].attempt
    BY <1>11, <2>1, <2>4 DEF CancelTrialJob, RequeueDeadLetter
  <2> QED
    BY <1>11, <2>5 DEF CancelTrialJob, RequeueDeadLetter, Quiet, Holding
<1>12. ASSUME NEW j \in Jobs, NEW force \in BOOLEAN, AdminRequeue(j, force)
       PROVE  Quiet
  <2>1. \A k \in Jobs : row'[k].attempt = row[k].attempt
    BY <1>12, AttemptKept DEF AdminRequeue
  <2> QED
    BY <1>12, <2>1 DEF AdminRequeue, Quiet, Holding
<1>13. ASSUME Tick
       PROVE  Quiet
  <2>1. \A j \in Jobs : row'[j].attempt = row[j].attempt
    BY <1>13, AttemptKept DEF Tick
  <2> QED
    <3>1. \A w \in Workers :
            /\ worker'[w].pc = worker[w].pc
            /\ worker'[w].job = worker[w].job
            /\ worker'[w].claim = worker[w].claim
            /\ worker'[w].attempt = worker[w].attempt
      BY <1>13 DEF Tick, WorkerRecords
    <3>2. \A w \in Workers : worker[w].pc # "claimed"
      BY <1>13 DEF Tick
    <3> QED
      BY <1>13, <2>1, <3>1, <3>2 DEF Tick, Quiet, Holding
<1>14. CASE UNCHANGED vars
  BY <1>14 DEF vars, Quiet, Holding
<1> QED
  BY <1>1, <1>2, <1>3, <1>4, <1>5, <1>6, <1>7, <1>8, <1>9, <1>10, <1>11,
     <1>12, <1>13, <1>14
  DEF Next, Claiming, Settling, Flushing

LEMMA ClaimInvQuiet ==
  ASSUME ClaimInv, TypeOK', Quiet
  PROVE  ClaimInv'
<1> USE DEF ClaimInv, Quiet
<1>1. \A w \in Workers : Holding(w)' =>
        Holding(w) /\ worker[w].job \in Jobs /\ worker'[w].job = worker[w].job
  BY DEF TypeOK, Holding
<1>2. ClaimIssued'
  <2> SUFFICES ASSUME NEW w \in Workers, Holding(w)'
               PROVE  /\ worker'[w].claim \in 1..row'[worker'[w].job].attempt
                      /\ worker'[w].pc # "claimed" =>
                           worker'[w].claim <= worker'[w].attempt
    BY DEF ClaimIssued
  <2> QED
    BY <1>1 DEF ClaimIssued
<1>3. ClaimsUnique'
  BY <1>1 DEF ClaimsUnique
<1>4. RetriedOnce'
  BY <1>1 DEF RetriedOnce, TypeOK
<1> QED
  BY <1>2, <1>3, <1>4

LEMMA ClaimInvClaims ==
  ASSUME ClaimInv, TypeOK', NEW w \in Workers, Claims(w)
  PROVE  ClaimInv'
<1> DEFINE j == worker[w].job
           n == row[j].attempt + 1
<1>1. j \in Jobs /\ n \in Nat /\ n > row[j].attempt /\ n >= 1
  BY DEF ClaimInv, TypeOK, Claims, Rows
<1>2. /\ row'[j].attempt = n
      /\ \A k \in Jobs : k # j => row'[k].attempt = row[k].attempt
  BY <1>1 DEF ClaimInv, TypeOK, Claims, ClaimedRow, Rows
<1>3. /\ worker'[w].pc = "claimed" /\ worker'[w].job = j /\ worker'[w].claim = n
      /\ \A v \in Workers : v # w => worker'[v] = worker[v]
  BY DEF ClaimInv, TypeOK, Claims, WorkerRecords
<1>4. \A v \in Workers : Holding(v) => worker[v].job \in Jobs
  BY DEF ClaimInv, TypeOK, Holding
<1>5. ClaimIssued'
  <2> SUFFICES ASSUME NEW v \in Workers, Holding(v)'
               PROVE  /\ worker'[v].claim \in 1..row'[worker'[v].job].attempt
                      /\ worker'[v].pc # "claimed" =>
                           worker'[v].claim <= worker'[v].attempt
    BY DEF ClaimIssued
  <2>1. CASE v = w
    BY <1>1, <1>2, <1>3, <2>1
  <2>2. CASE v # w
    <3>1. Holding(v) /\ worker'[v] = worker[v] /\ worker[v].job \in Jobs
      BY <1>3, <1>4, <2>2 DEF Holding
    <3>2. row[worker[v].job].attempt <= row'[worker[v].job].attempt
      <4> row[worker[v].job].attempt \in Nat
        BY <3>1 DEF ClaimInv, TypeOK, Rows
      <4> QED
        BY <1>1, <1>2, <3>1
    <3> QED
      BY <3>1, <3>2 DEF ClaimInv, ClaimIssued, TypeOK, Rows, WorkerRecords
  <2> QED
    BY <2>1, <2>2
<1>6. ClaimsUnique'
  <2>1. \A v \in Workers :
          v # w /\ Holding(v) /\ worker[v].job = j => worker[v].claim < n
    BY <1>1 DEF ClaimInv, ClaimIssued, TypeOK, Rows, WorkerRecords
  <2>2. \A v \in Workers : v # w /\ Holding(v)' => Holding(v)
    BY <1>3 DEF Holding
  <2>3. \A v \in Workers : v # w => worker[v].claim \in Nat
    BY DEF ClaimInv, TypeOK, WorkerRecords
  <2> QED
    BY <1>1, <1>3, <2>1, <2>2, <2>3 DEF ClaimInv, ClaimsUnique
<1>7. RetriedOnce'
  <2>1. retried' = retried /\ retries' = retries
    BY DEF Claims
  <2> SUFFICES ASSUME NEW k \in Jobs
               PROVE  /\ \A m \in retried[k] : m <= row'[k].attempt
                      /\ \A v \in Workers :
                           Holding(v)' /\ worker'[v].job = k
                             => worker'[v].claim \notin retried[k]
    BY <2>1 DEF ClaimInv, RetriedOnce
  <2>2. \A m \in retried[k] : m \in Nat /\ m <= row[k].attempt
    BY DEF ClaimInv, RetriedOnce, TypeOK
  <2>3. row[k].attempt \in Nat /\ row[k].attempt <= row'[k].attempt
    BY <1>1, <1>2 DEF ClaimInv, TypeOK, Rows
  <2>4. \A m \in retried[k] : m <= row'[k].attempt
    BY <2>2, <2>3, <1>1, <1>2
  <2>5. ASSUME NEW v \in Workers, Holding(v)', worker'[v].job = k
        PROVE  worker'[v].claim \notin retried[k]
    <3>1. CASE v = w
      <4>1. k = j /\ worker'[v].claim = n
        BY <1>3, <2>5, <3>1
      <4>2. \A m \in retried[k] : m < n
        BY <1>1, <2>2, <2>3, <4>1
      <4> QED
        BY <1>1, <4>1, <4>2
    <3>2. CASE v # w
      BY <1>3, <2>5, <3>2 DEF Holding, ClaimInv, RetriedOnce
    <3> QED
      BY <3>1, <3>2
  <2> QED
    BY <2>4, <2>5
<1> QED
  BY <1>5, <1>6, <1>7 DEF ClaimInv

LEMMA ClaimInvRetries ==
  ASSUME ClaimInv, TypeOK', NEW w \in Workers, Retries(w)
  PROVE  ClaimInv'
<1> DEFINE j == worker[w].job
           n == worker[w].claim
<1>1. j \in Jobs /\ Holding(w) /\ worker[w].pc # "claimed"
  BY DEF ClaimInv, TypeOK, Retries, Holding
<1>2. \A k \in Jobs : row'[k].attempt = row[k].attempt
  BY <1>1, AttemptKept DEF ClaimInv, TypeOK, Retries
<1>3. n \in 1..(MaxAttempts - 1) /\ n <= row[j].attempt /\ n \notin retried[j]
  <2>1. n \in 1..row[j].attempt /\ n <= worker[w].attempt /\ n \notin retried[j]
    BY <1>1 DEF ClaimInv, ClaimIssued, RetriedOnce
  <2>2. worker[w].attempt < MaxAttempts /\ worker[w].attempt \in Nat
    BY DEF Retries, MayRetry, ClaimInv, TypeOK, WorkerRecords
  <2> QED
    BY <2>1, <2>2, JobQueueAssumption, <1>1 DEF ClaimInv, TypeOK, Rows
<1>4. \A v \in Workers : Holding(v)' => v # w /\ Holding(v) /\ worker'[v] = worker[v]
  BY Constants DEF ClaimInv, TypeOK, Retries, Holding
<1>5. ClaimIssued'
  BY <1>2, <1>4 DEF ClaimInv, ClaimIssued, TypeOK, Holding
<1>6. ClaimsUnique'
  BY <1>4 DEF ClaimInv, ClaimsUnique
<1>7. RetriedOnce'
  <2> SUFFICES ASSUME NEW k \in Jobs
               PROVE  /\ retried'[k] \subseteq 1..(MaxAttempts - 1)
                      /\ \A m \in retried'[k] : m <= row'[k].attempt
                      /\ \A v \in Workers :
                           Holding(v)' /\ worker'[v].job = k
                             => worker'[v].claim \notin retried'[k]
                      /\ retries'[k] = Cardinality(retried'[k])
    BY DEF RetriedOnce
  <2>1. CASE k # j
    <3>1. retried'[k] = retried[k] /\ retries'[k] = retries[k]
      BY <1>1, <2>1 DEF ClaimInv, TypeOK, Retries
    <3> QED
      BY <1>2, <1>4, <3>1 DEF ClaimInv, RetriedOnce
  <2>2. CASE k = j
    <3>1. retried'[j] = retried[j] \cup {n} /\ retries'[j] = retries[j] + 1
      BY <1>1 DEF ClaimInv, TypeOK, Retries
    <3>2. \A v \in Workers :
            Holding(v)' /\ worker'[v].job = j => worker'[v].claim # n
      BY <1>1, <1>4 DEF ClaimInv, ClaimsUnique
    <3>3. IsFiniteSet(retried[j])
      <4>1. IsFiniteSet(1..(MaxAttempts - 1))
        BY FS_Interval, JobQueueAssumption
      <4> QED
        BY <1>1, <4>1, FS_Subset DEF ClaimInv, RetriedOnce
    <3>4. Cardinality(retried[j] \cup {n}) = Cardinality(retried[j]) + 1
      BY <1>3, <3>3, FS_AddElement
    <3> QED
      BY <1>1, <1>2, <1>3, <1>4, <2>2, <3>1, <3>2, <3>4
      DEF ClaimInv, RetriedOnce
  <2> QED
    BY <2>1, <2>2
<1> QED
  BY <1>5, <1>6, <1>7 DEF ClaimInv

THEOREM ClaimsInvariant == Spec => []ClaimInv
<1>1. Init => ClaimInv
  <2> SUFFICES ASSUME Init
               PROVE  ClaimInv
    OBVIOUS
  <2>1. TypeOK
    BY Constants, JobQueueAssumption DEF Init, TypeOK
  <2>2. \A w \in Workers : ~Holding(w)
    BY Constants DEF Init, Holding
  <2>3. RetriedOnce
    BY <2>2, FS_EmptySet DEF Init, RetriedOnce
  <2> QED
    BY <2>1, <2>2, <2>3 DEF ClaimInv, ClaimIssued, ClaimsUnique
<1>2. ClaimInv /\ [Next]_vars => ClaimInv'
  BY TypeStep, StepKinds, ClaimInvQuiet, ClaimInvClaims, ClaimInvRetries
  DEF ClaimInv
<1> QED
  BY <1>1, <1>2, PTL DEF Spec

(* No two workers ever hold the same claim of a job. *)
THEOREM ClaimsAreUnique == Spec => []ClaimsUnique
<1>1. ClaimInv => ClaimsUnique
  BY DEF ClaimInv
<1> QED
  BY <1>1, ClaimsInvariant, PTL

(* Errors re-queue a job fewer than max_attempts times, ever. *)
THEOREM RetriesAreBounded == Spec => []RetryBudget
<1>1. ClaimInv => RetryBudget
  <2> SUFFICES ASSUME ClaimInv, NEW j \in Jobs
               PROVE  retries[j] <= MaxAttempts - 1
    BY DEF RetryBudget
  <2>1. IsFiniteSet(1..(MaxAttempts - 1)) /\
        Cardinality(1..(MaxAttempts - 1)) = MaxAttempts - 1
    BY FS_Interval, JobQueueAssumption
  <2>2. retried[j] \subseteq 1..(MaxAttempts - 1)
        /\ retries[j] = Cardinality(retried[j])
    BY DEF ClaimInv, RetriedOnce
  <2>3. Cardinality(retried[j]) <= Cardinality(1..(MaxAttempts - 1))
    BY <2>1, <2>2, FS_Subset
  <2> QED
    BY <2>1, <2>2, <2>3
<1> QED
  BY <1>1, ClaimsInvariant, PTL

-----------------------------------------------------------------------------
(* Ownership.  While nothing has disturbed its job, a holder is executing  *)
(* within its lease, and the row is locked for it.  The age is what makes  *)
(* this inductive: a row locked for less than the lease is not runnable,   *)
(* so nobody else can claim it.                                            *)
Owns(w) ==
  LET r == row[worker[w].job] IN
  Holding(w) /\ ~disturbed[worker[w].job] =>
    /\ Executing(w) /\ worker[w].age < Lease
    /\ r.status = "running" /\ r.lockedBy = w
    /\ r.attempt = worker[w].claim /\ r.lockAge = worker[w].age

OwnInv == TypeOK /\ \A w \in Workers : Owns(w)

(* Two holders of an undisturbed job are one. *)
LEMMA OneOwner ==
  ASSUME OwnInv, NEW v \in Workers, NEW w \in Workers,
         Holding(v), Holding(w), worker[v].job = worker[w].job,
         ~disturbed[worker[v].job]
  PROVE  v = w
BY DEF OwnInv, Owns

(* A worker that stops holding, or whose writes hit only its own job,      *)
(* takes nobody else's row.                                                *)
LEMMA OwnsOthers ==
  ASSUME OwnInv, NEW v \in Workers, Holding(v),
         \A w \in Workers : w # v => worker'[w] = worker[w],
         \A j \in Jobs : j # worker[v].job => row'[j] = row[j],
         \A j \in Jobs : disturbed[j] => disturbed'[j],
         \A j \in Jobs : j # worker[v].job => disturbed'[j] = disturbed[j],
         Owns(v)'
  PROVE  \A w \in Workers : Owns(w)'
<1> SUFFICES ASSUME NEW w \in Workers, w # v
             PROVE  Owns(w)'
  OBVIOUS
<1>1. CASE ~Holding(w)
  BY <1>1 DEF Owns, Holding
<1>2. CASE Holding(w) /\ disturbed[worker[w].job]
  BY <1>2 DEF Owns, OwnInv, TypeOK, Holding
<1>3. CASE Holding(w) /\ ~disturbed[worker[w].job]
  <2>1. worker[w].job # worker[v].job
    BY <1>3, OneOwner
  <2> QED
    BY <1>3, <2>1 DEF Owns, OwnInv, TypeOK, Holding, Executing
<1> QED
  BY <1>1, <1>2, <1>3

LEMMA OwnStep ==
  ASSUME OwnInv, TypeOK', [Next]_vars
  PROVE  OwnInv'
<1> SUFFICES \A w \in Workers : Owns(w)'
  BY DEF OwnInv
<1> TypeOK /\ \A w \in Workers : Owns(w)
  BY DEF OwnInv
<1>1. ASSUME NEW v \in Workers, SelectCandidate(v)
      PROVE  \A w \in Workers : Owns(w)'
  <2>1. \A w \in Workers : w # v => worker'[w] = worker[w]
    BY <1>1 DEF SelectCandidate, TypeOK
  <2>2. ~Holding(v)'
    BY <1>1 DEF SelectCandidate, TypeOK, Holding
  <2> QED
    BY <1>1, <2>1, <2>2 DEF SelectCandidate, Owns, Holding, Executing
<1>2. ASSUME NEW v \in Workers, ClaimUpdate(v)
      PROVE  \A w \in Workers : Owns(w)'
  <2> DEFINE k == worker[v].job
  <2>0. k \in Jobs /\ ~Holding(v) /\ disturbed' = disturbed
    BY <1>2 DEF ClaimUpdate, TypeOK, Holding
  <2>1. CASE ~(row[k].attempt = worker[v].claim /\ runnable_filter(row[k]))
    <3>1. row' = row /\ worker' = [worker EXCEPT ![v] = IdleWorker]
      BY <1>2, <2>1 DEF ClaimUpdate
    <3> QED
      BY <2>0, <3>1, Constants DEF TypeOK, Owns, Holding, Executing
  <2>2. CASE row[k].attempt = worker[v].claim /\ runnable_filter(row[k])
    <3>1. /\ row' = [row EXCEPT ![k] = ClaimedRow(@, v, worker[v].claim + 1)]
          /\ worker' = [worker EXCEPT ![v].pc = "claimed", ![v].claim = @ + 1]
      BY <1>2, <2>2 DEF ClaimUpdate
    <3>2. worker[v].age = 0
      BY <1>2 DEF TypeOK, ClaimUpdate
    <3>3. \A w \in Workers :
            w # v /\ Holding(w) /\ worker[w].job = k => disturbed[k]
      BY <2>2, JobQueueAssumption
      DEF Owns, runnable_filter, TypeOK, WorkerRecords, Never
    <3>4. Owns(v)'
      <4>1. /\ worker'[v].pc = "claimed" /\ worker'[v].job = k
            /\ worker'[v].claim = worker[v].claim + 1 /\ worker'[v].age = 0
        BY <3>1, <3>2 DEF TypeOK, WorkerRecords
      <4>2. /\ row'[k].status = "running" /\ row'[k].lockedBy = v
            /\ row'[k].attempt = worker[v].claim + 1 /\ row'[k].lockAge = 0
        BY <2>0, <3>1 DEF TypeOK, Rows, ClaimedRow
      <4> QED
        BY <4>1, <4>2, JobQueueAssumption DEF Owns, Executing
    <3>5. ASSUME NEW w \in Workers, w # v
          PROVE  Owns(w)'
      <4>1. worker'[w] = worker[w]
        BY <3>1, <3>5 DEF TypeOK
      <4>2. CASE worker[w].job = k
        BY <2>0, <3>3, <3>5, <4>1, <4>2 DEF Owns, Holding
      <4>3. CASE worker[w].job # k
        BY <2>0, <3>1, <3>5, <4>1, <4>3 DEF Owns, Holding, Executing, TypeOK
      <4> QED
        BY <4>2, <4>3
    <3> QED
      BY <3>4, <3>5
  <2> QED
    BY <2>1, <2>2
<1>3. ASSUME NEW v \in Workers, ReadClaimed(v)
      PROVE  \A w \in Workers : Owns(w)'
  BY <1>3 DEF ReadClaimed, TypeOK, WorkerRecords, Owns, Holding, Executing
<1>4. ASSUME NEW v \in Workers,
             MarkSucceeded(v) \/ DeadLetterPermanent(v) \/ RetryOrDeadLetter(v)
      PROVE  \A w \in Workers : Owns(w)'
  <2>1. Holding(v) /\ worker[v].job \in Jobs /\ disturbed' = disturbed
    BY <1>4 DEF MarkSucceeded, DeadLetterPermanent, RetryOrDeadLetter,
                Holding, TypeOK
  <2>2. worker' = [worker EXCEPT ![v] = IdleWorker]
    BY <1>4 DEF MarkSucceeded, DeadLetterPermanent, RetryOrDeadLetter
  <2>3. \A j \in Jobs : j # worker[v].job => row'[j] = row[j]
    BY <1>4 DEF MarkSucceeded, DeadLetterPermanent, RetryOrDeadLetter, TypeOK
  <2>4. Owns(v)'
    BY <2>2, Constants DEF TypeOK, Owns, Holding
  <2> QED
    BY <2>1, <2>2, <2>3, <2>4, OwnsOthers DEF TypeOK
<1>5. ASSUME NEW v \in Workers, HandlerReschedule(v)
      PROVE  \A w \in Workers : Owns(w)'
  <2> DEFINE k == worker[v].job
  <2>1. Holding(v) /\ k \in Jobs
    BY <1>5 DEF HandlerReschedule, Holding, TypeOK
  <2>2. CASE row[k].status \in {"queued", "running"}
    <3>1. /\ worker' = [worker EXCEPT ![v].pc = "rescheduled"]
          /\ disturbed' = [disturbed EXCEPT ![k] = TRUE]
      BY <1>5, <2>1, <2>2 DEF HandlerReschedule, Disturb, Held
    <3>2. \A j \in Jobs : j # k => row'[j] = row[j]
      BY <1>5, <2>2 DEF HandlerReschedule, TypeOK
    <3>3. Owns(v)'
      BY <2>1, <3>1 DEF Owns, TypeOK, WorkerRecords
    <3> QED
      BY <2>1, <3>1, <3>2, <3>3, OwnsOthers DEF TypeOK
  <2>3. CASE row[k].status \notin {"queued", "running"}
    <3>1. /\ worker' = [worker EXCEPT ![v].pc = "raised"]
          /\ disturbed' = disturbed /\ row' = row
      BY <1>5, <2>3 DEF HandlerReschedule
    <3>2. disturbed[k]
      BY <2>1, <2>3 DEF Owns
    <3>3. Owns(v)'
      BY <2>1, <3>1, <3>2 DEF Owns, TypeOK, WorkerRecords
    <3> QED
      BY <2>1, <3>1, <3>3, OwnsOthers DEF TypeOK
  <2> QED
    BY <2>2, <2>3
<1>6. ASSUME NEW v \in Workers, VerifyRescheduled(v) \/ Crash(v)
      PROVE  \A w \in Workers : Owns(w)'
  <2>1. row' = row /\ disturbed' = disturbed
    BY <1>6 DEF VerifyRescheduled, Crash
  <2>2. \/ worker' = [worker EXCEPT ![v] = IdleWorker]
        \/ worker[v].pc = "rescheduled" /\ worker' = [worker EXCEPT ![v].pc = "raised"]
    BY <1>6 DEF VerifyRescheduled, Crash
  <2>3. ASSUME NEW w \in Workers, w # v
        PROVE  Owns(w)'
    <3>1. worker'[w] = worker[w]
      BY <2>2, <2>3 DEF TypeOK
    <3> QED
      BY <2>1, <3>1 DEF Owns, Holding, Executing
  <2>4. ASSUME worker' = [worker EXCEPT ![v] = IdleWorker]
        PROVE  Owns(v)'
    <3>1. worker'[v] = IdleWorker
      BY <2>4 DEF TypeOK
    <3> QED
      BY <3>1 DEF Owns, Holding, IdleWorker
  <2>5. ASSUME worker[v].pc = "rescheduled",
               worker' = [worker EXCEPT ![v].pc = "raised"]
        PROVE  Owns(v)'
    <3>1. Holding(v) => disturbed[worker[v].job]
      BY <2>5 DEF Owns, Executing
    <3>2. worker'[v].job = worker[v].job
      BY <2>5 DEF TypeOK, WorkerRecords
    <3>3. Holding(v)
      BY <2>5 DEF Holding
    <3> QED
      BY <2>1, <3>1, <3>2, <3>3 DEF Owns
  <2> QED
    BY <2>2, <2>3, <2>4, <2>5
<1>7. ASSUME NEW j \in Jobs, Enqueue(j)
      PROVE  \A w \in Workers : Owns(w)'
  BY <1>7 DEF Enqueue, TypeOK, Owns, Holding, Executing
<1>8. ASSUME NEW c \in Clients, NEW j \in Jobs,
             LoadMutable(c, j) \/ LoadPending(c, j) \/ LoadDeadLetter(c, j)
      PROVE  \A w \in Workers : Owns(w)'
  BY <1>8 DEF LoadMutable, LoadPending, LoadDeadLetter, Load, Owns, Holding,
              Executing
<1>9. ASSUME NEW c \in Clients, UpdateExisting(c)
      PROVE  \A w \in Workers : Owns(w)'
  BY <1>9 DEF UpdateExisting, TypeOK, Rows, Owns, Holding, Executing
<1>10. ASSUME NEW j \in Jobs, Disturb(j), worker' = worker,
              \A k \in Jobs : k # j => row'[k] = row[k]
       PROVE  \A w \in Workers : Owns(w)'
  <2> SUFFICES ASSUME NEW w \in Workers, Holding(w), ~disturbed'[worker[w].job]
               PROVE  Owns(w)'
    BY <1>10 DEF Owns, Holding
  <2>1. worker[w].job \in Jobs
    BY DEF TypeOK, Holding
  <2>2. worker[w].job # j
    BY <1>10 DEF Disturb, Held, TypeOK
  <2> QED
    BY <1>10, <2>1, <2>2 DEF Disturb, TypeOK, Owns, Holding, Executing
<1>11. ASSUME NEW c \in Clients, CancelTrialJob(c) \/ RequeueDeadLetter(c)
       PROVE  \A w \in Workers : Owns(w)'
  <2>1. /\ client[c].job \in Jobs /\ Disturb(client[c].job) /\ worker' = worker
        /\ \A k \in Jobs : k # client[c].job => row'[k] = row[k]
    BY <1>11 DEF CancelTrialJob, RequeueDeadLetter, TypeOK
  <2> QED
    BY <1>10, <2>1
<1>12. ASSUME NEW j \in Jobs, NEW force \in BOOLEAN, AdminRequeue(j, force)
       PROVE  \A w \in Workers : Owns(w)'
  BY <1>10, <1>12 DEF AdminRequeue, TypeOK
<1>13. ASSUME Tick
       PROVE  \A w \in Workers : Owns(w)'
  <2> SUFFICES ASSUME NEW w \in Workers, Holding(w)', ~disturbed'[worker'[w].job]
               PROVE  /\ Executing(w)' /\ worker'[w].age < Lease
                      /\ row'[worker'[w].job].status = "running"
                      /\ row'[worker'[w].job].lockedBy = w
                      /\ row'[worker'[w].job].attempt = worker'[w].claim
                      /\ row'[worker'[w].job].lockAge = worker'[w].age
    BY DEF Owns
  <2> DEFINE j == worker[w].job
  <2>1. Holding(w) /\ j \in Jobs
    BY <1>13 DEF Tick, TypeOK, WorkerRecords, Holding
  <2>2. /\ worker'[w].pc = worker[w].pc /\ worker'[w].job = j
        /\ worker'[w].claim = worker[w].claim
        /\ worker'[w].age = Older(worker[w].age)
    BY <1>13, <2>1 DEF Tick, TypeOK, WorkerRecords
  <2>3. ~disturbed[j] /\ ~(Older(worker[w].age) >= Lease)
    BY <1>13, <2>1, <2>2 DEF Tick
  <2>4. Older(worker[w].age) \in Int /\ Lease \in Int
    BY JobQueueAssumption, <2>1 DEF Older, TypeOK, WorkerRecords, Never
  <2>5. /\ row'[j].status = row[j].status /\ row'[j].lockedBy = row[j].lockedBy
        /\ row'[j].attempt = row[j].attempt
        /\ row'[j].lockAge = Older(row[j].lockAge)
    <3>1. row'[j] = [row[j] EXCEPT !.nextRun = Sooner(@), !.lockAge = Older(@)]
      BY <1>13, <2>1 DEF Tick
    <3>2. row[j] \in Rows
      BY <2>1 DEF TypeOK
    <3> QED
      BY <3>1, <3>2 DEF Rows
  <2> QED
    BY <2>1, <2>2, <2>3, <2>4, <2>5 DEF Owns, Executing
<1>14. CASE UNCHANGED vars
  BY <1>14 DEF vars, Owns, Holding, Executing
<1> QED
  BY <1>1, <1>2, <1>3, <1>4, <1>5, <1>6, <1>7, <1>8, <1>9, <1>11, <1>12,
     <1>13, <1>14
  DEF Next, Claiming, Settling, Flushing

(* An executing worker owns its row until something disturbs the job. *)
THEOREM Ownership == Spec => []OwnedUntilDisturbed
<1>1. Init => OwnInv
  BY Constants, JobQueueAssumption DEF Init, TypeOK, OwnInv, Owns, Holding
<1>2. OwnInv /\ [Next]_vars => OwnInv'
  BY TypeStep, OwnStep DEF OwnInv
<1>3. OwnInv => OwnedUntilDisturbed
  BY DEF OwnInv, Owns, OwnedUntilDisturbed, Executing, Holding
<1> QED
  BY <1>1, <1>2, <1>3, PTL DEF Spec

-----------------------------------------------------------------------------
(* A claim takes only a row that is runnable when it is taken, and the     *)
(* other steps issue no claim.                                             *)
THEOREM ClaimsAreRechecked == Spec => StaleSelectionNeverClaims
<1>1. ASSUME TypeOK, [Next]_vars, NEW j \in Jobs,
             row'[j].attempt # row[j].attempt
      PROVE  runnable_filter(row[j])
  <2>1. CASE Quiet
    BY <1>1, <2>1 DEF Quiet
  <2>2. ASSUME NEW w \in Workers, Claims(w)
        PROVE  runnable_filter(row[j])
    BY <1>1, <2>2 DEF Claims, TypeOK
  <2>3. ASSUME NEW w \in Workers, Retries(w)
        PROVE  row'[j].attempt = row[j].attempt
    <3>1. worker[w].job \in Jobs
      BY <1>1, <2>3 DEF Retries, TypeOK
    <3> QED
      BY <1>1, <2>3, <3>1, AttemptKept DEF Retries, TypeOK
  <2> QED
    BY <1>1, <2>1, <2>2, <2>3, StepKinds
<1>2. TypeOK /\ [Next]_vars =>
        [\A j \in Jobs : row'[j].attempt # row[j].attempt
                          => runnable_filter(row[j])]_vars
  BY <1>1
<1> QED
  BY <1>2, TypeCorrect, PTL DEF Spec, StaleSelectionNeverClaims

-----------------------------------------------------------------------------
(* A step changes what at most one worker holds. *)
LEMMA OneAtATime ==
  ASSUME TypeOK, [Next]_vars
  PROVE  \E w : \A v \in Workers : v # w => Holding(v)' = Holding(v)
<1>1. ASSUME NEW w \in Workers, Claiming(w) \/ Settling(w) \/ Crash(w)
      PROVE  \A v \in Workers : v # w => Holding(v)' = Holding(v)
  <2>1. \A v \in Workers : v # w => worker'[v] = worker[v]
    BY <1>1
    DEF Claiming, SelectCandidate, ClaimUpdate, ReadClaimed, Settling,
        MarkSucceeded, DeadLetterPermanent, RetryOrDeadLetter,
        HandlerReschedule, VerifyRescheduled, Crash, TypeOK
  <2> QED
    BY <2>1 DEF Holding
<1>2. CASE worker' = worker
  BY <1>2 DEF Holding
<1>3. CASE Tick
  <2>1. \A v \in Workers : worker'[v].pc = worker[v].pc
    BY <1>3 DEF Tick, TypeOK, WorkerRecords
  <2> QED
    BY <2>1 DEF Holding
<1> QED
  BY <1>1, <1>2, <1>3
  DEF Next, vars, Enqueue, LoadMutable, LoadPending, LoadDeadLetter, Load,
      Flushing, UpdateExisting, CancelTrialJob, RequeueDeadLetter, AdminRequeue

(* The queue implements the claim tokens: a claim issues the next one, a   *)
(* worker that settles, reschedules in vain or dies drops its own, and     *)
(* every other step leaves the tokens alone.                               *)
THEOREM TokensRefined == Spec => Tokens!Spec
<1>1. Init => Tokens!Init
  BY Constants DEF Init, Tokens!Init, Holding, AbsentRow
<1>2. ASSUME TypeOK, [Next]_vars
      PROVE  [Tokens!Next]_(Tokens!vars)
  <2> DEFINE last == [j \in Jobs |-> row[j].attempt]
             token == [w \in Workers |-> IF Holding(w)
                         THEN <<worker[w].job, worker[w].claim>> ELSE NoToken]
  <2>1. ASSUME NEW w \in Workers, Claims(w)
        PROVE  \E j \in Jobs : Tokens!Issue(w, j)
    <3> DEFINE k == worker[w].job
    <3>1. k \in Jobs /\ ~Holding(w)
      BY <1>2, <2>1 DEF Claims, TypeOK, Holding
    <3>2. last' = [last EXCEPT ![k] = @ + 1]
      BY <1>2, <2>1, <3>1 DEF Claims, TypeOK, ClaimedRow, Rows
    <3>3. token' = [token EXCEPT ![w] = <<k, last[k] + 1>>]
      <4>1. /\ Holding(w)' /\ worker'[w].job = k
            /\ worker'[w].claim = row[k].attempt + 1
        BY <1>2, <2>1 DEF Claims, TypeOK, WorkerRecords, Holding
      <4>2. \A v \in Workers : v # w => worker'[v] = worker[v]
        BY <1>2, <2>1 DEF Claims, TypeOK
      <4> QED
        BY <3>1, <4>1, <4>2 DEF Holding
    <3> QED
      BY <3>1, <3>2, <3>3 DEF Tokens!Issue
  <2>2. ASSUME \A j \in Jobs : row'[j].attempt = row[j].attempt,
               \A w \in Workers : Holding(w)' = Holding(w),
               \A w \in Workers : Holding(w) =>
                 /\ worker'[w].job = worker[w].job
                 /\ worker'[w].claim = worker[w].claim
        PROVE  UNCHANGED Tokens!vars
    BY <2>2 DEF Tokens!vars
  <2>3. ASSUME \A j \in Jobs : row'[j].attempt = row[j].attempt,
               NEW w \in Workers, Holding(w), ~Holding(w)',
               \A v \in Workers : v # w => Holding(v)' = Holding(v),
               \A v \in Workers : v # w /\ Holding(v) =>
                 /\ worker'[v].job = worker[v].job
                 /\ worker'[v].claim = worker[v].claim
        PROVE  Tokens!Drop(w)
    <3>1. last' = last
      BY <2>3
    <3>2. worker[w].job # NoJob
      BY <1>2, <2>3, JobQueueAssumption DEF TypeOK, Holding
    <3>3. token[w] # NoToken
      BY <2>3, <3>2 DEF NoToken
    <3>4. token' = [token EXCEPT ![w] = NoToken]
      BY <2>3
    <3> QED
      BY <3>1, <3>3, <3>4 DEF Tokens!Drop
  <2>4. CASE Quiet
    <3>1. PICK w : \A v \in Workers : v # w => Holding(v)' = Holding(v)
      BY <1>2, OneAtATime
    <3>2. CASE \A v \in Workers : Holding(v)' = Holding(v)
      BY <2>2, <2>4, <3>2 DEF Quiet
    <3>3. CASE w \in Workers /\ Holding(w)' # Holding(w)
      <4>1. Holding(w) /\ ~Holding(w)'
        BY <2>4, <3>3 DEF Quiet, Holding
      <4>2. Tokens!Drop(w)
        BY <2>3, <2>4, <3>1, <3>3, <4>1 DEF Quiet
      <4> QED
        BY <3>3, <4>2 DEF Tokens!Next
    <3> QED
      BY <3>1, <3>2, <3>3
  <2>5. ASSUME NEW w \in Workers, Retries(w)
        PROVE  Tokens!Drop(w)
    <3>1. Holding(w) /\ worker[w].job \in Jobs
      BY <1>2, <2>5 DEF Retries, Holding, TypeOK
    <3>2. \A j \in Jobs : row'[j].attempt = row[j].attempt
      BY <1>2, <2>5, <3>1, AttemptKept DEF Retries, TypeOK
    <3>3. ~Holding(w)' /\ \A v \in Workers : v # w => worker'[v] = worker[v]
      BY <1>2, <2>5, Constants DEF Retries, Holding, TypeOK
    <3> QED
      BY <2>3, <3>1, <3>2, <3>3 DEF Holding
  <2>6. CASE \E w \in Workers : Retries(w)
    <3>1. PICK w \in Workers : Retries(w)
      BY <2>6
    <3>2. Tokens!Drop(w)
      BY <3>1, <2>5
    <3> QED
      BY <3>2 DEF Tokens!Next
  <2>7. CASE \E w \in Workers : Claims(w)
    <3>1. PICK w \in Workers : Claims(w)
      BY <2>7
    <3>2. \E j \in Jobs : Tokens!Issue(w, j)
      BY <2>1, <3>1
    <3> QED
      BY <3>1, <3>2 DEF Tokens!Next
  <2> QED
    BY <1>2, <2>4, <2>6, <2>7, StepKinds
<1> QED
  BY <1>1, <1>2, TypeCorrect, PTL DEF Spec, Tokens!Spec

(* Two holders hold different claims, and an undisturbed executor owns its  *)
(* row: the two together are what claim_next_runnable promises a handler.   *)
THEOREM ClaimsOwned == Spec => []ClaimsAreOwned
<1>1. ClaimsUnique /\ OwnedUntilDisturbed => ClaimsAreOwned
  BY DEF ClaimsAreOwned
<1> QED
  BY <1>1, ClaimsAreUnique, Ownership, PTL

(* Claims are tokens handed out once each, for rows that could be run       *)
(* (claim_next_runnable).                                                   *)
THEOREM ClaimsAreTokens == Spec => ClaimsFollowTokens
  BY TokensRefined, ClaimsAreRechecked DEF ClaimsFollowTokens, ImplementsClaimTokens
=============================================================================
