------------------------------ MODULE JobQueue ------------------------------
(***************************************************************************)
(* The durable job queue of app/shared/jobs: rows of the "jobs" table, the *)
(* workers that claim and run them (worker_runtime), and the API calls and *)
(* operators that enqueue, update, cancel and requeue them.                *)
(*                                                                         *)
(* A worker claims a row for a lease that it never renews, and its last    *)
(* write names only the row's id, so a worker that outlives its lease can  *)
(* still overwrite what a later claim did.  The module keeps every such    *)
(* window open: the two statements of a claim, the read-back of the        *)
(* claimed row, the handler, the check after a reschedule and the final    *)
(* write are separate steps, and so are the SELECT and the flush of each   *)
(* ORM edit.                                                               *)
(*                                                                         *)
(* Time is relative, so that no clock has to be bounded: next_run_at is    *)
(* the ticks left until the job is due and locked_at is the ticks since it *)
(* was locked (ages stop at AgeCap, beyond every threshold they meet).  A  *)
(* tick is many times longer than a database transaction, so no tick falls *)
(* between the statements of one.                                          *)
(***************************************************************************)
EXTENDS Integers, FiniteSets

CONSTANTS
  Jobs,          \* (company_id, job_type, idempotency_key) triples
  Workers,       \* worker processes
  Clients,       \* database sessions of API calls and operators
  NoJob,         \* "no job": what an idle worker or client holds
  NoWorker,      \* locked_by IS NULL
  MaxAttempts,   \* max_attempts of every row
  Lease,         \* lease_seconds, in ticks
  AdminStale,    \* DEMO_ADMIN_JOB_STALE_SECONDS, in ticks
  BaseBackoff, MaxBackoff,           \* backoff of ordinary errors
  ProviderBase, ProviderMax,         \* backoff of rate limits and outages
  Delays,        \* next_run_at values a caller may ask for, as delays
  AgeCap,        \* ages are counted up to here
  Budget         \* how many crashes and outside interventions may happen

ASSUME JobQueueAssumption ==
  /\ NoJob \notin Jobs
  /\ NoWorker \notin Workers
  /\ MaxAttempts \in Nat \ {0}
  /\ Lease \in Nat \ {0}
  /\ AdminStale \in Nat \ {0}
  /\ BaseBackoff \in Nat /\ MaxBackoff \in Nat
  /\ ProviderBase \in Nat /\ ProviderMax \in Nat
  /\ Delays \subseteq Nat
  /\ AgeCap \in Nat
  /\ Lease <= AgeCap /\ AdminStale <= AgeCap
  /\ MaxBackoff <= AgeCap /\ ProviderMax <= AgeCap
  /\ Budget \in Nat

VARIABLES
  row,           \* the jobs table
  worker,        \* what each worker process is doing
  client,        \* the ORM edit each client session has in progress
  budget,        \* crashes and interventions still allowed
  retried,       \* history: the claim numbers whose error re-queued the job
  retries,       \* history: how many times an error re-queued the job
  disturbed      \* history: something outside the claim protocol touched it

vars == <<row, worker, client, budget, retried, retries, disturbed>>

-----------------------------------------------------------------------------
Never == -1                                  \* a NULL timestamp
Time == Nat \cup {Never}
Statuses == {"absent", "queued", "running", "succeeded", "dead_letter"}
Terminal == {"succeeded", "dead_letter"}

Rows == [status : Statuses, attempt : Nat, nextRun : Time,
         lockAge : Time, lockedBy : Workers \cup {NoWorker}]

AbsentRow == [status |-> "absent", attempt |-> 0, nextRun |-> Never,
              lockAge |-> Never, lockedBy |-> NoWorker]

(* A worker's local state.  "claim" is the attempt number its UPDATE wrote, *)
(* "attempt" the number read back afterwards (the job object the handler   *)
(* and the error path use), "age" the ticks since claim_time.               *)
WorkerStates == {"idle", "selected", "claimed", "running",
                 "rescheduled", "raised"}
WorkerRecords == [pc : WorkerStates, job : Jobs \cup {NoJob},
                  claim : Nat, attempt : Nat, age : Nat]
IdleWorker == [pc |-> "idle", job |-> NoJob, claim |-> 0, attempt |-> 0,
               age |-> 0]

ClientOps == {"none", "update", "cancel", "revive"}
ClientRecords == [op : ClientOps, job : Jobs \cup {NoJob}, seen : Rows]
IdleClient == [op |-> "none", job |-> NoJob, seen |-> AbsentRow]

TypeOK ==
  /\ row \in [Jobs -> Rows]
  /\ worker \in [Workers -> WorkerRecords]
  /\ \A w \in Workers :
       /\ worker[w].pc # "idle" => worker[w].job \in Jobs
       /\ worker[w].pc \in {"idle", "selected"} => worker[w].age = 0
  /\ client \in [Clients -> ClientRecords]
  /\ \A c \in Clients : client[c].op # "none" => client[c].job \in Jobs
  /\ budget \in Nat
  /\ retried \in [Jobs -> SUBSET Nat]
  /\ retries \in [Jobs -> Nat]
  /\ disturbed \in [Jobs -> BOOLEAN]

Init ==
  /\ row = [j \in Jobs |-> AbsentRow]
  /\ worker = [w \in Workers |-> IdleWorker]
  /\ client = [c \in Clients |-> IdleClient]
  /\ budget = Budget
  /\ retried = [j \in Jobs |-> {}]
  /\ retries = [j \in Jobs |-> 0]
  /\ disturbed = [j \in Jobs |-> FALSE]

-----------------------------------------------------------------------------
(* Row predicates and edits. *)

(* Mutation: a running row is never taken over. *)
RunnableQueuedOnly(r) == r.status = "queued" /\ r.nextRun <= 0

(* Mutation: a running row is taken over whatever the age of its lock. *)
RunnableAnyLease(r) ==
  \/ r.status = "queued" /\ r.nextRun <= 0
  \/ r.status = "running"

(* runnable_filter: a NULL next_run_at is due, a NULL locked_at is stale. *)
runnable_filter(r) ==
  \/ r.status = "queued" /\ r.nextRun <= 0
  \/ r.status = "running" /\ (r.lockAge = Never \/ r.lockAge >= Lease)

is_mutable_idempotent_job(r) ==
  r.status = "queued" /\ r.lockAge = Never /\ r.lockedBy = NoWorker

is_stale_running_job(r) ==
  r.status = "running" /\ (r.lockAge = Never \/ r.lockAge >= AdminStale)

Unlocked(r) == [r EXCEPT !.lockAge = Never, !.lockedBy = NoWorker]

Requeued(r, delay) == [Unlocked(r) EXCEPT !.status = "queued", !.nextRun = delay]

Finished(r, status) == [Unlocked(r) EXCEPT !.status = status, !.nextRun = Never]

(* An ORM flush emits only the columns whose value differs from the one    *)
(* loaded; the others keep what the table holds by then.                   *)
OrmFlush(current, loaded, edited) ==
  [f \in DOMAIN current |->
     IF edited[f] # loaded[f] THEN edited[f] ELSE current[f]]

compute_backoff_seconds(attempt, base, max) ==
  LET doubled == base * 2^(attempt - 1)
  IN  IF doubled \in 0..max THEN doubled ELSE max

(* next_run_at = claim_time + delay, for a claim made "age" ticks ago. *)
(* Mutation: the delay left is not floored at zero. *)
DelayLeftUnfloored(delay, age) == delay - age

DelayLeft(delay, age) == IF delay > age THEN delay - age ELSE 0

Max2(a, b) == IF a >= b THEN a ELSE b

(* The two backoff policies of retry_or_dead_letter. *)
RetryDelays(attempt) ==
  {compute_backoff_seconds(attempt, BaseBackoff, MaxBackoff),
   compute_backoff_seconds(attempt, Max2(BaseBackoff, ProviderBase),
                           Max2(MaxBackoff, ProviderMax))}

(* Worker w may be executing the handler of its job. *)
Executing(w) == worker[w].pc \in {"claimed", "running"}

(* Worker w holds a claim it has not settled yet. *)
Holding(w) == worker[w].pc \in {"claimed", "running", "rescheduled", "raised"}

Held(j) == \E w \in Workers : Holding(w) /\ worker[w].job = j

SpendBudget == budget > 0 /\ budget' = budget - 1

Disturb(j) == disturbed' = [disturbed EXCEPT ![j] = @ \/ Held(j)]

-----------------------------------------------------------------------------
(* Workers: run_once *)

(* The SELECT of claim_next_runnable.  ORDER BY is left open: any runnable *)
(* row may come first.                                                     *)
SelectCandidate(w) ==
  /\ worker[w].pc = "idle"
  /\ \E j \in Jobs :
       /\ runnable_filter(row[j])
       /\ worker' = [worker EXCEPT ![w] =
            [pc |-> "selected", job |-> j, claim |-> row[j].attempt,
             attempt |-> 0, age |-> 0]]
  /\ UNCHANGED <<row, client, budget, retried, retries, disturbed>>

ClaimedRow(r, w, attempt) ==
  [r EXCEPT !.status = "running", !.attempt = attempt,
            !.lockAge = 0, !.lockedBy = w]

(* Mutation: the UPDATE repeats only the attempt check. *)
ClaimUpdateUnchecked(w) ==
  LET j == worker[w].job
      current_attempt == worker[w].claim
  IN
  /\ worker[w].pc = "selected"
  /\ IF row[j].attempt = current_attempt
     THEN /\ row' = [row EXCEPT ![j] = ClaimedRow(@, w, current_attempt + 1)]
          /\ worker' = [worker EXCEPT ![w].pc = "claimed", ![w].claim = @ + 1]
     ELSE /\ worker' = [worker EXCEPT ![w] = IdleWorker]
          /\ UNCHANGED row
  /\ UNCHANGED <<client, budget, retried, retries, disturbed>>

(* Mutation: the UPDATE repeats only the filter, not the attempt check. *)
ClaimUpdateAnyAttempt(w) ==
  LET j == worker[w].job
      current_attempt == worker[w].claim
  IN
  /\ worker[w].pc = "selected"
  /\ IF runnable_filter(row[j])
     THEN /\ row' = [row EXCEPT ![j] = ClaimedRow(@, w, current_attempt + 1)]
          /\ worker' = [worker EXCEPT ![w].pc = "claimed", ![w].claim = @ + 1]
     ELSE /\ worker' = [worker EXCEPT ![w] = IdleWorker]
          /\ UNCHANGED row
  /\ UNCHANGED <<client, budget, retried, retries, disturbed>>

(* The conditional UPDATE of claim_next_runnable and its commit.  One that *)
(* matches no row rolls back and the loop selects again (after eight       *)
(* misses run_once sleeps and selects again).                              *)
ClaimUpdate(w) ==
  LET j == worker[w].job
      current_attempt == worker[w].claim
  IN
  /\ worker[w].pc = "selected"
  /\ IF row[j].attempt = current_attempt /\ runnable_filter(row[j])
     THEN /\ row' = [row EXCEPT ![j] = ClaimedRow(@, w, current_attempt + 1)]
          /\ worker' = [worker EXCEPT ![w].pc = "claimed", ![w].claim = @ + 1]
     ELSE /\ worker' = [worker EXCEPT ![w] = IdleWorker]
          /\ UNCHANGED row
  /\ UNCHANGED <<client, budget, retried, retries, disturbed>>

(* get_by_id after the claim's commit: the job object of this run. *)
ReadClaimed(w) ==
  /\ worker[w].pc = "claimed"
  /\ worker' = [worker EXCEPT ![w].pc = "running",
                              ![w].attempt = row[worker[w].job].attempt]
  /\ UNCHANGED <<row, client, budget, retried, retries, disturbed>>

(* The handler returned: mark_succeeded, WHERE id only. *)
MarkSucceeded(w) ==
  LET j == worker[w].job IN
  /\ worker[w].pc = "running"
  /\ row' = [row EXCEPT ![j] = Finished(@, "succeeded")]
  /\ worker' = [worker EXCEPT ![w] = IdleWorker]
  /\ UNCHANGED <<client, budget, retried, retries, disturbed>>

(* PermanentJobError, a result that is no object, or no handler. *)
DeadLetterPermanent(w) ==
  LET j == worker[w].job IN
  /\ worker[w].pc = "running"
  /\ row' = [row EXCEPT ![j] = Finished(@, "dead_letter")]
  /\ worker' = [worker EXCEPT ![w] = IdleWorker]
  /\ UNCHANGED <<client, budget, retried, retries, disturbed>>

(* Mutation: one retry too many. *)
MayRetryOffByOne(attempt) == attempt <= MaxAttempts

MayRetry(attempt) == attempt < MaxAttempts

(* retry_or_dead_letter, after any other exception of the handler. *)
RetryOrDeadLetter(w) ==
  LET j == worker[w].job
      me == worker[w]
  IN
  /\ me.pc \in {"running", "raised"}
  /\ \/ /\ MayRetry(me.attempt)
        /\ \E delay \in RetryDelays(me.attempt) :
             row' = [row EXCEPT ![j] = Requeued(@, DelayLeft(delay, me.age))]
        /\ retried' = [retried EXCEPT ![j] = @ \cup {me.claim}]
        /\ retries' = [retries EXCEPT ![j] = @ + 1]
     \/ /\ ~MayRetry(me.attempt)
        /\ row' = [row EXCEPT ![j] = Finished(@, "dead_letter")]
        /\ UNCHANGED <<retried, retries>>
  /\ worker' = [worker EXCEPT ![w] = IdleWorker]
  /\ UNCHANGED <<client, budget, disturbed>>

(* requeue_nonterminal_idempotent_job, called by the day-close handler on  *)
(* its own key when the day is not over; no such row raises RuntimeError.  *)
HandlerReschedule(w) ==
  LET j == worker[w].job IN
  /\ worker[w].pc = "running"
  /\ SpendBudget
  /\ IF row[j].status \in {"queued", "running"}
     THEN /\ \E delay \in Delays \ {0} :
               row' = [row EXCEPT ![j] = Requeued(@, delay)]
          /\ worker' = [worker EXCEPT ![w].pc = "rescheduled"]
          /\ Disturb(j)
     ELSE /\ worker' = [worker EXCEPT ![w].pc = "raised"]
          /\ UNCHANGED <<row, disturbed>>
  /\ UNCHANGED <<client, retried, retries>>

(* _verify_handler_rescheduled: a row that another worker has claimed in   *)
(* the meantime reads as a failed reschedule.                              *)
VerifyRescheduled(w) ==
  /\ worker[w].pc = "rescheduled"
  /\ IF is_mutable_idempotent_job(row[worker[w].job])
     THEN worker' = [worker EXCEPT ![w] = IdleWorker]
     ELSE worker' = [worker EXCEPT ![w].pc = "raised"]
  /\ UNCHANGED <<row, client, budget, retried, retries, disturbed>>

(* The process dies and is started again: what it held is forgotten. *)
Crash(w) ==
  /\ worker[w].pc # "idle"
  /\ SpendBudget
  /\ worker' = [worker EXCEPT ![w] = IdleWorker]
  /\ UNCHANGED <<row, client, retried, retries, disturbed>>

-----------------------------------------------------------------------------
(* API calls and operators *)

(* create_or_get_idempotent, and the insert of create_or_update: the       *)
(* unique index leaves one row per key.  The other columns of AbsentRow    *)
(* are the ones an insert gives.                                           *)
Enqueue(j) ==
  /\ row[j].status = "absent"
  /\ \E delay \in Delays :
       row' = [row EXCEPT ![j].status = "queued", ![j].nextRun = delay]
  /\ UNCHANGED <<worker, client, budget, retried, retries, disturbed>>

(* The first half of an ORM edit: SELECT the row, keep what was read. *)
Load(c, j, op) ==
  /\ client[c].op = "none"
  /\ SpendBudget
  /\ client' = [client EXCEPT ![c] = [op |-> op, job |-> j, seen |-> row[j]]]
  /\ UNCHANGED <<row, worker, retried, retries, disturbed>>

LoadMutable(c, j) ==
  is_mutable_idempotent_job(row[j]) /\ Load(c, j, "update")

LoadPending(c, j) ==
  row[j].status \in {"queued", "running"} /\ Load(c, j, "cancel")

LoadDeadLetter(c, j) ==
  row[j].status = "dead_letter" /\ Load(c, j, "revive")

(* apply_idempotent_job_updates: next_run_at is a new timestamp. *)
UpdateExisting(c) ==
  LET j == client[c].job IN
  /\ client[c].op = "update"
  /\ \E delay \in Delays : row' = [row EXCEPT ![j].nextRun = delay]
  /\ client' = [client EXCEPT ![c] = IdleClient]
  /\ UNCHANGED <<worker, budget, retried, retries, disturbed>>

(* _cancel_pending_trial_jobs and the commit of the termination. *)
CancelTrialJob(c) ==
  LET j == client[c].job
      seen == client[c].seen
  IN
  /\ client[c].op = "cancel"
  /\ row' = [row EXCEPT ![j] = OrmFlush(@, seen, Finished(seen, "dead_letter"))]
  /\ client' = [client EXCEPT ![c] = IdleClient]
  /\ Disturb(j)
  /\ UNCHANGED <<worker, budget, retried, retries>>

(* requeue_dead_letter_job(s). *)
RequeueDeadLetter(c) ==
  LET j == client[c].job
      seen == client[c].seen
  IN
  /\ client[c].op = "revive"
  /\ row' = [row EXCEPT ![j] = OrmFlush(@, seen, Requeued(seen, 0))]
  /\ client' = [client EXCEPT ![c] = IdleClient]
  /\ Disturb(j)
  /\ UNCHANGED <<worker, budget, retried, retries>>

(* requeue_job of the admin API, under SELECT ... FOR UPDATE.  A queued    *)
(* job is left as it is.                                                   *)
AdminRequeue(j, force) ==
  /\ SpendBudget
  /\ row[j].status \in {"running", "dead_letter", "succeeded"}
  /\ force \/ row[j].status = "dead_letter" \/ is_stale_running_job(row[j])
  /\ row' = [row EXCEPT ![j] = Requeued(@, 0)]
  /\ Disturb(j)
  /\ UNCHANGED <<worker, client, retried, retries>>

-----------------------------------------------------------------------------
(* Time *)

Older(age) == IF age = Never \/ age >= AgeCap THEN age ELSE age + 1
Sooner(delay) == IF delay > 0 THEN delay - 1 ELSE delay

(* No tick falls inside a transaction.  A holder whose age reaches Lease   *)
(* has outlived its claim.                                                 *)
Tick ==
  /\ \A w \in Workers : worker[w].pc \notin {"selected", "claimed"}
  /\ \A c \in Clients : client[c].op = "none"
  /\ row' = [j \in Jobs |-> [row[j] EXCEPT !.nextRun = Sooner(@),
                                           !.lockAge = Older(@)]]
  /\ worker' = [w \in Workers |->
       IF Holding(w) THEN [worker[w] EXCEPT !.age = Older(@)] ELSE worker[w]]
  /\ disturbed' = [j \in Jobs |->
       \/ disturbed[j]
       \/ \E w \in Workers : /\ Holding(w)
                             /\ worker[w].job = j
                             /\ Older(worker[w].age) >= Lease]
  /\ UNCHANGED <<client, budget, retried, retries>>

-----------------------------------------------------------------------------
Claiming(w) == SelectCandidate(w) \/ ClaimUpdate(w) \/ ReadClaimed(w)

Settling(w) ==
  \/ MarkSucceeded(w)
  \/ DeadLetterPermanent(w)
  \/ RetryOrDeadLetter(w)
  \/ HandlerReschedule(w)
  \/ VerifyRescheduled(w)

Flushing(c) == UpdateExisting(c) \/ CancelTrialJob(c) \/ RequeueDeadLetter(c)

Next ==
  \/ \E w \in Workers : Claiming(w) \/ Settling(w) \/ Crash(w)
  \/ \E j \in Jobs : Enqueue(j)
  \/ \E c \in Clients, j \in Jobs :
       LoadMutable(c, j) \/ LoadPending(c, j) \/ LoadDeadLetter(c, j)
  \/ \E c \in Clients : Flushing(c)
  \/ \E j \in Jobs, force \in BOOLEAN : AdminRequeue(j, force)
  \/ Tick

Spec == Init /\ [][Next]_vars

(* Each worker loops for ever (run_worker_forever), a handler returns or   *)
(* raises in the end, an open transaction is finished, and time passes.    *)
Fairness ==
  /\ \A w \in Workers : WF_vars(Claiming(w)) /\ WF_vars(Settling(w))
  /\ \A c \in Clients : WF_vars(Flushing(c))
  /\ WF_vars(Tick)

FairSpec == Spec /\ Fairness

-----------------------------------------------------------------------------
(* Correctness *)

(* No two workers hold the same claim of a job: of two sessions that       *)
(* select the same row, the conditional UPDATE lets one through, and later *)
(* claims get later numbers (claim_next_runnable).                         *)
ClaimsUnique ==
  \A v, w \in Workers :
    /\ v # w
    /\ Holding(v) /\ Holding(w)
    /\ worker[v].job = worker[w].job
    => worker[v].claim # worker[w].claim

(* However workers overrun their leases, crash, or are interfered with, a  *)
(* job's errors put it back in the queue fewer than max_attempts times     *)
(* over its whole life (retry_or_dead_letter compares a number that was    *)
(* read back after the claim and may belong to a later claim by then).     *)
RetryBudget == \A j \in Jobs : retries[j] <= MaxAttempts - 1

(* A worker that executes a job owns its row - it is locked for this claim *)
(* and has been for as long as the worker thinks - until a holder outlives *)
(* its lease, the job is rescheduled by its handler, or someone cancels or *)
(* requeues it.  In particular at most one worker executes the job.        *)
OwnedUntilDisturbed ==
  \A w \in Workers :
    LET r == row[worker[w].job] IN
    Executing(w) /\ ~disturbed[worker[w].job] =>
      /\ r.status = "running" /\ r.lockedBy = w
      /\ r.attempt = worker[w].claim
      /\ r.lockAge = worker[w].age

(* Two holders of a job hold different claims, and who executes it owns    *)
(* its row, until it is disturbed (claim_next_runnable).                   *)
ClaimsAreOwned == ClaimsUnique /\ OwnedUntilDisturbed

(* The row a claim takes is runnable at the moment it is taken, whatever   *)
(* happened since it was selected: a job that was cancelled, finished or   *)
(* put off in between is not started (claim_next_runnable repeats its      *)
(* filter in the UPDATE).                                                  *)
StaleSelectionNeverClaims ==
  [][\A j \in Jobs : row'[j].attempt # row[j].attempt
                        => runnable_filter(row[j])]_vars

(* Every job that was enqueued ends, and stays, succeeded or dead-letter   *)
(* once crashes and interventions stop: expired leases are taken over and  *)
(* failing jobs run out of retries.                                        *)
EverySettles ==
  \A j \in Jobs : <>[](row[j].status \in Terminal \cup {"absent"})

-----------------------------------------------------------------------------
(* The queue as a source of claim tokens. *)
NoToken == <<NoJob, 0>>

Tokens == INSTANCE ClaimTokens WITH
  last <- [j \in Jobs |-> row[j].attempt],
  token <- [w \in Workers |-> IF Holding(w)
                              THEN <<worker[w].job, worker[w].claim>>
                              ELSE NoToken]

(* Whatever happens to its rows, the queue hands out claim numbers as      *)
(* ClaimTokens does: never the same one twice, never one out of sequence.  *)
ImplementsClaimTokens == Tokens!Spec

(* A claim is a fresh token for a row that could be run at that moment     *)
(* (claim_next_runnable).                                                  *)
ClaimsFollowTokens == ImplementsClaimTokens /\ StaleSelectionNeverClaims
=============================================================================
