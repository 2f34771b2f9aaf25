------------------------- MODULE CandidateSessions -------------------------
(***************************************************************************)
(* One invited candidate session, from the invite to its last closed day:  *)
(* the talent partner invites and resends, the candidate claims, opens and *)
(* schedules it from several requests and perhaps two sign-ins of the same *)
(* e-mail address, an operator resets it, and the closing jobs that the    *)
(* schedule enqueues run (app/candidates, the invite services of           *)
(* app/trials, the admin operations of app/talent_partners).               *)
(*                                                                         *)
(* Requests that go by the invite token load the row FOR UPDATE; those     *)
(* that go by the session's id read it first without a lock, and a second, *)
(* locking SELECT of the same ORM session does not refresh what the first  *)
(* one loaded.                                                             *)
(***************************************************************************)
EXTENDS Integers

CONSTANTS
  Requests,       \* candidate requests in flight at a time
  Subs,           \* sign-ins whose e-mail address is the invited one
  Usernames,      \* GitHub usernames a candidate may give
  NoSub, NoName, NoOne, Partner,
  Workers,
  ClosingDays,    \* day indexes that have a closing job
  LastDay,        \* bound: the largest of them
  LastTime,       \* bound: time in days
  LocalControls,  \* is_local_or_test(): the day-window tool is there
  Expiries,       \* bound: how often an invite expires
  Interventions,  \* bound: resets and day-window controls
  Faults          \* bound: failed invite commits and dead workers

ASSUME CandidateSessionsAssumption ==
  /\ LastDay \in Nat
  /\ ClosingDays \subseteq 1..LastDay
  /\ LastTime \in Nat
  /\ LastDay <= LastTime
  /\ LocalControls \in BOOLEAN
  /\ Expiries \in Nat
  /\ Interventions \in Nat
  /\ Faults \in Nat
  /\ NoSub \notin Subs
  /\ NoName \notin Usernames
  /\ NoOne \notin Requests /\ Partner \notin Requests /\ NoOne # Partner

VARIABLES
  now,            \* time
  terminated,     \* the trial is terminated
  session,        \* the candidate_sessions row
  holder,         \* who holds the row's lock
  partner,        \* the invite transaction of the talent partner
  issued,         \* tokens drawn (secrets.token_urlsafe), all different
  mailed,         \* the token last handed to the mail provider
  req,            \* candidate requests and what each has loaded
  job,            \* closing jobs, by day
  run,            \* handler runs of closing jobs
  closed,         \* days with a cutoff (submission or audit)
  expiries, interventions, faults

vars == <<now, terminated, session, holder, partner, issued, mailed, req, job,
          run, closed, expiries, interventions, faults>>

env == <<now, terminated, expiries, interventions, faults>>
mail == <<partner, issued, mailed>>
closing == <<job, run, closed>>

-----------------------------------------------------------------------------
None == -1
Time == 0..LastTime
Starts == 0..(LastTime - LastDay)
Tokens == Nat

(* What a request sees of the row. *)
Views == [sub : Subs \cup {NoSub}, status : {"not_started", "in_progress", "completed"},
          username : Usernames \cup {NoName}, start : Starts \cup {None}]

SessionRows == [there : BOOLEAN, token : Tokens, expired : BOOLEAN, view : Views]

RequestStates ==
  [at : {"idle", "waiting", "loaded"}, op : {"claim", "schedule"},
   sub : Subs \cup {NoSub}, start : Starts \cup {None},
   username : Usernames \cup {NoName}, seen : Views]

JobRows == [status : {"absent", "queued", "running", "settled"}, due : Time]

RunStates == [at : {"idle", "claimed", "decided"}, day : ClosingDays \cup {None},
              start : Starts \cup {None}]

NewView == [sub |-> NoSub, status |-> "not_started", username |-> NoName, start |-> None]
IdleRequest == [at |-> "idle", op |-> "claim", sub |-> NoSub, start |-> None,
                username |-> NoName, seen |-> NewView]
IdleRun == [at |-> "idle", day |-> None, start |-> None]

(* Types of the rows and of what the actors hold. *)
TypeOK ==
  /\ now \in Time
  /\ terminated \in BOOLEAN
  /\ session \in SessionRows
  /\ holder \in Requests \cup {NoOne, Partner}
  /\ partner \in [at : {"idle", "staged", "sent"}, token : Tokens]
  /\ issued \in Tokens
  /\ mailed \in Tokens
  /\ req \in [Requests -> RequestStates]
  /\ job \in [ClosingDays -> JobRows]
  /\ run \in [Workers -> RunStates]
  /\ closed \in SUBSET ClosingDays
  /\ expiries \in 0..Expiries
  /\ interventions \in 0..Interventions
  /\ faults \in 0..Faults

(* The trial is inviting; nobody is invited yet. *)
Init ==
  /\ now = 0
  /\ terminated = FALSE
  /\ session = [there |-> FALSE, token |-> 0, expired |-> FALSE, view |-> NewView]
  /\ holder = NoOne
  /\ partner = [at |-> "idle", token |-> 0]
  /\ issued = 0
  /\ mailed = 0
  /\ req = [r \in Requests |-> IdleRequest]
  /\ job = [d \in ClosingDays |-> [status |-> "absent", due |-> 0]]
  /\ run = [w \in Workers |-> IdleRun]
  /\ closed = {}
  /\ expiries = Expiries
  /\ interventions = Interventions
  /\ faults = Faults

-----------------------------------------------------------------------------
(* Around the session. *)

(* A day passes. *)
Tick ==
  /\ now < LastTime
  /\ now' = now + 1
  /\ UNCHANGED <<terminated, session, holder, req, expiries, interventions, faults>>
  /\ UNCHANGED mail /\ UNCHANGED closing

(* The invite runs out (INVITE_TOKEN_TTL_DAYS). *)
Expire ==
  /\ session.there /\ ~session.expired
  /\ expiries > 0
  /\ expiries' = expiries - 1
  /\ session' = [session EXCEPT !.expired = TRUE]
  /\ UNCHANGED <<now, terminated, holder, req, interventions, faults>>
  /\ UNCHANGED mail /\ UNCHANGED closing

(* The trial is terminated; the rows stay. *)
TerminateTrial ==
  /\ ~terminated
  /\ terminated' = TRUE
  /\ UNCHANGED <<now, session, holder, req, expiries, interventions, faults>>
  /\ UNCHANGED mail /\ UNCHANGED closing

(* The row of a trial that is not terminated (_not_terminated_trial_clause). *)
Found == session.there /\ ~terminated

(* fetch_by_token_for_update, ensure_can_access: found and not expired. *)
Usable == Found /\ ~session.expired

-----------------------------------------------------------------------------
(* The talent partner. *)

(* Mutation: every invite gets a fresh token. *)
AlwaysFresh == TRUE

(* create_invite for a new address, _refresh_invite_token for an expired   *)
(* invite; a valid one is sent again as it is.                             *)
NeedsToken == ~session.there \/ session.expired

(* create_or_resend_invite: the row is locked or inserted, uncommitted. *)
StageInvite ==
  /\ partner.at = "idle"
  /\ holder = NoOne
  /\ ~terminated
  /\ session.view.status # "completed"
  /\ partner' = [at |-> "staged",
                 token |-> IF NeedsToken THEN issued + 1 ELSE session.token]
  /\ issued' = IF NeedsToken THEN issued + 1 ELSE issued
  /\ holder' = Partner
  /\ UNCHANGED <<session, mailed, req>>
  /\ UNCHANGED env /\ UNCHANGED closing

(* send_invite_email: the mail goes out, or the provider or the rate limit *)
(* keeps it back, which is recorded and raises nothing.                    *)
SendInvite ==
  /\ partner.at = "staged"
  /\ partner' = [partner EXCEPT !.at = "sent"]
  /\ mailed' = partner.token \/ UNCHANGED mailed
  /\ UNCHANGED <<session, holder, issued, req>>
  /\ UNCHANGED env /\ UNCHANGED closing

(* record_send_result and record_rate_limit commit the invite and what     *)
(* became of its mail.                                                     *)
CommitInvite ==
  /\ partner.at = "sent"
  /\ session' = [session EXCEPT !.there = TRUE, !.token = partner.token,
                   !.expired = IF partner.token = session.token THEN @ ELSE FALSE]
  /\ partner' = [partner EXCEPT !.at = "idle"]
  /\ holder' = NoOne
  /\ UNCHANGED <<issued, mailed, req>>
  /\ UNCHANGED env /\ UNCHANGED closing

(* The workspaces, the provider's connection or the commit fails: the      *)
(* workflow rolls back.                                                    *)
FailInvite ==
  /\ partner.at \in {"staged", "sent"}
  /\ faults > 0
  /\ faults' = faults - 1
  /\ partner' = [partner EXCEPT !.at = "idle"]
  /\ holder' = NoOne
  /\ UNCHANGED <<now, terminated, session, issued, mailed, req, expiries, interventions>>
  /\ UNCHANGED closing

-----------------------------------------------------------------------------
(* The candidate's requests. *)

Goto(r, at) == req' = [req EXCEPT ![r].at = at]

(* Mutation: the token is looked up without FOR UPDATE. *)
LoadUnlocked(r) == UNCHANGED holder

(* get_by_token_for_update waits for the lock and holds it to the commit. *)
LockRow(r) == holder = NoOne /\ holder' = r

(* What a claim or an opening needs of the row. *)
Identity == [session.view EXCEPT !.username = NoName, !.start = None]

(* claim_invite_with_principal, up to its locked load. *)
BeginClaim(r, s) ==
  /\ req[r].at = "idle"
  /\ Usable
  /\ LockRow(r)
  /\ req' = [req EXCEPT ![r] = [IdleRequest EXCEPT
       !.at = "loaded", !.sub = s, !.seen = Identity]]
  /\ UNCHANGED session /\ UNCHANGED env /\ UNCHANGED mail /\ UNCHANGED closing

(* schedule_candidate_session: a start that is not in the past. *)
BeginSchedule(r, s, name, start) ==
  /\ req[r].at = "idle"
  /\ Usable
  /\ start >= now
  /\ LockRow(r)
  /\ req' = [req EXCEPT ![r] =
       [at |-> "loaded", op |-> "schedule", sub |-> s, start |-> start,
        username |-> name, seen |-> session.view]]
  /\ UNCHANGED session /\ UNCHANGED env /\ UNCHANGED mail /\ UNCHANGED closing

(* fetch_owned_session: read without a lock, which a claimed row needs no  *)
(* more of.                                                                *)
BeginOpen(r, s) ==
  /\ req[r].at = "idle"
  /\ Usable
  /\ req' = [req EXCEPT ![r] = [IdleRequest EXCEPT
       !.at = IF session.view.sub = NoSub THEN "waiting" ELSE "loaded",
       !.sub = s, !.seen = Identity]]
  /\ UNCHANGED <<session, holder>>
  /\ UNCHANGED env /\ UNCHANGED mail /\ UNCHANGED closing

(* fetch_owned_session: get_by_id_for_update, which finds the row in the   *)
(* identity map and leaves its attributes as first read.                   *)
LockOpen(r) ==
  /\ req[r].at = "waiting"
  /\ Usable
  /\ LockRow(r)
  /\ Goto(r, "loaded")
  /\ UNCHANGED session /\ UNCHANGED env /\ UNCHANGED mail /\ UNCHANGED closing

Release(r) == holder' = IF holder = r THEN NoOne ELSE holder

(* ensure_candidate_ownership: nobody's yet, or this sign-in's. *)
MayOwn(r) == req[r].seen.sub \in {NoSub, req[r].sub}

(* mark_in_progress: the column is written if the loaded one says so. *)
Started(r, status) ==
  IF req[r].seen.status = "not_started" THEN "in_progress" ELSE status

(* The columns that a claim or an opening changed, by what it had loaded. *)
Claimed(r) ==
  [session EXCEPT
     !.view.sub = IF req[r].seen.sub = NoSub THEN req[r].sub ELSE @,
     !.view.status = Started(r, @)]

CommitClaim(r) ==
  /\ req[r].at = "loaded"
  /\ req[r].op = "claim"
  /\ MayOwn(r)
  /\ session' = Claimed(r)
  /\ req' = [req EXCEPT ![r] = IdleRequest]
  /\ Release(r)
  /\ UNCHANGED env /\ UNCHANGED mail /\ UNCHANGED closing

(* A request ends with 403, 404, 409 or 410 and writes nothing. *)
Refuse(r) ==
  /\ \/ req[r].at = "waiting" /\ ~Usable
     \/ /\ req[r].at = "loaded"
        /\ IF req[r].op = "schedule"
           THEN \/ req[r].seen.sub # req[r].sub
                \/ req[r].seen.username \notin {NoName, req[r].username}
                \/ req[r].seen.start \notin {None, req[r].start}
           ELSE ~MayOwn(r)
  /\ req' = [req EXCEPT ![r] = IdleRequest]
  /\ Release(r)
  /\ UNCHANGED session /\ UNCHANGED env /\ UNCHANGED mail /\ UNCHANGED closing

-----------------------------------------------------------------------------
(* Schedules and their closing jobs. *)

(* The end of day d of a schedule (derive_day_windows_impl). *)
EndOf(start, d) == start + d

(* is_mutable_idempotent_job: only a queued job takes a new date. *)
Mutable(d) == job[d].status = "queued"

(* enqueue_day_close_jobs, create_or_update_many_idempotent. *)
EnqueuedJobs(start) ==
  [d \in ClosingDays |->
     IF job[d].status = "absent" \/ Mutable(d)
     THEN [status |-> "queued", due |-> EndOf(start, d)]
     ELSE job[d]]

(* _set_new_schedule, or _backfill_locked_schedule for the start that is   *)
(* already locked; the closing jobs are in the same commit.                *)
CommitSchedule(r) ==
  /\ req[r].at = "loaded"
  /\ req[r].op = "schedule"
  /\ req[r].seen.sub = req[r].sub
  /\ req[r].seen.username \in {NoName, req[r].username}
  /\ req[r].seen.start \in {None, req[r].start}
  /\ session' = [session EXCEPT !.view.start = req[r].start,
                                !.view.username = req[r].username]
  /\ job' = IF req[r].seen.start = None THEN EnqueuedJobs(req[r].start) ELSE job
  /\ req' = [req EXCEPT ![r] = IdleRequest]
  /\ Release(r)
  /\ UNCHANGED <<run, closed>> /\ UNCHANGED env /\ UNCHANGED mail

(* Every day is closed and the current-task view finds all tasks done. *)
Complete ==
  /\ Usable
  /\ session.view.status = "in_progress"
  /\ closed = ClosingDays
  /\ session' = [session EXCEPT !.view.status = "completed"]
  /\ UNCHANGED <<holder, req>>
  /\ UNCHANGED env /\ UNCHANGED mail /\ UNCHANGED closing

-----------------------------------------------------------------------------
(* Operators. *)

(* Mutation: a reset takes the claim and leaves the schedule. *)
ForgetsSchedule(target) ==
  [session.view EXCEPT !.sub = IF target = "not_started" THEN NoSub ELSE @,
     !.status = IF target = "in_progress" THEN "in_progress" ELSE "not_started"]

(* Mutation: the target is taken for the status. *)
TargetIsStatus(target) ==
  IF target = "not_started" THEN NewView
  ELSE [session.view EXCEPT !.start = None, !.status = target]

(* build_session_reset_fields: the schedule always goes, the claim and the *)
(* GitHub username only when the session is to be as new.                  *)
ResetView(target) ==
  IF target = "not_started" THEN NewView
  ELSE [session.view EXCEPT !.start = None,
          !.status = IF target = "claimed" THEN "not_started" ELSE "in_progress"]

(* reset_candidate_session: the jobs, days and tokens stay. *)
ResetSession(target) ==
  /\ session.there
  /\ holder = NoOne
  /\ interventions > 0
  /\ target = "not_started" \/ session.view.sub # NoSub
  /\ interventions' = interventions - 1
  /\ session' = [session EXCEPT !.view = ResetView(target)]
  /\ UNCHANGED <<now, terminated, holder, req, expiries, faults>>
  /\ UNCHANGED mail /\ UNCHANGED closing

(* set_candidate_session_day_window moves the schedule so that a day is    *)
(* open now.                                                               *)
SetDayWindow(start) ==
  /\ LocalControls
  /\ session.there /\ holder = NoOne
  /\ interventions > 0
  /\ session.view.sub # NoSub
  /\ start <= now /\ now < EndOf(start, LastDay)
  /\ interventions' = interventions - 1
  /\ session' = [session EXCEPT !.view.start = start, !.view.status = "in_progress"]
  /\ job' = EnqueuedJobs(start)
  /\ UNCHANGED <<now, terminated, holder, req, run, closed, expiries, faults>>
  /\ UNCHANGED mail

-----------------------------------------------------------------------------
(* The closing jobs. *)

(* claim_next_runnable: a due job, or one whose worker died. *)
Runnable(d) ==
  \/ job[d].status = "queued" /\ job[d].due <= now
  \/ job[d].status = "running" /\ \A w \in Workers : run[w].day # d

ClaimJob(w, d) ==
  /\ run[w].at = "idle"
  /\ Runnable(d)
  /\ job' = [job EXCEPT ![d].status = "running"]
  /\ run' = [run EXCEPT ![w] = [at |-> "claimed", day |-> d, start |-> None]]
  /\ UNCHANGED <<session, holder, req, closed>>
  /\ UNCHANGED env /\ UNCHANGED mail

(* The handler reads the session's windows, once. *)
ReadWindows(w) ==
  /\ run[w].at = "claimed"
  /\ run' = [run EXCEPT ![w].at = "decided", ![w].start = session.view.start]
  /\ UNCHANGED <<session, holder, req, job, closed>>
  /\ UNCHANGED env /\ UNCHANGED mail

(* Mutation: a day that is not over is taken for done. *)
NotDue(w) ==
  IF run[w].start = None THEN "settled" ELSE
  IF now < EndOf(run[w].start, run[w].day) THEN "settled" ELSE "close"

(* _window_gate_or_reschedule: nothing to close, not due yet, or due. *)
Verdict(w) ==
  IF run[w].start = None THEN "settled"
  ELSE IF now < EndOf(run[w].start, run[w].day) THEN "later" ELSE "close"

FinishJob(w) ==
  /\ run[w].at = "decided"
  /\ job' = [job EXCEPT ![run[w].day] =
       IF Verdict(w) = "later"
       THEN [status |-> "queued", due |-> EndOf(run[w].start, run[w].day)]
       ELSE [@ EXCEPT !.status = "settled"]]
  /\ closed' = IF Verdict(w) = "close" THEN closed \cup {run[w].day} ELSE closed
  /\ run' = [run EXCEPT ![w] = IdleRun]
  /\ UNCHANGED <<session, holder, req>>
  /\ UNCHANGED env /\ UNCHANGED mail

(* A worker dies; its job is found again when the lease is stale. *)
CrashWorker(w) ==
  /\ run[w].at # "idle"
  /\ faults > 0
  /\ faults' = faults - 1
  /\ run' = [run EXCEPT ![w] = IdleRun]
  /\ UNCHANGED <<now, terminated, session, holder, req, job, closed, expiries, interventions>>
  /\ UNCHANGED mail

-----------------------------------------------------------------------------
PartnerStep == StageInvite \/ SendInvite \/ CommitInvite \/ FailInvite

Answer(r) == LockOpen(r) \/ CommitClaim(r) \/ CommitSchedule(r) \/ Refuse(r)

CandidateStep(r) ==
  \/ \E s \in Subs : BeginClaim(r, s) \/ BeginOpen(r, s)
  \/ \E s \in Subs, n \in Usernames, t \in Starts : BeginSchedule(r, s, n, t)
  \/ Answer(r)

OperatorStep ==
  \/ \E t \in {"not_started", "claimed", "in_progress"} : ResetSession(t)
  \/ \E t \in Starts : SetDayWindow(t)

Work(w) == ReadWindows(w) \/ FinishJob(w)

WorkerStep ==
  \/ \E w \in Workers, d \in ClosingDays : ClaimJob(w, d)
  \/ \E w \in Workers : Work(w) \/ CrashWorker(w)

Next ==
  \/ Tick \/ Expire \/ TerminateTrial \/ Complete
  \/ PartnerStep \/ OperatorStep \/ WorkerStep
  \/ \E r \in Requests : CandidateStep(r)

Spec == Init /\ [][Next]_vars

(* Time passes, workers poll for ever, handlers return. *)
Fairness ==
  /\ WF_vars(Tick)
  /\ \A w \in Workers : WF_vars(Work(w))
  /\ \A d \in ClosingDays : WF_vars(\E w \in Workers : ClaimJob(w, d))

FairSpec == Spec /\ Fairness

-----------------------------------------------------------------------------
(* Properties. *)

(* What the candidate has chosen stands: however requests race, a locked   *)
(* start is not moved and a stored GitHub username not replaced but by an  *)
(* operator (_set_new_schedule, SCHEDULE_ALREADY_SET,                      *)
(* GITHUB_USERNAME_MISMATCH).                                              *)
ScheduleStands ==
  [][interventions' = interventions =>
       /\ session.view.start # None => session'.view.start = session.view.start
       /\ session.view.username # NoName =>
            session'.view.username = session.view.username]_vars

(* A session with a schedule is somebody's and every closing day has its   *)
(* job, after resets too (schedule_candidate_session_impl,                 *)
(* build_session_reset_fields, enqueue_day_close_jobs_impl).               *)
ScheduledIsOwned ==
  session.view.start # None =>
    /\ session.view.sub # NoSub
    /\ \A d \in ClosingDays : job[d].status # "absent"

(* The newest link that was mailed is that of the row or has expired since, *)
(* unless a transaction failed after the mail was sent                     *)
(* (create_or_resend_invite, record_send_result).                          *)
NewestLinkWorks == partner.at = "idle" /\ faults = Faults => mailed <= session.token

(* The candidate can get at the session: by the newest link before the     *)
(* claim, as its owner with all its days' jobs after scheduling.           *)
SessionIsReachable == ScheduledIsOwned /\ NewestLinkWorks

(* A link that has not expired works however often the invite is sent      *)
(* again (create_or_resend_invite, refresh of an expired token).           *)
LinksStayValid ==
  [][session.there /\ ~session.expired => session'.token = session.token]_vars

(* Neither a talent partner's resend nor a second request takes back what  *)
(* the candidate was given or has chosen.                                  *)
NothingIsTakenBack == ScheduleStands /\ LinksStayValid

(* A day whose closing job waits is closed, or the session is reset        *)
(* (_window_gate_or_reschedule): moving the schedule, a job that runs      *)
(* early, or a worker that dies does not lose it.                          *)
ScheduledDaysClose ==
  \A d \in ClosingDays :
    (session.view.start # None /\ job[d].status = "queued")
      ~> (d \in closed \/ session.view.start = None)

(* A claimed session belongs to one sign-in until an operator resets it    *)
(* (ensure_candidate_ownership: "Candidate session is already claimed by   *)
(* another user.").                                                        *)
OneClaimant ==
  [][interventions' = interventions /\ session.view.sub # NoSub =>
       session'.view.sub = session.view.sub]_vars
=============================================================================
