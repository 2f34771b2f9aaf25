----------------------------- MODULE InvitesProofs -----------------------------
(***************************************************************************)
(* Proofs about a candidate's invite and schedule (CandidateSessions) and  *)
(* about what the backend does at GitHub for it: the repositories made for *)
(* an invite, their workflow runs and their clean-up, which                *)
(* MCGithubServices puts side by side.  Each component is proved of its    *)
(* own specification, for every value of its constants; the last part      *)
(* carries the results over to the composition of the three.               *)
(***************************************************************************)
EXTENDS CandidateSessions, MCGithubServices, WellFoundedInduction, TLAPS

-----------------------------------------------------------------------------
(* CandidateSessions: the inductive invariant. *)

(* A request at work is of a sign-in; one that schedules has a start and a *)
(* GitHub username, and does not wait for a lock with what it has read.    *)
Busy(r) ==
  req[r].at # "idle" =>
    /\ req[r].sub \in Subs
    /\ req[r].at = "waiting" => req[r].op = "claim"
    /\ req[r].op = "schedule" => req[r].start \in Starts /\ req[r].username \in Usernames

(* A handler at work has a day. *)
Handling(w) == run[w].at # "idle" => run[w].day \in ClosingDays

(* The row is locked by the talent partner's transaction, and by every     *)
(* request that may change the claim or the schedule.                      *)
Locked ==
  /\ holder = Partner <=> partner.at # "idle"
  /\ \A r \in Requests :
       req[r].at = "loaded" /\ (req[r].op = "schedule" \/ req[r].seen.sub = NoSub) =>
         holder = r

(* What a request that schedules has loaded is still so. *)
Fresh(r) ==
  req[r].at = "loaded" /\ req[r].op = "schedule" =>
    /\ req[r].seen.sub = session.view.sub
    /\ req[r].seen.username = session.view.username
    /\ req[r].seen.start = session.view.start

(* Tokens are drawn in order; the one of an invite under way is the row's  *)
(* or will replace one that nobody can use.                                *)
Drawn ==
  /\ session.token <= issued
  /\ partner.at # "idle" =>
       /\ session.token <= partner.token /\ partner.token <= issued
       /\ partner.token = session.token \/ NeedsToken

(* While no transaction has failed, the mailed token is that of the row or *)
(* of the transaction that mailed it, or an older one.                     *)
Mailed ==
  faults = Faults =>
    mailed <= IF partner.at = "sent" THEN partner.token ELSE session.token

SessionInv ==
  /\ TypeOK
  /\ \A r \in Requests : Busy(r)
  /\ \A w \in Workers : Handling(w)
  /\ Locked
  /\ \A r \in Requests : Fresh(r)
  /\ Drawn
  /\ Mailed
  /\ ScheduledIsOwned

-----------------------------------------------------------------------------
(* CandidateSessions: rows and what the actors hold. *)

LEMMA Constants ==
  /\ NewView \in Views
  /\ IdleRequest \in RequestStates
  /\ IdleRun \in RunStates
  /\ \A t \in Starts, d \in ClosingDays : EndOf(t, d) \in Time
  /\ None \notin Starts /\ None \notin ClosingDays
BY CandidateSessionsAssumption DEF NewView, Views, IdleRequest, RequestStates, IdleRun,
   RunStates, EndOf, Starts, Time, None

LEMMA SessionInitInv == Init => SessionInv
<1> SUFFICES ASSUME Init PROVE SessionInv
  OBVIOUS
<1> USE CandidateSessionsAssumption, Constants
<1>1. TypeOK
  <2>1. session \in SessionRows
    BY DEF Init, SessionRows, Tokens
  <2>2. job \in [ClosingDays -> JobRows]
    BY DEF Init, JobRows, Time
  <2>3. partner \in [at : {"idle", "staged", "sent"}, token : Tokens]
    BY DEF Init, Tokens
  <2>4. req \in [Requests -> RequestStates] /\ run \in [Workers -> RunStates]
    BY DEF Init
  <2>5. /\ now \in Time /\ issued \in Tokens /\ mailed \in Tokens /\ expiries \in 0..Expiries
        /\ interventions \in 0..Interventions /\ faults \in 0..Faults
    BY DEF Init, Time, Tokens
  <2> QED
    BY <2>1, <2>2, <2>3, <2>4, <2>5 DEF Init, TypeOK
<1>2. Locked
  BY DEF Init, Locked, IdleRequest
<1>3. Drawn /\ Mailed
  BY DEF Init, Drawn, Mailed
<1>4. ScheduledIsOwned
  BY DEF Init, ScheduledIsOwned, NewView
<1> QED
  BY <1>1, <1>2, <1>3, <1>4 DEF Init, SessionInv, Busy, Handling, Fresh, IdleRequest, IdleRun

(* The parts of the rows. *)
LEMMA RowTypes ==
  ASSUME TypeOK
  PROVE  /\ session \in SessionRows /\ session.view \in Views
         /\ session.token \in Nat
         /\ \A r \in Requests : req[r] \in RequestStates /\ req[r].seen \in Views
         /\ \A w \in Workers : run[w] \in RunStates
         /\ \A d \in ClosingDays : job[d] \in JobRows
         /\ partner.token \in Nat /\ partner.at \in {"idle", "staged", "sent"}
BY DEF TypeOK, SessionRows, RequestStates, RunStates, JobRows, Tokens

-----------------------------------------------------------------------------
(* CandidateSessions: what time and the trial do, and what leaves the session's rows alone. *)

LEMMA AroundInv ==
  ASSUME SessionInv, Tick \/ TerminateTrial \/ Expire
  PROVE  SessionInv'
<1> USE CandidateSessionsAssumption
<1>1. TypeOK'
  <2>1. CASE Tick
    BY <2>1 DEF SessionInv, TypeOK, Tick, mail, closing, Time
  <2>2. CASE TerminateTrial
    BY <2>2 DEF SessionInv, TypeOK, TerminateTrial, mail, closing
  <2>3. CASE Expire
    <3>1. session' \in SessionRows
      BY <2>3, RowTypes DEF SessionInv, Expire, SessionRows
    <3>2. expiries' \in 0..Expiries
      BY <2>3 DEF SessionInv, TypeOK, Expire
    <3> QED
      BY <2>3, <3>1, <3>2 DEF SessionInv, TypeOK, Expire, mail, closing
  <2> QED
    BY <2>1, <2>2, <2>3
<1>2. /\ \A r \in Requests : Busy(r)' /\ Fresh(r)'
      /\ \A w \in Workers : Handling(w)'
  BY RowTypes DEF SessionInv, Tick, TerminateTrial, Expire, mail, closing, Busy, Fresh, Handling,
     SessionRows
<1>3. Locked' /\ Mailed' /\ ScheduledIsOwned'
  BY RowTypes DEF SessionInv, Tick, TerminateTrial, Expire, mail, closing, Locked, Mailed,
     ScheduledIsOwned, SessionRows
<1>4. Drawn'
  BY RowTypes DEF SessionInv, Tick, TerminateTrial, Expire, mail, closing, Drawn, NeedsToken,
     SessionRows
<1> QED
  BY <1>1, <1>2, <1>3, <1>4 DEF SessionInv

LEMMA CompleteInv ==
  ASSUME SessionInv, Complete
  PROVE  SessionInv'
<1>1. /\ session' = [session EXCEPT !.view.status = "completed"]
      /\ UNCHANGED <<holder, req, env, mail, closing>>
  BY DEF Complete
<1>2. TypeOK'
  BY <1>1, RowTypes DEF SessionInv, TypeOK, env, mail, closing, SessionRows, Views
<1>3. /\ \A r \in Requests : Busy(r)' /\ Fresh(r)'
      /\ \A w \in Workers : Handling(w)'
  BY <1>1, RowTypes DEF SessionInv, env, mail, closing, Busy, Fresh, Handling, SessionRows, Views
<1>4. Locked' /\ Mailed' /\ Drawn' /\ ScheduledIsOwned'
  BY <1>1, RowTypes DEF SessionInv, env, mail, closing, Locked, Mailed, Drawn, NeedsToken,
     ScheduledIsOwned, SessionRows, Views
<1> QED
  BY <1>2, <1>3, <1>4 DEF SessionInv

-----------------------------------------------------------------------------
(* CandidateSessions: the talent partner. *)

LEMMA StageInviteInv ==
  ASSUME SessionInv, StageInvite
  PROVE  SessionInv'
<1> USE CandidateSessionsAssumption, RowTypes DEF SessionInv
<1>1. /\ partner' = [at |-> "staged", token |-> IF NeedsToken THEN issued + 1 ELSE session.token]
      /\ issued' = IF NeedsToken THEN issued + 1 ELSE issued
      /\ holder = NoOne /\ holder' = Partner
      /\ UNCHANGED <<session, mailed, req, env, closing>>
  BY DEF StageInvite
<1>2. TypeOK'
  <2>1. /\ partner' \in [at : {"idle", "staged", "sent"}, token : Tokens]
        /\ issued' \in Tokens
    BY <1>1 DEF TypeOK, Tokens
  <2> QED
    BY <1>1, <2>1 DEF TypeOK, env, closing
<1>3. /\ \A r \in Requests : Busy(r)' /\ Fresh(r)'
      /\ \A w \in Workers : Handling(w)'
      /\ ScheduledIsOwned'
  BY <1>1 DEF Busy, Fresh, Handling, ScheduledIsOwned, closing
<1>4. Locked'
  BY <1>1 DEF Locked, TypeOK
<1>5. Drawn'
  BY <1>1 DEF Drawn, NeedsToken, TypeOK, Tokens
<1>6. Mailed'
  BY <1>1, partner.at = "idle" DEF Mailed, env, StageInvite
<1> QED
  BY <1>2, <1>3, <1>4, <1>5, <1>6

LEMMA SendInviteInv ==
  ASSUME SessionInv, SendInvite
  PROVE  SessionInv'
<1> USE CandidateSessionsAssumption, RowTypes DEF SessionInv
<1>1. /\ partner.at = "staged" /\ partner' = [partner EXCEPT !.at = "sent"]
      /\ mailed' \in {mailed, partner.token}
      /\ UNCHANGED <<session, holder, issued, req, env, closing>>
  BY DEF SendInvite
<1>2. partner'.at = "sent" /\ partner'.token = partner.token
  BY <1>1 DEF TypeOK
<1>3. TypeOK'
  BY <1>1 DEF TypeOK, env, closing, Tokens
<1>4. /\ \A r \in Requests : Busy(r)' /\ Fresh(r)'
      /\ \A w \in Workers : Handling(w)'
      /\ ScheduledIsOwned'
  BY <1>1 DEF Busy, Fresh, Handling, ScheduledIsOwned, closing
<1>5. Locked' /\ Drawn'
  BY <1>1, <1>2 DEF Locked, Drawn, NeedsToken
<1>6. Mailed'
  BY <1>1, <1>2 DEF Mailed, env, Drawn, TypeOK, Tokens
<1> QED
  BY <1>3, <1>4, <1>5, <1>6

LEMMA CommitInviteInv ==
  ASSUME SessionInv, CommitInvite
  PROVE  SessionInv'
<1> USE CandidateSessionsAssumption, RowTypes DEF SessionInv
<1>1. /\ partner.at = "sent"
      /\ partner' = [partner EXCEPT !.at = "idle"]
      /\ holder' = NoOne
      /\ UNCHANGED <<issued, mailed, req, env, closing>>
  BY DEF CommitInvite
<1>2. session'.token = partner.token /\ session'.view = session.view /\ session' \in SessionRows
  BY DEF CommitInvite, SessionRows, Tokens
<1>3. partner'.at = "idle" /\ partner'.token = partner.token
  BY <1>1 DEF TypeOK
<1>4. TypeOK'
  BY <1>1, <1>2 DEF TypeOK, env, closing
<1>5. /\ \A r \in Requests : Busy(r)' /\ Fresh(r)'
      /\ \A w \in Workers : Handling(w)'
      /\ ScheduledIsOwned'
  BY <1>1, <1>2 DEF Busy, Fresh, Handling, ScheduledIsOwned, closing
<1>6. Locked'
  BY <1>1, <1>3 DEF Locked
<1>7. Drawn' /\ Mailed'
  BY <1>1, <1>2, <1>3 DEF Drawn, Mailed, env
<1> QED
  BY <1>4, <1>5, <1>6, <1>7

LEMMA FailInviteInv ==
  ASSUME SessionInv, FailInvite
  PROVE  SessionInv'
<1> USE CandidateSessionsAssumption, RowTypes DEF SessionInv
<1>1. /\ partner.at # "idle"
      /\ partner' = [partner EXCEPT !.at = "idle"]
      /\ holder' = NoOne /\ faults > 0 /\ faults' = faults - 1
      /\ UNCHANGED <<now, terminated, session, issued, mailed, req, expiries, interventions, closing>>
  BY DEF FailInvite
<1>2. partner'.at = "idle"
  BY <1>1 DEF TypeOK
<1>3. faults' \in 0..Faults /\ faults' # Faults
  BY <1>1 DEF TypeOK
<1>4. TypeOK'
  BY <1>1, <1>3 DEF TypeOK, closing
<1>5. /\ \A r \in Requests : Busy(r)' /\ Fresh(r)'
      /\ \A w \in Workers : Handling(w)'
      /\ ScheduledIsOwned'
  BY <1>1 DEF Busy, Fresh, Handling, ScheduledIsOwned, closing
<1>6. Locked' /\ Drawn' /\ Mailed'
  BY <1>1, <1>2, <1>3 DEF Locked, Drawn, Mailed
<1> QED
  BY <1>4, <1>5, <1>6

-----------------------------------------------------------------------------
(* CandidateSessions: requests. *)

(* A request that begins: it is idle before, and its row is well typed. *)
LEMMA BeginClaimInv ==
  ASSUME SessionInv, NEW r \in Requests, NEW s \in Subs, BeginClaim(r, s)
  PROVE  SessionInv'
<1> USE CandidateSessionsAssumption, Constants, RowTypes DEF SessionInv
<1> DEFINE me == [IdleRequest EXCEPT !.at = "loaded", !.sub = s, !.seen = Identity]
<1>1. /\ req' = [req EXCEPT ![r] = me]
      /\ holder = NoOne /\ holder' = r
      /\ UNCHANGED <<session, env, mail, closing>>
  BY DEF BeginClaim, LockRow
<1>2. me \in RequestStates /\ me.op = "claim" /\ me.sub = s
  BY ZenonT(60) DEF IdleRequest, RequestStates, Identity, Views
<1> HIDE DEF me
<1>3. TypeOK'
  BY <1>1, <1>2 DEF TypeOK, env, mail, closing
<1>4. /\ \A q \in Requests : Busy(q)' /\ Fresh(q)'
      /\ \A w \in Workers : Handling(w)'
  BY <1>1, <1>2 DEF TypeOK, Busy, Fresh, Handling, closing
<1>5. Locked'
  BY <1>1 DEF TypeOK, Locked, mail
<1>6. Drawn' /\ Mailed' /\ ScheduledIsOwned'
  BY <1>1 DEF Drawn, Mailed, ScheduledIsOwned, NeedsToken, mail, env, closing
<1> QED
  BY <1>3, <1>4, <1>5, <1>6

LEMMA BeginScheduleInv ==
  ASSUME SessionInv, NEW r \in Requests, NEW s \in Subs, NEW n \in Usernames, NEW t \in Starts,
         BeginSchedule(r, s, n, t)
  PROVE  SessionInv'
<1> USE CandidateSessionsAssumption, Constants, RowTypes DEF SessionInv
<1> DEFINE me == [at |-> "loaded", op |-> "schedule", sub |-> s, start |-> t,
                  username |-> n, seen |-> session.view]
<1>1. /\ req' = [req EXCEPT ![r] = me]
      /\ holder = NoOne /\ holder' = r
      /\ UNCHANGED <<session, env, mail, closing>>
  BY DEF BeginSchedule, LockRow
<1>2. /\ me \in RequestStates /\ me.at = "loaded" /\ me.op = "schedule" /\ me.sub = s /\ me.start = t
      /\ me.username = n /\ me.seen = session.view
  BY DEF RequestStates
<1> HIDE DEF me
<1>3. TypeOK'
  BY <1>1, <1>2 DEF TypeOK, env, mail, closing
<1>4. /\ \A q \in Requests : Busy(q)' /\ Fresh(q)'
      /\ \A w \in Workers : Handling(w)'
  BY <1>1, <1>2 DEF TypeOK, Busy, Fresh, Handling, closing
<1>5. Locked'
  BY <1>1 DEF TypeOK, Locked, mail
<1>6. Drawn' /\ Mailed' /\ ScheduledIsOwned'
  BY <1>1 DEF Drawn, Mailed, ScheduledIsOwned, NeedsToken, mail, env, closing
<1> QED
  BY <1>3, <1>4, <1>5, <1>6

LEMMA BeginOpenInv ==
  ASSUME SessionInv, NEW r \in Requests, NEW s \in Subs, BeginOpen(r, s)
  PROVE  SessionInv'
<1> USE CandidateSessionsAssumption, Constants, RowTypes DEF SessionInv
<1> DEFINE me == [IdleRequest EXCEPT
                    !.at = IF session.view.sub = NoSub THEN "waiting" ELSE "loaded",
                    !.sub = s, !.seen = Identity]
<1>1. /\ req' = [req EXCEPT ![r] = me] /\ req[r].at = "idle"
      /\ UNCHANGED <<session, holder, env, mail, closing>>
  BY DEF BeginOpen
<1>2. /\ me \in RequestStates /\ me.op = "claim" /\ me.sub = s
      /\ me.at = "loaded" => me.seen.sub # NoSub
  <2>1. Identity \in Views /\ Identity.sub = session.view.sub
    BY DEF Identity, Views
  <2>2. /\ me.op = "claim" /\ me.sub = s /\ me.seen = Identity
        /\ me.at = IF session.view.sub = NoSub THEN "waiting" ELSE "loaded"
    BY DEF IdleRequest
  <2>3. me \in RequestStates
    BY <2>1 DEF IdleRequest, RequestStates
  <2> HIDE DEF me
  <2> QED
    BY <2>1, <2>2, <2>3
<1> HIDE DEF me
<1>3. TypeOK'
  BY <1>1, <1>2 DEF TypeOK, env, mail, closing
<1>4. /\ \A q \in Requests : Busy(q)' /\ Fresh(q)'
      /\ \A w \in Workers : Handling(w)'
  BY <1>1, <1>2 DEF TypeOK, Busy, Fresh, Handling, closing
<1>5. Locked'
  BY <1>1, <1>2 DEF TypeOK, Locked, mail
<1>6. Drawn' /\ Mailed' /\ ScheduledIsOwned'
  BY <1>1 DEF Drawn, Mailed, ScheduledIsOwned, NeedsToken, mail, env, closing
<1> QED
  BY <1>3, <1>4, <1>5, <1>6

LEMMA LockOpenInv ==
  ASSUME SessionInv, NEW r \in Requests, LockOpen(r)
  PROVE  SessionInv'
<1> USE CandidateSessionsAssumption, Constants, RowTypes DEF SessionInv
<1>1. /\ req' = [req EXCEPT ![r].at = "loaded"] /\ req[r].at = "waiting"
      /\ holder = NoOne /\ holder' = r
      /\ UNCHANGED <<session, env, mail, closing>>
  BY DEF LockOpen, LockRow, Goto
<1>2. /\ req' \in [Requests -> RequestStates]
      /\ req'[r].sub = req[r].sub /\ req'[r].op = req[r].op /\ req'[r].start = req[r].start
      /\ req'[r].username = req[r].username
      /\ \A q \in Requests \ {r} : req'[q] = req[q]
  BY <1>1 DEF TypeOK, RequestStates
<1>3. TypeOK'
  BY <1>1, <1>2 DEF TypeOK, env, mail, closing
<1>4. /\ \A q \in Requests : Busy(q)' /\ Fresh(q)'
      /\ \A w \in Workers : Handling(w)'
  BY <1>1, <1>2 DEF TypeOK, Busy, Fresh, Handling, closing
<1>5. Locked'
  BY <1>1, <1>2 DEF TypeOK, Locked, mail
<1>6. Drawn' /\ Mailed' /\ ScheduledIsOwned'
  BY <1>1 DEF Drawn, Mailed, ScheduledIsOwned, NeedsToken, mail, env, closing
<1> QED
  BY <1>3, <1>4, <1>5, <1>6

(* A request that ends lets the lock go, if it has it, and leaves it where *)
(* it is otherwise.                                                        *)
LEMMA EndsRequest ==
  ASSUME SessionInv, NEW r \in Requests, req[r].at # "idle",
         req' = [req EXCEPT ![r] = IdleRequest], Release(r), UNCHANGED mail
  PROVE  /\ req' \in [Requests -> RequestStates] /\ holder' \in Requests \cup {NoOne, Partner}
         /\ \A q \in Requests : Busy(q)'
         /\ \A q \in Requests : req'[q].at # "idle" => q # r /\ req'[q] = req[q]
         /\ Locked'
<1> USE CandidateSessionsAssumption, Constants, RowTypes DEF SessionInv
<1>1. req'[r].at = "idle" /\ \A q \in Requests \ {r} : req'[q] = req[q]
  BY DEF TypeOK, IdleRequest
<1>2. req' \in [Requests -> RequestStates] /\ holder' \in Requests \cup {NoOne, Partner}
  BY DEF TypeOK, Release
<1>3. \A q \in Requests : Busy(q)'
  BY <1>1 DEF Busy
<1>4. Locked'
  BY <1>1 DEF Locked, Release, mail
<1> QED
  BY <1>1, <1>2, <1>3, <1>4

LEMMA CommitClaimInv ==
  ASSUME SessionInv, NEW r \in Requests, CommitClaim(r)
  PROVE  SessionInv'
<1> USE CandidateSessionsAssumption, Constants, RowTypes DEF SessionInv
<1>1. /\ req[r].at = "loaded" /\ req[r].op = "claim" /\ session' = Claimed(r)
      /\ req' = [req EXCEPT ![r] = IdleRequest] /\ Release(r)
      /\ UNCHANGED <<env, mail, closing>>
  BY DEF CommitClaim
<1>2. /\ req' \in [Requests -> RequestStates] /\ holder' \in Requests \cup {NoOne, Partner}
      /\ \A q \in Requests : Busy(q)'
      /\ \A q \in Requests : req'[q].at # "idle" => q # r /\ req'[q] = req[q]
      /\ Locked'
  BY <1>1, EndsRequest
<1>3. /\ session'.there = session.there /\ session'.expired = session.expired
      /\ session'.token = session.token
      /\ session'.view.username = session.view.username
      /\ session'.view.start = session.view.start
      /\ session'.view.sub = IF req[r].seen.sub = NoSub THEN req[r].sub ELSE session.view.sub
  BY <1>1 DEF Claimed, SessionRows, Views
<1>4. req[r].sub \in Subs
  BY <1>1 DEF Busy
<1>5. session' \in SessionRows
  BY <1>1, <1>4 DEF Claimed, Started, SessionRows, Views
<1>6. TypeOK'
  BY <1>1, <1>2, <1>5 DEF TypeOK, env, mail, closing
<1>7. \A q \in Requests : Fresh(q)'
  <2> SUFFICES ASSUME NEW q \in Requests, req'[q].at = "loaded", req'[q].op = "schedule"
               PROVE  /\ req'[q].seen.sub = session'.view.sub
                      /\ req'[q].seen.username = session'.view.username
                      /\ req'[q].seen.start = session'.view.start
    BY DEF Fresh
  <2>1. q # r /\ req'[q] = req[q]
    BY <1>2
  <2>2. req[r].seen.sub # NoSub
    BY <1>1, <2>1 DEF Locked
  <2> QED
    BY <1>3, <2>1, <2>2 DEF Fresh
<1>8. \A w \in Workers : Handling(w)'
  BY <1>1 DEF Handling, closing
<1>9. Drawn' /\ Mailed'
  BY <1>1, <1>3 DEF Drawn, Mailed, NeedsToken, mail, env
<1>10. ScheduledIsOwned'
  BY <1>1, <1>3, <1>4 DEF ScheduledIsOwned, closing
<1> QED
  BY <1>2, <1>6, <1>7, <1>8, <1>9, <1>10

LEMMA RefuseInv ==
  ASSUME SessionInv, NEW r \in Requests, Refuse(r)
  PROVE  SessionInv'
<1> USE CandidateSessionsAssumption, Constants, RowTypes DEF SessionInv
<1>1. /\ req[r].at # "idle"
      /\ req' = [req EXCEPT ![r] = IdleRequest] /\ Release(r)
      /\ UNCHANGED <<session, env, mail, closing>>
  BY DEF Refuse
<1>2. /\ req' \in [Requests -> RequestStates] /\ holder' \in Requests \cup {NoOne, Partner}
      /\ \A q \in Requests : Busy(q)'
      /\ \A q \in Requests : req'[q].at # "idle" => q # r /\ req'[q] = req[q]
      /\ Locked'
  BY <1>1, EndsRequest
<1>3. TypeOK'
  BY <1>1, <1>2 DEF TypeOK, env, mail, closing
<1>4. /\ \A q \in Requests : Fresh(q)'
      /\ \A w \in Workers : Handling(w)'
  BY <1>1, <1>2 DEF Fresh, Handling, closing
<1>5. Drawn' /\ Mailed' /\ ScheduledIsOwned'
  BY <1>1 DEF Drawn, Mailed, ScheduledIsOwned, NeedsToken, mail, env, closing
<1> QED
  BY <1>2, <1>3, <1>4, <1>5

-----------------------------------------------------------------------------
(* CandidateSessions: schedules. *)

LEMMA EnqueuedJobsAreThere ==
  ASSUME TypeOK, NEW t \in Starts
  PROVE  /\ EnqueuedJobs(t) \in [ClosingDays -> JobRows]
         /\ \A d \in ClosingDays : EnqueuedJobs(t)[d].status # "absent"
BY Constants, RowTypes DEF EnqueuedJobs, Mutable, JobRows

LEMMA CommitScheduleInv ==
  ASSUME SessionInv, NEW r \in Requests, CommitSchedule(r)
  PROVE  SessionInv'
<1> USE CandidateSessionsAssumption, Constants, RowTypes DEF SessionInv
<1>1. /\ req[r].at = "loaded" /\ req[r].op = "schedule"
      /\ req[r].seen.sub = req[r].sub
      /\ session' = [session EXCEPT !.view.start = req[r].start, !.view.username = req[r].username]
      /\ job' = IF req[r].seen.start = None THEN EnqueuedJobs(req[r].start) ELSE job
      /\ req' = [req EXCEPT ![r] = IdleRequest] /\ Release(r)
      /\ UNCHANGED <<run, closed, env, mail>>
  BY DEF CommitSchedule
<1>2. /\ req' \in [Requests -> RequestStates] /\ holder' \in Requests \cup {NoOne, Partner}
      /\ \A q \in Requests : Busy(q)'
      /\ \A q \in Requests : req'[q].at # "idle" => q # r /\ req'[q] = req[q]
      /\ Locked'
  BY <1>1, EndsRequest
<1>3. /\ session'.there = session.there /\ session'.expired = session.expired
      /\ session'.token = session.token
      /\ session'.view.sub = session.view.sub
  BY <1>1 DEF SessionRows, Views
<1>4. req[r].sub \in Subs /\ req[r].start \in Starts /\ req[r].username \in Usernames
  BY <1>1 DEF Busy
<1>5. session' \in SessionRows
  BY <1>1, <1>4 DEF SessionRows, Views
<1>6. job' \in [ClosingDays -> JobRows]
  BY <1>1, <1>4, EnqueuedJobsAreThere DEF TypeOK
<1>7. TypeOK'
  BY <1>1, <1>2, <1>5, <1>6 DEF TypeOK, env, mail
<1>8. \A q \in Requests : Fresh(q)'
  BY <1>1, <1>2 DEF Fresh, Locked
<1>9. \A w \in Workers : Handling(w)'
  BY <1>1 DEF Handling
<1>10. Drawn' /\ Mailed'
  BY <1>1, <1>3 DEF Drawn, Mailed, NeedsToken, mail, env
<1>11. ScheduledIsOwned'
  <2>1. session'.view.sub # NoSub
    BY <1>1, <1>3, <1>4 DEF Fresh
  <2>2. \A d \in ClosingDays : job'[d].status # "absent"
    BY <1>1, <1>4, EnqueuedJobsAreThere DEF Fresh, ScheduledIsOwned
  <2> QED
    BY <2>1, <2>2 DEF ScheduledIsOwned
<1> QED
  BY <1>2, <1>7, <1>8, <1>9, <1>10, <1>11

-----------------------------------------------------------------------------
(* CandidateSessions: operators. *)

LEMMA ResetSessionInv ==
  ASSUME SessionInv, NEW t \in {"not_started", "claimed", "in_progress"}, ResetSession(t)
  PROVE  SessionInv'
<1> USE CandidateSessionsAssumption, Constants, RowTypes DEF SessionInv
<1>1. /\ holder = NoOne /\ interventions > 0 /\ interventions' = interventions - 1
      /\ session' = [session EXCEPT !.view = ResetView(t)]
      /\ UNCHANGED <<now, terminated, holder, req, expiries, faults, mail, closing>>
  BY DEF ResetSession
<1>2. ResetView(t) \in Views /\ ResetView(t).start = None
  BY DEF ResetView, Views, NewView
<1>3. session'.token = session.token /\ session' \in SessionRows /\ session'.view.start = None
      /\ session'.there = session.there /\ session'.expired = session.expired
  BY <1>1, <1>2 DEF SessionRows
<1>4. interventions' \in 0..Interventions
  BY <1>1 DEF TypeOK
<1>5. TypeOK'
  BY <1>1, <1>3, <1>4 DEF TypeOK, mail, closing
<1>6. /\ \A q \in Requests : Busy(q)' /\ Fresh(q)'
      /\ \A w \in Workers : Handling(w)'
  BY <1>1 DEF Busy, Fresh, Locked, Handling, closing
<1>7. Locked' /\ Drawn' /\ Mailed' /\ ScheduledIsOwned'
  BY <1>1, <1>3 DEF Locked, Drawn, Mailed, NeedsToken, ScheduledIsOwned, mail
<1> QED
  BY <1>5, <1>6, <1>7

LEMMA SetDayWindowInv ==
  ASSUME SessionInv, NEW t \in Starts, SetDayWindow(t)
  PROVE  SessionInv'
<1> USE CandidateSessionsAssumption, Constants, RowTypes DEF SessionInv
<1>1. /\ holder = NoOne /\ interventions > 0 /\ interventions' = interventions - 1
      /\ session.view.sub # NoSub
      /\ session' = [session EXCEPT !.view.start = t, !.view.status = "in_progress"]
      /\ job' = EnqueuedJobs(t)
      /\ UNCHANGED <<now, terminated, holder, req, run, closed, expiries, faults, mail>>
  BY DEF SetDayWindow
<1>2. /\ session'.token = session.token /\ session' \in SessionRows
      /\ session'.view.sub = session.view.sub
      /\ session'.there = session.there /\ session'.expired = session.expired
  BY <1>1 DEF SessionRows, Views
<1>3. interventions' \in 0..Interventions
  BY <1>1 DEF TypeOK
<1>4. /\ job' \in [ClosingDays -> JobRows]
      /\ \A d \in ClosingDays : job'[d].status # "absent"
  BY <1>1, EnqueuedJobsAreThere
<1>5. TypeOK'
  BY <1>1, <1>2, <1>3, <1>4 DEF TypeOK, mail
<1>6. /\ \A q \in Requests : Busy(q)' /\ Fresh(q)'
      /\ \A w \in Workers : Handling(w)'
  BY <1>1 DEF Busy, Fresh, Locked, Handling
<1>7. Locked' /\ Drawn' /\ Mailed' /\ ScheduledIsOwned'
  BY <1>1, <1>2, <1>4 DEF Locked, Drawn, Mailed, NeedsToken, ScheduledIsOwned, mail
<1> QED
  BY <1>5, <1>6, <1>7

-----------------------------------------------------------------------------
(* CandidateSessions: the closing jobs. *)

LEMMA ClaimJobInv ==
  ASSUME SessionInv, NEW w \in Workers, NEW d \in ClosingDays, ClaimJob(w, d)
  PROVE  SessionInv'
<1> USE CandidateSessionsAssumption, Constants, RowTypes DEF SessionInv
<1>1. /\ job' = [job EXCEPT ![d].status = "running"]
      /\ run' = [run EXCEPT ![w] = [at |-> "claimed", day |-> d, start |-> None]]
      /\ UNCHANGED <<session, holder, req, closed, env, mail>>
  BY DEF ClaimJob
<1>2. job' \in [ClosingDays -> JobRows] /\ run' \in [Workers -> RunStates]
  BY <1>1 DEF TypeOK, JobRows, RunStates
<1>3. TypeOK'
  BY <1>1, <1>2 DEF TypeOK, env, mail
<1>4. /\ \A q \in Requests : Busy(q)' /\ Fresh(q)'
      /\ \A v \in Workers : Handling(v)'
  BY <1>1 DEF TypeOK, Busy, Fresh, Handling
<1>5. Locked' /\ Drawn' /\ Mailed'
  BY <1>1 DEF Locked, Drawn, Mailed, NeedsToken, env, mail
<1>6. ScheduledIsOwned'
  BY <1>1 DEF TypeOK, JobRows, ScheduledIsOwned
<1> QED
  BY <1>3, <1>4, <1>5, <1>6

LEMMA ReadWindowsInv ==
  ASSUME SessionInv, NEW w \in Workers, ReadWindows(w)
  PROVE  SessionInv'
<1> USE CandidateSessionsAssumption, Constants, RowTypes DEF SessionInv
<1>1. /\ run[w].at = "claimed"
      /\ run' = [run EXCEPT ![w].at = "decided", ![w].start = session.view.start]
      /\ UNCHANGED <<session, holder, req, job, closed, env, mail>>
  BY DEF ReadWindows
<1>2. session.view.start \in Starts \cup {None}
  BY DEF Views
<1>3. /\ run' \in [Workers -> RunStates]
      /\ run'[w].day = run[w].day /\ \A v \in Workers \ {w} : run'[v] = run[v]
  BY ZenonT(60), <1>1, <1>2 DEF TypeOK, RunStates
<1>4. TypeOK'
  BY <1>1, <1>3 DEF TypeOK, env, mail
<1>5. /\ \A q \in Requests : Busy(q)' /\ Fresh(q)'
      /\ \A v \in Workers : Handling(v)'
  BY <1>1, <1>3 DEF Busy, Fresh, Handling
<1>6. Locked' /\ Drawn' /\ Mailed' /\ ScheduledIsOwned'
  BY <1>1 DEF Locked, Drawn, Mailed, NeedsToken, ScheduledIsOwned, env, mail
<1> QED
  BY <1>4, <1>5, <1>6

LEMMA FinishJobInv ==
  ASSUME SessionInv, NEW w \in Workers, FinishJob(w)
  PROVE  SessionInv'
<1> USE CandidateSessionsAssumption, Constants, RowTypes DEF SessionInv
<1> DEFINE row == IF Verdict(w) = "later"
                  THEN [status |-> "queued", due |-> EndOf(run[w].start, run[w].day)]
                  ELSE [job[run[w].day] EXCEPT !.status = "settled"]
<1>1. run[w].at = "decided" /\ run[w].day \in ClosingDays
  BY DEF FinishJob, Handling
<1>2. /\ job' = [job EXCEPT ![run[w].day] = row]
      /\ closed' \in {closed, closed \cup {run[w].day}}
      /\ run' = [run EXCEPT ![w] = IdleRun]
      /\ UNCHANGED <<session, holder, req, env, mail>>
  BY <1>1 DEF FinishJob, TypeOK
<1>3. row \in JobRows /\ row.status # "absent"
  <2>1. CASE Verdict(w) = "later"
    <3>1. run[w].start \in Starts
      BY <2>1 DEF Verdict, RunStates
    <3> QED
      BY <1>1, <2>1, <3>1 DEF JobRows
  <2>2. CASE Verdict(w) # "later"
    BY <1>1, <2>2 DEF JobRows
  <2> QED
    BY <2>1, <2>2
<1> HIDE DEF row
<1>4. TypeOK'
  BY <1>1, <1>2, <1>3 DEF TypeOK, env, mail
<1>5. /\ \A q \in Requests : Busy(q)' /\ Fresh(q)'
      /\ \A v \in Workers : Handling(v)'
  BY <1>2 DEF TypeOK, Busy, Fresh, Handling, IdleRun
<1>6. Locked' /\ Drawn' /\ Mailed'
  BY <1>2 DEF Locked, Drawn, Mailed, NeedsToken, env, mail
<1>7. ScheduledIsOwned'
  BY <1>2, <1>3 DEF TypeOK, ScheduledIsOwned
<1> QED
  BY <1>4, <1>5, <1>6, <1>7

LEMMA CrashWorkerInv ==
  ASSUME SessionInv, NEW w \in Workers, CrashWorker(w)
  PROVE  SessionInv'
<1> USE CandidateSessionsAssumption, Constants, RowTypes DEF SessionInv
<1>1. /\ faults > 0 /\ faults' = faults - 1 /\ run' = [run EXCEPT ![w] = IdleRun]
      /\ UNCHANGED <<now, terminated, session, holder, req, job, closed, expiries, interventions, mail>>
  BY DEF CrashWorker
<1>2. faults' \in 0..Faults /\ faults' # Faults
  BY <1>1 DEF TypeOK
<1>3. TypeOK'
  BY <1>1, <1>2 DEF TypeOK, mail
<1>4. /\ \A q \in Requests : Busy(q)' /\ Fresh(q)'
      /\ \A v \in Workers : Handling(v)'
  BY <1>1 DEF TypeOK, Busy, Fresh, Handling, IdleRun
<1>5. Locked' /\ Drawn' /\ Mailed' /\ ScheduledIsOwned'
  BY <1>1, <1>2 DEF Locked, Drawn, Mailed, NeedsToken, ScheduledIsOwned, mail
<1> QED
  BY <1>3, <1>4, <1>5

LEMMA SessionStutterInv ==
  ASSUME SessionInv, UNCHANGED vars
  PROVE  SessionInv'
<1>1. TypeOK'
  BY DEF SessionInv, vars, TypeOK
<1>2. /\ \A q \in Requests : Busy(q)' /\ Fresh(q)'
      /\ \A w \in Workers : Handling(w)'
  BY DEF SessionInv, vars, Busy, Fresh, Handling
<1>3. Locked' /\ Drawn' /\ Mailed' /\ ScheduledIsOwned'
  BY DEF SessionInv, vars, Locked, Drawn, Mailed, NeedsToken, ScheduledIsOwned
<1> QED
  BY <1>1, <1>2, <1>3 DEF SessionInv

LEMMA SessionStepInv == SessionInv /\ [Next]_vars => SessionInv'
<1> SUFFICES ASSUME SessionInv, [Next]_vars PROVE SessionInv'
  OBVIOUS
<1>1. CASE Tick \/ Expire \/ TerminateTrial \/ Complete
  BY <1>1, AroundInv, CompleteInv
<1>2. CASE PartnerStep
  BY <1>2, StageInviteInv, SendInviteInv, CommitInviteInv, FailInviteInv DEF PartnerStep
<1>3. CASE OperatorStep
  BY <1>3, ResetSessionInv, SetDayWindowInv DEF OperatorStep
<1>4. CASE WorkerStep
  BY <1>4, ClaimJobInv, ReadWindowsInv, FinishJobInv, CrashWorkerInv DEF WorkerStep, Work
<1>5. ASSUME NEW r \in Requests, CandidateStep(r)
      PROVE  SessionInv'
  <2>1. CASE Answer(r)
    BY <2>1, LockOpenInv, CommitClaimInv, CommitScheduleInv, RefuseInv DEF Answer
  <2>2. CASE \E s \in Subs : BeginClaim(r, s) \/ BeginOpen(r, s)
    BY <2>2, BeginClaimInv, BeginOpenInv
  <2>3. CASE \E s \in Subs, n \in Usernames, t \in Starts : BeginSchedule(r, s, n, t)
    BY <2>3, BeginScheduleInv
  <2> QED
    BY <1>5, <2>1, <2>2, <2>3 DEF CandidateStep
<1>6. CASE UNCHANGED vars
  BY <1>6, SessionStutterInv
<1> QED
  BY <1>1, <1>2, <1>3, <1>4, <1>5, <1>6 DEF Next

-----------------------------------------------------------------------------
(* CandidateSessions: what holds of every behaviour. *)

(* However requests, closing jobs and the talent partner interleave, the   *)
(* locks are held by whoever changes a row, and what was read under one is *)
(* still so (claim_invite_with_principal, schedule_candidate_session_impl, *)
(* create_or_resend_invite).                                               *)
THEOREM SessionInvariance == Spec => []SessionInv
<1> QED
  BY SessionInitInv, SessionStepInv, PTL DEF Spec

(* The rows and what the actors hold keep their types                      *)
(* (candidate_sessions, the requests, the closing jobs).                   *)
THEOREM SessionTypeCorrect == Spec => []TypeOK
<1>1. SessionInv => TypeOK
  BY DEF SessionInv
<1> QED
  BY <1>1, SessionInvariance, PTL

(* Whatever requests race, a session with a schedule is somebody's and all *)
(* its closing days have jobs; and the newest link that was mailed is that *)
(* of the row as long as no transaction failed                             *)
(* (schedule_candidate_session_impl, create_or_resend_invite).             *)
THEOREM SessionReachable == Spec => []SessionIsReachable
<1>1. SessionInv => SessionIsReachable
  BY DEF SessionInv, SessionIsReachable, NewestLinkWorks, Mailed
<1> QED
  BY <1>1, SessionInvariance, PTL

-----------------------------------------------------------------------------
(* CandidateSessions: what is not taken back. *)

LEMMA ScheduleStep ==
  ASSUME SessionInv, [Next]_vars, interventions' = interventions
  PROVE  /\ session.view.start # None => session'.view.start = session.view.start
         /\ session.view.username # NoName =>
              session'.view.username = session.view.username
<1> USE RowTypes DEF SessionInv
<1>1. CASE UNCHANGED session
  BY <1>1
<1>2. CASE Expire \/ Complete \/ CommitInvite
  <2>1. CASE Expire
    BY <2>1 DEF Expire, SessionRows
  <2>2. CASE Complete
    BY <2>2 DEF Complete, SessionRows, Views
  <2>3. CASE CommitInvite
    BY <2>3 DEF CommitInvite, SessionRows
  <2> QED
    BY <1>2, <2>1, <2>2, <2>3
<1>3. CASE OperatorStep
  <2>1. interventions' = interventions - 1
    BY <1>3 DEF OperatorStep, ResetSession, SetDayWindow
  <2> QED
    BY <2>1 DEF TypeOK
<1>4. ASSUME NEW r \in Requests, CommitClaim(r)
      PROVE  /\ session'.view.start = session.view.start
             /\ session'.view.username = session.view.username
  <2>1. session' = Claimed(r)
    BY <1>4 DEF CommitClaim
  <2> QED
    BY <2>1 DEF Claimed, SessionRows, Views
<1>5. ASSUME NEW r \in Requests, CommitSchedule(r)
      PROVE  /\ session.view.start # None => session'.view.start = session.view.start
             /\ session.view.username # NoName =>
                  session'.view.username = session.view.username
  <2>1. /\ session'.view.start = req[r].start /\ session'.view.username = req[r].username
    BY <1>5 DEF CommitSchedule, SessionRows, Views
  <2>2. /\ req[r].seen.username = session.view.username
        /\ req[r].seen.start = session.view.start
    BY <1>5 DEF CommitSchedule, Fresh
  <2> QED
    BY <1>5, <2>1, <2>2 DEF CommitSchedule
<1>6. CASE Tick \/ TerminateTrial \/ StageInvite \/ SendInvite \/ FailInvite \/ WorkerStep
  <2>1. UNCHANGED session
    BY <1>6 DEF Tick, TerminateTrial, StageInvite, SendInvite, FailInvite, WorkerStep, Work,
       ClaimJob, ReadWindows, FinishJob, CrashWorker
  <2> QED
    BY <2>1
<1>7. ASSUME NEW r \in Requests, CandidateStep(r), ~CommitClaim(r), ~CommitSchedule(r)
      PROVE  UNCHANGED session
  BY <1>7 DEF CandidateStep, Answer, BeginClaim, BeginOpen, BeginSchedule, LockOpen, Refuse
<1> QED
  BY <1>1, <1>2, <1>3, <1>4, <1>5, <1>6, <1>7 DEF Next, PartnerStep, vars

LEMMA LinkStep ==
  ASSUME SessionInv, [Next]_vars, session.there, ~session.expired
  PROVE  session'.token = session.token
<1> USE RowTypes DEF SessionInv
<1>1. CASE CommitInvite
  BY <1>1 DEF CommitInvite, Drawn, NeedsToken, SessionRows
<1>2. CASE Expire \/ Complete \/ OperatorStep
  BY <1>2 DEF Expire, Complete, OperatorStep, ResetSession, SetDayWindow, SessionRows
<1>3. CASE UNCHANGED session
  BY <1>3
<1>4. CASE Tick \/ TerminateTrial \/ StageInvite \/ SendInvite \/ FailInvite \/ WorkerStep
  <2>1. UNCHANGED session
    BY <1>4 DEF Tick, TerminateTrial, StageInvite, SendInvite, FailInvite, WorkerStep, Work,
       ClaimJob, ReadWindows, FinishJob, CrashWorker
  <2> QED
    BY <2>1
<1>5. ASSUME NEW r \in Requests, CandidateStep(r)
      PROVE  session'.token = session.token
  <2>1. CASE CommitClaim(r) \/ CommitSchedule(r)
    BY <2>1 DEF CommitClaim, Claimed, CommitSchedule, SessionRows
  <2>2. CASE ~CommitClaim(r) /\ ~CommitSchedule(r)
    BY <1>5, <2>2 DEF CandidateStep, Answer, BeginClaim, BeginOpen, BeginSchedule, LockOpen, Refuse
  <2> QED
    BY <2>1, <2>2
<1> QED
  BY <1>1, <1>2, <1>3, <1>4, <1>5 DEF Next, PartnerStep, vars

(* However requests race, a locked start is not moved and a stored GitHub  *)
(* username not replaced but by an operator; and a link that has not       *)
(* expired survives every resend (_set_new_schedule,                       *)
(* SCHEDULE_ALREADY_SET, GITHUB_USERNAME_MISMATCH, refresh of a token).    *)
THEOREM NothingTakenBack == Spec => NothingIsTakenBack
<1>1. SessionInv /\ [Next]_vars =>
        [interventions' = interventions =>
           /\ session.view.start # None => session'.view.start = session.view.start
           /\ session.view.username # NoName =>
                session'.view.username = session.view.username]_vars
  BY ScheduleStep
<1>2. SessionInv /\ [Next]_vars =>
        [session.there /\ ~session.expired => session'.token = session.token]_vars
  BY LinkStep
<1> QED
  BY <1>1, <1>2, SessionInvariance, PTL DEF Spec, NothingIsTakenBack, ScheduleStands, LinksStayValid

-----------------------------------------------------------------------------
(* WorkspaceCleanup: the inductive invariant. *)

(* What a row says of workspace w is so. *)
RowIsTrue(row, w) ==
  /\ row.status = "archived" => repo[w] # "live"
  /\ row.status = "deleted" => repo[w] = "gone"
  /\ row.revoked = "yes" => w \notin NeverLeft

Verdicts == CleanupStatuses \ {"none"}

(* A sweep at work has records left, a running job of its own, and only    *)
(* listed sessions that were over are cleaned up.                          *)
SweepsInOrder(k) ==
  sweep[k].at # "idle" =>
    /\ sweep[k].todo # {} /\ sweep[k].todo \subseteq sweep[k].listed
    /\ sweep[k].of \in SweepJobs /\ sweepJob[sweep[k].of].status = "running"
    /\ \A l \in Sweepers : sweep[l].at # "idle" /\ sweep[l].of = sweep[k].of => l = k
    /\ \A w \in sweep[k].due : w \in finished \/ TrialOf[w] \in ended

(* However stale, what a sweep has loaded and what it is about to store is *)
(* true, for nothing at GitHub is ever undone but a removal, and that only *)
(* by an invitation.                                                       *)
SweepsTellTruth(k) ==
  /\ \A w \in Workspaces : RowIsTrue(sweep[k].seen[w], w)
  /\ sweep[k].at \in {"clean", "commit", "raise"} => RowIsTrue(sweep[k].row, Target(k))

(* The records behind a sweep have a verdict, the one at hand is getting   *)
(* one, and no verdict that was loaded has been taken back.                *)
SweepsLeaveVerdicts(k) ==
  sweep[k].at # "idle" =>
    /\ \A w \in sweep[k].listed \ sweep[k].todo : wsRow[w].status \in Verdicts
    /\ sweep[k].at \in {"commit", "raise"} => sweep[k].row.status \in Verdicts
    /\ \A w \in Workspaces : sweep[k].seen[w].status \in Verdicts => wsRow[w].status \in Verdicts

(* Only the due records are cleaned up, and not while the candidate of a   *)
(* session that was cut off can write, not having been invited again.      *)
CleansTheDue(k) ==
  sweep[k].at = "clean" =>
    /\ Target(k) \in sweep[k].due
    /\ Target(k) \in sweep[k].cut => Target(k) \notin NeverLeft

CleanupInv ==
  /\ CleanupTypeOK
  /\ \A w \in Workspaces : RowIsTrue(wsRow[w], w)
  /\ \A k \in Sweepers :
       SweepsInOrder(k) /\ SweepsTellTruth(k) /\ SweepsLeaveVerdicts(k) /\ CleansTheDue(k)

-----------------------------------------------------------------------------
(* WorkspaceCleanup: rows and sweeps. *)

LEMMA MinOfNaturals ==
  ASSUME NEW S, S \subseteq Nat, S # {}
  PROVE  \E w \in S : \A v \in S : w <= v
<1>1. IsWellFoundedOn(OpToRel(<, Nat), Nat)
  BY NatLessThanWellFounded
<1>2. PICK w \in S : \A v \in S : ~(<<v, w>> \in OpToRel(<, Nat))
  BY <1>1, WFMin
<1>3. ASSUME NEW v \in S PROVE w <= v
  <2>1. ~(v < w)
    BY <1>2 DEF OpToRel
  <2> QED
    BY <2>1
<1> QED
  BY <1>3

(* The record at hand is one of those left. *)
LEMMA TargetIsLeft ==
  ASSUME CleanupTypeOK, NEW k \in Sweepers, sweep[k].todo # {}
  PROVE  Target(k) \in sweep[k].todo /\ Target(k) \in Workspaces
<1>1. sweep[k].todo \subseteq Workspaces
  BY DEF CleanupTypeOK, Sweeps
<1>2. \E w \in sweep[k].todo : \A v \in sweep[k].todo : w <= v
  BY <1>1, MinOfNaturals, WorkspaceCleanupAssumption
<1> QED
  BY <1>1, <1>2 DEF Target

LEMMA SameTarget ==
  ASSUME NEW k \in Sweepers, sweep'[k].todo = sweep[k].todo
  PROVE  Target(k)' = Target(k)
BY DEF Target

LEMMA CleanupRowTypes ==
  ASSUME CleanupTypeOK
  PROVE  /\ \A w \in Workspaces : wsRow[w] \in WorkspaceRows
         /\ \A k \in Sweepers :
              /\ sweep[k] \in Sweeps /\ sweep[k].row \in WorkspaceRows
              /\ \A w \in Workspaces : sweep[k].seen[w] \in WorkspaceRows
         /\ \A j \in SweepJobs :
              sweepJob[j].attempt \in 0..SweepAttempts
         /\ NewRow \in WorkspaceRows /\ IdleSweep \in Sweeps
BY DEF CleanupTypeOK, Sweeps, NewRow, IdleSweep, WorkspaceRows, CleanupStatuses, SweepJobs

(* A sweep that is idle again claims nothing. *)
LEMMA NewRowIsTrue ==
  ASSUME NEW w
  PROVE  RowIsTrue(NewRow, w)
BY DEF RowIsTrue, NewRow

LEMMA CleanupInitInv == CleanupInit => CleanupInv
<1> SUFFICES ASSUME CleanupInit PROVE CleanupInv
  OBVIOUS
<1> USE WorkspaceCleanupAssumption
<1>1. NewRow \in WorkspaceRows /\ IdleSweep \in Sweeps
  BY DEF NewRow, WorkspaceRows, CleanupStatuses, IdleSweep, Sweeps, SweepJobs
<1>2. sweepJob \in [SweepJobs -> [status : {"absent", "queued", "running", "succeeded", "dead_letter"},
                                  attempt : 0..SweepAttempts]]
  BY DEF CleanupInit
<1>3. /\ wsRow \in [Workspaces -> WorkspaceRows] /\ sweep \in [Sweepers -> Sweeps]
      /\ repo \in [Workspaces -> {"live", "archived", "gone"}]
      /\ scenarioJob \in [Trials -> {"pending", "cancelled"}]
      /\ cleanupFaults \in 0..CleanupFaults
  BY <1>1 DEF CleanupInit
<1>4. CleanupTypeOK
  BY <1>2, <1>3 DEF CleanupInit, CleanupTypeOK
<1>5. \A w \in Workspaces : RowIsTrue(wsRow[w], w)
  BY NewRowIsTrue DEF CleanupInit
<1>6. ASSUME NEW k \in Sweepers
      PROVE  SweepsInOrder(k) /\ SweepsTellTruth(k) /\ SweepsLeaveVerdicts(k) /\ CleansTheDue(k)
  <2>1. sweep[k] = IdleSweep
    BY DEF CleanupInit
  <2> QED
    BY <2>1, NewRowIsTrue DEF IdleSweep, SweepsInOrder, SweepsTellTruth, SweepsLeaveVerdicts,
       CleansTheDue
<1> QED
  BY <1>4, <1>5, <1>6 DEF CleanupInv

(* Nothing at GitHub is undone, other than by an invitation. *)
Forward ==
  /\ NeverLeft' \subseteq NeverLeft
  /\ \A w \in Workspaces :
       (repo[w] # "live" => repo'[w] # "live") /\ (repo[w] = "gone" => repo'[w] = "gone")

LEMMA AccessSteps ==
  ASSUME CleanupTypeOK
  PROVE  /\ UNCHANGED <<collaborators, reinvited>> =>
              /\ NeverLeft' = NeverLeft
              /\ collaborators' \subseteq Workspaces /\ reinvited' \subseteq Workspaces
         /\ \A w \in Workspaces : RemoveCollaborator(w) =>
              /\ NeverLeft' \subseteq NeverLeft /\ w \notin NeverLeft'
              /\ collaborators' \subseteq Workspaces /\ reinvited' \subseteq Workspaces
BY DEF CleanupTypeOK, NeverLeft, RemoveCollaborator

LEMMA TruthStays ==
  ASSUME Forward, NEW w \in Workspaces, NEW row, RowIsTrue(row, w)
  PROVE  /\ row.status = "archived" => repo'[w] # "live"
         /\ row.status = "deleted" => repo'[w] = "gone"
         /\ row.revoked = "yes" => w \notin NeverLeft'
BY DEF Forward, RowIsTrue

(* A step that touches neither rows nor sweeps. *)
LEMMA QuietCleanup ==
  ASSUME CleanupInv, CleanupTypeOK', UNCHANGED <<wsRow, sweep>>, Forward,
         finished \subseteq finished', ended \subseteq ended',
         \A j \in SweepJobs : sweepJob[j].status = "running" => sweepJob'[j] = sweepJob[j]
  PROVE  CleanupInv'
<1> USE DEF CleanupInv
<1>1. \A w \in Workspaces : RowIsTrue(wsRow[w], w)'
  BY TruthStays DEF RowIsTrue
<1>2. ASSUME NEW k \in Sweepers
      PROVE  /\ SweepsInOrder(k)' /\ SweepsTellTruth(k)'
             /\ SweepsLeaveVerdicts(k)' /\ CleansTheDue(k)'
  <2>1. SweepsInOrder(k)'
    BY CleanupRowTypes DEF SweepsInOrder
  <2>2. Target(k)' = Target(k)
    BY SameTarget
  <2>3. SweepsTellTruth(k)'
    <3>1. \A w \in Workspaces : RowIsTrue(sweep[k].seen[w], w)'
      BY TruthStays DEF RowIsTrue, SweepsTellTruth
    <3>2. sweep[k].at \in {"clean", "commit", "raise"} => Target(k) \in Workspaces
      BY TargetIsLeft DEF SweepsInOrder
    <3> QED
      BY <2>2, <3>1, <3>2, TruthStays DEF RowIsTrue, SweepsTellTruth
  <2>4. SweepsLeaveVerdicts(k)'
    BY DEF SweepsLeaveVerdicts
  <2>5. CleansTheDue(k)'
    BY <2>2 DEF CleansTheDue, Forward
  <2> QED
    BY <2>1, <2>3, <2>4, <2>5
<1> QED
  BY <1>1, <1>2

LEMMA AroundSweeps ==
  ASSUME CleanupInv,
         \/ \E w \in Workspaces :
              CutSession(w) \/ InviteAgain(w) \/ FinishSession(w) \/ Vanish(w)
         \/ \E t \in Trials : TerminateWithCleanup(t)
         \/ Ripen \/ \E key \in RunKeys : SweepCompany(key)
         \/ UNCHANGED cleanupVars
  PROVE  CleanupInv'
<1> USE CleanupRowTypes, WorkspaceCleanupAssumption DEF CleanupInv
<1>0. UNCHANGED github => Forward
  BY DEF github, Forward, NeverLeft
<1>1. ASSUME NEW w \in Workspaces, CutSession(w) \/ InviteAgain(w) \/ FinishSession(w)
      PROVE  CleanupInv'
  <2>1. /\ NeverLeft' \subseteq NeverLeft
        /\ collaborators' \subseteq Workspaces /\ reinvited' \subseteq Workspaces
    BY <1>1 DEF CutSession, InviteAgain, FinishSession, RemoveCollaborator, github, NeverLeft,
       CleanupTypeOK
  <2>2. CleanupTypeOK'
    BY <1>1, <2>1 DEF CutSession, InviteAgain, FinishSession, working, github, CleanupTypeOK
  <2>3. Forward
    BY <1>1, <2>1 DEF CutSession, InviteAgain, FinishSession, github, Forward
  <2> QED
    BY <1>1, <2>2, <2>3, QuietCleanup DEF CutSession, InviteAgain, FinishSession, working
<1>2. ASSUME NEW w \in Workspaces, Vanish(w)
      PROVE  CleanupInv'
  <2>1. repo' \in [Workspaces -> {"live", "archived", "gone"}] /\ cleanupFaults' \in 0..CleanupFaults
    BY <1>2 DEF Vanish, CleanupTypeOK
  <2>2. CleanupTypeOK'
    BY <1>2, <2>1 DEF Vanish, CleanupTypeOK
  <2>3. Forward
    BY <1>2 DEF Vanish, CleanupTypeOK, Forward, NeverLeft
  <2> QED
    BY <1>2, <2>2, <2>3, QuietCleanup DEF Vanish
<1>3. ASSUME NEW j \in SweepJobs, EnqueueSweep(j)
      PROVE  /\ sweepJob' \in [SweepJobs -> [status : {"absent", "queued", "running", "succeeded", "dead_letter"},
                                             attempt : 0..SweepAttempts]]
             /\ \A i \in SweepJobs : sweepJob[i].status = "running" => sweepJob'[i] = sweepJob[i]
  BY <1>3 DEF EnqueueSweep, CleanupTypeOK
<1>4. ASSUME NEW t \in Trials, TerminateWithCleanup(t)
      PROVE  CleanupInv'
  <2>1. CancelledJobs(t) \in [Trials -> {"pending", "cancelled"}]
    BY DEF CancelledJobs, CleanupTypeOK
  <2>2. t \in SweepJobs
    BY DEF SweepJobs
  <2>3. CleanupTypeOK' /\ Forward
    BY <1>0, <1>3, <1>4, <2>1, <2>2 DEF TerminateWithCleanup, github, CleanupTypeOK
  <2> QED
    BY <1>3, <1>4, <2>2, <2>3, QuietCleanup DEF TerminateWithCleanup
<1>5. CASE Ripen
  <2>1. CleanupTypeOK' /\ Forward
    BY <1>0, <1>5 DEF Ripen, working, github, CleanupTypeOK
  <2> QED
    BY <1>5, <2>1, QuietCleanup DEF Ripen, working
<1>6. ASSUME NEW key \in RunKeys, SweepCompany(key)
      PROVE  CleanupInv'
  <2>1. key \in SweepJobs
    BY DEF SweepJobs
  <2>2. CleanupTypeOK' /\ Forward
    BY <1>0, <1>3, <1>6, <2>1 DEF SweepCompany, github, CleanupTypeOK
  <2> QED
    BY <1>3, <1>6, <2>1, <2>2, QuietCleanup DEF SweepCompany
<1>7. CASE UNCHANGED cleanupVars
  <2>1. CleanupTypeOK' /\ Forward
    BY <1>0, <1>7 DEF cleanupVars, github, CleanupTypeOK
  <2> QED
    BY <1>7, <2>1, QuietCleanup DEF cleanupVars
<1> QED
  BY <1>1, <1>2, <1>4, <1>5, <1>6, <1>7

-----------------------------------------------------------------------------
(* WorkspaceCleanup: the steps of a sweep. *)

(* What is stored over a row has, column by column, the new value or the   *)
(* one that was there.                                                     *)
LEMMA WrittenColumns ==
  ASSUME NEW new \in WorkspaceRows, NEW loaded \in WorkspaceRows, NEW current \in WorkspaceRows
  PROVE  /\ Written(new, loaded, current) \in WorkspaceRows
         /\ Written(new, loaded, current).status =
              IF new.status = loaded.status THEN current.status ELSE new.status
         /\ Written(new, loaded, current).revoked =
              IF new.revoked = loaded.revoked THEN current.revoked ELSE new.revoked
<1>1. DOMAIN new = {"status", "cleaned", "revoked"}
  BY DEF WorkspaceRows
<1>2. Written(new, loaded, current) =
        [status |-> IF new.status = loaded.status THEN current.status ELSE new.status,
         cleaned |-> IF new.cleaned = loaded.cleaned THEN current.cleaned ELSE new.cleaned,
         revoked |-> IF new.revoked = loaded.revoked THEN current.revoked ELSE new.revoked]
  BY <1>1 DEF Written
<1> QED
  BY <1>2 DEF WorkspaceRows

(* The others while one sweep takes a step. *)
LEMMA OtherSweep ==
  ASSUME CleanupInv, NEW k \in Sweepers, NEW l \in Sweepers, l # k,
         \A m \in Sweepers \ {k} : sweep'[m] = sweep[m],
         Forward, UNCHANGED <<finished, ended>>,
         \A w \in Workspaces : wsRow[w].status \in Verdicts => wsRow'[w].status \in Verdicts,
         sweep[l].at # "idle" =>
           /\ sweepJob'[sweep[l].of].status = "running"
           /\ sweep'[k].at = "idle" \/ sweep'[k].of # sweep[l].of
  PROVE  /\ SweepsInOrder(l)' /\ SweepsTellTruth(l)'
         /\ SweepsLeaveVerdicts(l)' /\ CleansTheDue(l)'
<1> USE DEF CleanupInv
<1>1. sweep'[l] = sweep[l]
  OBVIOUS
<1>2. Target(l)' = Target(l)
  BY <1>1, SameTarget
<1>3. SweepsInOrder(l)'
  BY <1>1 DEF SweepsInOrder
<1>4. SweepsTellTruth(l)'
  <2>1. \A w \in Workspaces : RowIsTrue(sweep[l].seen[w], w)'
    BY <1>1, TruthStays DEF RowIsTrue, SweepsTellTruth
  <2>2. sweep[l].at \in {"clean", "commit", "raise"} => Target(l) \in Workspaces
    BY TargetIsLeft DEF SweepsInOrder
  <2> QED
    BY <1>1, <1>2, <2>1, <2>2, TruthStays DEF RowIsTrue, SweepsTellTruth
<1>5. SweepsLeaveVerdicts(l)'
  BY <1>1, CleanupRowTypes DEF SweepsLeaveVerdicts, CleanupTypeOK, Sweeps
<1>6. CleansTheDue(l)'
  BY <1>1, <1>2 DEF CleansTheDue, Forward
<1> QED
  BY <1>3, <1>4, <1>5, <1>6

(* A sweep that ends: its job settles or waits. *)
LEMMA SweepEnds ==
  ASSUME CleanupInv, NEW k \in Sweepers, sweep[k].at # "idle",
         sweep' = [sweep EXCEPT ![k] = IdleSweep], CleanupTypeOK',
         Forward, UNCHANGED <<finished, ended>>,
         \A w \in Workspaces : RowIsTrue(wsRow[w], w)',
         \A w \in Workspaces : wsRow[w].status \in Verdicts => wsRow'[w].status \in Verdicts,
         \A j \in SweepJobs \ {sweep[k].of} : sweepJob'[j] = sweepJob[j]
  PROVE  CleanupInv'
<1> USE CleanupRowTypes DEF CleanupInv
<1>1. sweep'[k] = IdleSweep /\ \A m \in Sweepers \ {k} : sweep'[m] = sweep[m]
  BY DEF CleanupTypeOK
<1>2. ASSUME NEW l \in Sweepers, l # k
      PROVE  /\ SweepsInOrder(l)' /\ SweepsTellTruth(l)'
             /\ SweepsLeaveVerdicts(l)' /\ CleansTheDue(l)'
  <2>1. sweep[l].at # "idle" => sweepJob'[sweep[l].of].status = "running"
    <3>1. sweep[l].at # "idle" => sweep[l].of # sweep[k].of
      BY <1>2 DEF SweepsInOrder
    <3> QED
      BY <3>1 DEF SweepsInOrder
  <2> QED
    BY <1>1, <1>2, <2>1, OtherSweep DEF IdleSweep
<1>3. /\ SweepsInOrder(k)' /\ SweepsTellTruth(k)'
      /\ SweepsLeaveVerdicts(k)' /\ CleansTheDue(k)'
  BY <1>1, NewRowIsTrue DEF IdleSweep, SweepsInOrder, SweepsTellTruth, SweepsLeaveVerdicts,
     CleansTheDue, RowIsTrue, NewRow
<1> QED
  BY <1>2, <1>3

(* What a row will say of a workspace is so. *)
WillBeTrue(row, w) ==
  /\ row.status = "archived" => repo'[w] # "live"
  /\ row.status = "deleted" => repo'[w] = "gone"
  /\ row.revoked = "yes" => w \notin NeverLeft'

(* A sweep that goes on with the record at hand. *)
LEMMA SweepProceeds ==
  ASSUME CleanupInv, NEW k \in Sweepers, sweep[k].at # "idle",
         NEW to, to.at \in {"clean", "commit", "raise"}, to.row \in WorkspaceRows,
         Proceed(k, to), UNCHANGED <<wsRow, sweepJob, outside>>,
         repo' \in [Workspaces -> {"live", "archived", "gone"}],
         cleanupFaults' \in 0..CleanupFaults, Forward,
         collaborators' \subseteq Workspaces, reinvited' \subseteq Workspaces,
         WillBeTrue(to.row, Target(k)),
         to.at \in {"commit", "raise"} => to.row.status \in Verdicts,
         to.at = "clean" =>
           /\ Target(k) \in sweep[k].due
           /\ Target(k) \in sweep[k].cut => Target(k) \notin NeverLeft'
  PROVE  CleanupInv'
<1> USE CleanupRowTypes DEF CleanupInv
<1>1. sweep' = [sweep EXCEPT ![k].at = to.at, ![k].row = to.row]
  BY DEF Proceed
<1>2. sweep' \in [Sweepers -> Sweeps]
  <2>1. sweep \in [Sweepers -> Sweeps] /\ sweep[k] \in Sweeps
    BY DEF CleanupTypeOK
  <2>2. [sweep[k] EXCEPT !.at = to.at, !.row = to.row] \in Sweeps
    BY <2>1 DEF Sweeps
  <2>3. sweep' = [sweep EXCEPT ![k] = [sweep[k] EXCEPT !.at = to.at, !.row = to.row]]
    BY <1>1, <2>1
  <2> QED
    BY <2>1, <2>2, <2>3
<1>3. /\ sweep'[k].at = to.at /\ sweep'[k].row = to.row
      /\ sweep'[k].todo = sweep[k].todo /\ sweep'[k].listed = sweep[k].listed
      /\ sweep'[k].of = sweep[k].of /\ sweep'[k].seen = sweep[k].seen
      /\ sweep'[k].cut = sweep[k].cut /\ sweep'[k].due = sweep[k].due
      /\ \A m \in Sweepers \ {k} : sweep'[m] = sweep[m]
  BY <1>1 DEF CleanupTypeOK, Sweeps
<1>4. CleanupTypeOK'
  BY <1>2 DEF CleanupTypeOK, outside
<1>5. \A w \in Workspaces : RowIsTrue(wsRow[w], w)'
  BY TruthStays DEF RowIsTrue
<1>6. ASSUME NEW l \in Sweepers, l # k
      PROVE  /\ SweepsInOrder(l)' /\ SweepsTellTruth(l)'
             /\ SweepsLeaveVerdicts(l)' /\ CleansTheDue(l)'
  <2>1. sweep[l].at # "idle" =>
          /\ sweepJob'[sweep[l].of].status = "running"
          /\ sweep'[k].at = "idle" \/ sweep'[k].of # sweep[l].of
    BY <1>3, <1>6 DEF SweepsInOrder
  <2> QED
    BY <1>3, <1>6, <2>1, OtherSweep DEF outside
<1>7. Target(k)' = Target(k)
  BY <1>3, SameTarget
<1>8. SweepsInOrder(k)'
  BY <1>3 DEF SweepsInOrder, outside
<1>9. SweepsTellTruth(k)'
  BY <1>3, <1>7, TruthStays DEF SweepsTellTruth, RowIsTrue, WillBeTrue
<1>10. SweepsLeaveVerdicts(k)'
  BY <1>3 DEF SweepsLeaveVerdicts
<1>11. CleansTheDue(k)'
  BY <1>3, <1>7 DEF CleansTheDue
<1> QED
  BY <1>4, <1>5, <1>6, <1>8, <1>9, <1>10, <1>11

LEMMA MarkedRow ==
  ASSUME NEW row \in WorkspaceRows, NEW s \in {"pending", "failed"}
  PROVE  /\ Marked(row, s) \in WorkspaceRows
         /\ Marked(row, s).status \in Verdicts
         /\ Marked(row, s).status \in {row.status, s}
         /\ Marked(row, s).revoked = row.revoked
BY DEF Marked, CleanupComplete, WorkspaceRows, Verdicts, CleanupStatuses

(* Where a record goes after the revocation. *)
LEMMA AfterRevocationGoes ==
  ASSUME NEW k \in Sweepers, NEW row \in WorkspaceRows
  PROVE  LET to == AfterRevocation(k, row) IN
         /\ to.at \in {"clean", "commit"} /\ to.row \in WorkspaceRows
         /\ to.row.status \in {row.status, "pending"} /\ to.row.revoked = row.revoked
         /\ to.at = "commit" => to.row.status \in Verdicts
         /\ to.at = "clean" => Target(k) \in sweep[k].due
<1>1. CASE Target(k) \notin sweep[k].due \/ ~sweep[k].old
  BY <1>1, MarkedRow DEF AfterRevocation
<1>2. CASE ~(Target(k) \notin sweep[k].due \/ ~sweep[k].old) /\ CleanupComplete(row)
  BY <1>2 DEF AfterRevocation, CleanupComplete, Verdicts, CleanupStatuses
<1>3. CASE ~(Target(k) \notin sweep[k].due \/ ~sweep[k].old) /\ ~CleanupComplete(row)
  BY <1>3 DEF AfterRevocation
<1> QED
  BY <1>1, <1>2, <1>3

LEMMA RevokeKeeps ==
  ASSUME CleanupInv, NEW k \in Sweepers, Revoke(k)
  PROVE  CleanupInv'
<1> USE CleanupRowTypes DEF CleanupInv
<1> DEFINE w == Target(k)
           row == Loaded(k)
<1>1. sweep[k].at # "idle" /\ w \in Workspaces
  BY TargetIsLeft DEF Revoke, SweepsInOrder
<1>2. row \in WorkspaceRows /\ RowIsTrue(row, w)
  BY <1>1 DEF Loaded, SweepsTellTruth
<1>3. UNCHANGED <<wsRow, sweepJob, outside, repo>>
  BY DEF Revoke
<1>4. repo' \in [Workspaces -> {"live", "archived", "gone"}]
  BY <1>3 DEF CleanupTypeOK
<1>5. (w \in sweep[k].cut /\ row.revoked = "yes") => w \notin NeverLeft
  BY <1>2 DEF RowIsTrue
<1> HIDE DEF w, row
<1>6. CASE /\ w \notin sweep[k].cut \/ row.revoked = "yes"
           /\ Proceed(k, AfterRevocation(k, row))
           /\ UNCHANGED <<collaborators, reinvited, cleanupFaults>>
  <2> DEFINE to == AfterRevocation(k, row)
  <2>1. /\ to.at \in {"clean", "commit"} /\ to.row \in WorkspaceRows
        /\ to.row.status \in {row.status, "pending"} /\ to.row.revoked = row.revoked
        /\ to.at = "commit" => to.row.status \in Verdicts
        /\ to.at = "clean" => w \in sweep[k].due
    BY <1>2, AfterRevocationGoes DEF w
  <2> HIDE DEF to
  <2>2. WillBeTrue(to.row, w)
    BY <1>2, <1>3, <1>6, <2>1, AccessSteps DEF WillBeTrue, RowIsTrue
  <2>3. /\ Forward
        /\ cleanupFaults' \in 0..CleanupFaults
        /\ collaborators' \subseteq Workspaces /\ reinvited' \subseteq Workspaces
    BY <1>1, <1>3, <1>6, AccessSteps DEF Forward, CleanupTypeOK
  <2>4. to.at = "clean" =>
          /\ w \in sweep[k].due
          /\ w \in sweep[k].cut => w \notin NeverLeft'
    BY <1>5, <1>6, <2>1, AccessSteps
  <2>5. Proceed(k, to)
    BY <1>6 DEF to
  <2> QED
    BY <1>1, <1>3, <1>4, <2>1, <2>2, <2>3, <2>4, <2>5, SweepProceeds DEF w
<1>7. CASE /\ RemoveCollaborator(w)
           /\ Proceed(k, AfterRevocation(k, [row EXCEPT !.revoked = "yes"]))
           /\ UNCHANGED cleanupFaults
  <2> DEFINE marked == [row EXCEPT !.revoked = "yes"]
             to == AfterRevocation(k, marked)
  <2>1. marked \in WorkspaceRows /\ marked.status = row.status /\ marked.revoked = "yes"
    BY <1>2 DEF WorkspaceRows
  <2>2. /\ to.at \in {"clean", "commit"} /\ to.row \in WorkspaceRows
        /\ to.row.status \in {row.status, "pending"} /\ to.row.revoked = "yes"
        /\ to.at = "commit" => to.row.status \in Verdicts
        /\ to.at = "clean" => w \in sweep[k].due
    <3> HIDE DEF marked
    <3> QED
      BY <2>1, AfterRevocationGoes DEF w
  <2>3. Proceed(k, to)
    BY <1>7
  <2> HIDE DEF to, marked
  <2>4. WillBeTrue(to.row, w)
    BY <1>1, <1>2, <1>3, <1>7, <2>2, AccessSteps DEF WillBeTrue, RowIsTrue
  <2>5. /\ Forward
        /\ cleanupFaults' \in 0..CleanupFaults
        /\ collaborators' \subseteq Workspaces /\ reinvited' \subseteq Workspaces
    BY <1>1, <1>3, <1>7, AccessSteps DEF Forward, CleanupTypeOK
  <2>6. w \notin NeverLeft'
    BY <1>1, <1>7, AccessSteps
  <2> QED
    BY <1>1, <1>3, <1>4, <2>2, <2>3, <2>4, <2>5, <2>6, SweepProceeds DEF w
<1>8. CASE /\ Proceed(k, [at |-> "commit",
                          row |-> [Marked(row, "failed") EXCEPT !.revoked = "failed"]])
           /\ UNCHANGED <<collaborators, reinvited, cleanupFaults>>
  <2> DEFINE to == [at |-> "commit", row |-> [Marked(row, "failed") EXCEPT !.revoked = "failed"]]
  <2>1. /\ to.at = "commit" /\ to.row \in WorkspaceRows /\ to.row.status \in Verdicts
        /\ to.row.status \in {row.status, "failed"} /\ to.row.revoked = "failed"
    BY <1>2, MarkedRow DEF WorkspaceRows
  <2>2. Proceed(k, to)
    BY <1>8
  <2> HIDE DEF to
  <2>3. WillBeTrue(to.row, w)
    BY <1>2, <1>3, <2>1, AccessSteps DEF WillBeTrue, RowIsTrue
  <2>4. /\ Forward
        /\ cleanupFaults' \in 0..CleanupFaults
        /\ collaborators' \subseteq Workspaces /\ reinvited' \subseteq Workspaces
    BY <1>1, <1>3, <1>8, AccessSteps DEF Forward, CleanupTypeOK
  <2> QED
    BY <1>1, <1>3, <1>4, <2>1, <2>2, <2>3, <2>4, SweepProceeds DEF w
<1>9. CASE /\ cleanupFaults > 0
           /\ cleanupFaults' = cleanupFaults - 1
           /\ Proceed(k, [at |-> "raise",
                          row |-> [row EXCEPT !.status = "failed", !.revoked = "failed"]])
           /\ UNCHANGED <<collaborators, reinvited>>
  <2> DEFINE to == [at |-> "raise", row |-> [row EXCEPT !.status = "failed", !.revoked = "failed"]]
  <2>1. /\ to.at = "raise" /\ to.row \in WorkspaceRows /\ to.row.status = "failed"
        /\ to.row.revoked = "failed" /\ to.row.status \in Verdicts
    BY <1>2 DEF WorkspaceRows, CleanupStatuses, Verdicts
  <2>2. Proceed(k, to)
    BY <1>9
  <2> HIDE DEF to
  <2>3. WillBeTrue(to.row, w)
    BY <2>1 DEF WillBeTrue
  <2>4. cleanupFaults' \in 0..CleanupFaults
    BY <1>9, WorkspaceCleanupAssumption DEF CleanupTypeOK
  <2>5. /\ Forward
        /\ collaborators' \subseteq Workspaces /\ reinvited' \subseteq Workspaces
    BY <1>3, <1>9, AccessSteps DEF Forward
  <2> QED
    BY <1>1, <1>3, <1>4, <2>1, <2>2, <2>3, <2>4, <2>5, SweepProceeds DEF w
<1> QED
  BY <1>6, <1>7, <1>8, <1>9 DEF Revoke, w, row

LEMMA CleanKeeps ==
  ASSUME CleanupInv, NEW k \in Sweepers, Clean(k)
  PROVE  CleanupInv'
<1> USE CleanupRowTypes DEF CleanupInv
<1> DEFINE w == Target(k)
           row == sweep[k].row
<1>1. sweep[k].at # "idle" /\ w \in Workspaces
  BY TargetIsLeft DEF Clean, SweepsInOrder
<1>2. row \in WorkspaceRows /\ RowIsTrue(row, w)
  BY DEF Clean, SweepsTellTruth
<1>3. UNCHANGED <<wsRow, sweepJob, outside, collaborators, reinvited>>
  BY DEF Clean
<1> HIDE DEF w, row
<1>4. ASSUME NEW s \in Verdicts, NEW c \in BOOLEAN
      PROVE  [row EXCEPT !.status = s, !.cleaned = c] \in WorkspaceRows
  BY <1>2, <1>4 DEF WorkspaceRows, Verdicts
<1>5. CASE /\ repo' = [repo EXCEPT ![w] = CleanedRepo(w)]
           /\ Proceed(k, [at |-> "commit",
                row |-> [row EXCEPT !.status = CleanedStatus(w), !.cleaned = TRUE]])
           /\ UNCHANGED cleanupFaults
  <2> DEFINE to == [at |-> "commit",
                    row |-> [row EXCEPT !.status = CleanedStatus(w), !.cleaned = TRUE]]
  <2>1. CleanedStatus(w) \in Verdicts /\ CleanedStatus(w) \in {"archived", "deleted"}
    BY DEF CleanedStatus, Verdicts, CleanupStatuses
  <2>2. /\ to.at = "commit" /\ to.row \in WorkspaceRows
        /\ to.row.status = CleanedStatus(w) /\ to.row.revoked = row.revoked
    BY <1>2, <1>4, <2>1 DEF WorkspaceRows
  <2>3. Proceed(k, to)
    BY <1>5
  <2> HIDE DEF to
  <2>4. /\ repo' \in [Workspaces -> {"live", "archived", "gone"}]
        /\ repo'[w] = CleanedRepo(w)
        /\ \A v \in Workspaces \ {w} : repo'[v] = repo[v]
    BY <1>1, <1>5 DEF CleanupTypeOK, CleanedRepo
  <2>5. /\ Forward
        /\ collaborators' \subseteq Workspaces /\ reinvited' \subseteq Workspaces
    BY <1>3, <2>4, AccessSteps DEF Forward, CleanedRepo
  <2>6. WillBeTrue(to.row, w)
    BY <1>2, <1>3, <2>2, <2>4, AccessSteps DEF WillBeTrue, RowIsTrue, CleanedStatus, CleanedRepo
  <2>7. cleanupFaults' \in 0..CleanupFaults
    BY <1>5 DEF CleanupTypeOK
  <2> QED
    BY <1>1, <1>3, <2>1, <2>2, <2>3, <2>4, <2>5, <2>6, <2>7, SweepProceeds DEF w
<1>6. ASSUME NEW at \in {"commit", "raise"},
             Proceed(k, [at |-> at, row |-> [row EXCEPT !.status = "failed"]]),
             UNCHANGED repo, cleanupFaults' \in 0..CleanupFaults
      PROVE  CleanupInv'
  <2> DEFINE to == [at |-> at, row |-> [row EXCEPT !.status = "failed"]]
  <2>1. /\ to.at = at /\ to.row \in WorkspaceRows
        /\ to.row.status = "failed" /\ to.row.revoked = row.revoked
        /\ to.row.status \in Verdicts
    BY <1>2 DEF WorkspaceRows, CleanupStatuses, Verdicts
  <2>2. Proceed(k, to)
    BY <1>6
  <2> HIDE DEF to
  <2>3. WillBeTrue(to.row, w)
    BY <1>2, <1>3, <2>1, AccessSteps DEF WillBeTrue, RowIsTrue
  <2>4. /\ Forward
        /\ repo' \in [Workspaces -> {"live", "archived", "gone"}]
        /\ collaborators' \subseteq Workspaces /\ reinvited' \subseteq Workspaces
    BY <1>1, <1>3, <1>6, AccessSteps DEF Forward, CleanupTypeOK
  <2> QED
    BY <1>1, <1>3, <1>6, <2>1, <2>2, <2>3, <2>4, SweepProceeds DEF w
<1>7. CASE /\ Proceed(k, [at |-> "commit", row |-> [row EXCEPT !.status = "failed"]])
           /\ UNCHANGED <<repo, cleanupFaults>>
  <2>1. cleanupFaults' \in 0..CleanupFaults
    BY <1>7 DEF CleanupTypeOK
  <2> QED
    BY <1>6, <1>7, <2>1
<1>8. CASE /\ cleanupFaults > 0
           /\ cleanupFaults' = cleanupFaults - 1
           /\ Proceed(k, [at |-> "raise", row |-> [row EXCEPT !.status = "failed"]])
           /\ UNCHANGED repo
  <2>1. cleanupFaults' \in 0..CleanupFaults
    BY <1>8, WorkspaceCleanupAssumption DEF CleanupTypeOK
  <2> QED
    BY <1>6, <1>8, <2>1
<1> QED
  BY <1>5, <1>7, <1>8 DEF Clean, w, row

(* A record is stored: the truth, and no verdict is lost.                  *)
LEMMA StoredRecord ==
  ASSUME CleanupInv, NEW k \in Sweepers, sweep[k].at \in {"commit", "raise"}, StoredRow(k),
         UNCHANGED <<repo, collaborators, reinvited>>
  PROVE  /\ Target(k) \in sweep[k].todo /\ Target(k) \in Workspaces
         /\ wsRow' \in [Workspaces -> WorkspaceRows]
         /\ \A w \in Workspaces : RowIsTrue(wsRow[w], w)'
         /\ \A w \in Workspaces : wsRow[w].status \in Verdicts => wsRow'[w].status \in Verdicts
         /\ wsRow'[Target(k)].status \in Verdicts
         /\ Forward
<1> USE CleanupRowTypes DEF CleanupInv
<1> DEFINE w == Target(k)
           merged == Written(sweep[k].row, Loaded(k), wsRow[w])
<1>1. w \in sweep[k].todo /\ w \in Workspaces
  BY TargetIsLeft DEF SweepsInOrder
<1>2. /\ Loaded(k) \in WorkspaceRows /\ wsRow[w] \in WorkspaceRows
      /\ sweep[k].row \in WorkspaceRows
  BY <1>1 DEF Loaded
<1>3. /\ merged \in WorkspaceRows
      /\ merged.status \in {wsRow[w].status, sweep[k].row.status}
      /\ merged.revoked \in {wsRow[w].revoked, sweep[k].row.revoked}
      /\ merged.status = IF sweep[k].row.status = Loaded(k).status
                         THEN wsRow[w].status ELSE sweep[k].row.status
  BY <1>2, WrittenColumns
<1>4. RowIsTrue(wsRow[w], w) /\ RowIsTrue(sweep[k].row, w)
  BY <1>1 DEF SweepsTellTruth
<1>5. merged.status \in Verdicts
  BY <1>1, <1>3 DEF SweepsLeaveVerdicts, Loaded
<1> HIDE DEF merged
<1>6. wsRow' = [wsRow EXCEPT ![w] = merged] /\ wsRow \in [Workspaces -> WorkspaceRows]
  BY <1>1 DEF StoredRow, merged, CleanupTypeOK
<1>7. wsRow' \in [Workspaces -> WorkspaceRows]
  BY <1>3, <1>6
<1>8. wsRow'[w] = merged /\ \A v \in Workspaces \ {w} : wsRow'[v] = wsRow[v]
  BY <1>1, <1>6
<1>9. \A v \in Workspaces : RowIsTrue(wsRow[v], v)'
  <2> HIDE DEF w
  <2>1. merged.status = "archived" => repo[w] # "live"
    BY <1>3, <1>4 DEF RowIsTrue
  <2>2. merged.status = "deleted" => repo[w] = "gone"
    BY <1>3, <1>4 DEF RowIsTrue
  <2>3. merged.revoked = "yes" => w \notin NeverLeft
    BY <1>3, <1>4 DEF RowIsTrue
  <2> QED
    BY <1>8, <2>1, <2>2, <2>3, AccessSteps DEF RowIsTrue
<1>10. \A v \in Workspaces : wsRow[v].status \in Verdicts => wsRow'[v].status \in Verdicts
  BY <1>5, <1>8
<1>11. Forward
  BY AccessSteps DEF Forward
<1> QED
  BY <1>1, <1>5, <1>7, <1>8, <1>9, <1>10, <1>11

(* A job that settles or waits again. *)
LEMMA SettledJobs ==
  ASSUME CleanupTypeOK, NEW j \in SweepJobs,
         NEW s \in {"queued", "succeeded", "dead_letter"}, Settle(j, s)
  PROVE  /\ sweepJob' \in [SweepJobs -> [status : {"absent", "queued", "running", "succeeded", "dead_letter"},
                                         attempt : 0..SweepAttempts]]
         /\ sweepJob'[j].status = s
         /\ \A i \in SweepJobs \ {j} : sweepJob'[i] = sweepJob[i]
BY DEF Settle, CleanupTypeOK

LEMMA EndedSweepTypes ==
  ASSUME CleanupTypeOK, NEW k \in Sweepers, sweep' = [sweep EXCEPT ![k] = IdleSweep],
         wsRow' \in [Workspaces -> WorkspaceRows],
         sweepJob' \in [SweepJobs -> [status : {"absent", "queued", "running", "succeeded", "dead_letter"},
                                      attempt : 0..SweepAttempts]],
         cleanupFaults' \in 0..CleanupFaults, UNCHANGED outside, UNCHANGED github
  PROVE  CleanupTypeOK'
<1>1. sweep' \in [Sweepers -> Sweeps]
  BY CleanupRowTypes DEF CleanupTypeOK
<1> QED
  BY <1>1 DEF CleanupTypeOK, outside, github

LEMMA RaiseKeeps ==
  ASSUME CleanupInv, NEW k \in Sweepers, RaiseTarget(k)
  PROVE  CleanupInv'
<1> USE CleanupRowTypes DEF CleanupInv
<1>1. /\ wsRow' \in [Workspaces -> WorkspaceRows]
      /\ \A w \in Workspaces : RowIsTrue(wsRow[w], w)'
      /\ \A w \in Workspaces : wsRow[w].status \in Verdicts => wsRow'[w].status \in Verdicts
      /\ Forward
  BY StoredRecord DEF RaiseTarget, github
<1>2. PICK s \in {"queued", "dead_letter"} : sweep[k].of \in SweepJobs /\ Settle(sweep[k].of, s)
  BY DEF RaiseTarget, SweepsInOrder
<1>3. /\ sweepJob' \in [SweepJobs -> [status : {"absent", "queued", "running", "succeeded", "dead_letter"},
                                      attempt : 0..SweepAttempts]]
      /\ \A i \in SweepJobs \ {sweep[k].of} : sweepJob'[i] = sweepJob[i]
  BY <1>2, SettledJobs
<1>4. cleanupFaults' \in 0..CleanupFaults
  BY DEF RaiseTarget, CleanupTypeOK
<1>5. CleanupTypeOK'
  BY <1>1, <1>3, <1>4, EndedSweepTypes DEF RaiseTarget
<1> QED
  BY <1>1, <1>3, <1>5, SweepEnds DEF RaiseTarget, outside

LEMMA CrashKeeps ==
  ASSUME CleanupInv, NEW k \in Sweepers, CrashSweep(k)
  PROVE  CleanupInv'
<1> USE CleanupRowTypes DEF CleanupInv
<1>1. cleanupFaults' \in 0..CleanupFaults
  BY WorkspaceCleanupAssumption DEF CrashSweep, CleanupTypeOK
<1>2. CleanupTypeOK'
  <2>1. /\ wsRow' \in [Workspaces -> WorkspaceRows]
        /\ sweepJob' \in [SweepJobs -> [status : {"absent", "queued", "running", "succeeded", "dead_letter"},
                                        attempt : 0..SweepAttempts]]
    BY DEF CrashSweep, CleanupTypeOK
  <2> QED
    BY <1>1, <2>1, EndedSweepTypes DEF CrashSweep
<1>3. Forward /\ \A w \in Workspaces : RowIsTrue(wsRow[w], w)'
  BY AccessSteps DEF CrashSweep, github, Forward, RowIsTrue
<1> QED
  BY <1>2, <1>3, SweepEnds DEF CrashSweep, outside

LEMMA StoreKeeps ==
  ASSUME CleanupInv, NEW k \in Sweepers, StoreTarget(k)
  PROVE  CleanupInv'
<1> USE CleanupRowTypes DEF CleanupInv
<1> DEFINE left == sweep[k].todo \ {Target(k)}
<1>1. /\ wsRow' \in [Workspaces -> WorkspaceRows]
      /\ \A w \in Workspaces : RowIsTrue(wsRow[w], w)'
      /\ \A w \in Workspaces : wsRow[w].status \in Verdicts => wsRow'[w].status \in Verdicts
      /\ wsRow'[Target(k)].status \in Verdicts
      /\ Forward
  BY StoredRecord DEF StoreTarget, github
<1>2. cleanupFaults' \in 0..CleanupFaults /\ sweep[k].of \in SweepJobs
  BY DEF StoreTarget, CleanupTypeOK, SweepsInOrder
<1>3. CASE left = {}
  <2>1. Settle(sweep[k].of, "succeeded") /\ sweep' = [sweep EXCEPT ![k] = IdleSweep]
    BY <1>3 DEF StoreTarget
  <2>2. /\ sweepJob' \in [SweepJobs -> [status : {"absent", "queued", "running", "succeeded", "dead_letter"},
                                        attempt : 0..SweepAttempts]]
        /\ \A i \in SweepJobs \ {sweep[k].of} : sweepJob'[i] = sweepJob[i]
    BY <1>2, <2>1, SettledJobs
  <2>3. CleanupTypeOK'
    BY <1>1, <1>2, <2>1, <2>2, EndedSweepTypes DEF StoreTarget
  <2> QED
    BY <1>1, <2>1, <2>2, <2>3, SweepEnds DEF StoreTarget, outside
<1>4. CASE left # {}
  <2>1. /\ sweep' = [sweep EXCEPT ![k].at = "revoke", ![k].todo = left, ![k].row = NewRow]
        /\ UNCHANGED sweepJob
    BY <1>4 DEF StoreTarget
  <2>2. sweep \in [Sweepers -> Sweeps] /\ sweep[k] \in Sweeps /\ sweep[k].at # "idle"
    BY DEF CleanupTypeOK, StoreTarget
  <2>3. left \subseteq sweep[k].todo /\ left \subseteq Workspaces
    BY <2>2 DEF Sweeps
  <2> HIDE DEF left
  <2> DEFINE next == [sweep[k] EXCEPT !.at = "revoke", !.todo = left, !.row = NewRow]
  <2>4. /\ next \in Sweeps /\ next.at = "revoke" /\ next.todo = left
        /\ next.listed = sweep[k].listed /\ next.of = sweep[k].of
        /\ next.seen = sweep[k].seen /\ next.cut = sweep[k].cut /\ next.due = sweep[k].due
    BY <2>2, <2>3 DEF Sweeps
  <2>5. sweep' = [sweep EXCEPT ![k] = next]
    BY <2>1, <2>2
  <2> HIDE DEF next
  <2>6. sweep' \in [Sweepers -> Sweeps] /\ sweep'[k] = next /\ \A m \in Sweepers \ {k} : sweep'[m] = sweep[m]
    BY <2>2, <2>4, <2>5
  <2>7. CleanupTypeOK'
    BY <1>1, <1>2, <2>1, <2>6 DEF CleanupTypeOK, StoreTarget, outside, github
  <2>8. ASSUME NEW l \in Sweepers, l # k
        PROVE  /\ SweepsInOrder(l)' /\ SweepsTellTruth(l)'
               /\ SweepsLeaveVerdicts(l)' /\ CleansTheDue(l)'
    <3>1. sweep[l].at # "idle" =>
            /\ sweepJob'[sweep[l].of].status = "running"
            /\ sweep'[k].at = "idle" \/ sweep'[k].of # sweep[l].of
      BY <2>1, <2>2, <2>4, <2>6, <2>8 DEF SweepsInOrder
    <3> QED
      BY <1>1, <2>6, <2>8, <3>1, OtherSweep DEF StoreTarget, outside
  <2>9. SweepsInOrder(k)'
    BY <1>4, <2>1, <2>2, <2>3, <2>4, <2>6 DEF SweepsInOrder, StoreTarget, outside
  <2>10. SweepsTellTruth(k)'
    <3>1. \A w \in Workspaces : RowIsTrue(sweep[k].seen[w], w)'
      BY <1>1, <2>4, <2>6, TruthStays DEF RowIsTrue, SweepsTellTruth
    <3> QED
      BY <2>4, <2>6, <3>1 DEF SweepsTellTruth
  <2>11. SweepsLeaveVerdicts(k)'
    <3>1. sweep[k].listed \subseteq Workspaces
      BY <2>2 DEF Sweeps
    <3>2. \A w \in sweep[k].listed \ left : wsRow'[w].status \in Verdicts
      BY <1>1, <2>2, <3>1 DEF SweepsLeaveVerdicts, left
    <3>3. \A w \in Workspaces : sweep[k].seen[w].status \in Verdicts => wsRow'[w].status \in Verdicts
      BY <1>1, <2>2 DEF SweepsLeaveVerdicts
    <3> QED
      BY <2>4, <2>6, <3>2, <3>3 DEF SweepsLeaveVerdicts
  <2>12. CleansTheDue(k)'
    BY <2>4, <2>6 DEF CleansTheDue
  <2> QED
    BY <1>1, <2>7, <2>8, <2>9, <2>10, <2>11, <2>12
<1> QED
  BY <1>3, <1>4

LEMMA BeginKeeps ==
  ASSUME CleanupInv, NEW k \in Sweepers, NEW j \in SweepJobs, BeginSweep(k, j)
  PROVE  CleanupInv'
<1> USE CleanupRowTypes DEF CleanupInv
<1>1. \A l \in Sweepers : sweep[l].at = "idle" \/ sweep[l].of # j
  BY DEF BeginSweep, SweepsInOrder
<1>2. Forward /\ UNCHANGED <<wsRow, cleanupFaults>>
  BY AccessSteps DEF BeginSweep, github, Forward
<1>3. ASSUME NEW s \in {"dead_letter", "succeeded"}, Settle(j, s), UNCHANGED sweep
      PROVE  CleanupInv'
  <2>1. /\ sweepJob' \in [SweepJobs -> [status : {"absent", "queued", "running", "succeeded", "dead_letter"},
                                        attempt : 0..SweepAttempts]]
        /\ \A i \in SweepJobs \ {j} : sweepJob'[i] = sweepJob[i]
    BY <1>3, SettledJobs
  <2>2. CleanupTypeOK'
    BY <1>2, <1>3, <2>1 DEF CleanupTypeOK, BeginSweep, outside, github
  <2>3. ASSUME NEW l \in Sweepers
        PROVE  /\ SweepsInOrder(l)' /\ SweepsTellTruth(l)'
               /\ SweepsLeaveVerdicts(l)' /\ CleansTheDue(l)'
    <3>1. SweepsInOrder(l)'
      BY <1>1, <1>3, <2>1 DEF SweepsInOrder, BeginSweep, outside
    <3>2. Target(l)' = Target(l)
      BY <1>3, SameTarget
    <3>3. SweepsTellTruth(l)'
      BY <1>3, <3>2, AccessSteps DEF SweepsTellTruth, RowIsTrue, BeginSweep, github
    <3>4. SweepsLeaveVerdicts(l)' /\ CleansTheDue(l)'
      BY <1>2, <1>3, <3>2, AccessSteps DEF SweepsLeaveVerdicts, CleansTheDue, BeginSweep, github
    <3> QED
      BY <3>1, <3>3, <3>4
  <2>4. \A w \in Workspaces : RowIsTrue(wsRow[w], w)'
    BY <1>2, AccessSteps DEF RowIsTrue, BeginSweep, github
  <2> QED
    BY <2>2, <2>3, <2>4
<1>4. CASE /\ sweepJob[j].attempt # SweepAttempts /\ TargetsOf(j) # {}
           /\ sweepJob' = [sweepJob EXCEPT ![j] = [status |-> "running", attempt |-> @.attempt + 1]]
           /\ sweep' = [sweep EXCEPT ![k] =
                [at |-> "revoke", of |-> j, listed |-> TargetsOf(j), todo |-> TargetsOf(j),
                 seen |-> wsRow, row |-> NewRow, cut |-> cutOff, due |-> CleanupEligible,
                 old |-> RetentionOver(j)]]
  <2> DEFINE began == [at |-> "revoke", of |-> j, listed |-> TargetsOf(j), todo |-> TargetsOf(j),
                       seen |-> wsRow, row |-> NewRow, cut |-> cutOff, due |-> CleanupEligible,
                       old |-> RetentionOver(j)]
  <2>1. TargetsOf(j) \subseteq Workspaces /\ CleanupEligible \subseteq Workspaces
    BY DEF TargetsOf, CleanupEligible, CleanupTypeOK
  <2>2. RetentionOver(j) \in BOOLEAN
    BY DEF RetentionOver, CleanupTypeOK
  <2>3. began \in Sweeps
    BY <2>1, <2>2 DEF CleanupTypeOK, Sweeps
  <2>4. sweep' = [sweep EXCEPT ![k] = began]
    BY <1>4
  <2>5. sweepJob[j].attempt + 1 \in 0..SweepAttempts
    BY <1>4, WorkspaceCleanupAssumption
  <2>6. /\ sweepJob' \in [SweepJobs -> [status : {"absent", "queued", "running", "succeeded", "dead_letter"},
                                        attempt : 0..SweepAttempts]]
        /\ sweepJob'[j].status = "running"
        /\ \A i \in SweepJobs \ {j} : sweepJob'[i] = sweepJob[i]
    BY <1>4, <2>5 DEF CleanupTypeOK
  <2>7. /\ began.at = "revoke" /\ began.of = j /\ began.todo = TargetsOf(j)
        /\ began.listed = TargetsOf(j) /\ began.seen = wsRow /\ began.due = CleanupEligible
    OBVIOUS
  <2> HIDE DEF began
  <2>8. sweep' \in [Sweepers -> Sweeps] /\ sweep'[k] = began /\ \A m \in Sweepers \ {k} : sweep'[m] = sweep[m]
    BY <2>3, <2>4 DEF CleanupTypeOK
  <2>9. CleanupTypeOK'
    BY <1>2, <2>6, <2>8 DEF CleanupTypeOK, BeginSweep, outside, github
  <2>10. ASSUME NEW l \in Sweepers, l # k
         PROVE  /\ SweepsInOrder(l)' /\ SweepsTellTruth(l)'
                /\ SweepsLeaveVerdicts(l)' /\ CleansTheDue(l)'
    <3>1. sweep[l].at # "idle" =>
            /\ sweepJob'[sweep[l].of].status = "running"
            /\ sweep'[k].at = "idle" \/ sweep'[k].of # sweep[l].of
      BY <1>1, <2>6, <2>7, <2>8, <2>10 DEF SweepsInOrder
    <3> QED
      BY <1>2, <2>8, <2>10, <3>1, OtherSweep DEF BeginSweep, outside
  <2>11. SweepsInOrder(k)'
    <3>1. \A w \in CleanupEligible : w \in finished' \/ TrialOf[w] \in ended'
      BY DEF CleanupEligible, BeginSweep, outside
    <3>2. \A l \in Sweepers : sweep'[l].at # "idle" /\ sweep'[l].of = j => l = k
      BY <1>1, <2>8
    <3> QED
      BY <1>4, <2>6, <2>7, <2>8, <3>1, <3>2 DEF SweepsInOrder
  <2>12. SweepsTellTruth(k)'
    BY <2>7, <2>8, AccessSteps DEF SweepsTellTruth, RowIsTrue, BeginSweep, github
  <2>13. SweepsLeaveVerdicts(k)' /\ CleansTheDue(k)'
    BY <1>2, <2>7, <2>8 DEF SweepsLeaveVerdicts, CleansTheDue
  <2>14. \A w \in Workspaces : RowIsTrue(wsRow[w], w)'
    BY <1>2, AccessSteps DEF RowIsTrue, BeginSweep, github
  <2> QED
    BY <2>9, <2>10, <2>11, <2>12, <2>13, <2>14
<1> QED
  BY <1>3, <1>4 DEF BeginSweep

-----------------------------------------------------------------------------
(* WorkspaceCleanup: the theorems. *)

LEMMA CleanupStep == CleanupInv /\ [CleanupNext]_cleanupVars => CleanupInv'
<1> SUFFICES ASSUME CleanupInv, [CleanupNext]_cleanupVars
             PROVE  CleanupInv'
  OBVIOUS
<1>1. CASE \/ \E w \in Workspaces :
                CutSession(w) \/ InviteAgain(w) \/ FinishSession(w) \/ Vanish(w)
           \/ \E t \in Trials : TerminateWithCleanup(t)
           \/ Ripen \/ \E key \in RunKeys : SweepCompany(key)
           \/ UNCHANGED cleanupVars
  BY <1>1, AroundSweeps
<1>2. ASSUME NEW k \in Sweepers, SweepStep(k) \/ CrashSweep(k)
      PROVE  CleanupInv'
  BY <1>2, RevokeKeeps, CleanKeeps, StoreKeeps, RaiseKeeps, CrashKeeps DEF SweepStep
<1>3. ASSUME NEW k \in Sweepers, NEW j \in SweepJobs, BeginSweep(k, j)
      PROVE  CleanupInv'
  BY <1>3, BeginKeeps
<1> QED
  BY <1>1, <1>2, <1>3 DEF CleanupNext

(* What CleanupInv says of rows, jobs and sweeps holds from the start and  *)
(* through every step (_process_cleanup_target and what it calls).         *)
THEOREM CleanupInvariance == CleanupSpec => []CleanupInv
<1>1. CleanupInit => CleanupInv
  BY CleanupInitInv
<1>2. CleanupInv /\ [CleanupNext]_cleanupVars => CleanupInv'
  BY CleanupStep
<1> QED
  BY <1>1, <1>2, PTL DEF CleanupSpec

LEMMA CleanupInvIsTrue == CleanupInv => CleanupIsTrue
<1> SUFFICES ASSUME CleanupInv PROVE CleanupIsTrue
  OBVIOUS
<1>1. RecordsTellTruth
  BY DEF CleanupInv, RowIsTrue, RecordsTellTruth
<1>2. OverBeforeCleaned
  BY DEF CleanupInv, CleansTheDue, SweepsInOrder, OverBeforeCleaned
<1> QED
  BY <1>1, <1>2 DEF CleanupIsTrue

(* The step a job succeeds in at the hands of a sweep is the commit of the  *)
(* sweep's last record.                                                     *)
LEMMA SuccessStep ==
  ASSUME CleanupInv, [CleanupNext]_cleanupVars, NEW k \in Sweepers, sweep[k].at # "idle",
         sweepJob[sweep[k].of].status # "succeeded", sweepJob'[sweep[k].of].status = "succeeded"
  PROVE  StoreTarget(k) /\ sweep[k].todo \ {Target(k)} = {}
<1> USE CleanupRowTypes DEF CleanupInv
<1> DEFINE j == sweep[k].of
<1>1. j \in SweepJobs /\ sweepJob[j].status = "running"
  BY DEF SweepsInOrder
<1>2. ~UNCHANGED sweepJob
  OBVIOUS
<1>3. ~ \E w \in Workspaces :
           CutSession(w) \/ InviteAgain(w) \/ FinishSession(w) \/ Vanish(w)
  BY <1>2 DEF CutSession, InviteAgain, FinishSession, Vanish, working
<1>4. ASSUME NEW i \in SweepJobs, EnqueueSweep(i) PROVE FALSE
  BY <1>1, <1>4 DEF EnqueueSweep, CleanupTypeOK
<1>5. ~ \E t \in Trials : TerminateWithCleanup(t)
  BY <1>4 DEF TerminateWithCleanup, SweepJobs
<1>6. ~Ripen /\ ~(\E key \in RunKeys : SweepCompany(key)) /\ ~UNCHANGED cleanupVars
  BY <1>2, <1>4 DEF Ripen, SweepCompany, working, cleanupVars, SweepJobs
<1>7. ASSUME NEW l \in Sweepers, NEW i \in SweepJobs, BeginSweep(l, i) PROVE FALSE
  <2>1. i # j
    BY <1>1, <1>7 DEF BeginSweep
  <2> QED
    BY <1>1, <1>7, <2>1 DEF BeginSweep, Settle, CleanupTypeOK
<1>8. ASSUME NEW l \in Sweepers, SweepStep(l) \/ CrashSweep(l) PROVE StoreTarget(l)
  <2>1. ~Revoke(l) /\ ~Clean(l) /\ ~CrashSweep(l)
    BY <1>2 DEF Revoke, Clean, CrashSweep
  <2>2. ASSUME RaiseTarget(l) PROVE FALSE
    <3>1. PICK s \in {"queued", "dead_letter"} : Settle(sweep[l].of, s)
      BY <2>2 DEF RaiseTarget
    <3> QED
      BY <1>1, <3>1 DEF Settle, CleanupTypeOK
  <2> QED
    BY <1>8, <2>1, <2>2 DEF SweepStep
<1>9. PICK l \in Sweepers : StoreTarget(l)
  BY <1>3, <1>5, <1>6, <1>7, <1>8 DEF CleanupNext
<1>10. sweep[l].todo \ {Target(l)} = {} /\ Settle(sweep[l].of, "succeeded") /\ sweep[l].at # "idle"
  BY <1>2, <1>9 DEF StoreTarget
<1>11. sweep[l].of = j
  <2>1. sweep[l].of \in SweepJobs
    BY <1>10 DEF SweepsInOrder
  <2> QED
    BY <1>1, <1>10, <2>1, SettledJobs
<1>12. l = k
  BY <1>10, <1>11 DEF SweepsInOrder
<1> QED
  BY <1>9, <1>10, <1>12

LEMMA SuccessIsSwept ==
  CleanupInv /\ [CleanupNext]_cleanupVars =>
    [\A k \in Sweepers, j \in SweepJobs :
       (sweep[k].at # "idle" /\ sweep[k].of = j
          /\ sweepJob[j].status # "succeeded" /\ sweepJob'[j].status = "succeeded")
       => \A w \in sweep[k].listed : wsRow'[w].status # "none"]_cleanupVars
<1> SUFFICES ASSUME CleanupInv, [CleanupNext]_cleanupVars,
                    NEW k \in Sweepers, sweep[k].at # "idle",
                    sweepJob[sweep[k].of].status # "succeeded",
                    sweepJob'[sweep[k].of].status = "succeeded",
                    NEW w \in sweep[k].listed
             PROVE  wsRow'[w].status # "none"
  OBVIOUS
<1>1. StoreTarget(k) /\ sweep[k].todo \ {Target(k)} = {}
  BY SuccessStep
<1>2. /\ \A v \in Workspaces : wsRow[v].status \in Verdicts => wsRow'[v].status \in Verdicts
      /\ wsRow'[Target(k)].status \in Verdicts
  BY <1>1, StoredRecord DEF StoreTarget, github
<1>3. w \in Workspaces
  BY CleanupRowTypes DEF CleanupInv, Sweeps
<1>4. wsRow'[w].status \in Verdicts
  BY <1>1, <1>2, <1>3 DEF CleanupInv, SweepsLeaveVerdicts
<1> QED
  BY <1>4 DEF Verdicts

(* Whatever sweeps meet on their way, a job of clean-up that succeeds has  *)
(* left a verdict on every record it listed (_process_cleanup_target).     *)
THEOREM CleanupSuccess == CleanupSpec => SuccessMeansSwept
<1>1. CleanupInv /\ [CleanupNext]_cleanupVars =>
        [\A k \in Sweepers, j \in SweepJobs :
           (sweep[k].at # "idle" /\ sweep[k].of = j
              /\ sweepJob[j].status # "succeeded" /\ sweepJob'[j].status = "succeeded")
           => \A w \in sweep[k].listed : wsRow'[w].status # "none"]_cleanupVars
  BY SuccessIsSwept
<1> QED
  BY <1>1, CleanupInvariance, PTL DEF CleanupSpec, SuccessMeansSwept

-----------------------------------------------------------------------------
(* WorkflowRuns: the inductive invariant. *)

(* What is reported, or has a job, is an attempt that completed; and only  *)
(* the submission's run has jobs.                                          *)
CompletedAttempt(r, a) ==
  a <= workflowRun[r].attempt /\ (a = workflowRun[r].attempt => workflowRun[r].status = "completed")

ReportsAreOfCompleted ==
  \A r \in Runs, a \in Attempts :
    /\ <<r, a>> \in deliveries => CompletedAttempt(r, a)
    /\ parseJob[<<r, a>>] # "absent" => codeSubmission.run = r /\ CompletedAttempt(r, a)

HasLatest(r) == codeSubmission.tests = ResultOf(r, workflowRun[r].uploaded)

(* Where the report of a run's last attempt is: on its way, come to        *)
(* nothing, in a job, or in the submission.                                *)
LatestIsSomewhere ==
  \A r \in Runs :
    /\ workflowRun[r].status = "completed" =>
         \/ r \in missed
         \/ <<r, workflowRun[r].attempt>> \in deliveries
         \/ /\ codeSubmission.run = r
            /\ HasLatest(r) \/ \E a \in Attempts : parseJob[<<r, a>>] = "queued"
    /\ parseJob[<<r, workflowRun[r].attempt>>] = "done" => HasLatest(r)

(* All a sure request may take for its own was dispatched after it began.  *)
SureRequests ==
  \A k \in RunRequests :
    runRequest[k].at # "idle" =>
      /\ runRequest[k].began <= branchHead
      /\ runRequest[k].sure =>
           \A r \in Runs :
             (workflowRun[r].status # "absent" /\ (r \notin runRequest[k].known \/ r \in recent))
               => workflowRun[r].commit >= runRequest[k].began
      /\ runRequest[k].at = "recorded" =>
           /\ runRequest[k].run \in Runs
           /\ workflowRun[runRequest[k].run].status # "absent"
           /\ runRequest[k].sure =>
                workflowRun[runRequest[k].run].commit >= runRequest[k].began

WorkflowInv ==
  /\ WorkflowTypeOK
  /\ \A r \in shown \cup recent : workflowRun[r].status # "absent"
  /\ ReportsAreOfCompleted
  /\ LatestIsSomewhere
  /\ SureRequests
  /\ RunIsOfTheRequest

-----------------------------------------------------------------------------
(* WorkflowRuns: the steps. *)

LEMMA WorkflowRowTypes ==
  ASSUME WorkflowTypeOK
  PROVE  /\ \A r \in Runs :
              /\ workflowRun[r] \in GithubRuns
              /\ workflowRun[r].attempt \in Attempts /\ workflowRun[r].commit \in Commits
              /\ workflowRun[r].uploaded \in BOOLEAN
              /\ <<r, workflowRun[r].attempt>> \in Runs \X Attempts
         /\ \A k \in RunRequests : runRequest[k] \in RunRequestStates
         /\ IdleRunRequest \in RunRequestStates
         /\ NoRunYet \notin Runs /\ codeSubmission \in CodeSubmissions
BY WorkflowRunsAssumption DEF WorkflowTypeOK, GithubRuns, IdleRunRequest, RunRequestStates, Commits, Runs,
   NoRunYet, Results, Running

LEMMA ResultsOfRuns ==
  ASSUME WorkflowTypeOK, NEW r \in Runs, NEW found \in BOOLEAN
  PROVE  ResultOf(r, found) \in Results
BY WorkflowRowTypes DEF ResultOf, Results

LEMMA BuildTypes ==
  ASSUME WorkflowTypeOK, NEW r \in Runs, Build(r)
  PROVE  listed' \in [Runs -> {"no", "empty", "full"}] /\ answered' \in [Runs -> Results]
<1>1. Listing(r) \in BOOLEAN
  BY WorkflowRowTypes DEF Listing
<1>2. ResultOf(r, Listing(r)) \in Results
  BY <1>1, ResultsOfRuns
<1> QED
  BY <1>2 DEF Build, WorkflowTypeOK

LEMMA WorkflowInitInv == WorkflowInit => WorkflowInv
<1> SUFFICES ASSUME WorkflowInit PROVE WorkflowInv
  OBVIOUS
<1> USE WorkflowRunsAssumption DEF WorkflowInit
<1>1. 0 \in Commits /\ 1 \in Attempts /\ Running \in Results
  BY DEF Commits, Attempts, Results
<1>2. IdleRunRequest \in RunRequestStates
  BY <1>1 DEF IdleRunRequest, RunRequestStates
<1>3. codeSubmission \in CodeSubmissions
  BY <1>1 DEF CodeSubmissions
<1>4. workflowRun \in [Runs -> GithubRuns]
  BY <1>1 DEF GithubRuns
<1>5. WorkflowTypeOK
  BY <1>1, <1>2, <1>3, <1>4 DEF WorkflowTypeOK
<1>6. ReportsAreOfCompleted
  BY DEF ReportsAreOfCompleted
<1>7. LatestIsSomewhere
  BY <1>1 DEF LatestIsSomewhere
<1>8. SureRequests /\ RunIsOfTheRequest
  BY DEF SureRequests, RunIsOfTheRequest, IdleRunRequest
<1> QED
  BY <1>5, <1>6, <1>7, <1>8 DEF WorkflowInv

(* A step of a run at GitHub, or of its report. *)
LEMMA RunsAtGithub ==
  ASSUME WorkflowInv, NEW r \in Runs,
         Show(r) \/ Age(r) \/ Upload(r) \/ CompleteAttempt(r) \/ Rerun(r)
  PROVE  WorkflowInv'
<1>0. workflowRun[r].attempt \in Attempts /\ workflowRun[r].attempt \in Nat /\ Attempts \subseteq Nat
  <2>1. workflowRun[r].attempt \in Attempts
    BY WorkflowRowTypes DEF WorkflowInv
  <2>2. Attempts \subseteq Nat
    BY DEF Attempts
  <2> QED
    BY <2>1, <2>2
<1> USE WorkflowRowTypes, WorkflowRunsAssumption DEF WorkflowInv, runner, stored
<1>1. CASE Show(r) \/ Age(r)
  <2>1. WorkflowTypeOK'
    BY <1>1 DEF Show, Age, WorkflowTypeOK
  <2>2. \A q \in shown' \cup recent' : workflowRun'[q].status # "absent"
    BY <1>1 DEF Show, Age
  <2>3. ReportsAreOfCompleted' /\ LatestIsSomewhere'
    BY <1>1 DEF Show, Age, ReportsAreOfCompleted, CompletedAttempt, LatestIsSomewhere, HasLatest,
       ResultOf
  <2>4. SureRequests' /\ RunIsOfTheRequest'
    BY <1>1 DEF Show, Age, SureRequests, RunIsOfTheRequest
  <2> QED
    BY <2>1, <2>2, <2>3, <2>4
<1>2. ASSUME Upload(r) \/ CompleteAttempt(r) \/ Rerun(r)
      PROVE  /\ workflowRun' \in [Runs -> GithubRuns]
             /\ \A q \in Runs \ {r} : workflowRun'[q] = workflowRun[q]
             /\ workflowRun'[r].commit = workflowRun[r].commit
             /\ workflowRun[r].status # "absent" /\ workflowRun'[r].status # "absent"
             /\ CompleteAttempt(r) =>
                  /\ workflowRun'[r].status = "completed"
                  /\ workflowRun'[r].attempt = workflowRun[r].attempt
             /\ Upload(r) =>
                  workflowRun'[r].status = "running" /\ workflowRun'[r].attempt = workflowRun[r].attempt
             /\ Rerun(r) =>
                  workflowRun'[r].status = "running" /\ workflowRun'[r].attempt = workflowRun[r].attempt + 1
  <2>1. workflowRun \in [Runs -> GithubRuns]
    BY DEF WorkflowTypeOK
  <2>2. workflowRun[r].attempt < LastAttempt => workflowRun[r].attempt + 1 \in Attempts
    BY <1>0 DEF Attempts
  <2>3. CASE Upload(r)
    BY ZenonT(60), <2>1, <2>3 DEF Upload, CompleteAttempt, Rerun, GithubRuns
  <2>4. CASE CompleteAttempt(r)
    BY <2>1, <2>4 DEF Upload, CompleteAttempt, Rerun, GithubRuns
  <2>5. CASE Rerun(r)
    BY ZenonT(60), <2>1, <2>2, <2>5 DEF Upload, CompleteAttempt, Rerun, GithubRuns
  <2> QED
    BY <1>2, <2>3, <2>4, <2>5
<1>3. ASSUME Upload(r) \/ CompleteAttempt(r) \/ Rerun(r)
      PROVE  WorkflowInv'
  <2>1. WorkflowTypeOK'
    BY <1>2, <1>3 DEF Upload, CompleteAttempt, Rerun, WorkflowTypeOK
  <2>2. UNCHANGED <<shown, recent, branchHead, runRequest, codeSubmission, parseJob>>
    BY <1>3 DEF Upload, CompleteAttempt, Rerun
  <2>3. \A q \in shown' \cup recent' : workflowRun'[q].status # "absent"
    BY <1>2, <1>3, <2>2 DEF WorkflowTypeOK
  <2>4. ReportsAreOfCompleted'
    <3>1. ASSUME NEW a \in Attempts, CompletedAttempt(r, a)
          PROVE  CompletedAttempt(r, a)'
      <4>1. a \in Nat
        BY <1>0
      <4>2. CASE Upload(r) \/ CompleteAttempt(r)
        BY <1>2, <3>1, <4>2 DEF CompletedAttempt, Upload
      <4>3. CASE Rerun(r)
        BY <1>0, <1>2, <3>1, <4>1, <4>3 DEF CompletedAttempt
      <4> QED
        BY <1>3, <4>2, <4>3
    <3>2. \A q \in Runs, a \in Attempts : CompletedAttempt(q, a) => CompletedAttempt(q, a)'
      BY <1>2, <1>3, <3>1 DEF CompletedAttempt
    <3>3. \A q \in Runs, a \in Attempts :
            <<q, a>> \in deliveries' => <<q, a>> \in deliveries \/ CompletedAttempt(q, a)'
      <4>1. CASE Upload(r) \/ Rerun(r)
        BY <4>1 DEF Upload, Rerun
      <4>2. CASE CompleteAttempt(r)
        BY <1>0, <1>2, <4>2 DEF CompletedAttempt, CompleteAttempt
      <4> QED
        BY <1>3, <4>1, <4>2
    <3> QED
      BY <2>2, <3>2, <3>3 DEF ReportsAreOfCompleted
  <2>5. LatestIsSomewhere'
    <3>1. ASSUME NEW q \in Runs \ {r}
          PROVE  /\ workflowRun'[q].status = "completed" =>
                      \/ q \in missed'
                      \/ <<q, workflowRun'[q].attempt>> \in deliveries'
                      \/ /\ codeSubmission'.run = q
                         /\ HasLatest(q)' \/ \E a \in Attempts : parseJob'[<<q, a>>] = "queued"
                 /\ parseJob'[<<q, workflowRun'[q].attempt>>] = "done" => HasLatest(q)'
      <4>1. (q \in missed => q \in missed') /\ deliveries \subseteq deliveries'
        BY <1>3 DEF Upload, CompleteAttempt, Rerun
      <4>2. HasLatest(q)' <=> HasLatest(q)
        BY <1>2, <1>3, <2>2 DEF HasLatest, ResultOf
      <4> QED
        BY <1>2, <1>3, <2>2, <4>1, <4>2 DEF LatestIsSomewhere
    <3>2. workflowRun'[r].status = "completed" => <<r, workflowRun'[r].attempt>> \in deliveries'
      BY <1>2, <1>3 DEF CompleteAttempt
    <3>3. parseJob'[<<r, workflowRun'[r].attempt>>] = "absent"
      <4>1. workflowRun'[r].attempt \in Attempts
        BY <1>2, <1>3 DEF GithubRuns
      <4>2. ~CompletedAttempt(r, workflowRun'[r].attempt)
        <5>1. CASE Upload(r) \/ CompleteAttempt(r)
          BY <1>2, <5>1 DEF CompletedAttempt, Upload, CompleteAttempt
        <5>2. CASE Rerun(r)
          BY <1>0, <1>2, <5>2 DEF CompletedAttempt
        <5> QED
          BY <1>3, <5>1, <5>2
      <4> QED
        BY <2>2, <4>1, <4>2 DEF ReportsAreOfCompleted
    <3> QED
      BY <3>1, <3>2, <3>3 DEF LatestIsSomewhere
  <2>6. SureRequests' /\ RunIsOfTheRequest'
    <3>1. \A q \in Runs : /\ workflowRun'[q].commit = workflowRun[q].commit
                          /\ workflowRun'[q].status = "absent" <=> workflowRun[q].status = "absent"
      BY <1>2, <1>3
    <3> QED
      BY <2>2, <3>1 DEF SureRequests, RunIsOfTheRequest
  <2> QED
    BY <2>1, <2>3, <2>4, <2>5, <2>6
<1> QED
  BY <1>1, <1>3

(* The branch, the runner's caches, and a lost call change nothing that is *)
(* said of requests, reports and results.                                  *)
LEMMA QuietWorkflow ==
  ASSUME WorkflowInv, WorkflowTypeOK', branchHead <= branchHead',
         UNCHANGED <<workflowRun, shown, recent, deliveries, missed, runRequest, codeSubmission,
                     parseJob>>
  PROVE  WorkflowInv'
<1> USE WorkflowRowTypes DEF WorkflowInv
<1>1. ReportsAreOfCompleted' /\ LatestIsSomewhere'
  BY DEF ReportsAreOfCompleted, CompletedAttempt, LatestIsSomewhere, HasLatest, ResultOf
<1>2. SureRequests' /\ RunIsOfTheRequest'
  <2>1. branchHead \in Commits /\ branchHead' \in Commits
    BY DEF WorkflowTypeOK
  <2>2. \A k \in RunRequests : runRequest[k].began \in Commits
    BY DEF RunRequestStates
  <2> QED
    BY <2>1, <2>2 DEF SureRequests, RunIsOfTheRequest, Commits
<1> QED
  BY <1>1, <1>2

LEMMA PushAndPoll ==
  ASSUME WorkflowInv, Push \/ (\E r \in Runs : Poll(r)) \/ UNCHANGED workflowVars
  PROVE  WorkflowInv'
<1> USE WorkflowRunsAssumption DEF WorkflowInv, runner, stored, atGithub
<1>1. CASE Push
  <2>1. branchHead' \in Commits /\ branchHead <= branchHead'
    BY <1>1 DEF Push, WorkflowTypeOK, Commits
  <2>2. WorkflowTypeOK'
    BY <1>1, <2>1 DEF Push, WorkflowTypeOK
  <2> QED
    BY <1>1, <2>1, <2>2, QuietWorkflow DEF Push
<1>2. ASSUME NEW r \in Runs, Poll(r)
      PROVE  WorkflowInv'
  <2>1. WorkflowTypeOK'
    BY <1>2, BuildTypes DEF Poll, WorkflowTypeOK
  <2>2. branchHead <= branchHead'
    BY <1>2 DEF Poll, WorkflowTypeOK, Commits
  <2> QED
    BY <1>2, <2>1, <2>2, QuietWorkflow DEF Poll
<1>3. CASE UNCHANGED workflowVars
  <2>1. WorkflowTypeOK'
    BY <1>3 DEF workflowVars, WorkflowTypeOK
  <2>2. branchHead <= branchHead'
    BY <1>3 DEF workflowVars, WorkflowTypeOK, Commits
  <2> QED
    BY <1>3, <2>1, <2>2, QuietWorkflow DEF workflowVars
<1> QED
  BY <1>1, <1>2, <1>3

(* Reports and their jobs. *)
LEMMA DeliveriesAndJobs ==
  ASSUME WorkflowInv, NEW m \in Runs \X Attempts, LoseDelivery(m) \/ Deliver(m) \/ Parse(m)
  PROVE  WorkflowInv'
<1> USE WorkflowRowTypes, WorkflowRunsAssumption DEF WorkflowInv, runner, stored, atGithub
<1>1. PICK r \in Runs, a \in Attempts : m = <<r, a>>
  OBVIOUS
<1>2. m[1] = r /\ m[2] = a
  BY <1>1
<1>3. GithubFails => githubFaults' \in 0..GithubFaults
  BY DEF GithubFails, WorkflowTypeOK
<1>4. UNCHANGED <<branchHead, workflowRun, shown, recent>>
  BY DEF LoseDelivery, Deliver, Parse
<1>5. UNCHANGED runRequest
  BY DEF LoseDelivery, Deliver, Parse
<1>6. codeSubmission'.sure = codeSubmission.sure /\ codeSubmission'.began = codeSubmission.began
        /\ codeSubmission'.commit = codeSubmission.commit /\ codeSubmission'.run = codeSubmission.run
  BY DEF LoseDelivery, Deliver, Parse, CodeSubmissions
<1>7. SureRequests' /\ RunIsOfTheRequest'
  BY <1>4, <1>5, <1>6 DEF SureRequests, RunIsOfTheRequest
<1>8. \A q \in shown' \cup recent' : workflowRun'[q].status # "absent"
  BY <1>4
<1>9. \A q \in Runs, b \in Attempts : CompletedAttempt(q, b)' <=> CompletedAttempt(q, b)
  BY <1>4 DEF CompletedAttempt
<1>10. CASE LoseDelivery(m)
  <2>1. missed' \subseteq Runs /\ missed \subseteq missed'
    BY <1>2, <1>10 DEF LoseDelivery, Missed, WorkflowTypeOK
  <2>2. WorkflowTypeOK'
    BY <1>3, <1>10, <2>1 DEF LoseDelivery, WorkflowTypeOK
  <2>3. ReportsAreOfCompleted'
    BY <1>9, <1>10 DEF LoseDelivery, ReportsAreOfCompleted
  <2>4. \A q \in Runs : HasLatest(q)' <=> HasLatest(q)
    BY <1>4, <1>10 DEF LoseDelivery, HasLatest, ResultOf
  <2>5. \A q \in Runs : <<q, workflowRun[q].attempt>> \in deliveries =>
          <<q, workflowRun[q].attempt>> \in deliveries' \/ q \in missed'
    BY <1>1, <1>2, <1>10 DEF LoseDelivery, Missed
  <2>6. LatestIsSomewhere'
    BY <1>4, <1>10, <2>1, <2>4, <2>5 DEF LoseDelivery, LatestIsSomewhere
  <2> QED
    BY <1>7, <1>8, <2>2, <2>3, <2>6
<1>11. CASE Deliver(m)
  <2>1. /\ missed' \subseteq Runs /\ missed \subseteq missed'
        /\ parseJob' \in [Runs \X Attempts -> {"absent", "queued", "done"}]
        /\ \A n \in Runs \X Attempts : parseJob[n] \in {"queued", "done"} => parseJob'[n] = parseJob[n]
    BY <1>2, <1>11 DEF Deliver, Missed, ParseKey, WorkflowTypeOK
  <2>2. deliveries' \subseteq deliveries /\ \A n \in deliveries : n # m => n \in deliveries'
    BY <1>11 DEF Deliver
  <2>3. githubFaults' \in 0..GithubFaults
    BY <1>3, <1>11 DEF Deliver, WorkflowTypeOK
  <2>4. WorkflowTypeOK'
    BY <1>11, <2>1, <2>2, <2>3 DEF Deliver, WorkflowTypeOK
  <2>5. ReportsAreOfCompleted'
    <3>1. CompletedAttempt(r, a)
      BY <1>1, <1>11 DEF Deliver, ReportsAreOfCompleted
    <3>2. \A q \in Runs, b \in Attempts :
            parseJob'[<<q, b>>] # "absent" =>
              parseJob[<<q, b>>] # "absent" \/ (q = r /\ b = a /\ codeSubmission.run = r)
      BY <1>1, <1>2, <1>11 DEF Deliver, ParseKey, WorkflowTypeOK
    <3> QED
      BY <1>6, <1>9, <2>2, <3>1, <3>2 DEF ReportsAreOfCompleted
  <2>6. \A q \in Runs : HasLatest(q)' <=> HasLatest(q)
    BY <1>4, <1>11 DEF Deliver, HasLatest, ResultOf
  <2>7. \A q \in Runs : <<q, workflowRun[q].attempt>> \in deliveries =>
          \/ <<q, workflowRun[q].attempt>> \in deliveries' \/ q \in missed'
          \/ codeSubmission.run = q /\ parseJob'[<<q, workflowRun[q].attempt>>] \in {"queued", "done"}
    <3>1. CASE codeSubmission.run = r
      BY <1>1, <1>2, <1>11, <2>2, <3>1 DEF Deliver, ParseKey, WorkflowTypeOK
    <3>2. CASE codeSubmission.run # r
      BY <1>1, <1>2, <1>11, <2>2, <3>2 DEF Deliver, Missed
    <3> QED
      BY <3>1, <3>2
  <2>8. \A q \in Runs : parseJob'[<<q, workflowRun[q].attempt>>] = "done" => HasLatest(q)
    <3>1. \A n \in Runs \X Attempts : parseJob'[n] = "done" => parseJob[n] = "done"
      BY <1>11 DEF Deliver, ParseKey, WorkflowTypeOK
    <3> QED
      BY <3>1 DEF LatestIsSomewhere
  <2>9. LatestIsSomewhere'
    BY <1>4, <1>6, <2>1, <2>6, <2>7, <2>8 DEF LatestIsSomewhere
  <2> QED
    BY <1>7, <1>8, <2>4, <2>5, <2>9
<1>12. CASE Parse(m)
  <2>1. codeSubmission.run = r
    BY <1>1, <1>12 DEF Parse, ReportsAreOfCompleted
  <2>2. ResultOf(r, workflowRun[r].uploaded) \in Results
    BY ResultsOfRuns
  <2>3. /\ codeSubmission' = [codeSubmission EXCEPT !.tests = ResultOf(r, workflowRun[r].uploaded)]
        /\ codeSubmission' \in CodeSubmissions
    BY <1>2, <1>12, <2>1, <2>2 DEF Parse, CodeSubmissions
  <2>4. HasLatest(r)'
    BY <1>4, <2>3 DEF HasLatest, ResultOf, CodeSubmissions
  <2>5. WorkflowTypeOK'
    BY <1>12, <2>3 DEF Parse, WorkflowTypeOK
  <2>6. /\ \A n \in Runs \X Attempts : parseJob'[n] # "absent" => parseJob[n] # "absent"
        /\ \A n \in (Runs \X Attempts) \ {m} : parseJob'[n] = parseJob[n]
    BY <1>12 DEF Parse, WorkflowTypeOK
  <2>7. ReportsAreOfCompleted'
    BY <1>6, <1>9, <1>12, <2>6 DEF Parse, ReportsAreOfCompleted
  <2>8. ASSUME NEW q \in Runs \ {r}
        PROVE  codeSubmission.run # q /\ \A b \in Attempts : parseJob'[<<q, b>>] = "absent"
    BY <2>1, <2>6 DEF ReportsAreOfCompleted, WorkflowTypeOK
  <2>9. LatestIsSomewhere'
    <3>1. UNCHANGED <<missed, deliveries>>
      BY <1>12 DEF Parse
    <3> QED
      BY <1>4, <1>6, <2>1, <2>4, <2>8, <3>1 DEF LatestIsSomewhere
  <2> QED
    BY <1>7, <1>8, <2>5, <2>7, <2>9
<1> QED
  BY <1>10, <1>11, <1>12

(* A request that gives up, fails, or is answered. *)
LEMMA RequestEnds ==
  ASSUME WorkflowInv, NEW k \in RunRequests,
         runRequest' = [runRequest EXCEPT ![k] = IdleRunRequest],
         githubFaults' \in 0..GithubFaults,
         UNCHANGED <<branchHead, workflowRun, shown, recent, deliveries, missed, listed, answered,
                     codeSubmission, parseJob>>
  PROVE  WorkflowInv'
<1> USE WorkflowRowTypes DEF WorkflowInv
<1>1. runRequest \in [RunRequests -> RunRequestStates]
  BY DEF WorkflowTypeOK
<1>2. runRequest' \in [RunRequests -> RunRequestStates]
  BY <1>1
<1>3. WorkflowTypeOK'
  BY <1>2 DEF WorkflowTypeOK
<1>4. ReportsAreOfCompleted' /\ LatestIsSomewhere'
  BY DEF ReportsAreOfCompleted, CompletedAttempt, LatestIsSomewhere, HasLatest, ResultOf
<1>5. \A l \in RunRequests : runRequest'[l] = IF l = k THEN IdleRunRequest ELSE runRequest[l]
  BY <1>1
<1>6. IdleRunRequest.at = "idle"
  BY DEF IdleRunRequest
<1>7. SureRequests' /\ RunIsOfTheRequest'
  BY <1>5, <1>6 DEF SureRequests, RunIsOfTheRequest
<1> QED
  BY <1>3, <1>4, <1>7

LEMMA ListRunsKeeps ==
  ASSUME WorkflowInv, NEW k \in RunRequests, NEW op \in {"run", "submit"}, ListRuns(k, op)
  PROVE  WorkflowInv'
<1> USE WorkflowRowTypes DEF WorkflowInv
<1>1. branchHead \in Commits /\ shown \in SUBSET Runs
  BY DEF WorkflowTypeOK
<1>2. PICK new \in RunRequestStates :
        /\ new.at = "listed" /\ new.began = branchHead
        /\ new.sure => /\ recent = {} /\ new.known = shown
                       /\ \A r \in Runs \ shown : workflowRun[r].status = "absent"
        /\ runRequest' = [runRequest EXCEPT ![k] = new]
        /\ githubFaults' \in 0..GithubFaults
  <2>1. CASE /\ UNCHANGED githubFaults
             /\ runRequest' = [runRequest EXCEPT ![k] =
                  [IdleRunRequest EXCEPT !.at = "listed", !.op = op, !.known = shown, !.began = branchHead,
                     !.sure = recent = {} /\ \A r \in Runs \ shown : workflowRun[r].status = "absent"]]
    <3> DEFINE sure == recent = {} /\ \A r \in Runs \ shown : workflowRun[r].status = "absent"
               new == [IdleRunRequest EXCEPT !.at = "listed", !.op = op, !.known = shown,
                         !.began = branchHead, !.sure = sure]
    <3>1. sure \in BOOLEAN
      OBVIOUS
    <3>2. githubFaults' \in 0..GithubFaults
      BY <2>1 DEF WorkflowTypeOK
    <3>3. runRequest' = [runRequest EXCEPT ![k] = new]
      BY <2>1
    <3> HIDE DEF sure
    <3>4. /\ new \in RunRequestStates /\ new.at = "listed" /\ new.known = shown
          /\ new.sure = sure /\ new.began = branchHead
      BY <1>1, <3>1 DEF IdleRunRequest, RunRequestStates
    <3> HIDE DEF new
    <3>5. sure => recent = {} /\ \A r \in Runs \ shown : workflowRun[r].status = "absent"
      BY DEF sure
    <3> QED
      BY <3>2, <3>3, <3>4, <3>5
  <2>2. CASE /\ GithubFails
             /\ runRequest' = [runRequest EXCEPT ![k] =
                  [IdleRunRequest EXCEPT !.at = "listed", !.op = op, !.began = branchHead]]
    <3> DEFINE new == [IdleRunRequest EXCEPT !.at = "listed", !.op = op, !.began = branchHead]
    <3>1. githubFaults' \in 0..GithubFaults
      BY <2>2, WorkflowRunsAssumption DEF GithubFails, WorkflowTypeOK
    <3>2. new \in RunRequestStates /\ new.at = "listed" /\ ~new.sure /\ new.began = branchHead
      BY <1>1 DEF IdleRunRequest, RunRequestStates
    <3> QED
      BY <2>2, <3>1, <3>2
  <2> QED
    BY <2>1, <2>2 DEF ListRuns
<1>3. runRequest \in [RunRequests -> RunRequestStates]
  BY DEF WorkflowTypeOK
<1>4. UNCHANGED <<branchHead, workflowRun, shown, recent, deliveries, missed, listed, answered,
                  codeSubmission, parseJob>>
  BY DEF ListRuns, atGithub, runner, stored
<1>5. runRequest' \in [RunRequests -> RunRequestStates]
  BY <1>2, <1>3
<1>6. WorkflowTypeOK'
  BY <1>2, <1>4, <1>5 DEF WorkflowTypeOK
<1>7. ReportsAreOfCompleted' /\ LatestIsSomewhere'
  BY <1>4 DEF ReportsAreOfCompleted, CompletedAttempt, LatestIsSomewhere, HasLatest, ResultOf
<1>8. \A l \in RunRequests : runRequest'[l] = IF l = k THEN new ELSE runRequest[l]
  BY <1>2, <1>3
<1>9. branchHead <= branchHead
  BY <1>1 DEF Commits
<1>10. new.sure =>
         \A r \in Runs : ~(workflowRun[r].status # "absent" /\ (r \notin new.known \/ r \in recent))
  BY <1>2
<1>11. SureRequests'
  BY <1>2, <1>4, <1>8, <1>9, <1>10 DEF SureRequests
<1> QED
  BY <1>4, <1>6, <1>7, <1>11 DEF RunIsOfTheRequest

LEMMA DispatchKeeps ==
  ASSUME WorkflowInv, NEW k \in RunRequests, Dispatch(k)
  PROVE  WorkflowInv'
<1> USE WorkflowRowTypes DEF WorkflowInv
<1>1. UNCHANGED <<branchHead, shown, deliveries, missed, listed, answered, codeSubmission, parseJob>>
  BY DEF Dispatch, runner, stored
<1>2. CASE /\ GithubFails
           /\ runRequest' = [runRequest EXCEPT ![k] = IdleRunRequest]
           /\ UNCHANGED <<workflowRun, recent>>
  <2>1. githubFaults' \in 0..GithubFaults
    BY <1>2, WorkflowRunsAssumption DEF GithubFails, WorkflowTypeOK
  <2> QED
    BY <1>1, <1>2, <2>1, RequestEnds
<1>3. ASSUME NEW r \in Runs, workflowRun[r].status = "absent",
             workflowRun' = [workflowRun EXCEPT ![r].status = "running", ![r].commit = branchHead],
             recent' = recent \cup {r},
             runRequest' = [runRequest EXCEPT ![k].at = "waiting"],
             runRequest[k].at = "listed",
             UNCHANGED githubFaults
      PROVE  WorkflowInv'
  <2>1. /\ branchHead \in Commits /\ workflowRun \in [Runs -> GithubRuns]
        /\ runRequest \in [RunRequests -> RunRequestStates]
    BY DEF WorkflowTypeOK
  <2>2. /\ workflowRun' \in [Runs -> GithubRuns]
        /\ workflowRun'[r].status = "running" /\ workflowRun'[r].commit = branchHead
        /\ workflowRun'[r].attempt = workflowRun[r].attempt
        /\ \A q \in Runs \ {r} : workflowRun'[q] = workflowRun[q]
    BY <1>3, <2>1 DEF GithubRuns
  <2>3. /\ runRequest' \in [RunRequests -> RunRequestStates]
        /\ runRequest'[k].at = "waiting" /\ runRequest'[k].known = runRequest[k].known
        /\ runRequest'[k].sure = runRequest[k].sure /\ runRequest'[k].began = runRequest[k].began
        /\ \A l \in RunRequests \ {k} : runRequest'[l] = runRequest[l]
    BY <1>3, <2>1 DEF RunRequestStates
  <2>4. WorkflowTypeOK'
    BY <1>1, <1>3, <2>2, <2>3 DEF WorkflowTypeOK
  <2>5. \A q \in shown' \cup recent' : workflowRun'[q].status # "absent"
    BY <1>1, <1>3, <2>2 DEF WorkflowTypeOK
  <2>6. \A a \in Attempts : CompletedAttempt(r, a) => CompletedAttempt(r, a)'
    BY <1>3, <2>2 DEF CompletedAttempt
  <2>7. ReportsAreOfCompleted'
    <3>1. \A q \in Runs, a \in Attempts : CompletedAttempt(q, a) => CompletedAttempt(q, a)'
      BY <2>2, <2>6 DEF CompletedAttempt
    <3> QED
      BY <1>1, <3>1 DEF ReportsAreOfCompleted
  <2>8. parseJob[<<r, workflowRun[r].attempt>>] = "absent"
    <3>1. ~CompletedAttempt(r, workflowRun[r].attempt)
      BY <1>3 DEF CompletedAttempt
    <3> QED
      BY <3>1 DEF ReportsAreOfCompleted
  <2>9. LatestIsSomewhere'
    <3>1. \A q \in Runs \ {r} : HasLatest(q)' <=> HasLatest(q)
      BY <1>1, <2>2 DEF HasLatest, ResultOf
    <3> QED
      BY <1>1, <2>2, <2>8, <3>1 DEF LatestIsSomewhere
  <2>10. SureRequests'
    <3> SUFFICES ASSUME NEW l \in RunRequests, runRequest'[l].at # "idle"
                 PROVE  /\ runRequest'[l].began <= branchHead'
                        /\ runRequest'[l].sure =>
                             \A q \in Runs :
                               (workflowRun'[q].status # "absent"
                                  /\ (q \notin runRequest'[l].known \/ q \in recent'))
                                 => workflowRun'[q].commit >= runRequest'[l].began
                        /\ runRequest'[l].at = "recorded" =>
                             /\ runRequest'[l].run \in Runs
                             /\ workflowRun'[runRequest'[l].run].status # "absent"
                             /\ runRequest'[l].sure =>
                                  workflowRun'[runRequest'[l].run].commit >= runRequest'[l].began
      BY DEF SureRequests
    <3>1. /\ runRequest[l].at # "idle" /\ runRequest'[l].began = runRequest[l].began
          /\ runRequest'[l].known = runRequest[l].known /\ runRequest'[l].sure = runRequest[l].sure
          /\ runRequest'[l].at = "recorded" =>
               runRequest[l].at = "recorded" /\ runRequest'[l].run = runRequest[l].run
      BY <1>3, <2>3
    <3>2. runRequest[l].began <= branchHead /\ runRequest[l].began \in Commits
      BY <3>1 DEF SureRequests, RunRequestStates
    <3>3. branchHead >= runRequest[l].began
      BY <2>1, <3>2 DEF Commits
    <3>4. \A q \in Runs \ {r} : q \in recent' => q \in recent
      BY <1>3
    <3> QED
      BY SMTT(30), <1>1, <1>3, <2>2, <3>1, <3>2, <3>3, <3>4 DEF SureRequests
  <2> QED
    BY <1>1, <2>4, <2>5, <2>7, <2>9, <2>10 DEF RunIsOfTheRequest
<1> QED
  BY <1>2, <1>3 DEF Dispatch

LEMMA ObserveKeeps ==
  ASSUME WorkflowInv, NEW k \in RunRequests, Observe(k)
  PROVE  WorkflowInv'
<1> USE WorkflowRowTypes DEF WorkflowInv
<1>1. UNCHANGED <<branchHead, workflowRun, shown, recent, deliveries, missed, codeSubmission,
                  parseJob, githubFaults>>
  BY DEF Observe, atGithub, stored
<1>2. PICK r \in Offered(k), result \in Results :
        /\ runRequest' = [runRequest EXCEPT ![k].at = "recorded", ![k].run = r, ![k].result = result]
        /\ Build(r) \/ UNCHANGED runner
  <2>1. PICK r \in Offered(k) :
          /\ runRequest' = [runRequest EXCEPT ![k].at = "recorded", ![k].run = r,
               ![k].result = IF workflowRun[r].status = "completed"
                             THEN ResultOf(r, Listing(r)) ELSE Running]
          /\ IF workflowRun[r].status = "completed" THEN Build(r) ELSE UNCHANGED runner
    BY DEF Observe
  <2>2. r \in Runs
    BY <2>1 DEF Offered, WorkflowTypeOK
  <2>3. Listing(r) \in BOOLEAN
    BY <2>2 DEF Listing
  <2>4. ResultOf(r, Listing(r)) \in Results /\ Running \in Results
    BY <2>2, <2>3, ResultsOfRuns DEF Results
  <2> QED
    BY <2>1, <2>4
<1>3. r \in Runs /\ r \in shown
  BY <1>2 DEF Offered, WorkflowTypeOK
<1>4. workflowRun[r].status # "absent" /\ (r \notin runRequest[k].known \/ r \in recent)
  BY <1>2, <1>3 DEF Offered
<1>5. runRequest \in [RunRequests -> RunRequestStates] /\ runRequest[k].at = "waiting"
  BY DEF WorkflowTypeOK, Observe
<1>6. /\ runRequest' \in [RunRequests -> RunRequestStates]
      /\ runRequest'[k].at = "recorded" /\ runRequest'[k].known = runRequest[k].known
      /\ runRequest'[k].sure = runRequest[k].sure /\ runRequest'[k].began = runRequest[k].began
      /\ runRequest'[k].run = r
      /\ \A l \in RunRequests \ {k} : runRequest'[l] = runRequest[l]
  BY ZenonT(60), <1>2, <1>3, <1>5 DEF RunRequestStates
<1>7. listed' \in [Runs -> {"no", "empty", "full"}] /\ answered' \in [Runs -> Results]
  BY <1>2, <1>3, BuildTypes DEF runner, WorkflowTypeOK
<1>8. WorkflowTypeOK'
  BY <1>1, <1>6, <1>7 DEF WorkflowTypeOK
<1>9. ReportsAreOfCompleted' /\ LatestIsSomewhere'
  BY <1>1 DEF ReportsAreOfCompleted, CompletedAttempt, LatestIsSomewhere, HasLatest, ResultOf
<1>10. SureRequests'
  BY <1>1, <1>3, <1>4, <1>5, <1>6 DEF SureRequests
<1> QED
  BY <1>1, <1>8, <1>9, <1>10 DEF RunIsOfTheRequest

LEMMA AnsweredKeeps ==
  ASSUME WorkflowInv, NEW k \in RunRequests, Answered(k)
  PROVE  WorkflowInv'
<1> USE WorkflowRowTypes DEF WorkflowInv
<1>1. UNCHANGED <<branchHead, workflowRun, shown, recent, deliveries, missed, listed, answered,
                  parseJob, githubFaults>>
  BY DEF Answered, atGithub, runner
<1>2. runRequest' = [runRequest EXCEPT ![k] = IdleRunRequest] /\ githubFaults' \in 0..GithubFaults
  BY DEF Answered, WorkflowTypeOK
<1>3. CASE UNCHANGED codeSubmission
  BY <1>1, <1>2, <1>3, RequestEnds
<1> DEFINE r == runRequest[k].run
           new == [run |-> r, commit |-> workflowRun[r].commit, tests |-> runRequest[k].result,
                   sure |-> runRequest[k].sure, began |-> runRequest[k].began]
<1>4. CASE codeSubmission.run = NoRunYet /\ codeSubmission' = new
  <2>1. /\ r \in Runs
        /\ runRequest[k].sure => workflowRun[r].commit >= runRequest[k].began
    BY DEF Answered, SureRequests
  <2>2. new \in CodeSubmissions
    <3>1. workflowRun[r].commit \in Commits
      BY <2>1
    <3>2. /\ runRequest[k].result \in Results /\ runRequest[k].sure \in BOOLEAN
          /\ runRequest[k].began \in Commits
      BY DEF RunRequestStates
    <3> HIDE DEF r
    <3> QED
      BY <2>1, <3>1, <3>2 DEF CodeSubmissions
  <2>3. new.run = r /\ new.sure = runRequest[k].sure /\ new.began = runRequest[k].began
          /\ new.commit = workflowRun[r].commit
    OBVIOUS
  <2> HIDE DEF r, new
  <2>4. runRequest \in [RunRequests -> RunRequestStates]
    BY DEF WorkflowTypeOK
  <2>5. runRequest' \in [RunRequests -> RunRequestStates]
    BY <1>2, <2>4
  <2>6. WorkflowTypeOK'
    BY <1>1, <1>2, <1>4, <2>2, <2>5 DEF WorkflowTypeOK
  <2>7. \A q \in Runs : codeSubmission.run # q
    BY <1>4
  <2>8. \A q \in Runs, a \in Attempts : parseJob[<<q, a>>] = "absent"
    BY <2>7 DEF ReportsAreOfCompleted
  <2>9. ReportsAreOfCompleted' /\ LatestIsSomewhere'
    BY <1>1, <2>7, <2>8 DEF ReportsAreOfCompleted, CompletedAttempt, LatestIsSomewhere
  <2>10. \A l \in RunRequests : runRequest'[l] = IF l = k THEN IdleRunRequest ELSE runRequest[l]
    BY <1>2, <2>4
  <2>11. IdleRunRequest.at = "idle"
    BY DEF IdleRunRequest
  <2>12. SureRequests'
    BY <1>1, <2>10, <2>11 DEF SureRequests
  <2>13. RunIsOfTheRequest'
    BY <1>4, <2>1, <2>3 DEF RunIsOfTheRequest
  <2> QED
    BY <1>1, <2>6, <2>9, <2>12, <2>13
<1> QED
  BY <1>3, <1>4 DEF Answered

LEMMA WorkflowStep == WorkflowInv /\ [WorkflowNext]_workflowVars => WorkflowInv'
<1> SUFFICES ASSUME WorkflowInv, [WorkflowNext]_workflowVars
             PROVE  WorkflowInv'
  OBVIOUS
<1>1. CASE Push \/ (\E r \in Runs : Poll(r)) \/ UNCHANGED workflowVars
  BY <1>1, PushAndPoll
<1>2. ASSUME NEW r \in Runs, Show(r) \/ Age(r) \/ Upload(r) \/ CompleteAttempt(r) \/ Rerun(r)
      PROVE  WorkflowInv'
  BY <1>2, RunsAtGithub
<1>3. ASSUME NEW k \in RunRequests,
             \/ ListRuns(k, "run") \/ ListRuns(k, "submit")
             \/ Dispatch(k) \/ Observe(k) \/ Answered(k)
      PROVE  WorkflowInv'
  BY <1>3, ListRunsKeeps, DispatchKeeps, ObserveKeeps, AnsweredKeeps
<1>4. ASSUME NEW k \in RunRequests, GiveUp(k)
      PROVE  WorkflowInv'
  <2>1. githubFaults' \in 0..GithubFaults
    BY <1>4, WorkflowRunsAssumption DEF GiveUp, GithubFails, WorkflowInv, WorkflowTypeOK
  <2> QED
    BY <1>4, <2>1, RequestEnds DEF GiveUp, atGithub, runner, stored
<1>5. ASSUME NEW m \in Runs \X Attempts, LoseDelivery(m) \/ Deliver(m) \/ Parse(m)
      PROVE  WorkflowInv'
  BY <1>5, DeliveriesAndJobs
<1> QED
  BY <1>1, <1>2, <1>3, <1>4, <1>5 DEF WorkflowNext

(* What WorkflowInv says of requests, runs, deliveries and parse jobs      *)
(* holds from the start and through every step                             *)
(* (dispatch_and_wait, process_workflow_run_completed_event).              *)
THEOREM WorkflowInvariance == WorkflowSpec => []WorkflowInv
<1>1. WorkflowInit => WorkflowInv
  BY WorkflowInitInv
<1>2. WorkflowInv /\ [WorkflowNext]_workflowVars => WorkflowInv'
  BY WorkflowStep
<1> QED
  BY <1>1, <1>2, PTL DEF WorkflowSpec

LEMMA WorkflowInvIsTrue == WorkflowInv => ResultsAreItsOwn
<1> SUFFICES ASSUME WorkflowInv PROVE ResultsAreItsOwn
  OBVIOUS
<1>1. ResultsArrive
  BY WorkflowRowTypes DEF WorkflowInv, LatestIsSomewhere, HasLatest, ResultsArrive
<1> QED
  BY <1>1 DEF WorkflowInv, ResultsAreItsOwn

-----------------------------------------------------------------------------
(* RepoBootstrap: the inductive invariant. *)

OpenerRecords ==
  [at : Bootstrapping \cup {"idle", "create", "regrant", "grant", "store", "mail"},
   fresh : BOOLEAN, branch : Nat, base : Nat, codespace : BOOLEAN, tries : Nat]
RepositoryRecords ==
  [there : BOOLEAN, head : Nat, members : SUBSET {"winoe", "candidate"}, put : SUBSET {"README.md"}]
CommitRecords ==
  [by : {"winoe", "candidate"}, files : SUBSET (BootstrapFiles \cup UNION Projects), seeded : BOOLEAN]

BootstrapData ==
  /\ opener \in [Openers -> OpenerRecords]
  /\ repository \in RepositoryRecords
  /\ workspace \in [there : BOOLEAN, base : Nat, codespace : BOOLEAN]
  /\ commits \in Seq(CommitRecords)
  /\ \A o \in Openers : opener[o].base \in 0..Len(commits)

(* A tree with all the files descends from a commit with them. *)
FullTreesAreSeeded ==
  \A c \in 1..Len(commits) : BootstrapFiles \subseteq commits[c].files => commits[c].seeded

(* The invitation that makes the session is alone with it, and until it is *)
(* committed there are no rows.                                            *)
InvitedFirst ==
  /\ ~workspace.there \/ ~invited => workspace = NoWorkspaceRows
  /\ \A o \in Openers :
       /\ opener[o].at = "idle" => opener[o] = IdleOpener
       /\ opener[o].at # "idle" => opener[o].fresh = ~invited
       /\ opener[o].at = "create" /\ ~invited => ~repository.there
       /\ opener[o].at = "regrant" => workspace.there
       /\ opener[o].at = "store" => invited
       /\ \A p \in Openers : ~invited /\ opener[o].at # "idle" /\ opener[p].at # "idle" => o = p
  /\ (~invited /\ \A o \in Openers : opener[o].at = "idle") => ~repository.there

Seeded == repository.there /\ SeededAt(repository.head)

(* Who is past the bootstrap has left a seeded branch. *)
SeededBehind ==
  /\ workspace.there => Seeded
  /\ \A o \in Openers :
       /\ opener[o].at \in Bootstrapping => repository.there
       /\ opener[o].at \in {"actor", "codespace", "grant", "store"} => Seeded
       /\ opener[o].at = "mail" /\ opener[o].fresh /\ repository.there => Seeded

(* The demo provider would start a new history over a branch that is there, *)
(* so nobody may seed one between a request's look and its first file.      *)
DemoIsUndisturbed ==
  demo => \A o \in Openers :
    /\ opener[o].at \in {"look", "readme"} /\ opener[o].branch = 0 => repository.head = 0
    /\ opener[o].at = "readme" => opener[o].branch = 0
    /\ \A p \in Openers :
         opener[o].at \in Bootstrapping /\ opener[p].at \in Bootstrapping => o = p

BootstrapInv ==
  /\ BootstrapTypeOK /\ BootstrapData /\ FullTreesAreSeeded
  /\ InvitedFirst /\ SeededBehind /\ DemoIsUndisturbed

-----------------------------------------------------------------------------
(* RepoBootstrap: commits and requests. *)

LEMMA CommitsAt ==
  ASSUME BootstrapInv, NEW c \in 0..Len(commits)
  PROVE  /\ FilesAt(c) \subseteq BootstrapFiles \cup UNION Projects
         /\ SeededAt(c) \in BOOLEAN
         /\ BootstrapFiles \subseteq FilesAt(c) => SeededAt(c)
<1>1. commits \in Seq(CommitRecords)
  BY DEF BootstrapInv, BootstrapData
<1>2. CASE c = 0
  BY <1>2 DEF FilesAt, SeededAt, BootstrapFiles
<1>3. CASE c # 0
  <2>1. c \in 1..Len(commits)
    BY <1>3
  <2>2. commits[c] \in CommitRecords
    BY <1>1, <2>1
  <2>3. FilesAt(c) = commits[c].files
    BY <1>3 DEF FilesAt
  <2>4. BootstrapFiles \subseteq commits[c].files => commits[c].seeded
    BY <2>1 DEF BootstrapInv, FullTreesAreSeeded
  <2> QED
    BY <1>3, <2>2, <2>3, <2>4 DEF SeededAt, CommitRecords
<1> QED
  BY <1>2, <1>3

(* A commit on top of another keeps what that one has been seeded with,    *)
(* and is seeded if its own tree is full.                                  *)
LEMMA CommitOnTop ==
  ASSUME BootstrapInv, NEW parent \in 0..Len(commits), NEW by \in {"winoe", "candidate"},
         NEW files \in SUBSET (BootstrapFiles \cup UNION Projects)
  PROVE  /\ CommitOn(parent, by, files) \in CommitRecords
         /\ SeededAt(parent) => CommitOn(parent, by, files).seeded
         /\ BootstrapFiles \subseteq CommitOn(parent, by, files).files =>
              CommitOn(parent, by, files).seeded
         /\ BootstrapFiles \subseteq files => CommitOn(parent, by, files).seeded
<1>1. FilesAt(parent) \subseteq BootstrapFiles \cup UNION Projects /\ SeededAt(parent) \in BOOLEAN
  BY CommitsAt
<1> DEFINE tree == FilesAt(parent) \cup files
           seeded == SeededAt(parent) \/ BootstrapFiles \subseteq tree
<1>2. CommitOn(parent, by, files) = [by |-> by, files |-> tree, seeded |-> seeded]
  BY DEF CommitOn
<1>3. tree \subseteq BootstrapFiles \cup UNION Projects /\ files \subseteq tree
  BY <1>1
<1>4. seeded \in BOOLEAN
  BY <1>1
<1>5. (SeededAt(parent) => seeded) /\ (BootstrapFiles \subseteq tree => seeded)
  OBVIOUS
<1> HIDE DEF tree, seeded
<1> QED
  BY <1>2, <1>3, <1>4, <1>5 DEF CommitRecords

(* One more commit. *)
LEMMA AppendedCommit ==
  ASSUME BootstrapInv, NEW new \in CommitRecords, commits' = Append(commits, new),
         Len(commits) < LastPush,
         BootstrapFiles \subseteq new.files => new.seeded
  PROVE  /\ Len(commits') = Len(commits) + 1 /\ Len(commits') <= LastPush /\ Len(commits') # 0
         /\ Len(commits) \in Nat
         /\ commits' \in Seq(CommitRecords)
         /\ commits'[Len(commits')] = new
         /\ FullTreesAreSeeded'
         /\ \A n \in 0..Len(commits) : n \in 0..Len(commits')
<1>1. commits \in Seq(CommitRecords)
  BY DEF BootstrapInv, BootstrapData
<1>2. /\ Len(commits) \in Nat /\ Len(commits') = Len(commits) + 1
      /\ commits' \in Seq(CommitRecords) /\ commits'[Len(commits')] = new
      /\ \A c \in 1..Len(commits) : commits'[c] = commits[c]
  BY <1>1
<1>3. Len(commits') <= LastPush /\ Len(commits') # 0
  BY <1>2, BootstrapAssumption
<1>4. FullTreesAreSeeded'
  <2>1. ASSUME NEW c \in 1..Len(commits'), BootstrapFiles \subseteq commits'[c].files
        PROVE  commits'[c].seeded
    <3>1. CASE c = Len(commits')
      BY <1>2, <2>1, <3>1
    <3>2. CASE c \in 1..Len(commits)
      BY <1>2, <2>1, <3>2 DEF BootstrapInv, FullTreesAreSeeded
    <3> QED
      BY <1>2, <3>1, <3>2
  <2>2. BootstrapFiles' = BootstrapFiles
    BY DEF BootstrapFiles
  <2> QED
    BY <2>1, <2>2 DEF FullTreesAreSeeded
<1> QED
  BY <1>2, <1>3, <1>4

LEMMA BootstrapRows ==
  ASSUME BootstrapInv
  PROVE  /\ repository.there \in BOOLEAN /\ repository.head \in 0..Len(commits)
         /\ repository.put \subseteq {"README.md"}
         /\ repository.members \subseteq {"winoe", "candidate"}
         /\ Len(commits) \in Nat
         /\ \A o \in Openers :
              /\ opener[o].branch \in 0..Len(commits) /\ opener[o].base \in 0..Len(commits)
              /\ opener[o].fresh \in BOOLEAN /\ opener[o].codespace \in BOOLEAN
         /\ IdleOpener.at = "idle" /\ ~IdleOpener.fresh /\ IdleOpener.branch = 0
         /\ IdleOpener.base = 0
BY DEF BootstrapInv, BootstrapData, BootstrapTypeOK, OpenerRecords, RepositoryRecords, IdleOpener

LEMMA BootstrapInitInv == BootstrapInit => BootstrapInv
<1> SUFFICES ASSUME BootstrapInit PROVE BootstrapInv
  OBVIOUS
<1> USE BootstrapAssumption DEF BootstrapInit
<1>1. commits = <<>> /\ Len(commits) = 0
  OBVIOUS
<1>2. commits \in Seq(CommitRecords)
  BY <1>1
<1>3. opener \in [Openers -> OpenerRecords]
  BY DEF IdleOpener, OpenerRecords
<1>4. BootstrapData
  BY <1>1, <1>2, <1>3 DEF BootstrapData, RepositoryRecords, NoRepository, NoWorkspaceRows, IdleOpener
<1>5. BootstrapTypeOK
  <2>1. 0 \in 0..Len(commits) /\ Len(commits) <= LastPush /\ gitFaults \in 0..GitFaults
    BY <1>1
  <2>2. repository.head = 0 /\ workspace.base = 0 /\ repository.members = {}
    BY DEF NoRepository, NoWorkspaceRows
  <2>3. \A o \in Openers : opener[o].branch = 0
    BY DEF IdleOpener
  <2> HIDE DEF BootstrapInit
  <2> QED
    BY <2>1, <2>2, <2>3 DEF BootstrapTypeOK, BootstrapInit
<1>6. FullTreesAreSeeded
  BY <1>1 DEF FullTreesAreSeeded
<1>7. InvitedFirst
  BY DEF InvitedFirst, NoRepository, IdleOpener
<1>8. SeededBehind /\ DemoIsUndisturbed
  BY DEF SeededBehind, DemoIsUndisturbed, IdleOpener, NoWorkspaceRows, Bootstrapping
<1> QED
  BY <1>4, <1>5, <1>6, <1>7, <1>8 DEF BootstrapInv

(* A request in progress takes a step: everybody else is where they were,  *)
(* and what is behind them still holds.                                    *)
LEMMA RequestMoves ==
  ASSUME BootstrapInv, NEW o \in Openers, Undisturbed(o), opener[o].at # "idle",
         NEW new \in OpenerRecords, opener' = [opener EXCEPT ![o] = new],
         new.fresh = opener[o].fresh, new.at \notin {"idle", "create", "regrant"},
         new.at = "store" => invited,
         new.branch \in 0..Len(commits'), new.base \in 0..Len(commits'),
         UNCHANGED <<demo, invited, workspace>>, gitFaults' \in 0..GitFaults,
         commits' \in Seq(CommitRecords), FullTreesAreSeeded',
         Len(commits') <= LastPush, \A n \in 0..Len(commits) : n \in 0..Len(commits'),
         repository' \in RepositoryRecords, repository'.head \in 0..Len(commits'),
         repository.there => repository'.there,
         Seeded => Seeded',
         new.at \in Bootstrapping => repository'.there,
         new.at \in {"actor", "codespace", "grant", "store"} => Seeded',
         new.at = "mail" /\ new.fresh /\ repository'.there => Seeded',
         demo => /\ new.at \in {"look", "readme"} /\ new.branch = 0 => repository'.head = 0
                 /\ new.at = "readme" => new.branch = 0
  PROVE  BootstrapInv'
<1> USE DEF BootstrapInv
<1>1. opener \in [Openers -> OpenerRecords]
  BY DEF BootstrapData
<1>2. opener' \in [Openers -> OpenerRecords] /\ \A p \in Openers : opener'[p] = IF p = o THEN new ELSE opener[p]
  BY <1>1
<1>3. BootstrapData'
  BY SMTT(30), <1>2 DEF BootstrapData, OpenerRecords, RepositoryRecords, CommitRecords, Bootstrapping, BootstrapFiles
<1>4. BootstrapTypeOK'
  BY <1>2 DEF BootstrapTypeOK, RepositoryRecords
<1>5. InvitedFirst'
  BY ZenonT(60), <1>2 DEF InvitedFirst, IdleOpener, NoWorkspaceRows
<1>6. SeededBehind'
  BY <1>2, BootstrapRows DEF SeededBehind, InvitedFirst, Bootstrapping
<1>7. DemoIsUndisturbed'
  BY <1>2 DEF DemoIsUndisturbed, Undisturbed, Bootstrapping
<1> QED
  BY <1>3, <1>4, <1>5, <1>6, <1>7

(* A request that only goes on to its next call, with the repository where *)
(* it was or one more member in it.                                        *)
LEMMA RequestGoesOn ==
  ASSUME BootstrapInv, NEW o \in Openers, Undisturbed(o), opener[o].at # "idle",
         NEW new \in OpenerRecords, opener' = [opener EXCEPT ![o] = new],
         new.fresh = opener[o].fresh, new.at \notin {"idle", "create", "regrant"},
         new.at = "store" => invited,
         new.branch \in 0..Len(commits), new.base \in 0..Len(commits),
         UNCHANGED <<demo, invited, workspace, commits>>, gitFaults' \in 0..GitFaults,
         repository' \in RepositoryRecords, repository'.head = repository.head,
         repository.there => repository'.there,
         new.at \in Bootstrapping => repository'.there,
         new.at \in {"actor", "codespace", "grant", "store"} => Seeded,
         new.at = "mail" /\ new.fresh /\ repository'.there => Seeded,
         demo => /\ new.at \in {"look", "readme"} /\ new.branch = 0 => repository.head = 0
                 /\ new.at = "readme" => new.branch = 0
  PROVE  BootstrapInv'
<1>1. commits' \in Seq(CommitRecords) /\ Len(commits') <= LastPush
  BY DEF BootstrapInv, BootstrapData, BootstrapTypeOK
<1>2. FullTreesAreSeeded'
  BY DEF BootstrapInv, FullTreesAreSeeded, BootstrapFiles
<1>3. repository'.head \in 0..Len(commits')
  BY BootstrapRows
<1>4. Seeded => Seeded'
  BY DEF Seeded, SeededAt
<1> QED
  BY <1>1, <1>2, <1>3, <1>4, RequestMoves

(* Rows and members are data. *)
LEMMA OpenerFields ==
  ASSUME BootstrapInv, NEW o \in Openers
  PROVE  /\ opener[o] \in OpenerRecords
         /\ opener[o].branch \in 0..Len(commits) /\ opener[o].base \in 0..Len(commits)
         /\ repository \in RepositoryRecords
         /\ \A m \in {"winoe", "candidate"} :
              LET with == [repository EXCEPT !.members = @ \cup {m}]
              IN /\ with \in RepositoryRecords
                 /\ with.head = repository.head /\ with.there = repository.there
         /\ gitFaults \in 0..GitFaults
         /\ SpendFault => gitFaults' \in 0..GitFaults
         /\ GitHubFails => gitFaults' \in 0..GitFaults
<1>1. opener[o] \in OpenerRecords /\ repository \in RepositoryRecords /\ gitFaults \in 0..GitFaults
  BY DEF BootstrapInv, BootstrapData, BootstrapTypeOK
<1>2. opener[o].branch \in 0..Len(commits) /\ opener[o].base \in 0..Len(commits)
  BY DEF BootstrapInv, BootstrapData, BootstrapTypeOK
<1>3. \A m \in {"winoe", "candidate"} :
        LET with == [repository EXCEPT !.members = @ \cup {m}]
        IN /\ with \in RepositoryRecords
           /\ with.head = repository.head /\ with.there = repository.there
  BY <1>1 DEF RepositoryRecords
<1>4. SpendFault => gitFaults' \in 0..GitFaults
  BY <1>1, BootstrapAssumption DEF SpendFault
<1> QED
  BY <1>1, <1>2, <1>3, <1>4 DEF GitHubFails

(* The parts of the request change one at a time. *)
LEMMA ProceedingRequest ==
  ASSUME BootstrapInv, NEW o \in Openers, NEW at \in Bootstrapping \cup {"grant", "store", "mail"},
         Proceeds(o, at)
  PROVE  \E new \in OpenerRecords :
           /\ opener' = [opener EXCEPT ![o] = new]
           /\ new.at = at /\ new.fresh = opener[o].fresh /\ new.branch = opener[o].branch
           /\ new.base = opener[o].base
<1>1. opener \in [Openers -> OpenerRecords] /\ opener[o] \in OpenerRecords
  BY DEF BootstrapInv, BootstrapData
<1> DEFINE new == [opener[o] EXCEPT !.at = at]
<1>2. new \in OpenerRecords /\ new.at = at /\ new.fresh = opener[o].fresh
        /\ new.branch = opener[o].branch /\ new.base = opener[o].base
  BY <1>1 DEF OpenerRecords
<1>3. opener' = [opener EXCEPT ![o] = new]
  BY <1>1 DEF Proceeds
<1> QED
  BY <1>2, <1>3

LEMMA CallsThatProceed ==
  ASSUME BootstrapInv, NEW o \in Openers, Undisturbed(o),
         InviteWithoutWorkspace(o) \/ Regrant(o) \/ CreateEmptyRepo(o) \/ EnsureActorAccess(o)
  PROVE  BootstrapInv'
<1> USE OpenerFields
<1>1. CASE InviteWithoutWorkspace(o)
  <2>1. PICK new \in OpenerRecords :
           /\ opener' = [opener EXCEPT ![o] = new]
           /\ new.at = "mail" /\ new.fresh = opener[o].fresh /\ new.branch = opener[o].branch
           /\ new.base = opener[o].base
    <3>1. Proceeds(o, "mail")
      BY <1>1 DEF InviteWithoutWorkspace
    <3> QED
      BY <3>1, ProceedingRequest
  <2>2. ~repository.there
    BY <1>1 DEF InviteWithoutWorkspace, BootstrapInv, InvitedFirst
  <2> QED
    BY <1>1, <2>1, <2>2, RequestGoesOn DEF InviteWithoutWorkspace, Bootstrapping
<1>2. CASE Regrant(o)
  <2>1. PICK new \in OpenerRecords :
           /\ opener' = [opener EXCEPT ![o] = new]
           /\ new.at = "mail" /\ new.fresh = opener[o].fresh /\ new.branch = opener[o].branch
           /\ new.base = opener[o].base
    BY <1>2, ProceedingRequest DEF Regrant
  <2>2. Seeded
    BY <1>2 DEF Regrant, BootstrapInv, InvitedFirst, SeededBehind
  <2>3. /\ repository' \in RepositoryRecords /\ gitFaults' \in 0..GitFaults
        /\ repository'.head = repository.head /\ repository'.there = repository.there
    BY <1>2 DEF Regrant
  <2> QED
    BY <1>2, <2>1, <2>2, <2>3, RequestGoesOn DEF Regrant, Bootstrapping
<1>3. CASE CreateEmptyRepo(o)
  <2>1. PICK new \in OpenerRecords :
           /\ opener' = [opener EXCEPT ![o] = new]
           /\ new.at = "branch" /\ new.fresh = opener[o].fresh /\ new.branch = opener[o].branch
           /\ new.base = opener[o].base
    BY <1>3, ProceedingRequest DEF CreateEmptyRepo, Bootstrapping
  <2>2. /\ repository' \in RepositoryRecords
        /\ repository'.head = repository.head /\ repository'.there
    BY <1>3 DEF CreateEmptyRepo, RepositoryRecords
  <2>3. gitFaults' \in 0..GitFaults
    BY <1>3 DEF CreateEmptyRepo
  <2> QED
    BY <1>3, <2>1, <2>2, <2>3, RequestGoesOn DEF CreateEmptyRepo, Bootstrapping
<1>4. CASE EnsureActorAccess(o)
  <2>1. PICK new \in OpenerRecords :
           /\ opener' = [opener EXCEPT ![o] = new]
           /\ new.at = "codespace" /\ new.fresh = opener[o].fresh /\ new.branch = opener[o].branch
           /\ new.base = opener[o].base
    BY <1>4, ProceedingRequest DEF EnsureActorAccess, Bootstrapping
  <2>2. Seeded
    BY <1>4 DEF EnsureActorAccess, BootstrapInv, SeededBehind
  <2>3. /\ repository' \in RepositoryRecords /\ gitFaults' \in 0..GitFaults
        /\ repository'.head = repository.head /\ repository'.there = repository.there
    BY <1>4 DEF EnsureActorAccess
  <2> QED
    BY <1>4, <2>1, <2>2, <2>3, RequestGoesOn DEF EnsureActorAccess, Bootstrapping, Seeded
<1> QED
  BY <1>1, <1>2, <1>3, <1>4

LEMMA BranchAndFiles ==
  ASSUME BootstrapInv, NEW o \in Openers, Undisturbed(o), GetBranch(o) \/ LookForFiles(o)
  PROVE  BootstrapInv'
<1> USE OpenerFields
<1>1. opener \in [Openers -> OpenerRecords]
  BY DEF BootstrapInv, BootstrapData
<1>2. repository.there
  BY DEF GetBranch, LookForFiles, BootstrapInv, SeededBehind, Bootstrapping
<1>3. CASE GetBranch(o)
  <2>1. PICK found \in {repository.head, 0} :
          /\ IF found = repository.head THEN UNCHANGED gitFaults ELSE GitHubFails
          /\ opener' = [opener EXCEPT ![o].branch = found,
                                      ![o].at = IF @ = "branch" THEN "look" ELSE "tree"]
    BY <1>3 DEF GetBranch
  <2> DEFINE at == IF opener[o].at = "branch" THEN "look" ELSE "tree"
             new == [opener[o] EXCEPT !.branch = found, !.at = at]
  <2>2. found \in 0..Len(commits) /\ found \in Nat
    BY BootstrapRows
  <2>3. /\ new \in OpenerRecords /\ new.at \in {"look", "tree"} /\ new.branch = found
        /\ new.fresh = opener[o].fresh /\ new.base = opener[o].base
    BY <2>2 DEF OpenerRecords, Bootstrapping
  <2>4. opener' = [opener EXCEPT ![o] = new]
    BY <1>1, <2>1
  <2>5. demo => found = repository.head
    BY <2>1 DEF GitHubFails
  <2>6. gitFaults' \in 0..GitFaults
    BY <2>1
  <2> HIDE DEF new
  <2> QED
    BY <1>2, <1>3, <2>2, <2>3, <2>4, <2>5, <2>6, RequestGoesOn DEF GetBranch, Bootstrapping
<1>4. CASE LookForFiles(o)
  <2> DEFINE at == IF ~BootstrapNeeded(o) THEN "actor"
                   ELSE IF opener[o].branch = 0 THEN "readme" ELSE "tree"
             base == IF BootstrapNeeded(o) THEN 0 ELSE opener[o].branch
             new == [opener[o] EXCEPT !.at = at, !.base = base]
  <2>1. base \in 0..Len(commits) /\ base \in Nat
    BY BootstrapRows
  <2>2. /\ new \in OpenerRecords /\ new.at = at /\ new.branch = opener[o].branch
        /\ new.fresh = opener[o].fresh /\ new.base = base
    <3> HIDE DEF base
    <3> QED
      BY <2>1 DEF OpenerRecords, Bootstrapping
  <2>3. opener' = [opener EXCEPT ![o] = new]
    BY <1>1, <1>4 DEF LookForFiles
  <2>4. ~BootstrapNeeded(o) => Seeded
    <3>1. demo => ~(BootstrapFiles \subseteq repository.put)
      BY BootstrapRows DEF BootstrapFiles
    <3>2. BootstrapFiles \subseteq FilesAt(repository.head) => SeededAt(repository.head)
      BY BootstrapRows, CommitsAt
    <3> QED
      BY <1>2, <3>1, <3>2 DEF BootstrapNeeded, FilesSeen, Seeded
  <2>5. at = "actor" => Seeded
    BY <2>4
  <2>6. at \in {"actor", "readme", "tree"} /\ (at = "readme" => opener[o].branch = 0)
    OBVIOUS
  <2>7. demo /\ opener[o].branch = 0 => repository.head = 0
    BY <1>4 DEF LookForFiles, BootstrapInv, DemoIsUndisturbed
  <2>8. /\ gitFaults' \in 0..GitFaults /\ opener[o].at # "idle"
        /\ UNCHANGED <<demo, invited, workspace, commits, repository>>
    BY <1>4 DEF LookForFiles
  <2>9. repository' \in RepositoryRecords
    BY <2>8
  <2> HIDE DEF new, at, base
  <2>10. /\ new.at \notin {"idle", "create", "regrant", "store", "mail"}
         /\ new.at \in {"actor", "codespace", "grant", "store"} => Seeded
         /\ demo => /\ new.at \in {"look", "readme"} /\ new.branch = 0 => repository.head = 0
                    /\ new.at = "readme" => new.branch = 0
    BY <2>2, <2>5, <2>6, <2>7
  <2> QED
    BY <1>2, <2>1, <2>2, <2>3, <2>8, <2>9, <2>10, RequestGoesOn
<1> QED
  BY <1>3, <1>4

LEMMA CommitsOfWinoe ==
  ASSUME BootstrapInv, NEW o \in Openers, Undisturbed(o), PutReadme(o) \/ SeedBranch(o)
  PROVE  BootstrapInv'
<1> USE OpenerFields
<1>1. opener \in [Openers -> OpenerRecords] /\ repository \in RepositoryRecords
  BY DEF BootstrapInv, BootstrapData
<1>2. repository.there
  BY DEF PutReadme, SeedBranch, BootstrapInv, SeededBehind, Bootstrapping
<1>3. CASE PutReadme(o)
  <2> DEFINE parent == IF demo THEN 0 ELSE repository.head
             commit == CommitOn(parent, "winoe", {"README.md"})
  <2>1. /\ commits' = Append(commits, commit) /\ Len(commits) < LastPush
        /\ repository' = [repository EXCEPT !.head = Len(commits'), !.put = @ \cup {"README.md"}]
        /\ Proceeds(o, "rebranch") /\ opener[o].at = "readme"
        /\ UNCHANGED <<demo, invited, workspace, gitFaults>>
    BY <1>3 DEF PutReadme, FileCommit
  <2>2. parent \in 0..Len(commits)
    BY BootstrapRows
  <2>3. {"README.md"} \in SUBSET (BootstrapFiles \cup UNION Projects)
    BY DEF BootstrapFiles
  <2>4. commit \in CommitRecords
    <3> HIDE DEF parent
    <3>1. "winoe" \in {"winoe", "candidate"}
      OBVIOUS
    <3> QED
      BY <2>2, <2>3, <3>1, CommitOnTop
  <2>5. (SeededAt(parent) => commit.seeded) /\ (BootstrapFiles \subseteq commit.files => commit.seeded)
    <3> HIDE DEF parent
    <3>1. "winoe" \in {"winoe", "candidate"}
      OBVIOUS
    <3> QED
      BY <2>2, <2>3, <3>1, CommitOnTop
  <2>6. Seeded => commit.seeded
    <3>1. CASE demo
      <4>1. repository.head = 0
        BY <2>1, <3>1 DEF BootstrapInv, DemoIsUndisturbed
      <4> QED
        BY <4>1 DEF Seeded, SeededAt
    <3>2. CASE ~demo
      BY <2>5, <3>2 DEF Seeded
    <3> QED
      BY <3>1, <3>2
  <2> HIDE DEF commit
  <2>7. /\ Len(commits') = Len(commits) + 1 /\ Len(commits') <= LastPush /\ Len(commits') # 0
        /\ Len(commits) \in Nat
        /\ commits' \in Seq(CommitRecords) /\ commits'[Len(commits')] = commit
        /\ FullTreesAreSeeded'
        /\ \A n \in 0..Len(commits) : n \in 0..Len(commits')
    BY <2>1, <2>4, <2>5, AppendedCommit
  <2>8. /\ repository' \in RepositoryRecords /\ repository'.head = Len(commits')
        /\ repository'.there
    <3>1. Len(commits') \in Nat
      BY <2>7
    <3> QED
      BY <1>1, <1>2, <2>1, <3>1 DEF RepositoryRecords
  <2>9. Seeded => Seeded'
    BY <2>6, <2>7, <2>8 DEF Seeded, SeededAt
  <2>10. PICK new \in OpenerRecords :
           /\ opener' = [opener EXCEPT ![o] = new]
           /\ new.at = "rebranch" /\ new.fresh = opener[o].fresh /\ new.branch = opener[o].branch
           /\ new.base = opener[o].base
    <3>1. "rebranch" \in Bootstrapping
      BY DEF Bootstrapping
    <3> QED
      BY <2>1, <3>1, ProceedingRequest
  <2>11. repository'.head \in 0..Len(commits') /\ gitFaults' \in 0..GitFaults
    BY <2>1, <2>7, <2>8
  <2>12. new.branch \in 0..Len(commits') /\ new.base \in 0..Len(commits')
    BY <2>7, <2>10
  <2> QED
    BY <2>1, <2>7, <2>8, <2>9, <2>10, <2>11, <2>12, RequestMoves
<1>4. CASE SeedBranch(o)
  <2> DEFINE commit == CommitOn(opener[o].branch, "winoe", BootstrapFiles)
             new == [opener[o] EXCEPT !.at = "actor", !.base = Len(commits')]
  <2>1. /\ commits' = Append(commits, commit) /\ Len(commits) < LastPush
        /\ repository' = [repository EXCEPT !.head = Len(commits')]
        /\ opener' = [opener EXCEPT ![o].at = "actor", ![o].base = Len(commits')]
        /\ opener[o].at = "tree"
        /\ UNCHANGED <<demo, invited, workspace, gitFaults>>
    BY <1>4 DEF SeedBranch
  <2>2. commit \in CommitRecords /\ commit.seeded
    <3>1. /\ "winoe" \in {"winoe", "candidate"} /\ BootstrapFiles \subseteq BootstrapFiles
          /\ BootstrapFiles \in SUBSET (BootstrapFiles \cup UNION Projects)
      OBVIOUS
    <3> QED
      BY <3>1, CommitOnTop
  <2> HIDE DEF commit
  <2>3. /\ Len(commits') = Len(commits) + 1 /\ Len(commits') <= LastPush /\ Len(commits') # 0
        /\ Len(commits) \in Nat
        /\ commits' \in Seq(CommitRecords) /\ commits'[Len(commits')] = commit
        /\ FullTreesAreSeeded'
        /\ \A n \in 0..Len(commits) : n \in 0..Len(commits')
    BY <2>1, <2>2, AppendedCommit
  <2>4. Len(commits') \in Nat /\ Len(commits') \in 0..Len(commits')
    BY <2>3
  <2>5. /\ repository' \in RepositoryRecords /\ repository'.head = Len(commits')
        /\ repository'.there
    BY <1>1, <1>2, <2>1, <2>4 DEF RepositoryRecords
  <2>6. Seeded'
    BY <2>2, <2>3, <2>5 DEF Seeded, SeededAt
  <2>7. /\ new \in OpenerRecords /\ new.at = "actor" /\ new.fresh = opener[o].fresh
        /\ new.branch = opener[o].branch /\ new.base = Len(commits')
    BY <2>4 DEF OpenerRecords, Bootstrapping
  <2>8. opener' = [opener EXCEPT ![o] = new]
    BY <1>1, <2>1
  <2> HIDE DEF new
  <2>9. repository'.head \in 0..Len(commits') /\ gitFaults' \in 0..GitFaults
    BY <2>1, <2>4, <2>5
  <2>10. new.branch \in 0..Len(commits') /\ new.base \in 0..Len(commits')
    BY <2>3, <2>4, <2>7
  <2> QED
    BY <2>1, <2>3, <2>5, <2>6, <2>7, <2>8, <2>9, <2>10, RequestMoves
<1> QED
  BY <1>3, <1>4

LEMMA CodespaceAndCandidate ==
  ASSUME BootstrapInv, NEW o \in Openers, Undisturbed(o), CreateCodespace(o) \/ AddCandidate(o)
  PROVE  BootstrapInv'
<1> USE OpenerFields
<1>1. opener \in [Openers -> OpenerRecords] /\ repository \in RepositoryRecords
  BY DEF BootstrapInv, BootstrapData
<1>2. Seeded /\ opener[o].at # "idle"
  BY DEF CreateCodespace, AddCandidate, BootstrapInv, SeededBehind
<1>3. UNCHANGED <<demo, invited, workspace, commits>> /\ gitFaults' \in 0..GitFaults
  BY DEF CreateCodespace, AddCandidate
<1>4. /\ repository' \in RepositoryRecords /\ repository'.head = repository.head
      /\ repository'.there = repository.there
  BY DEF CreateCodespace, AddCandidate
<1>5. CASE CreateCodespace(o)
  <2>1. PICK at \in {"grant", "codespace"}, codespace \in BOOLEAN, tries \in Nat :
          opener' = [opener EXCEPT ![o] =
            [opener[o] EXCEPT !.at = at, !.codespace = codespace, !.tries = tries]]
    <3>1. opener[o] \in OpenerRecords /\ opener[o].tries \in Nat /\ opener[o].codespace \in BOOLEAN
            /\ opener[o].at = "codespace"
      BY <1>1, <1>5 DEF OpenerRecords, CreateCodespace
    <3>2. CASE opener' = [opener EXCEPT ![o].at = "grant", ![o].codespace = TRUE]
      <4>1. opener' = [opener EXCEPT ![o] =
              [opener[o] EXCEPT !.at = "grant", !.codespace = TRUE, !.tries = opener[o].tries]]
        BY <1>1, <3>1, <3>2 DEF OpenerRecords
      <4> QED
        BY <3>1, <4>1
    <3>3. CASE opener' = [opener EXCEPT ![o].at = "grant"]
      <4>1. opener' = [opener EXCEPT ![o] =
              [opener[o] EXCEPT !.at = "grant", !.codespace = opener[o].codespace,
                                !.tries = opener[o].tries]]
        BY <1>1, <3>1, <3>3 DEF OpenerRecords
      <4> QED
        BY <3>1, <4>1
    <3>4. CASE opener' = [opener EXCEPT ![o].tries = @ + 1,
             ![o].at = IF opener[o].tries + 1 < CodespaceTries THEN @ ELSE "grant"]
      <4> DEFINE at == IF opener[o].tries + 1 < CodespaceTries THEN opener[o].at ELSE "grant"
      <4>1. opener' = [opener EXCEPT ![o] =
              [opener[o] EXCEPT !.at = at, !.codespace = opener[o].codespace,
                                !.tries = opener[o].tries + 1]]
        BY <1>1, <3>1, <3>4 DEF OpenerRecords
      <4>2. opener[o].tries + 1 \in Nat /\ at \in {"grant", "codespace"}
        BY <3>1
      <4> QED
        BY <3>1, <4>1, <4>2
    <3> QED
      BY <1>5, <3>2, <3>3, <3>4 DEF CreateCodespace
  <2> DEFINE new == [opener[o] EXCEPT !.at = at, !.codespace = codespace, !.tries = tries]
  <2>2. /\ new \in OpenerRecords /\ new.at = at /\ new.fresh = opener[o].fresh
        /\ new.branch = opener[o].branch /\ new.base = opener[o].base
    BY DEF OpenerRecords, Bootstrapping
  <2>3. opener' = [opener EXCEPT ![o] = new]
    BY <2>1
  <2>4. new.at \in Bootstrapping => repository'.there
    BY <1>2, <1>4 DEF Seeded
  <2> HIDE DEF new
  <2> QED
    BY <1>2, <1>3, <1>4, <2>2, <2>3, <2>4, RequestGoesOn
<1>6. CASE AddCandidate(o)
  <2> DEFINE at == IF opener[o].fresh THEN "mail" ELSE "store"
             new == [opener[o] EXCEPT !.at = at]
  <2>1. /\ new \in OpenerRecords /\ new.at = at /\ new.fresh = opener[o].fresh
        /\ new.branch = opener[o].branch /\ new.base = opener[o].base
    BY DEF OpenerRecords, Bootstrapping
  <2>2. opener' = [opener EXCEPT ![o] = new]
    BY <1>1, <1>6 DEF AddCandidate
  <2>3. at \in {"mail", "store"} /\ (at = "store" => invited)
    BY <1>2 DEF BootstrapInv, InvitedFirst
  <2>4. at \notin Bootstrapping
    BY <2>3 DEF Bootstrapping
  <2> HIDE DEF new, at
  <2> QED
    BY <1>2, <1>3, <1>4, <2>1, <2>2, <2>3, <2>4, RequestGoesOn
<1> QED
  BY <1>5, <1>6

LEMMA RequestBegins ==
  ASSUME BootstrapInv, NEW o \in Openers, EnsureWorkspace(o)
  PROVE  BootstrapInv'
<1> USE DEF BootstrapInv
<1> DEFINE new == [IdleOpener EXCEPT !.fresh = ~invited,
                                     !.at = IF workspace.there THEN "regrant" ELSE "create"]
<1>1. opener \in [Openers -> OpenerRecords]
  BY DEF BootstrapData
<1>2. /\ new \in OpenerRecords /\ new.fresh = ~invited /\ new.branch = 0 /\ new.base = 0
      /\ new.at = IF workspace.there THEN "regrant" ELSE "create"
  BY DEF IdleOpener, OpenerRecords, BootstrapTypeOK
<1>3. opener' = [opener EXCEPT ![o] = new]
  BY DEF EnsureWorkspace
<1> HIDE DEF new
<1>4. opener' \in [Openers -> OpenerRecords] /\ \A p \in Openers : opener'[p] = IF p = o THEN new ELSE opener[p]
  BY <1>1, <1>2, <1>3
<1>5. UNCHANGED <<demo, invited, repository, commits, workspace, gitFaults>>
  BY DEF EnsureWorkspace
<1>6. ~invited => /\ \A p \in Openers : opener[p].at = "idle"
                  /\ ~workspace.there /\ ~repository.there
  <2> SUFFICES ASSUME ~invited
               PROVE  /\ \A p \in Openers : opener[p].at = "idle"
                      /\ ~workspace.there /\ ~repository.there
    OBVIOUS
  <2>1. ASSUME NEW p \in Openers PROVE opener[p].at = "idle"
    <3>1. ~opener[p].fresh
      BY DEF EnsureWorkspace
    <3>2. opener[p].at # "idle" => opener[p].fresh = ~invited
      BY DEF InvitedFirst
    <3> QED
      BY <3>1, <3>2
  <2>2. workspace = NoWorkspaceRows
    BY DEF InvitedFirst
  <2>3. ~repository.there
    BY <2>1 DEF InvitedFirst
  <2> QED
    BY <2>1, <2>2, <2>3 DEF NoWorkspaceRows
<1>7. 0 \in 0..Len(commits)
  BY BootstrapRows
<1>8. BootstrapData' /\ BootstrapTypeOK'
  <2>1. BootstrapData'
    BY ZenonT(60), <1>2, <1>4, <1>5, <1>7 DEF BootstrapData, CommitRecords, OpenerRecords, RepositoryRecords,
       BootstrapFiles, Bootstrapping
  <2>2. BootstrapTypeOK'
    BY <1>2, <1>4, <1>5, <1>7 DEF BootstrapTypeOK
  <2> QED
    BY <2>1, <2>2
<1>9. FullTreesAreSeeded'
  BY <1>5 DEF FullTreesAreSeeded, BootstrapFiles
<1>10. InvitedFirst'
  BY <1>2, <1>4, <1>5, <1>6 DEF InvitedFirst, IdleOpener, NoWorkspaceRows
<1>11. SeededBehind'
  BY <1>2, <1>4, <1>5 DEF SeededBehind, Seeded, SeededAt, Bootstrapping
<1>12. DemoIsUndisturbed'
  BY <1>2, <1>4, <1>5 DEF DemoIsUndisturbed, Bootstrapping
<1> QED
  BY <1>8, <1>9, <1>10, <1>11, <1>12

(* A request that is over: the rows and the repository it leaves.           *)
LEMMA RequestIsOver ==
  ASSUME BootstrapInv, NEW o \in Openers, opener[o].at # "idle",
         opener' = [opener EXCEPT ![o] = IdleOpener], UNCHANGED <<demo, commits>>,
         gitFaults' \in 0..GitFaults, invited' \in BOOLEAN, invited => invited',
         invited' \/ ~repository'.there,
         repository' \in RepositoryRecords, repository'.head = repository.head,
         repository.there => repository'.there,
         workspace' \in [there : BOOLEAN, base : Nat, codespace : BOOLEAN],
         workspace'.base \in 0..Len(commits),
         ~workspace'.there => workspace' = NoWorkspaceRows,
         workspace.there => workspace'.there,
         workspace'.there => invited' /\ Seeded
  PROVE  BootstrapInv'
<1> USE DEF BootstrapInv
<1>1. opener \in [Openers -> OpenerRecords] /\ IdleOpener \in OpenerRecords
  BY DEF BootstrapData, OpenerRecords, IdleOpener
<1>2. /\ opener' \in [Openers -> OpenerRecords]
      /\ \A p \in Openers : opener'[p] = IF p = o THEN IdleOpener ELSE opener[p]
  BY <1>1
<1>3. 0 \in 0..Len(commits) /\ repository'.head \in 0..Len(commits)
  BY BootstrapRows
<1>4. BootstrapData'
  BY SMTT(30), <1>2, <1>3, BootstrapRows DEF BootstrapData, CommitRecords, OpenerRecords, RepositoryRecords,
     BootstrapFiles, Bootstrapping
<1>5. BootstrapTypeOK'
  BY <1>2, <1>3, BootstrapRows DEF BootstrapTypeOK, RepositoryRecords
<1>6. FullTreesAreSeeded'
  BY DEF FullTreesAreSeeded, BootstrapFiles
<1>7. Seeded => Seeded'
  BY DEF Seeded, SeededAt
<1>8. ASSUME NEW p \in Openers, opener'[p].at # "idle"
      PROVE  opener'[p] = opener[p] /\ invited /\ invited'
  <2>1. p # o /\ opener'[p] = opener[p]
    BY <1>2, <1>8, BootstrapRows
  <2> QED
    BY <1>8, <2>1 DEF InvitedFirst
<1>9. InvitedFirst'
  <2>1. ~workspace'.there \/ ~invited' => workspace' = NoWorkspaceRows
    BY DEF RepositoryRecords
  <2>2. \A p \in Openers : opener'[p].at = "idle" => opener'[p] = IdleOpener
    BY <1>2 DEF InvitedFirst
  <2>3. \A p \in Openers : opener'[p].at # "idle" => opener'[p].fresh = ~invited'
    BY <1>8 DEF InvitedFirst
  <2>4. \A p \in Openers : opener'[p].at = "regrant" => workspace'.there
    BY <1>8 DEF InvitedFirst
  <2>5. IdleOpener' = IdleOpener /\ NoWorkspaceRows' = NoWorkspaceRows
    BY DEF IdleOpener, NoWorkspaceRows
  <2> QED
    BY <1>8, <2>1, <2>2, <2>3, <2>4, <2>5 DEF InvitedFirst
<1>10. SeededBehind'
  BY <1>7, <1>8, BootstrapRows DEF SeededBehind, InvitedFirst, Bootstrapping
<1>11. DemoIsUndisturbed'
  BY <1>8 DEF DemoIsUndisturbed, Bootstrapping
<1> QED
  BY <1>4, <1>5, <1>6, <1>9, <1>10, <1>11

(* The rows of a request. *)
LEMMA RowsOfRequest ==
  ASSUME BootstrapInv, NEW o \in Openers
  PROVE  /\ OwnRows(o) \in [there : BOOLEAN, base : Nat, codespace : BOOLEAN]
         /\ OwnRows(o).there /\ OwnRows(o).base \in 0..Len(commits)
         /\ workspace \in [there : BOOLEAN, base : Nat, codespace : BOOLEAN]
         /\ workspace.base \in 0..Len(commits)
         /\ ~workspace.there => workspace = NoWorkspaceRows
         /\ workspace.there => invited /\ Seeded
<1>1. opener[o].base \in 0..Len(commits) /\ opener[o].base \in Nat /\ opener[o].codespace \in BOOLEAN
  BY BootstrapRows
<1>2. workspace \in [there : BOOLEAN, base : Nat, codespace : BOOLEAN] /\ workspace.base \in 0..Len(commits)
  BY DEF BootstrapInv, BootstrapData, BootstrapTypeOK
<1>3. ~workspace.there => workspace = NoWorkspaceRows
  BY DEF BootstrapInv, InvitedFirst
<1>4. workspace.there => invited /\ Seeded
  BY DEF BootstrapInv, InvitedFirst, SeededBehind, NoWorkspaceRows
<1> QED
  BY <1>1, <1>2, <1>3, <1>4 DEF OwnRows

LEMMA RowsAreStored ==
  ASSUME BootstrapInv, NEW o \in Openers, StoreWorkspace(o) \/ MailAndCommit(o)
  PROVE  BootstrapInv'
<1> USE OpenerFields, RowsOfRequest
<1>1. /\ opener[o].at # "idle" /\ opener' = [opener EXCEPT ![o] = IdleOpener]
      /\ UNCHANGED <<demo, commits, gitFaults>>
  BY DEF StoreWorkspace, MailAndCommit
<1>2. invited \in BOOLEAN
  BY DEF BootstrapInv, BootstrapTypeOK
<1>3. CASE StoreWorkspace(o)
  <2>1. invited /\ Seeded /\ UNCHANGED invited
    BY <1>3 DEF StoreWorkspace, BootstrapInv, InvitedFirst, SeededBehind
  <2>2. /\ repository' \in RepositoryRecords /\ repository'.head = repository.head
        /\ repository'.there = repository.there
    BY <1>3 DEF StoreWorkspace
  <2>3. workspace' = workspace \/ workspace' = OwnRows(o)
    BY <1>3 DEF StoreWorkspace
  <2>4. workspace'.there
    BY <1>3 DEF StoreWorkspace
  <2> QED
    BY <1>1, <1>2, <2>1, <2>2, <2>3, <2>4, RequestIsOver
<1>4. CASE MailAndCommit(o)
  <2>1. invited' /\ invited' \in BOOLEAN /\ UNCHANGED repository
    BY <1>4 DEF MailAndCommit
  <2>2. workspace' = workspace \/ (workspace' = OwnRows(o) /\ opener[o].fresh /\ repository.there)
    BY <1>4 DEF MailAndCommit
  <2>3. workspace' # workspace => Seeded
    BY <1>4, <2>2 DEF MailAndCommit, BootstrapInv, SeededBehind
  <2>4. repository' \in RepositoryRecords
    BY <2>1
  <2> QED
    BY <1>1, <2>1, <2>2, <2>3, <2>4, RequestIsOver
<1> QED
  BY <1>3, <1>4

LEMMA RequestIsAbandoned ==
  ASSUME BootstrapInv, NEW o \in Openers, MailFails(o) \/ RequestFails(o)
  PROVE  BootstrapInv'
<1> USE OpenerFields, RowsOfRequest
<1>1. opener[o].at # "idle" /\ gitFaults' \in 0..GitFaults /\ UNCHANGED <<demo, invited, workspace>>
  BY DEF MailFails, RequestFails, Abandon
<1>2. opener' = [opener EXCEPT ![o] = IdleOpener]
  BY DEF MailFails, RequestFails, Abandon
<1>3. IF opener[o].fresh THEN repository' = NoRepository /\ commits' = <<>>
      ELSE UNCHANGED <<repository, commits>>
  BY DEF MailFails, RequestFails, Abandon, CleansUp
<1>4. invited \in BOOLEAN
  BY DEF BootstrapInv, BootstrapTypeOK
<1>5. opener[o].fresh = ~invited
  BY <1>1 DEF BootstrapInv, InvitedFirst
<1>6. CASE invited
  <2>1. UNCHANGED <<repository, commits>>
    BY <1>3, <1>5, <1>6
  <2>2. invited' /\ invited' \in BOOLEAN /\ repository' \in RepositoryRecords
    BY <1>1, <1>4, <1>6, <2>1
  <2> QED
    BY <1>1, <1>2, <2>1, <2>2, RequestIsOver
<1>7. CASE ~invited
  <2>1. repository' = NoRepository /\ commits' = <<>> /\ ~invited'
    BY <1>1, <1>3, <1>5, <1>7
  <2>2. workspace = NoWorkspaceRows /\ workspace' = NoWorkspaceRows
    BY <1>1, <1>7 DEF BootstrapInv, InvitedFirst
  <2>3. opener \in [Openers -> OpenerRecords] /\ IdleOpener \in OpenerRecords
    BY DEF BootstrapInv, BootstrapData, OpenerRecords, IdleOpener
  <2>4. \A p \in Openers : opener'[p] = IdleOpener
    <3>1. \A p \in Openers \ {o} : opener[p].at = "idle"
      BY <1>1, <1>7 DEF BootstrapInv, InvitedFirst
    <3>2. \A p \in Openers \ {o} : opener[p] = IdleOpener
      BY <3>1 DEF BootstrapInv, InvitedFirst
    <3> QED
      BY <1>2, <2>3, <3>2
  <2>5. Len(commits') = 0 /\ commits' \in Seq(CommitRecords)
    BY <2>1
  <2>6. repository' \in RepositoryRecords /\ repository'.head = 0 /\ ~repository'.there
          /\ repository'.members = {}
    BY <2>1 DEF NoRepository, RepositoryRecords
  <2>7. opener' \in [Openers -> OpenerRecords]
    BY <1>2, <2>3
  <2>8. /\ IdleOpener.at = "idle" /\ ~IdleOpener.fresh /\ IdleOpener.branch = 0 /\ IdleOpener.base = 0
        /\ ~NoWorkspaceRows.there /\ NoWorkspaceRows.base = 0
    BY DEF IdleOpener, NoWorkspaceRows
  <2>9. 0 \in 0..Len(commits') /\ Len(commits') <= LastPush
    BY <2>5, BootstrapAssumption
  <2>10. BootstrapData'
    <3>1. workspace' \in [there : BOOLEAN, base : Nat, codespace : BOOLEAN]
      BY <1>1
    <3>2. \A p \in Openers : opener'[p].base \in 0..Len(commits')
      BY <2>4, <2>8, <2>9
    <3> QED
      BY <2>5, <2>6, <2>7, <3>1, <3>2 DEF BootstrapData, CommitRecords, OpenerRecords,
         RepositoryRecords, BootstrapFiles, Bootstrapping
  <2>11. BootstrapTypeOK'
    <3>1. demo' \in BOOLEAN /\ invited' \in BOOLEAN
      BY <1>1, <1>4 DEF BootstrapInv, BootstrapTypeOK
    <3>2. \A p \in Openers : opener'[p].branch \in 0..Len(commits')
      BY <2>4, <2>8, <2>9
    <3> QED
      BY <1>1, <2>2, <2>6, <2>8, <2>9, <3>1, <3>2 DEF BootstrapTypeOK
  <2>12. FullTreesAreSeeded'
    BY <2>5 DEF FullTreesAreSeeded
  <2>13. InvitedFirst'
    BY <2>1, <2>2, <2>4, <2>6, <2>8 DEF InvitedFirst, IdleOpener, NoWorkspaceRows
  <2>14. SeededBehind' /\ DemoIsUndisturbed'
    BY <2>2, <2>4, <2>8 DEF SeededBehind, DemoIsUndisturbed, Bootstrapping
  <2> QED
    BY <2>10, <2>11, <2>12, <2>13, <2>14 DEF BootstrapInv
<1> QED
  BY <1>4, <1>6, <1>7

(* What goes on around the requests. *)
LEMMA AroundRequests ==
  ASSUME BootstrapInv, CandidatePush \/ RunEvidence \/ SubmitDiff \/ UNCHANGED bootstrapVars
  PROVE  BootstrapInv'
<1> USE DEF BootstrapInv
<1>1. UNCHANGED <<demo, invited, workspace, opener, gitFaults>>
  BY DEF CandidatePush, RunEvidence, SubmitDiff, bootstrapVars
<1>2. CASE UNCHANGED <<repository, commits>>
  <2>1. BootstrapData'
    BY <1>1, <1>2 DEF BootstrapData, CommitRecords, OpenerRecords, RepositoryRecords, BootstrapFiles,
       Bootstrapping
  <2>2. BootstrapTypeOK'
    BY <1>1, <1>2 DEF BootstrapTypeOK
  <2>3. FullTreesAreSeeded' /\ InvitedFirst'
    BY <1>1, <1>2 DEF FullTreesAreSeeded, BootstrapFiles, InvitedFirst, IdleOpener, NoWorkspaceRows
  <2>4. SeededBehind' /\ DemoIsUndisturbed'
    BY <1>1, <1>2 DEF SeededBehind, DemoIsUndisturbed, Seeded, SeededAt, Bootstrapping
  <2> QED
    BY <2>1, <2>2, <2>3, <2>4
<1>3. CASE CandidatePush
  <2>1. PICK project \in Projects :
          commits' = Append(commits, CommitOn(repository.head, "candidate", project))
    BY <1>3 DEF CandidatePush
  <2> DEFINE commit == CommitOn(repository.head, "candidate", project)
  <2>2. /\ ~demo /\ Len(commits) < LastPush
        /\ repository' = [repository EXCEPT !.head = Len(commits')]
    BY <1>3 DEF CandidatePush
  <2>3. /\ commit \in CommitRecords
        /\ SeededAt(repository.head) => commit.seeded
        /\ BootstrapFiles \subseteq commit.files => commit.seeded
    <3>1. "candidate" \in {"winoe", "candidate"} /\ repository.head \in 0..Len(commits)
      BY BootstrapRows
    <3>2. project \in SUBSET (BootstrapFiles \cup UNION Projects)
      OBVIOUS
    <3> QED
      BY <3>1, <3>2, CommitOnTop
  <2> HIDE DEF commit
  <2>4. commits' = Append(commits, commit)
    BY <2>1 DEF commit
  <2>5. /\ Len(commits') = Len(commits) + 1 /\ Len(commits') <= LastPush /\ Len(commits') # 0
        /\ Len(commits) \in Nat
        /\ commits' \in Seq(CommitRecords) /\ commits'[Len(commits')] = commit
        /\ FullTreesAreSeeded'
        /\ \A n \in 0..Len(commits) : n \in 0..Len(commits')
    BY <2>2, <2>3, <2>4, AppendedCommit
  <2>6. Len(commits') \in Nat /\ Len(commits') \in 0..Len(commits')
    BY <2>5
  <2>7. repository \in RepositoryRecords
    BY DEF BootstrapData
  <2>8. /\ repository' \in RepositoryRecords /\ repository'.head = Len(commits')
        /\ repository'.there = repository.there /\ repository'.members = repository.members
    BY <2>2, <2>6, <2>7 DEF RepositoryRecords
  <2>9. Seeded => Seeded'
    BY <2>3, <2>5, <2>8 DEF Seeded, SeededAt
  <2>10. BootstrapData'
    <3>1. \A o \in Openers : opener'[o].base \in 0..Len(commits')
      BY <1>1, <2>5, BootstrapRows
    <3> QED
      BY <1>1, <2>5, <2>8, <3>1 DEF BootstrapData, CommitRecords, OpenerRecords, RepositoryRecords,
         BootstrapFiles, Bootstrapping
  <2>11. BootstrapTypeOK'
    <3>1. \A o \in Openers : opener'[o].branch \in 0..Len(commits')
      BY <1>1, <2>5, BootstrapRows
    <3>2. workspace'.base \in 0..Len(commits')
      BY <1>1, <2>5 DEF BootstrapTypeOK
    <3>3. repository'.head \in 0..Len(commits')
      BY <2>6, <2>8
    <3>4. repository'.members \subseteq {"winoe", "candidate"}
      BY <2>8, BootstrapRows
    <3> QED
      BY <1>1, <2>5, <3>1, <3>2, <3>3, <3>4 DEF BootstrapTypeOK
  <2>12. InvitedFirst'
    BY <1>1, <2>8 DEF InvitedFirst, IdleOpener, NoWorkspaceRows
  <2>13. SeededBehind'
    BY <1>1, <2>8, <2>9 DEF SeededBehind, Bootstrapping
  <2>14. DemoIsUndisturbed'
    BY <1>1, <2>2 DEF DemoIsUndisturbed
  <2> QED
    BY <2>5, <2>10, <2>11, <2>12, <2>13, <2>14
<1> QED
  BY <1>2, <1>3 DEF CandidatePush, RunEvidence, SubmitDiff, bootstrapVars

LEMMA BootstrapStep == BootstrapInv /\ [BootstrapNext]_bootstrapVars => BootstrapInv'
<1> SUFFICES ASSUME BootstrapInv, [BootstrapNext]_bootstrapVars
             PROVE  BootstrapInv'
  OBVIOUS
<1>1. CASE CandidatePush \/ RunEvidence \/ SubmitDiff \/ UNCHANGED bootstrapVars
  BY <1>1, AroundRequests
<1>2. ASSUME NEW o \in Openers, Undisturbed(o), RequestStep(o)
      PROVE  BootstrapInv'
  BY <1>2, RequestBegins, CallsThatProceed, BranchAndFiles, CommitsOfWinoe, CodespaceAndCandidate,
     RowsAreStored, RequestIsAbandoned DEF RequestStep
<1> QED
  BY <1>1, <1>2 DEF BootstrapNext

(* What BootstrapInv says of the repository, its commits and the requests  *)
(* that build it holds from the start and through every step               *)
(* (bootstrap_empty_candidate_repo and its callers).                       *)
THEOREM BootstrapInvariance == BootstrapSpec => []BootstrapInv
<1>1. BootstrapInit => BootstrapInv
  BY BootstrapInitInv
<1>2. BootstrapInv /\ [BootstrapNext]_bootstrapVars => BootstrapInv'
  BY BootstrapStep
<1> QED
  BY <1>1, <1>2, PTL DEF BootstrapSpec

(* A workspace that is stored has a repository whose branch descends from  *)
(* the bootstrap commit, whichever requests failed before it or ran beside *)
(* it, at GitHub and at the demo provider.                                 *)
THEOREM BootstrapIsSeeded == BootstrapSpec => []StoredRepositoryIsSeeded
<1>1. BootstrapInv => StoredRepositoryIsSeeded
  BY DEF BootstrapInv, SeededBehind, Seeded, StoredRepositoryIsSeeded
<1> QED
  BY <1>1, BootstrapInvariance, PTL

-----------------------------------------------------------------------------
(* The composition at GitHub: every step is one of a component, or leaves  *)
(* the component's variables alone.                                        *)

GithubInv == CleanupInv /\ WorkflowInv /\ BootstrapInv

LEMMA GithubSteps ==
  [GithubNext]_githubVars =>
    /\ [CleanupNext]_cleanupVars
    /\ [WorkflowNext]_workflowVars
    /\ [BootstrapNext]_bootstrapVars
BY DEF GithubNext, Cleanup, Workflow, Bootstrap, githubVars

(* The three components beside each other are each what they are alone.    *)
THEOREM GithubServicesImplement ==
  GithubSpec => CleanupSpec /\ WorkflowSpec /\ BootstrapSpec
<1>1. GithubInit => CleanupInit /\ WorkflowInit /\ BootstrapInit
  BY DEF GithubInit
<1>2. [GithubNext]_githubVars =>
        /\ [CleanupNext]_cleanupVars
        /\ [WorkflowNext]_workflowVars
        /\ [BootstrapNext]_bootstrapVars
  BY GithubSteps
<1> QED
  BY <1>1, <1>2, PTL DEF GithubSpec, CleanupSpec, WorkflowSpec, BootstrapSpec

(* What is proved of each of the three components holds of all of them     *)
(* together.                                                               *)
THEOREM GithubInvariance == GithubSpec => []GithubInv
<1>1. GithubInit => GithubInv
  BY CleanupInitInv, WorkflowInitInv, BootstrapInitInv DEF GithubInit, GithubInv
<1>2. GithubInv /\ [GithubNext]_githubVars => GithubInv'
  BY GithubSteps, CleanupStep, WorkflowStep, BootstrapStep DEF GithubInv
<1> QED
  BY <1>1, <1>2, PTL DEF GithubSpec

(* The variables of all three components keep their types.                 *)
THEOREM GithubTypeCorrect == GithubSpec => []GithubTypeOK
<1>1. GithubInv => GithubTypeOK
  BY DEF GithubInv, CleanupInv, WorkflowInv, BootstrapInv, GithubTypeOK
<1> QED
  BY <1>1, GithubInvariance, PTL

(* What a workspace's row says of its repository and of the candidate's    *)
(* access is so, unless the candidate was invited again since, and only    *)
(* finished sessions lose their repository: for any number of sweeps,      *)
(* invitations, workspaces and faults (_process_cleanup_target).           *)
THEOREM CleanupTellsTruth == GithubSpec => []CleanupIsTrue
<1>1. GithubInv => CleanupIsTrue
  BY CleanupInvIsTrue DEF GithubInv
<1> QED
  BY <1>1, GithubInvariance, PTL

(* A clean-up job that succeeds has left a verdict on every record it      *)
(* listed.                                                                 *)
THEOREM SweptOnSuccess == GithubSpec => SuccessMeansSwept
<1>1. CleanupSpec => SuccessMeansSwept
  BY CleanupSuccess
<1> QED
  BY <1>1, GithubServicesImplement, PTL

(* The results of a submission's run arrive, and the run is of a commit    *)
(* that is no older than the request.                                      *)
THEOREM ResultsAreOwn == GithubSpec => []ResultsAreItsOwn
<1>1. GithubInv => ResultsAreItsOwn
  BY WorkflowInvIsTrue DEF GithubInv
<1> QED
  BY <1>1, GithubInvariance, PTL

(* A workspace that is stored has a seeded repository.                     *)
THEOREM RepositoriesAreSeeded == GithubSpec => []StoredRepositoryIsSeeded
<1>1. GithubInv => StoredRepositoryIsSeeded
  BY DEF GithubInv, BootstrapInv, SeededBehind, Seeded, StoredRepositoryIsSeeded
<1> QED
  BY <1>1, GithubInvariance, PTL
=============================================================================
