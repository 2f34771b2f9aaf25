--------------------------- MODULE CodingDaysProofs ---------------------------
(***************************************************************************)
(* Proofs about CodingDays, for any number of requests, workers, pushes,   *)
(* attempts and faults.                                                    *)
(***************************************************************************)
EXTENDS CodingDays, TLAPS

-----------------------------------------------------------------------------
(* The inductive invariant.                                                *)

(* Commits are numbered as they are pushed. *)
Numbered ==
  /\ repo.work \subseteq 1..pushes /\ repo.side \subseteq 1..pushes
  /\ \A r \in Requests : request[r].work \subseteq 1..pushes

(* A bootstrap that drops nothing of the default branch leaves it as it is. *)
Looked ==
  ~overwritten =>
    \A r \in Requests :
      request[r].at = "seed" /\ repo.work \subseteq request[r].work =>
        request[r].work = repo.work

(* While no commit was dropped, all that anybody has seen of the default   *)
(* branch is still on it.                                                  *)
Seen ==
  ~overwritten /\ ~forced =>
    /\ \A r \in Requests :
         request[r].branch = "default" => request[r].work \subseteq repo.work
    /\ \A d \in CodingDays :
         submission[d].branch = "default" => submission[d].work \subseteq repo.work

(* A handler at work has a day. *)
Busy == \A w \in Workers : worker[w].at # "idle" => worker[w].day \in CodingDays

(* Nobody is a collaborator between a removal and the next invitation. *)
Closed == (\E d \in CodingDays : cut[d] = "removed") => ~access

(* A handler past the revocation knows that it happened, and the head it   *)
(* read is the head until the candidate is invited again.                  *)
Cutting ==
  \A w \in Workers :
    LET me == worker[w] IN
    /\ me.at \in {"record", "head", "audit"} => cut[me.day] # "no"
    /\ me.at = "audit" /\ cut[me.day] = "removed" /\ ~overwritten =>
         me.work = repo.work

Audited ==
  \A d \in CodingDays :
    audit[d].there =>
      /\ cut[d] # "no"
      /\ cut[d] = "removed" /\ ~overwritten => audit[d].work = repo.work

CodingInv ==
  /\ TypeOK
  /\ Numbered
  /\ Looked
  /\ Seen
  /\ Busy
  /\ Closed
  /\ Cutting
  /\ Audited

-----------------------------------------------------------------------------
(* Idle requests and handlers, and empty rows, are well typed. *)
LEMMA Constants ==
  /\ IdleRequest \in RequestStates
  /\ IdleWorker \in WorkerStates
  /\ NoRow \in Rows
  /\ NoSubmission \in SubmissionRows
  /\ LastTick = 6 /\ End(2) = 4 /\ End(3) = 6
  /\ CodingDays = {2, 3}
BY CodingDaysAssumption DEF IdleRequest, RequestStates, IdleWorker, WorkerStates,
   NoRow, Rows, NoSubmission, SubmissionRows, Branches, Work, LastTick, End, CodingDays

LEMMA InitInv == Init => CodingInv
<1> SUFFICES ASSUME Init PROVE CodingInv
  OBVIOUS
<1> USE CodingDaysAssumption
<1>1. TypeOK
  <2>1. job \in [CodingDays -> JobRows]
    BY DEF Init, JobRows
  <2>2. repo \in [seeded : BOOLEAN, work : Work, side : Work]
    BY DEF Init, Work
  <2>3. stored \in BOOLEAN /\ access \in BOOLEAN /\ overwritten \in BOOLEAN
        /\ forced \in BOOLEAN
    BY Zenon DEF Init
  <2>4. now \in (End(2) - 1)..LastTick
    BY Constants DEF Init
  <2> QED
    BY <2>1, <2>2, <2>3, <2>4, Constants DEF Init, TypeOK
<1>2. Numbered /\ Looked /\ Seen /\ Busy /\ Closed /\ Cutting /\ Audited
  BY DEF Init, Numbered, Looked, Seen, Busy, Closed, Cutting, Audited, IdleRequest, IdleWorker,
     NoRow, NoSubmission
<1> QED
  BY <1>1, <1>2 DEF CodingInv

(* What AddCollaborator does to access and cut. *)
LEMMA Invited ==
  ASSUME TypeOK, AddCollaborator
  PROVE  /\ access' \in BOOLEAN
         /\ cut' \in [CodingDays -> {"no", "removed", "reopened"}]
         /\ \A d \in CodingDays : cut'[d] = "removed" => cut[d] = "removed" /\ cut' = cut
                                                         /\ access' = access
         /\ \A d \in CodingDays : (cut'[d] = "no") <=> (cut[d] = "no")
BY Zenon DEF TypeOK, AddCollaborator

-----------------------------------------------------------------------------
(* Every action keeps the types. *)
LEMMA NextType == CodingInv /\ [Next]_vars => TypeOK'
<1> SUFFICES ASSUME CodingInv, [Next]_vars PROVE TypeOK'
  OBVIOUS
<1> USE CodingDaysAssumption DEF db, github
<1>0. TypeOK /\ Busy
  BY DEF CodingInv
<1>1. ASSUME NEW r \in Requests,
             \/ \E d \in CodingDays : InitCodespace(r, d) \/ Submit(r, d)
             \/ ResendInvite(r)
      PROVE TypeOK'
  <2>1. now \in 0..LastTick
    BY <1>0, Constants DEF TypeOK
  <2>2. \A at \in {"regrant", "create", "run"}, d \in {0} \cup CodingDays :
          [IdleRequest EXCEPT !.at = at, !.day = d, !.since = now] \in RequestStates
    BY <2>1 DEF RequestStates, IdleRequest, Branches, Work
  <2>3. request' \in [Requests -> RequestStates]
    <3>1. \/ UNCHANGED request
          \/ \E at \in {"regrant", "create", "run"}, d \in {0} \cup CodingDays :
               Started(r, d, at)
      BY <1>1 DEF InitCodespace, Submit, ResendInvite
    <3>2. request \in [Requests -> RequestStates]
      BY <1>0 DEF TypeOK
    <3>3. ASSUME NEW at \in {"regrant", "create", "run"}, NEW d \in {0} \cup CodingDays,
                 Started(r, d, at)
          PROVE request' \in [Requests -> RequestStates]
      <4>1. [IdleRequest EXCEPT !.at = at, !.day = d, !.since = now] \in RequestStates
        BY <2>2
      <4> QED
        BY <3>2, <3>3, <4>1, Zenon DEF Started
    <3> QED
      BY <3>1, <3>2, <3>3
  <2>4. access' \in BOOLEAN /\ cut' \in [CodingDays -> {"no", "removed", "reopened"}]
    BY <1>0, <1>1, Invited DEF TypeOK, InitCodespace, Submit, ResendInvite
  <2> QED
    BY <1>0, <1>1, <2>3, <2>4 DEF TypeOK, InitCodespace, Submit, ResendInvite
<1>2. ASSUME NEW r \in Requests, Regrant(r) PROVE TypeOK'
  BY <1>0, <1>2, Invited, Constants DEF TypeOK, Regrant, Done
<1>4. ASSUME NEW r \in Requests, Inspect(r) PROVE TypeOK'
  <2>1. [request[r] EXCEPT !.work = repo.work,
                           !.at = IF repo.seeded THEN "grant" ELSE "seed"]
          \in RequestStates
    <3>1. request[r] \in RequestStates /\ repo.work \in Work
      BY <1>0 DEF TypeOK
    <3> QED
      BY <3>1 DEF RequestStates
  <2> QED
    BY <1>0, <1>4, <2>1 DEF TypeOK, Inspect
<1>5. ASSUME NEW r \in Requests, Seed(r) PROVE TypeOK'
  <2>1. request[r].work \in Work
    BY <1>0 DEF TypeOK, RequestStates
  <2>2. overwritten' \in BOOLEAN
    BY <1>0, <1>5, Zenon DEF TypeOK, Seed
  <2> QED
    BY ZenonT(60), <1>0, <1>5, <2>1, <2>2 DEF TypeOK, Seed, Proceed, RequestStates
<1>6. ASSUME NEW r \in Requests, Grant(r) PROVE TypeOK'
  <2>1. request' \in [Requests -> RequestStates]
    BY <1>0, <1>6 DEF TypeOK, Grant, Proceed, RequestStates
  <2> QED
    BY <1>0, <1>6, <2>1, Invited DEF TypeOK, Grant
<1>7. ASSUME NEW r \in Requests, Store(r) PROVE TypeOK'
  <2>1. /\ access' \in BOOLEAN
        /\ cut' \in [CodingDays -> {"no", "removed", "reopened"}]
    BY <1>0, <1>7, Invited DEF TypeOK, Store
  <2> QED
    BY <1>0, <1>7, <2>1, Constants DEF TypeOK, Store, Done
<1>8. ASSUME NEW r \in Requests, RunTests(r) PROVE TypeOK'
  <2>1. \A named \in Branches :
          [request[r] EXCEPT !.work = Head(named), !.branch = named, !.at = "submit"]
            \in RequestStates
    <3>1. request[r] \in RequestStates /\ \A named \in Branches : Head(named) \in Work
      BY <1>0 DEF TypeOK, Head
    <3> QED
      BY <3>1 DEF RequestStates
  <2>2. PICK named \in Branches :
          request' = [request EXCEPT ![r].work = Head(named), ![r].branch = named,
                                     ![r].at = "submit"]
    BY <1>8 DEF RunTests
  <2>3. request' \in [Requests -> RequestStates]
    BY <1>0, <2>1, <2>2 DEF TypeOK
  <2> QED
    BY <1>0, <1>8, <2>3 DEF TypeOK, RunTests
<1>9. ASSUME NEW r \in Requests, CreateSubmission(r) PROVE TypeOK'
  <2>1. [there |-> TRUE, work |-> request[r].work, branch |-> request[r].branch]
          \in SubmissionRows
    BY <1>0 DEF TypeOK, RequestStates, SubmissionRows
  <2> QED
    BY <1>0, <1>9, <2>1, Constants DEF TypeOK, CreateSubmission, Done
<1>10. ASSUME NEW r \in Requests, CutOff(r) PROVE TypeOK'
  BY <1>0, <1>10, Constants DEF TypeOK, CutOff, Done
<1>11. ASSUME NEW branch \in Branches, Push(branch) PROVE TypeOK'
  <2>1. pushes' \in 0..MaxPushes
    BY <1>0, <1>11 DEF TypeOK, Push
  <2>2. PICK base \in SUBSET (1..pushes) :
          IF branch = "default"
          THEN /\ repo' = [repo EXCEPT !.work = base \cup {pushes + 1}]
               /\ forced' = (forced \/ ~(repo.work \subseteq base))
          ELSE /\ repo' = [repo EXCEPT !.side = base \cup {pushes + 1}]
               /\ UNCHANGED forced
    BY <1>11 DEF Push
  <2>3. base \cup {pushes + 1} \in Work
    BY <1>0, <1>11 DEF TypeOK, Push, Work
  <2>4. repo' \in [seeded : BOOLEAN, work : Work, side : Work]
    <3>1. repo \in [seeded : BOOLEAN, work : Work, side : Work]
      BY <1>0 DEF TypeOK
    <3>2. CASE branch = "default"
      BY <2>2, <2>3, <3>1, <3>2
    <3>3. CASE branch # "default"
      BY <2>2, <2>3, <3>1, <3>3
    <3> QED
      BY <3>2, <3>3
  <2>5. forced' \in BOOLEAN
    BY <1>0, <2>2, Zenon DEF TypeOK
  <2> QED
    BY <1>0, <1>11, <2>1, <2>4, <2>5 DEF TypeOK, Push
<1>12. ASSUME NEW w \in Workers, NEW d \in CodingDays, StartEnforcement(w, d)
       PROVE TypeOK'
  <2>0. NextAttempt(d) \in 0..MaxAttempts
    BY <1>0 DEF TypeOK, JobRows, NextAttempt
  <2>1. [status |-> "running", attempt |-> NextAttempt(d)] \in JobRows
    BY <2>0 DEF JobRows
  <2>2. [at |-> "read", day |-> d, work |-> {}, attempt |-> NextAttempt(d)]
          \in WorkerStates
    BY <2>0 DEF WorkerStates, Work
  <2> QED
    BY <1>0, <1>12, <2>1, <2>2 DEF TypeOK, StartEnforcement
<1>13. ASSUME NEW w \in Workers, ReadState(w) \/ ReadHead(w) PROVE TypeOK'
  <2>1. worker' \in [Workers -> WorkerStates]
    BY <1>0, <1>13 DEF TypeOK, ReadState, ReadHead, WorkerStates
  <2> QED
    BY <1>0, <1>13, <2>1 DEF TypeOK, ReadState, ReadHead
<1>14. ASSUME NEW w \in Workers, Revoke(w) PROVE TypeOK'
  <2>1. worker' \in [Workers -> WorkerStates]
    BY <1>0, <1>14 DEF TypeOK, Revoke, WorkerStates
  <2> QED
    BY <1>0, <1>14, <2>1 DEF TypeOK, Revoke
<1>15. ASSUME NEW w \in Workers, RecordRevoked(w) PROVE TypeOK'
  <2>1. worker' \in [Workers -> WorkerStates]
    BY <1>0, <1>15 DEF TypeOK, RecordRevoked, WorkerStates
  <2>2. worker[w].day \in CodingDays
    BY <1>0, <1>15 DEF Busy, RecordRevoked
  <2> QED
    BY <1>0, <1>15, <2>1, <2>2 DEF TypeOK, RecordRevoked
<1>16. ASSUME NEW w \in Workers, CreateAudit(w) PROVE TypeOK'
  <2>1. worker' \in [Workers -> WorkerStates]
    BY <1>0, <1>16 DEF TypeOK, CreateAudit, WorkerStates
  <2>2. [there |-> TRUE, work |-> worker[w].work] \in Rows
    BY <1>0 DEF TypeOK, WorkerStates, Rows
  <2> QED
    BY <1>0, <1>16, <2>1, <2>2 DEF TypeOK, CreateAudit
<1>17. ASSUME NEW w \in Workers, ReportSuccess(w) PROVE TypeOK'
  BY ZenonT(60), <1>0, <1>17, Constants DEF TypeOK, ReportSuccess, JobRows
<1>18. ASSUME NEW w \in Workers, WorkspaceMissing(w) \/ FailEnforcement(w)
       PROVE TypeOK'
  <2>1. job' \in [CodingDays -> JobRows]
    BY <1>0, <1>18 DEF TypeOK, WorkspaceMissing, FailEnforcement, Retried, JobRows
  <2> QED
    BY <1>0, <1>18, <2>1, Constants DEF TypeOK, WorkspaceMissing, FailEnforcement
<1>19. ASSUME Tick PROVE TypeOK'
  <2>1. now' \in (End(2) - 1)..LastTick
    BY <1>0, <1>19, Constants DEF TypeOK, Tick
  <2> QED
    BY <1>0, <1>19, <2>1 DEF TypeOK, Tick
<1>20. ASSUME UNCHANGED vars PROVE TypeOK'
  BY <1>0, <1>20 DEF TypeOK, vars
<1> QED
  BY <1>1, <1>2, <1>4, <1>5, <1>6, <1>7, <1>8, <1>9, <1>10, <1>11, <1>12,
     <1>13, <1>14, <1>15, <1>16, <1>17, <1>18, <1>19, <1>20
     DEF Next, RequestStep, EnforcementStep

-----------------------------------------------------------------------------
(* What a step does to the commits a request holds. *)
LEMMA Holding ==
  ASSUME CodingInv, [Next]_vars, NEW q \in Requests
  PROVE  \/ request'[q].work = {}
         \/ request'[q].work = request[q].work /\ request'[q].branch = request[q].branch
            /\ (request'[q].at = "seed" => request[q].at = "seed")
         \/ request'[q].work = repo.work /\ repo' = repo
         \/ request'[q].work = repo.side /\ request'[q].branch = "other" /\ repo' = repo
            /\ request'[q].at = "submit"
<1> USE DEF db, github
<1>0. TypeOK
  BY DEF CodingInv
<1>1. ASSUME NEW r \in Requests,
             \/ \E d \in CodingDays : InitCodespace(r, d) \/ Submit(r, d)
             \/ ResendInvite(r)
      PROVE request'[q] = request[q] \/ request'[q].work = {}
  <2>1. \/ UNCHANGED request
        \/ \E d \in {0} \cup CodingDays, at \in {"regrant", "create", "run"} :
             Started(r, d, at)
    BY <1>1 DEF InitCodespace, Submit, ResendInvite
  <2> QED
    BY <1>0, <2>1 DEF TypeOK, Started, IdleRequest
<1>2. ASSUME NEW r \in Requests,
             Regrant(r) \/ Store(r) \/ CreateSubmission(r) \/ CutOff(r)
      PROVE request'[q] = request[q] \/ request'[q].work = {}
  BY <1>0, <1>2 DEF TypeOK, Regrant, Store, CreateSubmission, CutOff, Done, IdleRequest
<1>3. ASSUME NEW r \in Requests, Seed(r) \/ Grant(r)
      PROVE \/ request'[q] = request[q]
            \/ request'[q].work = request[q].work /\ request'[q].branch = request[q].branch
               /\ request'[q].at # "seed"
  BY <1>0, <1>3 DEF TypeOK, RequestStates, Seed, Grant, Proceed
<1>4. ASSUME NEW r \in Requests, Inspect(r)
      PROVE request'[q] = request[q] \/ (request'[q].work = repo.work /\ repo' = repo)
  BY <1>0, <1>4 DEF TypeOK, RequestStates, Inspect
<1>5. ASSUME NEW r \in Requests, RunTests(r)
      PROVE \/ request'[q] = request[q]
            \/ request'[q].work = repo.work /\ repo' = repo
            \/ request'[q].work = repo.side /\ request'[q].branch = "other"
               /\ repo' = repo /\ request'[q].at = "submit"
  <2>1. PICK named \in Branches :
          request' = [request EXCEPT ![r].work = Head(named), ![r].branch = named,
                                     ![r].at = "submit"]
    BY <1>5 DEF RunTests
  <2>2. repo' = repo
    BY <1>5 DEF RunTests
  <2>3. CASE named = "default"
    BY <1>0, <2>1, <2>2, <2>3 DEF TypeOK, RequestStates, Head
  <2>4. CASE named = "other"
    BY <1>0, <2>1, <2>2, <2>4 DEF TypeOK, RequestStates, Head
  <2> QED
    BY <2>3, <2>4 DEF Branches
<1>6. CASE request' = request
  BY <1>6
<1> QED
  BY <1>1, <1>2, <1>3, <1>4, <1>5, <1>6 DEF Next, vars, RequestStep, EnforcementStep,
     Push, StartEnforcement, ReadState, WorkspaceMissing, Revoke, RecordRevoked,
     ReadHead, CreateAudit, ReportSuccess, FailEnforcement, Tick

(* What a step does to the branches: a push adds a new commit, a bootstrap *)
(* puts back what it read.                                                 *)
LEMMA Moving ==
  ASSUME CodingInv, [Next]_vars
  PROVE  \/ repo'.work = repo.work /\ repo'.side = repo.side
            /\ pushes' = pushes /\ forced' = forced
         \/ /\ access /\ pushes' = pushes + 1 /\ request' = request
            /\ submission' = submission /\ cut' = cut
            /\ \E base \in SUBSET (1..pushes) :
                 \/ /\ repo'.work = base \cup {pushes + 1} /\ repo'.side = repo.side
                    /\ ~forced' => ~forced /\ repo.work \subseteq base
                 \/ /\ repo'.side = base \cup {pushes + 1} /\ repo'.work = repo.work
                    /\ forced' = forced
         \/ \E r \in Requests :
              /\ request[r].at = "seed" /\ repo'.work = request[r].work
              /\ repo'.side = repo.side /\ pushes' = pushes /\ forced' = forced
              /\ ~overwritten' => repo.work \subseteq request[r].work
<1> USE DEF db, github
<1>0. TypeOK
  BY DEF CodingInv
<1>1. ASSUME NEW branch \in Branches, Push(branch)
      PROVE /\ access /\ pushes' = pushes + 1 /\ request' = request
            /\ submission' = submission /\ cut' = cut
            /\ \E base \in SUBSET (1..pushes) :
                 \/ /\ repo'.work = base \cup {pushes + 1} /\ repo'.side = repo.side
                    /\ ~forced' => ~forced /\ repo.work \subseteq base
                 \/ /\ repo'.side = base \cup {pushes + 1} /\ repo'.work = repo.work
                    /\ forced' = forced
  <2>1. PICK base \in SUBSET (1..pushes) :
          IF branch = "default"
          THEN /\ repo' = [repo EXCEPT !.work = base \cup {pushes + 1}]
               /\ forced' = (forced \/ ~(repo.work \subseteq base))
          ELSE /\ repo' = [repo EXCEPT !.side = base \cup {pushes + 1}]
               /\ UNCHANGED forced
    BY <1>1 DEF Push
  <2>2. CASE branch = "default"
    <3>1. repo'.work = base \cup {pushes + 1} /\ repo'.side = repo.side
      BY <1>0, <2>1, <2>2 DEF TypeOK
    <3>2. ~forced' => ~forced /\ repo.work \subseteq base
      BY <2>1, <2>2, Zenon
    <3> QED
      BY <1>1, <3>1, <3>2 DEF Push
  <2>3. CASE branch # "default"
    <3>1. repo'.side = base \cup {pushes + 1} /\ repo'.work = repo.work
      BY <1>0, <2>1, <2>3 DEF TypeOK
    <3>2. forced' = forced
      BY <2>1, <2>3
    <3> QED
      BY <1>1, <3>1, <3>2 DEF Push
  <2> QED
    BY <2>2, <2>3
<1>2. ASSUME NEW r \in Requests, Seed(r)
      PROVE /\ request[r].at = "seed" /\ repo'.work = request[r].work
            /\ repo'.side = repo.side /\ pushes' = pushes /\ forced' = forced
            /\ ~overwritten' => repo.work \subseteq request[r].work
  <2>1. ~overwritten' => repo.work \subseteq request[r].work
    BY <1>2, Zenon DEF Seed
  <2> QED
    BY <1>0, <1>2, <2>1 DEF TypeOK, Seed
<1>3. CASE UNCHANGED <<repo, pushes, forced>>
  BY <1>3
<1> QED
  BY <1>1, <1>2, <1>3 DEF Next, vars, RequestStep, EnforcementStep, InitCodespace,
     ResendInvite, Submit, Regrant, Inspect, Grant, Store, RunTests, CreateSubmission,
     CutOff, StartEnforcement, ReadState, WorkspaceMissing, Revoke, RecordRevoked,
     ReadHead, CreateAudit, ReportSuccess, FailEnforcement, Tick

LEMMA Overwriting == CodingInv /\ [Next]_vars /\ ~overwritten' => ~overwritten
<1> USE DEF db, github
<1> SUFFICES ASSUME CodingInv, [Next]_vars, ~overwritten' PROVE ~overwritten
  OBVIOUS
<1>1. ASSUME NEW r \in Requests, Seed(r) PROVE ~overwritten
  BY <1>1, Zenon DEF Seed
<1>2. CASE overwritten' = overwritten
  BY <1>2
<1> QED
  BY <1>1, <1>2 DEF Next, vars, RequestStep, EnforcementStep, InitCodespace, Push,
     ResendInvite, Submit, Regrant, Inspect, Grant, Store, RunTests, CreateSubmission,
     CutOff, StartEnforcement, ReadState, WorkspaceMissing, Revoke, RecordRevoked,
     ReadHead, CreateAudit, ReportSuccess, FailEnforcement, Tick

LEMMA NextNumbered == CodingInv /\ [Next]_vars => Numbered'
<1> SUFFICES ASSUME CodingInv, [Next]_vars PROVE Numbered'
  OBVIOUS
<1>0. TypeOK /\ Numbered /\ pushes \in Nat
  BY CodingDaysAssumption DEF CodingInv, TypeOK
<1>1. repo'.work \subseteq 1..pushes' /\ repo'.side \subseteq 1..pushes' /\ pushes' \in Nat
      /\ pushes <= pushes'
  <2>1. ASSUME pushes' = pushes + 1, NEW base \in SUBSET (1..pushes)
        PROVE base \cup {pushes + 1} \subseteq 1..pushes' /\ 1..pushes \subseteq 1..pushes'
    BY <1>0, <2>1
  <2>2. CASE repo'.work = repo.work /\ repo'.side = repo.side /\ pushes' = pushes
    BY <1>0, <2>2 DEF Numbered
  <2>3. CASE /\ pushes' = pushes + 1
             /\ \E base \in SUBSET (1..pushes) :
                  \/ repo'.work = base \cup {pushes + 1} /\ repo'.side = repo.side
                  \/ repo'.side = base \cup {pushes + 1} /\ repo'.work = repo.work
    <3>1. repo'.work \subseteq 1..pushes' /\ repo'.side \subseteq 1..pushes'
      BY <1>0, <2>1, <2>3, Zenon DEF Numbered
    <3>2. pushes' \in Nat /\ pushes <= pushes'
      BY <1>0, <2>3
    <3> QED
      BY <3>1, <3>2
  <2>4. CASE \E r \in Requests : repo'.work = request[r].work /\ repo'.side = repo.side
                              /\ pushes' = pushes
    BY <1>0, <2>4 DEF Numbered
  <2> QED
    BY <2>2, <2>3, <2>4, Moving, ZenonT(60)
<1>2. ASSUME NEW q \in Requests PROVE request'[q].work \subseteq 1..pushes'
  <2>1. request'[q].work \subseteq 1..pushes
    BY <1>0, Holding DEF Numbered
  <2> QED
    BY <1>0, <1>1, <2>1
<1> QED
  BY <1>1, <1>2 DEF Numbered

(* Whoever pushed since a bootstrap looked added a commit it did not see. *)
LEMMA NextLooked == CodingInv /\ [Next]_vars => Looked'
<1> SUFFICES ASSUME CodingInv, [Next]_vars, ~overwritten', NEW q \in Requests,
                    request'[q].at = "seed", repo'.work \subseteq request'[q].work
             PROVE request'[q].work = repo'.work
  BY DEF Looked
<1>0. TypeOK /\ Numbered /\ Looked /\ ~overwritten /\ pushes \in Nat
  BY Overwriting, CodingDaysAssumption DEF CodingInv, TypeOK
<1>1. CASE request'[q].work = {}
  BY <1>1
<1>2. CASE request'[q].work = repo.work /\ repo' = repo
  BY <1>2
<1>3. CASE request'[q].work = request[q].work /\ request[q].at = "seed"
  <2>1. CASE repo'.work = repo.work
    BY <1>0, <1>3, <2>1 DEF Looked
  <2>2. CASE pushes + 1 \in repo'.work
    BY <1>0, <1>3, <2>2 DEF Numbered
  <2>3. ASSUME NEW r \in Requests, request[r].at = "seed",
               repo'.work = request[r].work, repo.work \subseteq request[r].work
        PROVE repo'.work = repo.work
    BY <1>0, <2>3 DEF Looked
  <2> QED
    BY <2>1, <2>2, <2>3, Moving
<1> QED
  BY <1>1, <1>2, <1>3, Holding

(* Nothing but bootstraps and forced pushes drops commits of the default   *)
(* branch.                                                                 *)
LEMMA NextSeen == CodingInv /\ [Next]_vars => Seen'
<1> SUFFICES ASSUME CodingInv, [Next]_vars, ~overwritten', ~forced' PROVE Seen'
  BY DEF Seen
<1>0. TypeOK /\ Looked /\ Seen /\ ~overwritten
  BY Overwriting DEF CodingInv
<1>1. ~forced /\ repo.work \subseteq repo'.work
  <2>1. ASSUME NEW r \in Requests, request[r].at = "seed",
               repo'.work = request[r].work, repo.work \subseteq request[r].work
        PROVE repo'.work = repo.work
    BY <1>0, <2>1 DEF Looked
  <2> QED
    BY <2>1, Moving
<1>2. ASSUME NEW q \in Requests, request'[q].branch = "default"
      PROVE request'[q].work \subseteq repo'.work
  BY <1>0, <1>1, <1>2, Holding DEF Seen
<1>3. ASSUME NEW d \in CodingDays, submission'[d].branch = "default"
      PROVE submission'[d].work \subseteq repo'.work
  <2>1. \/ submission'[d] = submission[d]
        \/ \E r \in Requests : submission'[d].work = request[r].work
                             /\ submission'[d].branch = request[r].branch
    <3>1. ASSUME NEW r \in Requests, CreateSubmission(r)
          PROVE submission'[d] = submission[d]
                \/ (submission'[d].work = request[r].work
                    /\ submission'[d].branch = request[r].branch)
      BY <1>0, <3>1 DEF TypeOK, CreateSubmission
    <3>2. CASE submission' = submission
      BY <3>2
    <3> QED
      BY <3>1, <3>2 DEF db, github, Next, vars, RequestStep, EnforcementStep, Push,
         InitCodespace, ResendInvite, Submit, Regrant, Inspect, Seed, Grant, Store,
         RunTests, CutOff, StartEnforcement, ReadState, WorkspaceMissing, Revoke,
         RecordRevoked, ReadHead, CreateAudit, ReportSuccess, FailEnforcement, Tick
  <2> QED
    BY <1>0, <1>1, <1>3, <2>1 DEF Seen
<1> QED
  BY <1>2, <1>3 DEF Seen

(* Handlers start with a day and keep it. *)
LEMMA NextBusy == CodingInv /\ [Next]_vars => Busy'
<1> SUFFICES ASSUME CodingInv, [Next]_vars PROVE Busy'
  OBVIOUS
<1> USE DEF db, github
<1>0. TypeOK /\ Busy
  BY DEF CodingInv
<1>1. ASSUME NEW w \in Workers,
             \/ \E d \in CodingDays : StartEnforcement(w, d)
             \/ EnforcementStep(w) \/ FailEnforcement(w)
      PROVE Busy'
  <2>1. CASE \E d \in CodingDays : StartEnforcement(w, d)
    <3>1. PICK d \in CodingDays :
            worker' = [worker EXCEPT ![w] =
              [at |-> "read", day |-> d, work |-> {}, attempt |-> NextAttempt(d)]]
      BY <2>1 DEF StartEnforcement
    <3>2. worker'[w].day = d
      BY <1>0, <3>1 DEF TypeOK
    <3>3. \A v \in Workers : v # w => worker'[v] = worker[v]
      BY <1>0, <3>1 DEF TypeOK
    <3> QED
      BY <1>0, <3>1, <3>2, <3>3 DEF Busy
  <2>2. CASE WorkspaceMissing(w) \/ ReportSuccess(w) \/ FailEnforcement(w)
    BY <1>0, <2>2 DEF TypeOK, Busy, WorkspaceMissing, ReportSuccess, FailEnforcement,
       IdleWorker
  <2>3. CASE ReadState(w) \/ ReadHead(w)
    BY <1>0, <2>3 DEF TypeOK, Busy, WorkerStates, ReadState, ReadHead
  <2>4. CASE Revoke(w) \/ RecordRevoked(w) \/ CreateAudit(w)
    BY <1>0, <2>4 DEF TypeOK, Busy, WorkerStates, Revoke, RecordRevoked, CreateAudit
  <2> QED
    BY <1>1, <2>1, <2>2, <2>3, <2>4 DEF EnforcementStep
<1>2. CASE worker' = worker
  BY <1>0, <1>2 DEF Busy
<1> QED
  BY <1>1, <1>2 DEF Next, vars, RequestStep, InitCodespace, ResendInvite, Submit,
     Regrant, Inspect, Seed, Grant, Store, RunTests, CreateSubmission, CutOff, Push, Tick

-----------------------------------------------------------------------------
(* Steps that may change the head of the branch, who may push, or what     *)
(* cut says; all others leave what the cutoffs rest on alone.              *)
Undisturbed(d) ==
  /\ cut[d] = "no" <=> cut'[d] = "no"
  /\ cut'[d] = "removed" /\ ~overwritten' =>
       cut[d] = "removed" /\ ~overwritten /\ repo'.work = repo.work

(* A removed candidate cannot push, so the branch stands still until he is *)
(* invited again or a bootstrap drops commits.                             *)
LEMMA StandsStill ==
  CodingInv /\ [Next]_vars /\ (\A w \in Workers : ~Revoke(w)) =>
    \A d \in CodingDays : Undisturbed(d)
<1> SUFFICES ASSUME CodingInv, [Next]_vars, \A w \in Workers : ~Revoke(w),
                    NEW d \in CodingDays
             PROVE Undisturbed(d)
  OBVIOUS
<1> USE DEF db, github
<1>0. TypeOK /\ Closed /\ Looked
  BY DEF CodingInv
<1>1. /\ cut[d] = "no" <=> cut'[d] = "no"
      /\ cut'[d] = "removed" => cut[d] = "removed" /\ cut' = cut
  <2>1. CASE AddCollaborator
    BY <1>0, <2>1, Invited
  <2>2. CASE cut' = cut
    BY <2>2
  <2> QED
    BY <2>1, <2>2 DEF Next, vars, RequestStep, EnforcementStep, InitCodespace,
       ResendInvite, Submit, Regrant, Inspect, Seed, Grant, Store, RunTests,
       CreateSubmission, CutOff, Push, StartEnforcement, ReadState, WorkspaceMissing,
       RecordRevoked, ReadHead, CreateAudit, ReportSuccess, FailEnforcement, Tick
<1>2. ASSUME cut'[d] = "removed", ~overwritten'
      PROVE ~overwritten /\ repo'.work = repo.work
  <2>1. ~overwritten /\ ~access
    BY <1>0, <1>1, <1>2, Overwriting DEF Closed
  <2>2. ASSUME NEW r \in Requests, request[r].at = "seed",
               repo'.work = request[r].work, repo.work \subseteq request[r].work
        PROVE repo'.work = repo.work
    BY <1>0, <2>1, <2>2 DEF Looked
  <2> QED
    BY <1>2, <2>1, <2>2, Moving
<1> QED
  BY <1>1, <1>2 DEF Undisturbed

(* The revocation itself: it leaves the branch alone. *)
LEMMA Revoking ==
  ASSUME TypeOK, NEW w \in Workers, Revoke(w), worker[w].day \in CodingDays
  PROVE  /\ repo' = repo /\ overwritten' = overwritten /\ ~access'
         /\ cut'[worker[w].day] # "no"
         /\ \A d \in CodingDays :
              \/ cut'[d] = cut[d]
              \/ d = worker[w].day /\ cut[d] = "no" /\ cut'[d] = "removed"
         /\ worker' = [worker EXCEPT ![w].at = "record"]
BY DEF TypeOK, Revoke

LEMMA NextClosed == CodingInv /\ [Next]_vars => Closed'
<1> SUFFICES ASSUME CodingInv, [Next]_vars, NEW d \in CodingDays, cut'[d] = "removed"
             PROVE ~access'
  BY DEF Closed
<1> USE DEF db, github
<1>0. TypeOK /\ Closed /\ Busy
  BY DEF CodingInv
<1>1. CASE \E w \in Workers : Revoke(w)
  BY <1>1 DEF Revoke
<1>2. CASE \E r \in Requests :
             ResendInvite(r) \/ Regrant(r) \/ Grant(r) \/ Store(r)
  <2>1. AddCollaborator \/ UNCHANGED <<access, cut>>
    BY <1>2 DEF ResendInvite, Regrant, Grant, Store
  <2> QED
    BY <1>0, <2>1, Invited DEF Closed
<1>3. CASE UNCHANGED <<access, cut>>
  BY <1>0, <1>3 DEF Closed
<1> QED
  BY <1>1, <1>2, <1>3 DEF Next, vars, RequestStep, EnforcementStep, InitCodespace,
     Submit, Inspect, Seed, RunTests, CreateSubmission, CutOff, Push,
     StartEnforcement, ReadState, WorkspaceMissing, RecordRevoked, ReadHead,
     CreateAudit, ReportSuccess, FailEnforcement, Tick

(* What a handler carries from step to step is still true. *)
LEMMA NextCutting == CodingInv /\ [Next]_vars => Cutting'
<1> SUFFICES ASSUME CodingInv, [Next]_vars, NEW v \in Workers
             PROVE  LET me == worker'[v] IN
                    /\ me.at \in {"record", "head", "audit"} => cut'[me.day] # "no"
                    /\ me.at = "audit" /\ cut'[me.day] = "removed" /\ ~overwritten' =>
                         me.work = repo'.work
  BY DEF Cutting
<1> USE DEF db, github
<1>0. TypeOK /\ Busy /\ Cutting
  BY DEF CodingInv
<1> DEFINE me == worker[v]
<1>1. CASE \E w \in Workers : Revoke(w)
  <2>1. PICK w \in Workers : Revoke(w)
    BY <1>1
  <2>2. worker[w].day \in CodingDays
    BY <1>0, <2>1 DEF Busy, Revoke
  <2>3. worker'[v].day = me.day /\ worker'[v].work = me.work
        /\ worker'[v].at = IF v = w THEN "record" ELSE me.at
    BY <1>0, <2>1, <2>2, Revoking DEF TypeOK, WorkerStates
  <2>4. CASE me.at # "idle"
    <3>1. me.day \in CodingDays
      BY <1>0, <2>4 DEF Busy
    <3> QED
      BY <1>0, <2>1, <2>2, <2>3, <3>1, Revoking DEF Cutting
  <2>5. CASE me.at = "idle"
    BY <2>1, <2>3, <2>5 DEF Revoke
  <2> QED
    BY <2>4, <2>5
<1>2. CASE \A w \in Workers : ~Revoke(w)
  <2>1. \A d \in CodingDays : Undisturbed(d)
    BY <1>2, StandsStill
  <2>2. CASE worker'[v] = me
    <3>1. CASE me.at \in {"record", "head", "audit"}
      <4>1. me.day \in CodingDays
        BY <1>0, <3>1 DEF Busy
      <4> QED
        BY <1>0, <2>1, <2>2, <4>1 DEF Cutting, Undisturbed
    <3>2. CASE me.at \notin {"record", "head", "audit"}
      BY <2>2, <3>2
    <3> QED
      BY <3>1, <3>2
  <2>3. CASE RecordRevoked(v)
    <3>1. worker'[v].at = "head" /\ worker'[v].day = me.day /\ me.at = "record"
      BY <1>0, <2>3 DEF TypeOK, WorkerStates, RecordRevoked
    <3>2. me.day \in CodingDays
      BY <1>0, <3>1 DEF Busy
    <3> QED
      BY <1>0, <2>1, <3>1, <3>2 DEF Cutting, Undisturbed
  <2>4. CASE ReadHead(v)
    <3>1. worker'[v].at = "audit" /\ worker'[v].day = me.day /\ me.at = "head"
          /\ worker'[v].work = repo.work /\ repo' = repo
      BY <1>0, <2>4 DEF TypeOK, WorkerStates, ReadHead
    <3>2. me.day \in CodingDays
      BY <1>0, <3>1 DEF Busy
    <3> QED
      BY <1>0, <2>1, <3>1, <3>2 DEF Cutting, Undisturbed
  <2>5. CASE worker'[v].at \in {"idle", "read", "revoke", "report"}
    BY <2>5
  <2>6. CASE \E w \in Workers :
               \/ \E d \in CodingDays : StartEnforcement(w, d)
               \/ EnforcementStep(w) \/ FailEnforcement(w)
    <3>1. PICK w \in Workers :
            \/ \E d \in CodingDays : StartEnforcement(w, d)
            \/ EnforcementStep(w) \/ FailEnforcement(w)
      BY <2>6
    <3>2. CASE w = v
      <4>1. \/ RecordRevoked(v) \/ ReadHead(v)
            \/ worker'[v].at \in {"idle", "read", "revoke", "report"}
        BY <1>0, <1>2, <3>1, <3>2 DEF TypeOK, WorkerStates, StartEnforcement,
           EnforcementStep, FailEnforcement, ReadState, WorkspaceMissing, CreateAudit,
           ReportSuccess, IdleWorker
      <4> QED
        BY <2>3, <2>4, <2>5, <4>1
    <3>3. CASE w # v
      <4>1. worker'[v] = me
        BY <1>0, <1>2, <3>1, <3>3 DEF TypeOK, StartEnforcement, EnforcementStep,
           FailEnforcement, ReadState, WorkspaceMissing, RecordRevoked, ReadHead,
           CreateAudit, ReportSuccess
      <4> QED
        BY <2>2, <4>1
    <3> QED
      BY <3>2, <3>3
  <2>7. CASE worker' = worker
    BY <2>2, <2>7
  <2> QED
    BY <2>6, <2>7 DEF Next, vars, RequestStep, InitCodespace, ResendInvite,
       Submit, Regrant, Inspect, Seed, Grant, Store, RunTests, CreateSubmission,
       CutOff, Push, Tick
<1> QED
  BY <1>1, <1>2

(* Only CreateAudit writes a cutoff, and what it writes is the head. *)
LEMMA NextAudited == CodingInv /\ [Next]_vars => Audited'
<1> SUFFICES ASSUME CodingInv, [Next]_vars, NEW d \in CodingDays, audit'[d].there
             PROVE  /\ cut'[d] # "no"
                    /\ cut'[d] = "removed" /\ ~overwritten' =>
                         audit'[d].work = repo'.work
  BY DEF Audited
<1> USE DEF db, github
<1>0. TypeOK /\ Busy /\ Cutting /\ Audited
  BY DEF CodingInv
<1>1. CASE \E w \in Workers : Revoke(w)
  <2>1. PICK w \in Workers : Revoke(w)
    BY <1>1
  <2>2. worker[w].day \in CodingDays /\ audit' = audit
    BY <1>0, <2>1 DEF Busy, Revoke
  <2> QED
    BY <1>0, <2>1, <2>2, Revoking DEF Audited
<1>2. CASE \A w \in Workers : ~Revoke(w)
  <2>1. Undisturbed(d)
    BY <1>2, StandsStill
  <2>2. CASE audit'[d] = audit[d]
    BY <1>0, <2>1, <2>2 DEF Audited, Undisturbed
  <2>3. CASE \E w \in Workers : CreateAudit(w)
    <3>1. PICK w \in Workers : CreateAudit(w)
      BY <2>3
    <3>2. worker[w].day \in CodingDays
      BY <1>0, <3>1 DEF Busy, CreateAudit
    <3>3. audit'[d] = audit[d] \/ (worker[w].day = d /\ audit'[d].work = worker[w].work)
      BY <1>0, <3>1, <3>2 DEF TypeOK, CreateAudit
    <3> QED
      BY <1>0, <2>1, <2>2, <3>1, <3>3 DEF Cutting, Undisturbed, CreateAudit
  <2>4. CASE audit' = audit
    BY <2>2, <2>4
  <2> QED
    BY <2>3, <2>4 DEF Next, vars, RequestStep, EnforcementStep, InitCodespace, ResendInvite,
       Submit, Regrant, Inspect, Seed, Grant, Store, RunTests, CreateSubmission,
       CutOff, Push, StartEnforcement, ReadState, WorkspaceMissing, Revoke,
       RecordRevoked, ReadHead, ReportSuccess, FailEnforcement, Tick
<1> QED
  BY <1>1, <1>2

-----------------------------------------------------------------------------
(* The strengthened invariant holds in every state. *)
THEOREM CodingInvariant == Spec => []CodingInv
<1>1. CodingInv /\ [Next]_vars => CodingInv'
  BY NextType, NextNumbered, NextLooked, NextSeen, NextBusy, NextClosed, NextCutting,
     NextAudited DEF CodingInv
<1> QED
  BY InitInv, <1>1, PTL DEF Spec

(* Rows, repository, requests and handlers keep their types. *)
THEOREM TypeCorrect == Spec => []TypeOK
<1>1. CodingInv => TypeOK
  BY DEF CodingInv
<1> QED
  BY CodingInvariant, <1>1, PTL

(* The recorded cutoff is the head of a branch that nobody can push to:    *)
(* revoking before reading the head is what makes it so.                   *)
THEOREM CutoffHead == Spec => []CutoffIsHead
<1>1. CodingInv => CutoffIsHead
  BY DEF CodingInv, Audited, Closed, CutoffIsHead
<1> QED
  BY CodingInvariant, <1>1, PTL

(* Whatever was submitted was on the branch, and the cutoff is the branch. *)
THEOREM SubmittedInCutoff == Spec => []SubmittedWorkIsCut
<1>1. CodingInv => SubmittedWorkIsCut
  BY DEF CodingInv, Audited, Seen, SubmittedWorkIsCut
<1> QED
  BY CodingInvariant, <1>1, PTL

(* No run of any worker changes a cutoff that is there. *)
THEOREM CutoffsAreFinal == Spec => CutoffIsWrittenOnce
<1>1. CodingInv /\ [Next]_vars =>
        [\A d \in CodingDays : audit[d].there => audit'[d] = audit[d]]_vars
  <2> SUFFICES ASSUME CodingInv, [Next]_vars, NEW d \in CodingDays, audit[d].there
               PROVE audit'[d] = audit[d]
    OBVIOUS
  <2> USE DEF db, github
  <2>1. CASE \E w \in Workers : CreateAudit(w)
    BY <2>1 DEF CodingInv, TypeOK, CreateAudit
  <2>2. CASE audit' = audit
    BY <2>2
  <2> QED
    BY <2>1, <2>2 DEF Next, vars, RequestStep, EnforcementStep, InitCodespace, ResendInvite,
       Submit, Regrant, Inspect, Seed, Grant, Store, RunTests, CreateSubmission,
       CutOff, Push, StartEnforcement, ReadState, WorkspaceMissing, Revoke,
       RecordRevoked, ReadHead, ReportSuccess, FailEnforcement, Tick
<1> QED
  BY CodingInvariant, <1>1, PTL DEF Spec, CutoffIsWrittenOnce

(* A cutoff has all the work of its day and none of later                   *)
(* (handle_day_close_enforcement_impl, create_day_audit_once).              *)
THEOREM CutoffsHaveAll == Spec => []CutoffIsAllWork
<1>1. CutoffIsHead /\ SubmittedWorkIsCut => CutoffIsAllWork
  BY DEF CutoffIsAllWork
<1> QED
  BY <1>1, CutoffHead, SubmittedInCutoff, PTL
===============================================================================
