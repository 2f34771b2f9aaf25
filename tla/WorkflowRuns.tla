---------------------------- MODULE WorkflowRuns ----------------------------
(***************************************************************************)
(* Test runs of one coding workspace: the candidate dispatches a GitHub    *)
(* workflow to see its tests or to submit, polls it, and GitHub reports    *)
(* each attempt that completes by a webhook, from which a job parses the   *)
(* artifacts into the submission (app/integrations/github, app/tasks, the  *)
(* submissions use cases and the github_workflow_artifact_parse handler).  *)
(*                                                                         *)
(* A dispatch does not say which run it made: the runner lists the runs    *)
(* before, and again until one is there that was not.  GitHub shows a new  *)
(* run, and a run's artifacts, some time after they exist.  The results of *)
(* attempt n are the number n.                                             *)
(***************************************************************************)
EXTENDS Integers

CONSTANTS
  RunRequests,    \* requests of the candidate in flight at a time
  LastRun,        \* bound: runs of the workflow
  LastCommit,     \* bound: commits pushed
  LastAttempt,    \* bound: attempts of one run
  GithubFaults    \* bound: failed calls, lost and repeated deliveries

ASSUME WorkflowRunsAssumption ==
  /\ LastRun \in Nat /\ LastCommit \in Nat
  /\ LastAttempt \in Nat \ {0}
  /\ GithubFaults \in Nat

VARIABLES
  branchHead,      \* the commit at the head of the branch
  workflowRun,     \* the runs at GitHub
  shown,           \* runs that a listing shows
  recent,          \* runs of the last ten seconds
  deliveries,      \* completed attempts GitHub has still to report
  missed,          \* runs whose last attempt was reported in vain
  listed,          \* the runner's artifact_list_cache
  answered,        \* the runner's run_cache: the terminal result of a run
  runRequest,      \* the candidate's requests
  codeSubmission,  \* the submission
  parseJob,        \* github_workflow_artifact_parse jobs
  githubFaults

workflowVars == <<branchHead, workflowRun, shown, recent, deliveries, missed, listed,
  answered, runRequest, codeSubmission, parseJob, githubFaults>>

-----------------------------------------------------------------------------
NoRunYet == 0
Runs == 1..LastRun
Attempts == 1..LastAttempt
Commits == 0..LastCommit

(* tests: the attempt whose results they are, or why there are none. *)
Running == -1
Missing == 0
Results == Attempts \cup {Running, Missing}

GithubRuns == [status : {"absent", "running", "completed"}, commit : Commits,
               attempt : Attempts, uploaded : BOOLEAN]

RunRequestStates ==
  [at : {"idle", "listed", "waiting", "recorded"}, op : {"run", "submit"},
   known : SUBSET Runs, sure : BOOLEAN, began : Commits,
   run : Runs \cup {NoRunYet}, result : Results]

CodeSubmissions == [run : Runs \cup {NoRunYet}, commit : Commits, tests : Results,
                    sure : BOOLEAN, began : Commits]

IdleRunRequest == [at |-> "idle", op |-> "run", known |-> {}, sure |-> FALSE,
                   began |-> 0, run |-> NoRunYet, result |-> Running]

WorkflowTypeOK ==
  /\ branchHead \in Commits
  /\ workflowRun \in [Runs -> GithubRuns]
  /\ shown \subseteq Runs /\ recent \subseteq Runs
  /\ deliveries \subseteq Runs \X Attempts /\ missed \subseteq Runs
  /\ listed \in [Runs -> {"no", "empty", "full"}]
  /\ answered \in [Runs -> Results]
  /\ runRequest \in [RunRequests -> RunRequestStates]
  /\ codeSubmission \in CodeSubmissions
  /\ parseJob \in [Runs \X Attempts -> {"absent", "queued", "done"}]
  /\ githubFaults \in 0..GithubFaults

WorkflowInit ==
  /\ branchHead = 0
  /\ workflowRun = [r \in Runs |-> [status |-> "absent", commit |-> 0, attempt |-> 1,
                                    uploaded |-> FALSE]]
  /\ shown = {} /\ recent = {} /\ deliveries = {} /\ missed = {}
  /\ listed = [r \in Runs |-> "no"]
  /\ answered = [r \in Runs |-> Running]
  /\ runRequest = [k \in RunRequests |-> IdleRunRequest]
  /\ codeSubmission = [run |-> NoRunYet, commit |-> 0, tests |-> Running,
                       sure |-> FALSE, began |-> 0]
  /\ parseJob = [m \in Runs \X Attempts |-> "absent"]
  /\ githubFaults = GithubFaults

runner == <<listed, answered>>
atGithub == <<branchHead, workflowRun, shown, recent, deliveries>>
stored == <<missed, codeSubmission, parseJob>>

GithubFails == githubFaults > 0 /\ githubFaults' = githubFaults - 1

-----------------------------------------------------------------------------
(* GitHub and the candidate's branch. *)

Push ==
  /\ branchHead < LastCommit
  /\ branchHead' = branchHead + 1
  /\ UNCHANGED <<workflowRun, shown, recent, deliveries, runRequest, githubFaults>>
  /\ UNCHANGED runner /\ UNCHANGED stored

(* A listing shows a run; ten seconds pass since it was made. *)
Show(r) ==
  /\ workflowRun[r].status # "absent" /\ r \notin shown
  /\ shown' = shown \cup {r}
  /\ UNCHANGED <<branchHead, workflowRun, recent, deliveries, runRequest, githubFaults>>
  /\ UNCHANGED runner /\ UNCHANGED stored

Age(r) ==
  /\ r \in recent \cap shown
  /\ recent' = recent \ {r}
  /\ UNCHANGED <<branchHead, workflowRun, shown, deliveries, runRequest, githubFaults>>
  /\ UNCHANGED runner /\ UNCHANGED stored

Upload(r) ==
  /\ workflowRun[r].status = "running" /\ ~workflowRun[r].uploaded
  /\ workflowRun' = [workflowRun EXCEPT ![r].uploaded = TRUE]
  /\ UNCHANGED <<branchHead, shown, recent, deliveries, runRequest, githubFaults>>
  /\ UNCHANGED runner /\ UNCHANGED stored

(* The attempt completes, and GitHub will report it. *)
CompleteAttempt(r) ==
  /\ r \in shown /\ workflowRun[r].status = "running"
  /\ workflowRun' = [workflowRun EXCEPT ![r].status = "completed"]
  /\ deliveries' = deliveries \cup {<<r, workflowRun[r].attempt>>}
  /\ UNCHANGED <<branchHead, shown, recent, runRequest, githubFaults>>
  /\ UNCHANGED runner /\ UNCHANGED stored

(* Somebody with access to the repository runs it again. *)
Rerun(r) ==
  /\ workflowRun[r].status = "completed" /\ workflowRun[r].attempt < LastAttempt
  /\ workflowRun' = [workflowRun EXCEPT ![r].status = "running",
                       ![r].attempt = @ + 1, ![r].uploaded = FALSE]
  /\ missed' = missed \ {r}
  /\ UNCHANGED <<branchHead, shown, recent, deliveries, runRequest, codeSubmission, parseJob,
                 githubFaults>>
  /\ UNCHANGED runner

(* The report of an attempt comes to nothing. *)
Missed(m) ==
  missed' = IF workflowRun[m[1]].attempt = m[2] THEN missed \cup {m[1]} ELSE missed

(* A delivery that the server does not answer, which nobody repeats. *)
LoseDelivery(m) ==
  /\ m \in deliveries
  /\ GithubFails
  /\ deliveries' = deliveries \ {m}
  /\ Missed(m)
  /\ UNCHANGED <<branchHead, workflowRun, shown, recent, runRequest, codeSubmission, parseJob>>
  /\ UNCHANGED runner

-----------------------------------------------------------------------------
(* The runner. *)

(* normalize_run and build_result over an artifact listing: what an        *)
(* incomplete attempt has uploaded counts, and a completed one without     *)
(* test results is an error.                                               *)
ResultOf(r, found) ==
  IF found THEN workflowRun[r].attempt
  ELSE IF workflowRun[r].status = "completed" THEN Missing ELSE Running

(* list_artifacts_with_cache. *)
Listing(r) == IF listed[r] = "no" THEN workflowRun[r].uploaded ELSE listed[r] = "full"

(* A result of the runner that serves requests: the listing is kept, and   *)
(* the result of a completed run for good (cache_run, is_terminal).        *)
Build(r) ==
  /\ listed' = [listed EXCEPT ![r] = IF Listing(r) THEN "full" ELSE "empty"]
  /\ answered' = IF workflowRun[r].status = "completed"
                 THEN [answered EXCEPT ![r] = ResultOf(r, Listing(r))] ELSE answered

(* _concurrency_guard over the dispatches of run requests; a submission is *)
(* not guarded.                                                            *)
MayDispatch(op) ==
  op = "run" => \A k \in RunRequests : runRequest[k].at = "idle" \/ runRequest[k].op # "run"

(* dispatch_and_wait: the runs there are, or none if the listing fails. *)
ListRuns(k, op) ==
  /\ runRequest[k].at = "idle"
  /\ op = "submit" => codeSubmission.run = NoRunYet
  /\ MayDispatch(op)
  /\ \/ UNCHANGED githubFaults
        /\ runRequest' = [runRequest EXCEPT ![k] =
             [IdleRunRequest EXCEPT !.at = "listed", !.op = op, !.known = shown, !.began = branchHead,
                !.sure = recent = {} /\ \A r \in Runs \ shown : workflowRun[r].status = "absent"]]
     \/ GithubFails
        /\ runRequest' = [runRequest EXCEPT ![k] =
             [IdleRunRequest EXCEPT !.at = "listed", !.op = op, !.began = branchHead]]
  /\ UNCHANGED atGithub /\ UNCHANGED runner /\ UNCHANGED stored

(* dispatch_with_fallbacks: one of the workflow files is there, or the     *)
(* request fails.                                                          *)
Dispatch(k) ==
  /\ runRequest[k].at = "listed"
  /\ \/ \E r \in Runs :
          /\ workflowRun[r].status = "absent"
          /\ \A q \in Runs : q < r => workflowRun[q].status # "absent"
          /\ workflowRun' = [workflowRun EXCEPT ![r].status = "running", ![r].commit = branchHead]
          /\ recent' = recent \cup {r}
          /\ runRequest' = [runRequest EXCEPT ![k].at = "waiting"]
          /\ UNCHANGED githubFaults
     \/ GithubFails
        /\ runRequest' = [runRequest EXCEPT ![k] = IdleRunRequest]
        /\ UNCHANGED <<workflowRun, recent>>
  /\ UNCHANGED <<branchHead, shown, deliveries>>
  /\ UNCHANGED runner /\ UNCHANGED stored

(* Mutation: the newest run that a listing shows is taken. *)
AnyShown(k) == shown

(* The runs a listing offers: new ones, or else one of the last ten        *)
(* seconds, were it known before (is_dispatched_run).                      *)
Offered(k) ==
  IF shown \ runRequest[k].known # {} THEN shown \ runRequest[k].known
  ELSE shown \cap recent

(* The newest of them; a completed run is answered with its result, which  *)
(* record_run_result stores, another with "running".                       *)
Observe(k) ==
  /\ runRequest[k].at = "waiting"
  /\ \E r \in Offered(k) :
       /\ \A q \in Offered(k) : q <= r
       /\ runRequest' = [runRequest EXCEPT ![k].at = "recorded", ![k].run = r,
            ![k].result = IF workflowRun[r].status = "completed"
                          THEN ResultOf(r, Listing(r)) ELSE Running]
       /\ IF workflowRun[r].status = "completed" THEN Build(r) ELSE UNCHANGED runner
  /\ UNCHANGED githubFaults /\ UNCHANGED atGithub /\ UNCHANGED stored

(* The deadline passes with no run in sight. *)
GiveUp(k) ==
  /\ runRequest[k].at = "waiting"
  /\ Offered(k) = {}
  /\ GithubFails
  /\ runRequest' = [runRequest EXCEPT ![k] = IdleRunRequest]
  /\ UNCHANGED atGithub /\ UNCHANGED runner /\ UNCHANGED stored

(* The answer; a submission is stored, unless there is one (409). *)
Answered(k) ==
  /\ runRequest[k].at = "recorded"
  /\ codeSubmission' =
       IF runRequest[k].op = "submit" /\ codeSubmission.run = NoRunYet
       THEN [run |-> runRequest[k].run, commit |-> workflowRun[runRequest[k].run].commit,
             tests |-> runRequest[k].result, sure |-> runRequest[k].sure,
             began |-> runRequest[k].began]
       ELSE codeSubmission
  /\ runRequest' = [runRequest EXCEPT ![k] = IdleRunRequest]
  /\ UNCHANGED <<missed, parseJob, githubFaults>>
  /\ UNCHANGED atGithub /\ UNCHANGED runner

(* fetch_run_result: a terminal result is kept, anything else is fetched. *)
Poll(r) ==
  /\ r \in shown
  /\ answered[r] = Running
  /\ Build(r)
  /\ UNCHANGED <<runRequest, githubFaults>>
  /\ UNCHANGED atGithub /\ UNCHANGED stored

-----------------------------------------------------------------------------
(* Webhooks and their jobs. *)

(* Mutation: the job's key leaves the attempt out. *)
KeyOfRun(m) == <<m[1], 1>>

(* build_artifact_parse_job_idempotency_key. *)
ParseKey(m) == m

(* process_workflow_run_completed_event.  Every submission has a run's id, *)
(* so the fallback over the commit never matches.  A report may come again *)
(* (redelivery).                                                           *)
Deliver(m) ==
  /\ m \in deliveries
  /\ \/ deliveries' = deliveries \ {m} /\ UNCHANGED githubFaults
     \/ GithubFails /\ UNCHANGED deliveries
  /\ IF codeSubmission.run = m[1]
     THEN /\ parseJob' = [parseJob EXCEPT ![ParseKey(m)] = IF @ = "absent" THEN "queued" ELSE @]
          /\ UNCHANGED missed
     ELSE Missed(m) /\ UNCHANGED parseJob
  /\ UNCHANGED <<branchHead, workflowRun, shown, recent, runRequest, codeSubmission>>
  /\ UNCHANGED runner

(* handle_github_workflow_artifact_parse, with a runner of its own and the *)
(* submission locked: the run as GitHub has it now, whatever attempt the   *)
(* job is of.                                                              *)
Parse(m) ==
  /\ parseJob[m] = "queued"
  /\ parseJob' = [parseJob EXCEPT ![m] = "done"]
  /\ codeSubmission' =
       IF codeSubmission.run # m[1] THEN codeSubmission
       ELSE [codeSubmission EXCEPT !.tests = ResultOf(m[1], workflowRun[m[1]].uploaded)]
  /\ UNCHANGED <<missed, runRequest, githubFaults>>
  /\ UNCHANGED atGithub /\ UNCHANGED runner

-----------------------------------------------------------------------------
WorkflowNext ==
  \/ Push
  \/ \E r \in Runs :
       Show(r) \/ Age(r) \/ Upload(r) \/ CompleteAttempt(r) \/ Rerun(r) \/ Poll(r)
  \/ \E k \in RunRequests :
       \/ ListRuns(k, "run") \/ ListRuns(k, "submit")
       \/ Dispatch(k) \/ Observe(k) \/ GiveUp(k) \/ Answered(k)
  \/ \E m \in Runs \X Attempts : LoseDelivery(m) \/ Deliver(m) \/ Parse(m)

WorkflowSpec == WorkflowInit /\ [][WorkflowNext]_workflowVars

-----------------------------------------------------------------------------
(* Properties. *)

(* When nothing of its run is under way any more, a submission has the     *)
(* results of the run's last attempt, however its deliveries were ordered  *)
(* or repeated and the run started again, unless the last attempt's report *)
(* was lost or came before the submission                                  *)
(* (process_workflow_run_completed_event, persist_artifact_parse_result).  *)
ResultsArrive ==
  \A r \in Runs :
    (/\ codeSubmission.run = r
     /\ workflowRun[r].status = "completed" /\ r \notin missed
     /\ \A a \in Attempts : <<r, a>> \notin deliveries /\ parseJob[<<r, a>>] # "queued")
    => codeSubmission.tests = ResultOf(r, workflowRun[r].uploaded)

(* A submission is judged by a run of a commit that is no older than the   *)
(* request, provided that GitHub showed every run there was and none was   *)
(* of the last ten seconds (dispatch_and_wait).                            *)
RunIsOfTheRequest == codeSubmission.sure => codeSubmission.commit >= codeSubmission.began

(* A run whose test results are there is not answered with their being     *)
(* missing (build_result: "Test results artifact missing or unreadable.    *)
(* Please re-run tests.").                                                 *)
PollsFindArtifacts ==
  [][\A r \in Runs : answered[r] = Running /\ answered'[r] = Missing
       => ~workflowRun[r].uploaded]_workflowVars
=============================================================================
