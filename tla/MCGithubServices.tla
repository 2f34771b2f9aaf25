--------------------------- MODULE MCGithubServices ---------------------------
(* What the backend does at GitHub, for TLC: the clean-up of workspaces, the   *)
(* runs of the candidate's workflow, and the bootstrap of a repository.  The   *)
(* three share no state, so each behaviour is one of a single component, and   *)
(* the variables of the others stay as they began.                             *)
EXTENDS WorkspaceCleanup, WorkflowRuns, RepoBootstrap

VARIABLE component  \* the component whose behaviour this is

githubVars == <<component, cleanupVars, workflowVars, bootstrapVars>>

MCTrialOf == [w \in Workspaces |-> 1]
MCProjects == {{}, {"pyproject.toml", "tests"}}

(* One workspace swept by two jobs at a time, or two by one at a time and nobody *)
(* invited again.                                                                *)
OneSweep ==
  \/ Cardinality(recorded) = 1
  \/ /\ \A k \in Sweepers : k = 1 \/ sweep'[k].at = "idle"
     /\ reinvited' = {}

(* Two of the jobs are enqueued, run keys in their order; not both of the company *)
(* where there are two workspaces.                                               *)
TwoSweeps ==
  LET there == {j \in SweepJobs : sweepJob'[j].status # "absent"} IN
  /\ Cardinality(there) <= 2
  /\ \A j \in there \cap RunKeys, i \in RunKeys :
       i < j => i \in there /\ Cardinality(recorded) = 1

CleanupBegins ==
  IF component = "cleanup"
  THEN recorded = {1} \/ (recorded = Workspaces /\ cleanupMode = "archive")
  ELSE recorded = {} /\ cleanupMode = "archive"

(* Only the second run is repeated, caches change only through requests, a run   *)
(* uploads once it is shown, reports before the submission are lost as if they   *)
(* were delivered, and once the submission has its run the other runs, their reports and requests     *)
(* matter no more.                                                               *)
RelevantRuns ==
  /\ workflowRun'[1].attempt = 1
  /\ answered'[1] = answered[1] \/ runRequest' # runRequest
  /\ listed'[1] = listed[1] \/ runRequest' # runRequest
  /\ \A r \in Runs : workflowRun'[r].uploaded => r \in shown
  /\ codeSubmission.run = NoRunYet /\ githubFaults' # githubFaults => deliveries' = deliveries
  /\ codeSubmission.run # NoRunYet =>
       /\ runRequest' = runRequest /\ branchHead' = branchHead /\ recent' = recent
       /\ shown' = shown
       /\ \A m \in deliveries : m[1] # codeSubmission.run => m \in deliveries'
       /\ listed' = listed /\ answered' = answered
       /\ \A r \in Runs : r # codeSubmission.run => workflowRun'[r] = workflowRun[r]

BootstrapBegins == component = "bootstrap" \/ ~demo

GithubInit ==
  /\ component \in {"cleanup", "workflow", "bootstrap"}
  /\ CleanupInit /\ CleanupBegins
  /\ WorkflowInit
  /\ BootstrapInit /\ BootstrapBegins

Cleanup ==
  /\ component = "cleanup"
  /\ CleanupNext /\ OneSweep /\ TwoSweeps
  /\ UNCHANGED <<component, workflowVars, bootstrapVars>>

Workflow ==
  /\ component = "workflow"
  /\ WorkflowNext /\ RelevantRuns
  /\ UNCHANGED <<component, cleanupVars, bootstrapVars>>

Bootstrap ==
  /\ component = "bootstrap"
  /\ BootstrapNext
  /\ UNCHANGED <<component, cleanupVars, workflowVars>>

GithubNext == Cleanup \/ Workflow \/ Bootstrap

GithubSpec == GithubInit /\ [][GithubNext]_githubVars

-----------------------------------------------------------------------------
(* The variables of all three components keep their types.                   *)
GithubTypeOK == CleanupTypeOK /\ WorkflowTypeOK /\ BootstrapTypeOK

(* What the rows say of a repository is so at GitHub, and only a finished     *)
(* candidate session loses its repository (the cleanup job's handlers).       *)
CleanupIsTrue == RecordsTellTruth /\ OverBeforeCleaned

(* A submission's results arrive, and are those of the run that was asked for *)
(* (build_result, workflow_run_handler).                                      *)
ResultsAreItsOwn == ResultsArrive /\ RunIsOfTheRequest
=============================================================================
