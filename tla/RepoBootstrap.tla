---------------------------- MODULE RepoBootstrap ----------------------------
(* How a candidate's repository comes to be.  An invitation with a GitHub   *)
(* name, or the candidate's first codespace request, creates a repository   *)
(* on GitHub, commits the brief, a devcontainer and the evidence workflow   *)
(* to it, asks for a codespace, lets the candidate in and stores group and  *)
(* workspace rows in one commit.  Every GitHub call may fail in between and *)
(* a later request starts over with what is there.  Pushes run the evidence *)
(* workflow, whose artifacts the backend reads.  In demo mode GitHub is an  *)
(* in-memory provider, which lasts as long as the process does.  CodingDays  *)
(* has the days of work on the repository.                                  *)
EXTENDS Integers, Sequences, FiniteSets

CONSTANTS
  Openers,        \* requests that ensure the workspace
  Projects,       \* sets of files a candidate's push may leave in the tree
  LastPush,       \* bound: the commits of the repository
  CodespaceTries, \* attempts at a codespace that is not found (7 in the code)
  GitFaults       \* bound: failing calls

ASSUME BootstrapAssumption ==
  LastPush \in Nat /\ GitFaults \in Nat /\ CodespaceTries \in Nat \ {0}

VARIABLES
  demo,        \* DEMO_MODE: the fake provider answers
  invited,     \* the candidate session is committed
  repository,  \* [there, head, members, put]: put are files written one by one
  commits,     \* commits made, head is an index, 0 for no branch
  workspace,   \* group and workspace rows: [there, base, codespace]
  opener,      \* [at, fresh, branch, base, codespace, tries] per request
  evidence,    \* evidence runs: the test command and the artifacts
  submitted,   \* [base, head] of a submission's diff, or NoDiff
  gitFaults
bootstrapVars == <<demo, invited, repository, commits, workspace, opener, evidence,
                   submitted, gitFaults>>

BootstrapFiles == {"devcontainer.json", "README.md", ".gitignore", "winoe-evidence-capture.yml"}
NoRepository == [there |-> FALSE, head |-> 0, members |-> {}, put |-> {}]
NoWorkspaceRows == [there |-> FALSE, base |-> 0, codespace |-> FALSE]
NoDiff == [base |-> -1, head |-> -1]
IdleOpener == [at |-> "idle", fresh |-> FALSE, branch |-> 0, base |-> 0,
               codespace |-> FALSE, tries |-> 0]

-----------------------------------------------------------------------------
(* GitHub, and the demo provider where it differs. *)
FilesAt(c) == IF c = 0 THEN {} ELSE commits[c].files
SeededAt(c) == c # 0 /\ commits[c].seeded

\* The demo provider knows a file only when it was written by itself.
FilesSeen == IF demo THEN repository.put ELSE FilesAt(repository.head)

\* A commit on top of another, whose tree keeps the files of that one.
CommitOn(parent, by, files) ==
  [by |-> by, files |-> FilesAt(parent) \cup files,
   seeded |-> SeededAt(parent) \/ BootstrapFiles \subseteq FilesAt(parent) \cup files]

\* The first file is a commit of its own.  GitHub refuses a file that is there
\* when the call names no version of it; the demo provider starts a new history.
PutFileRefused(f) == ~demo /\ f \in FilesAt(repository.head)
FileCommit(f) == CommitOn(IF demo THEN 0 ELSE repository.head, "winoe", {f})

\* A branch that exists is not created again on GitHub.
CreateRefRefused == ~demo /\ repository.head # 0

-----------------------------------------------------------------------------
(* The evidence workflow and what the backend reads of it. *)

\* Manifests in order, each with the command that runs the tests, if any.
TestCommand(files) ==
  CASE {"package.json", "test script"} \subseteq files -> "npm test"
    [] "pyproject.toml" \in files /\ "tests" \in files -> "python -m pytest"
    [] "go.mod" \in files -> "go test ./..."
    [] OTHER -> "none"

\* A JSON file of an artifact: its name and the keys at its top.
RecordKeys == {"schema_version", "repository_full_name", "commit_sha", "workflow_run_id",
               "generated_at", "status", "payload"}
CaptureArtifacts(files) ==
  {[artifact |-> named[1], file |-> named[2], keys |-> RecordKeys] :
     named \in {<<"winoe-commit-metadata", "commit_metadata.json">>,
       <<"winoe-repo-tree-summary", "repo_tree_summary.json">>,
       <<"winoe-test-detection", "test_detection.json">>,
       <<"winoe-test-results", "test_results.json">>,
       <<"winoe-evidence-manifest", "evidence_manifest.json">>}}
DemoArtifacts(files) ==
  {[artifact |-> "winoe-commit-metadata", file |-> "commit_metadata.json",
    keys |-> {"head_commit", "commits"}],
   [artifact |-> "winoe-test-results", file |-> "test_results.json",
    keys |-> {"passed", "failed", "total", "stdout", "stderr", "summary"}]}

\* The parser wants the agreed file, or any JSON file with the three counts.
PickTestArtifacts(artifacts) ==
  {a \in artifacts : a.artifact \in {"winoe-test-results", "tenon-test-results", "test-results", "junit"}}
ParseTestResults(artifacts) ==
  \E a \in PickTestArtifacts(artifacts) :
    a.file = "winoe-test-results.json" \/ {"passed", "failed", "total"} \subseteq a.keys

-----------------------------------------------------------------------------
(* A request. *)
Proceeds(o, at) == opener' = [opener EXCEPT ![o].at = at]
SpendFault == gitFaults < GitFaults /\ gitFaults' = gitFaults + 1
GitHubFails == ~demo /\ SpendFault

\* The demo provider answers without a wait: a bootstrap is not interrupted.
Bootstrapping == {"branch", "look", "readme", "rebranch", "tree", "actor", "codespace"}
Undisturbed(o) == demo => \A p \in Openers \ {o} : opener[p].at \notin Bootstrapping

\* An invitation is one transaction with the session it creates.  When its
\* e-mail fails, the repository it stored rows for is deleted; another attempt
\* makes another session, whose repository has another name.
\* Mutation: repositories of sessions that existed before are deleted too.
AlwaysCleansUp(o) == TRUE
CleansUp(o) == opener[o].fresh

Abandon(o, provisioned) ==
  /\ opener' = [opener EXCEPT ![o] = IdleOpener]
  /\ IF opener[o].fresh \/ (provisioned /\ CleansUp(o))
     THEN repository' = NoRepository /\ commits' = <<>>
     ELSE UNCHANGED <<repository, commits>>
  /\ UNCHANGED <<demo, invited, workspace, evidence, submitted>>

\* ensure_workspace: an invitation for a new session, or a request for one that
\* is there; with a workspace the candidate is only invited to it again.
EnsureWorkspace(o) ==
  /\ opener[o].at = "idle"
  /\ invited \/ \A p \in Openers : ~opener[p].fresh
  /\ opener' = [opener EXCEPT ![o] =
       [IdleOpener EXCEPT !.fresh = ~invited, !.at = IF workspace.there THEN "regrant" ELSE "create"]]
  /\ UNCHANGED <<demo, invited, repository, commits, workspace, evidence, submitted, gitFaults>>

\* Without a GitHub name the invitation stores no workspace.
InviteWithoutWorkspace(o) ==
  /\ opener[o].at = "create" /\ opener[o].fresh
  /\ Proceeds(o, "mail")
  /\ UNCHANGED <<demo, invited, repository, commits, workspace, evidence, submitted, gitFaults>>

Regrant(o) ==
  /\ opener[o].at = "regrant"
  /\ \/ repository' = [repository EXCEPT !.members = @ \cup {"candidate"}] /\ UNCHANGED gitFaults
     \/ GitHubFails /\ UNCHANGED repository
  /\ Proceeds(o, "mail")
  /\ UNCHANGED <<demo, invited, commits, workspace, evidence, submitted>>

\* A repository of that name is reused.
CreateEmptyRepo(o) ==
  /\ opener[o].at = "create"
  /\ repository' = [repository EXCEPT !.there = TRUE]
  /\ Proceeds(o, "branch")
  /\ UNCHANGED <<demo, invited, commits, workspace, evidence, submitted, gitFaults>>

\* An error while the branch is read counts as no branch.
GetBranch(o) ==
  /\ opener[o].at \in {"branch", "rebranch"}
  /\ \E found \in {repository.head, 0} :
       /\ IF found = repository.head THEN UNCHANGED gitFaults ELSE GitHubFails
       /\ opener' = [opener EXCEPT ![o].branch = found,
                                   ![o].at = IF @ = "branch" THEN "look" ELSE "tree"]
  /\ UNCHANGED <<demo, invited, repository, commits, workspace, evidence, submitted>>

\* Mutation: a repository that has a branch needs no bootstrap.
NeededWithoutBranch(o) == opener[o].branch = 0 /\ ~(BootstrapFiles \subseteq FilesSeen)
BootstrapNeeded(o) == ~(BootstrapFiles \subseteq FilesSeen)
LookForFiles(o) ==
  /\ opener[o].at = "look"
  /\ opener' = [opener EXCEPT
       ![o].at = IF ~BootstrapNeeded(o) THEN "actor"
                 ELSE IF opener[o].branch = 0 THEN "readme" ELSE "tree",
       ![o].base = IF BootstrapNeeded(o) THEN 0 ELSE opener[o].branch]
  /\ UNCHANGED <<demo, invited, repository, commits, workspace, evidence, submitted, gitFaults>>

\* An empty repository takes no blobs: its brief is written as a file first.
PutReadme(o) ==
  /\ opener[o].at = "readme" /\ ~PutFileRefused("README.md") /\ Len(commits) < LastPush
  /\ commits' = Append(commits, FileCommit("README.md"))
  /\ repository' = [repository EXCEPT !.head = Len(commits'), !.put = @ \cup {"README.md"}]
  /\ Proceeds(o, "rebranch")
  /\ UNCHANGED <<demo, invited, workspace, evidence, submitted, gitFaults>>

\* Blobs, a tree over that of the branch, a commit, and the branch forced to it
\* (or created, when the request knows of none).
SeedBranch(o) ==
  /\ opener[o].at = "tree" /\ Len(commits) < LastPush
  /\ opener[o].branch # 0 \/ ~CreateRefRefused
  /\ commits' = Append(commits, CommitOn(opener[o].branch, "winoe", BootstrapFiles))
  /\ repository' = [repository EXCEPT !.head = Len(commits')]
  /\ opener' = [opener EXCEPT ![o].at = "actor", ![o].base = Len(commits')]
  /\ UNCHANGED <<demo, invited, workspace, evidence, submitted, gitFaults>>

EnsureActorAccess(o) ==
  /\ opener[o].at = "actor"
  /\ \/ repository' = [repository EXCEPT !.members = @ \cup {"winoe"}] /\ UNCHANGED gitFaults
     \/ GitHubFails /\ UNCHANGED repository
  /\ Proceeds(o, "codespace")
  /\ UNCHANGED <<demo, invited, commits, workspace, evidence, submitted>>

\* Not found is tried again a few times; then, or when codespaces are down, the
\* workspace goes without.
CreateCodespace(o) ==
  /\ opener[o].at = "codespace"
  /\ \/ /\ opener' = [opener EXCEPT ![o].at = "grant", ![o].codespace = TRUE]
        /\ UNCHANGED gitFaults
     \/ /\ GitHubFails
        /\ opener' = [opener EXCEPT ![o].at = "grant"]
     \/ /\ GitHubFails
        /\ opener' = [opener EXCEPT ![o].tries = @ + 1,
             ![o].at = IF opener[o].tries + 1 < CodespaceTries THEN @ ELSE "grant"]
  /\ UNCHANGED <<demo, invited, repository, commits, workspace, evidence, submitted>>

AddCandidate(o) ==
  /\ opener[o].at = "grant"
  /\ \/ repository' = [repository EXCEPT !.members = @ \cup {"candidate"}] /\ UNCHANGED gitFaults
     \/ GitHubFails /\ UNCHANGED repository
  /\ opener' = [opener EXCEPT ![o].at = IF opener[o].fresh THEN "mail" ELSE "store"]
  /\ UNCHANGED <<demo, invited, commits, workspace, evidence, submitted>>

\* Rows, unless another request has stored them: the loser takes those.
OwnRows(o) == [there |-> TRUE, base |-> opener[o].base, codespace |-> opener[o].codespace]
StoreWorkspace(o) ==
  /\ opener[o].at = "store"
  /\ workspace' = IF workspace.there THEN workspace ELSE OwnRows(o)
  /\ repository' = IF workspace.there
       THEN [repository EXCEPT !.members = @ \cup {"candidate"}] ELSE repository
  /\ opener' = [opener EXCEPT ![o] = IdleOpener]
  /\ UNCHANGED <<demo, invited, commits, evidence, submitted, gitFaults>>

\* The e-mail of an invitation, and its commit with session and rows.
MailAndCommit(o) ==
  /\ opener[o].at = "mail"
  /\ invited' = TRUE
  /\ workspace' = IF opener[o].fresh /\ repository.there THEN OwnRows(o) ELSE workspace
  /\ opener' = [opener EXCEPT ![o] = IdleOpener]
  /\ UNCHANGED <<demo, repository, commits, evidence, submitted, gitFaults>>
MailFails(o) == opener[o].at = "mail" /\ SpendFault /\ Abandon(o, repository.there)

\* Any other call fails, or is refused: the request does, and keeps no rows.
RequestFails(o) ==
  /\ opener[o].at \in {"create", "look", "readme", "rebranch", "tree", "actor", "codespace",
                       "store"}
  /\ IF \/ opener[o].at = "readme" /\ PutFileRefused("README.md")
        \/ opener[o].at = "tree" /\ opener[o].branch = 0 /\ CreateRefRefused
     THEN UNCHANGED gitFaults
     ELSE IF opener[o].at = "store" THEN SpendFault ELSE GitHubFails
  /\ Abandon(o, FALSE)

-----------------------------------------------------------------------------
(* The candidate, the workflow, and the submission's diff. *)
CandidatePush ==
  /\ "candidate" \in repository.members /\ repository.head # 0 /\ ~demo
  /\ Len(commits) < LastPush
  /\ \E project \in Projects :
       commits' = Append(commits, CommitOn(repository.head, "candidate", project))
  /\ repository' = [repository EXCEPT !.head = Len(commits')]
  /\ UNCHANGED <<demo, invited, workspace, opener, evidence, submitted, gitFaults>>

\* A push runs the workflow that its tree holds; the demo provider answers a
\* dispatch with a finished run.
RunEvidence ==
  /\ workspace.there /\ repository.head # 0
  /\ demo \/ "winoe-evidence-capture.yml" \in FilesAt(repository.head)
  /\ evidence' = evidence \cup {[tests |-> TestCommand(FilesAt(repository.head)),
       artifacts |-> IF demo THEN DemoArtifacts(FilesAt(repository.head))
                     ELSE CaptureArtifacts(FilesAt(repository.head))]}
  /\ UNCHANGED <<demo, invited, repository, commits, workspace, opener, submitted, gitFaults>>

\* build_diff_summary: without a stored base the branch itself is the base.
SubmitDiff ==
  /\ invited /\ workspace.there /\ submitted = NoDiff
  /\ submitted' = [base |-> IF workspace.base # 0 THEN workspace.base ELSE repository.head,
                   head |-> repository.head]
  /\ UNCHANGED <<demo, invited, repository, commits, workspace, opener, evidence, gitFaults>>

-----------------------------------------------------------------------------
BootstrapInit ==
  /\ demo \in BOOLEAN /\ invited = FALSE /\ repository = NoRepository /\ commits = <<>>
  /\ workspace = NoWorkspaceRows /\ opener = [o \in Openers |-> IdleOpener]
  /\ evidence = {} /\ submitted = NoDiff /\ gitFaults = 0

RequestStep(o) ==
  \/ EnsureWorkspace(o) \/ InviteWithoutWorkspace(o) \/ Regrant(o) \/ CreateEmptyRepo(o)
  \/ GetBranch(o) \/ LookForFiles(o) \/ PutReadme(o) \/ SeedBranch(o) \/ EnsureActorAccess(o)
  \/ CreateCodespace(o) \/ AddCandidate(o) \/ StoreWorkspace(o) \/ MailAndCommit(o)
  \/ MailFails(o) \/ RequestFails(o)

BootstrapNext ==
  \/ \E o \in Openers : Undisturbed(o) /\ RequestStep(o)
  \/ CandidatePush \/ RunEvidence \/ SubmitDiff

BootstrapSpec == BootstrapInit /\ [][BootstrapNext]_bootstrapVars

BootstrapTypeOK ==
  /\ demo \in BOOLEAN /\ invited \in BOOLEAN /\ gitFaults \in 0..GitFaults
  /\ repository.head \in 0..Len(commits) /\ Len(commits) <= LastPush
  /\ repository.members \subseteq {"winoe", "candidate"}
  /\ workspace.base \in 0..Len(commits)
  /\ \A o \in Openers : opener[o].branch \in 0..Len(commits)

(* A workspace that is stored has a repository whose branch descends from a  *)
(* commit with the brief, the devcontainer and the evidence workflow,        *)
(* however many requests failed at whatever call before, or ran side by side *)
(* (bootstrap_empty_candidate_repo and create_candidate_invite_workflow).    *)
StoredRepositoryIsSeeded ==
  workspace.there => repository.there /\ SeededAt(repository.head)

(* The diff of a submission starts at the bootstrap commit, before all that  *)
(* the candidate did ("this now stores the repo bootstrap commit SHA",       *)
(* submissions_workspace_creation_group_repo_service.py:70).                 *)
DiffShowsAllWork ==
  submitted # NoDiff =>
    /\ submitted.base = submitted.head => commits[submitted.head].by = "winoe"
    /\ commits[submitted.base].by = "winoe"

(* "Artifact zip should contain winoe-test-results.json" with the counts, or *)
(* any JSON with them (docs/codespaces_actions.md:25): what the workflow     *)
(* wrote about a project's tests can be read.                                *)
TestResultsAreRead ==
  \A run \in evidence : run.tests # "none" => ParseTestResults(run.artifacts)
=============================================================================
