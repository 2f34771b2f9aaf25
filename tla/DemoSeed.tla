-------------------------------- MODULE DemoSeed --------------------------------
(* Seeding the rehearsal dataset: what an earlier one left is deleted in one *)
(* transaction, then company, trial and each candidate's finished session,   *)
(* repository, submissions and report are written in another                 *)
(* (app/demo/services/yc_demo_seed_service.py, scripts/seed_demo.py).  The   *)
(* demo is used between two seeds, and a candidate of the demo may be        *)
(* invited to a trial of another company.  Ids are never reused: a row is    *)
(* its kind, whose it is, and the seed that wrote it.                        *)
EXTENDS Naturals, Sequences, SequencesExt

CONSTANTS
  DemoCandidates,  \* _demo_candidate_profiles
  LastSeed,        \* bound: seeds run
  DemoFaults       \* bound: failing GitHub calls and deaths

ASSUME DemoAssumption ==
  /\ IsFiniteSet(DemoCandidates) /\ {"guest", "demo"} \cap DemoCandidates = {}
  /\ LastSeed \in Nat /\ DemoFaults \in Nat

VARIABLES
  rows,     \* committed rows <<kind, whose, seed>>
  seeder,   \* [at, seed, selected, removed, added, left]
  repos,    \* candidates whose repository exists at GitHub
  refused,  \* seeds whose clearing the database refused
  demoFaults
demoVars == <<rows, seeder, repos, refused, demoFaults>>

OfTrial == {"company", "partner", "trial", "task", "version"}
OfSession == {"session", "group", "workspace", "submission", "audit", "recording", "transcript",
              "run", "score", "review", "marker"}
ByUse == {"draft", "notice", "edit", "job"}
SeededRows(n) == {<<k, "demo", n>> : k \in OfTrial}
SessionRows(c, n) == {<<k, c, n>> : k \in OfSession}
Whole(n) == SeededRows(n) \cup UNION {SessionRows(c, n) : c \in DemoCandidates}
GuestRow == <<"session", "guest", 0>>

DemoTypeOK ==
  /\ \A r \in rows : r[1] \in OfTrial \cup OfSession \cup ByUse /\ r[3] \in 0..LastSeed
  /\ seeder.at \in {"idle", "select", "reports", "sessions", "trials", "commit", "company",
                    "session", "repository", "submissions", "report", "finish"}
  /\ seeder.seed \in 0..LastSeed /\ repos \subseteq DemoCandidates
  /\ refused \in 0..LastSeed /\ demoFaults \in 0..DemoFaults

IdleSeeder(n) == [at |-> "idle", seed |-> n, selected |-> {}, removed |-> {}, added |-> {},
                  left |-> <<>>]
DemoInit ==
  /\ rows = {} /\ seeder = IdleSeeder(0) /\ repos = {} /\ refused = 0 /\ demoFaults = 0

Seen == (rows \ seeder.removed) \cup seeder.added
SeederTo(at) == seeder' = [seeder EXCEPT !.at = at]

\* Foreign keys without ON DELETE CASCADE: what a row needs.
Parents(k) ==
  CASE k \in {"partner", "job"} -> {"company"}
    [] k \in {"task", "version"} -> {"trial"}
    [] k = "trial" -> {"company", "partner"}
    [] k = "session" -> {"trial", "version"}
    [] k = "submission" -> {"session", "task", "recording"}
    [] k = "recording" -> {"session", "task"}
    [] k = "transcript" -> {"recording"}
    [] k = "draft" -> {"session", "task", "submission"}
    [] k = "notice" -> {"session", "trial"}
    [] k = "edit" -> {"version", "partner"}
    [] OTHER -> {}
Needs(r, p) ==
  /\ p[1] \in Parents(r[1]) \cup (IF r[1] = "job" THEN {"session"} ELSE {})
  /\ r[3] = p[3] /\ (p[2] = r[2] \/ p[2] = "demo")

-----------------------------------------------------------------------------
(* Use of the demo. *)
UseDemo ==
  /\ \E k \in ByUse, s \in {r \in rows : r[1] = "session" /\ r[2] # "guest"} :
       LET made == <<k, IF k = "edit" THEN "demo" ELSE s[2], s[3]>>
       IN  /\ made \notin rows
           /\ \A p \in rows : Needs(made, p) => p \notin seeder.removed
           /\ rows' = rows \cup {made}
  /\ UNCHANGED <<seeder, repos, refused, demoFaults>>
\* Another company invites a candidate of the demo.
InviteGuest ==
  /\ GuestRow \notin rows /\ rows' = rows \cup {GuestRow}
  /\ UNCHANGED <<seeder, repos, refused, demoFaults>>

-----------------------------------------------------------------------------
(* _clear_demo_scope: one transaction, its ids selected first. *)
StartSeed ==
  /\ seeder.at = "idle" /\ seeder.seed < LastSeed
  /\ seeder' = [IdleSeeder(seeder.seed + 1) EXCEPT !.at = "select"]
  /\ UNCHANGED <<rows, repos, refused, demoFaults>>

\* --reset-db: every table is emptied first, in a transaction of its own.
ResetDatabase ==
  /\ seeder.at = "select" /\ rows # {}
  /\ rows' = {}
  /\ UNCHANGED <<seeder, repos, refused, demoFaults>>

\* By company, trial, session and address; drafts, notices and edits by nothing.
InScope(r) == r[1] \notin {"draft", "notice", "edit"}
Select ==
  /\ seeder.at = "select"
  /\ seeder' = [seeder EXCEPT !.at = "reports", !.selected = {r \in rows : InScope(r)}]
  /\ UNCHANGED <<rows, repos, refused, demoFaults>>

\* The database refuses to delete what a remaining row refers to.
MayDelete(gone) == \A r \in Seen \ gone, p \in gone : ~Needs(r, p)

Delete(kinds, next) ==
  LET gone == {r \in seeder.selected : r[1] \in kinds}
  IN  IF MayDelete(gone)
      THEN /\ seeder' = [seeder EXCEPT !.at = next, !.removed = @ \cup gone]
           /\ UNCHANGED <<rows, repos, refused, demoFaults>>
      ELSE /\ seeder' = IdleSeeder(seeder.seed) /\ refused' = seeder.seed
           /\ UNCHANGED <<rows, repos, demoFaults>>
DeleteReports == seeder.at = "reports" /\ Delete({"review", "score", "run"}, "sessions")
DeleteSessions ==
  seeder.at = "sessions" /\ Delete(OfSession \cup {"job"}, "trials")
DeleteTrials == seeder.at = "trials" /\ Delete(OfTrial, "commit")
CommitClear ==
  /\ seeder.at = "commit"
  /\ rows' = rows \ seeder.removed
  /\ seeder' = [seeder EXCEPT !.at = "company", !.removed = {}, !.selected = {}]
  /\ UNCHANGED <<repos, refused, demoFaults>>

-----------------------------------------------------------------------------
(* seed_yc_demo_dataset: a second transaction, committed once at its end. *)
Adds(new, next) == seeder' = [seeder EXCEPT !.at = next, !.added = @ \cup new]
Candidate == Head(seeder.left)
Row(k) == <<k, Candidate, seeder.seed>>

AddTrial ==
  /\ seeder.at = "company"
  /\ seeder' = [seeder EXCEPT !.at = "session", !.added = SeededRows(seeder.seed),
                              !.left = SetToSeq(DemoCandidates)]
  /\ UNCHANGED <<rows, repos, refused, demoFaults>>
AddSession ==
  /\ seeder.at = "session"
  /\ IF seeder.left = <<>> THEN SeederTo("finish") ELSE Adds({Row("session")}, "repository")
  /\ UNCHANGED <<rows, repos, refused, demoFaults>>
\* bootstrap_empty_candidate_repo: an existing repository is taken again.
AddRepository ==
  /\ seeder.at = "repository"
  /\ repos' = repos \cup {Candidate}
  /\ Adds({Row("group"), Row("workspace")}, "submissions")
  /\ UNCHANGED <<rows, refused, demoFaults>>
\* _candidate_submissions, the recording of day 4 and the audits of days 2 and 3.
RecordingRows == {Row("recording"), Row("transcript")}
SubmissionRows == {Row("submission")}
AuditRows == {Row("audit")}
AddSubmissions ==
  /\ seeder.at = "submissions"
  /\ Adds(RecordingRows \cup SubmissionRows \cup AuditRows, "report")
  /\ UNCHANGED <<rows, repos, refused, demoFaults>>

\* Mutation: create_run commits, as it does by default.
CommitsRun(new) == rows' = (rows \cup seeder.added) \cup new
LeavesRunOpen(new) == UNCHANGED rows
ScoreRows == {Row("score")}
DemoReviewRows == {Row("review")}
ReportRows == {Row("run"), Row("marker")} \cup ScoreRows \cup DemoReviewRows
AddReport ==
  /\ seeder.at = "report"
  /\ LeavesRunOpen(ReportRows)
  /\ seeder' = [seeder EXCEPT !.at = "session", !.added = @ \cup ReportRows, !.left = Tail(@)]
  /\ UNCHANGED <<repos, refused, demoFaults>>
CommitSeed ==
  /\ seeder.at = "finish"
  /\ rows' = rows \cup seeder.added
  /\ seeder' = IdleSeeder(seeder.seed)
  /\ UNCHANGED <<repos, refused, demoFaults>>

\* A GitHub call raises, or the script dies: the open transaction is rolled back.
SeedFails ==
  /\ seeder.at # "idle" /\ demoFaults < DemoFaults
  /\ demoFaults' = demoFaults + 1
  /\ repos' \in {repos, repos \cup (IF seeder.at = "repository" THEN {Candidate} ELSE {})}
  /\ seeder' = IdleSeeder(seeder.seed)
  /\ UNCHANGED <<rows, refused>>

DemoNext ==
  \/ UseDemo \/ InviteGuest \/ StartSeed \/ ResetDatabase \/ Select \/ DeleteReports \/ DeleteSessions
  \/ DeleteTrials \/ CommitClear \/ AddTrial \/ AddSession \/ AddRepository \/ AddSubmissions
  \/ AddReport \/ CommitSeed \/ SeedFails
DemoSpec == DemoInit /\ [][DemoNext]_demoVars

-----------------------------------------------------------------------------
(* Whenever a seed fails or dies, what other sessions read of the demo is one *)
(* whole dataset, of one seed, with its repositories, or nothing of it: never *)
(* a part, and never a row whose parent is gone (seed_yc_demo_dataset's two  *)
(* transactions; commit=False of create_run, add_day_scores, upsert_marker). *)
DemoIsWholeOrGone ==
  /\ \/ \A r \in rows : r[2] = "guest"
     \/ \E n \in 1..LastSeed :
          /\ Whole(n) \subseteq rows
          /\ \A r \in rows : r[3] = n \/ r[2] = "guest"
          /\ DemoCandidates \subseteq repos
=============================================================================
