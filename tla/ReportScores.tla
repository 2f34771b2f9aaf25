---------------------------- MODULE ReportScores ----------------------------
(* What a Winoe report is made of.  A scenario version freezes the rules    *)
(* of its evaluations: which days the AI may score and which model reviews  *)
(* each, in its AI policy snapshot, and the rubrics in rubric snapshots.    *)
(* An evaluation builds one input per day from the candidate's work, has    *)
(* each enabled day reviewed (by a provider, with another to fall back on,  *)
(* or by the built-in scoring), has the reviews aggregated, and writes      *)
(* review reports and day scores in one transaction.  A page composes the   *)
(* report from those rows.  Scores are in hundredths.  EvaluationRuns has   *)
(* the life of the runs themselves; here one evaluation runs at a time.     *)
(* The version is the trial's first, which a re-run of creation's job       *)
(* rewrites even when candidates were invited to it (TrialLifecycle).       *)
EXTENDS Integers, FiniteSets

CONSTANTS
  ReportSessions,  \* candidate sessions of one scenario version
  CandidateWork,   \* the work a session may hold: [Days -> day records]
  Toggles,         \* sets of days a trial may enable for the AI
  ReviewConfigs,   \* [real, provider, spare]: agents that call a provider, and which
  ProviderScores,  \* scores a provider may give
  StrayAnswers,    \* <<asked, answered>>: days a provider may mix up
  LastRubric,      \* company rubrics come as versions 1 .. LastRubric
  LastEdition,     \* bound: editions of a version that candidates are invited to
  ReviewFaults     \* how often a provider fails

Days == 1..5
DayRecords ==
  [chars : Nat, commit : Nat, cutoff : Nat, diff : BOOLEAN, passed : Nat, failed : Nat,
   artifacts : SUBSET {"testResults", "commitMetadata", "other"}, coverage : BOOLEAN,
   repo : BOOLEAN, segments : Nat, ready : BOOLEAN]
ASSUME ReportAssumption ==
  /\ CandidateWork \subseteq [Days -> DayRecords]
  /\ Toggles \subseteq SUBSET Days
  /\ ProviderScores \subseteq 0..100 /\ StrayAnswers \subseteq Days \X Days
  /\ LastRubric \in Nat /\ LastEdition \in Nat /\ ReviewFaults \in Nat

VARIABLES
  trialToggles,    \* days the trial enables, as the talent partner last set them
  companyRubric,   \* version of the trial's company rubric, 0 for none
  reviewConfig,    \* the deployment's models for each agent
  version,         \* [locked, edition, enabled, config]: the version and its policy snapshot
  rubricRows,      \* rubrics snapshotted for the version, 0 for Winoe's own
  shown,           \* per session: the days its claim page says the AI scores
  evaluated,       \* per session: the evaluation run, or NoEvaluation
  attempt,         \* the evaluation under way, or NoAttempt
  reviewFaults
reportVars == <<trialToggles, companyRubric, reviewConfig, version, rubricRows,
                shown, evaluated, attempt, reviewFaults>>

NotShown == [edition |-> 0, days |-> {}]

(* The edition counts how often the policy snapshot was written, from the  *)
(* first invitation on: 0 before it.  A run and an attempt keep the version *)
(* as it was when they read the snapshot (policy) and the rubrics (rules).  *)
NoVersion == [locked |-> FALSE, edition |-> 0, enabled |-> {}, config |-> {}]
NoEvaluation == [status |-> "none", scores |-> {}, reviews |-> {}, raw |-> {},
                 overall |-> 0, rubric |-> 0, policy |-> NoVersion, rules |-> NoVersion]
NoAttempt == [session |-> 0, work |-> {}, policy |-> NoVersion, rules |-> NoVersion,
              rows |-> {}, snapshot |-> "none", answers |-> {}, at |-> "none"]
Least(a, b) == IF a < b THEN a ELSE b

-----------------------------------------------------------------------------
(* Inputs of a day.  A day record has the submission's text length, commit, *)
(* diff, test counts and stored artifacts, the day's cutoff commit, and on  *)
(* day 4 the transcript's state, segments and length.                       *)
ReviewerOf(d) ==
  CASE d = 1 -> "designDocReviewer" [] d \in {2, 3} -> "codeImplementationReviewer"
    [] d = 4 -> "demoPresentationReviewer" [] d = 5 -> "reflectionEssayReviewer"

\* The commit that counts is the day's cutoff, and the submission's without one.
CommitOf(day) == IF day.cutoff # 0 THEN day.cutoff ELSE day.commit

CodeEvidence(day) ==
  LET shows == [commit |-> CommitOf(day) # 0, diff |-> day.diff,
                tests |-> day.passed + day.failed > 0]
      pieces == {k \in DOMAIN shows : shows[k]} IN
  {[kind |-> k, ref |-> IF k = "commit" THEN CommitOf(day) ELSE day.commit] : k \in pieces}

TextEvidence(day) == IF day.chars = 0 THEN {} ELSE {[kind |-> "submission", ref |-> 0]}

TranscriptEvidence(day) ==
  {[kind |-> "transcript", ref |-> n] : n \in 1..Least(3, day.segments)}

EvidenceOf(work, d) ==
  CASE d \in {2, 3} -> CodeEvidence(work[d])
    [] d = 4 -> TranscriptEvidence(work[d])
    [] OTHER -> TextEvidence(work[d])

\* The built-in score: evidence counts up to 40, the rest by the kind of day.
ScoreForDay(work, d) ==
  LET day == work[d]
      evidence == EvidenceOf(work, d)
      kinds == {e.kind : e \in evidence}
      pieces == IF d = 4 THEN Least(3, day.segments)
                ELSE IF d \in {2, 3} THEN Cardinality(kinds)
                ELSE Least(1, day.chars)
      total == day.passed + day.failed
      tested == IF "tests" \notin kinds THEN 0
                ELSE 8 + (15 * day.passed) \div total
  IN Least(100, 8 + Least(40, 12 * pieces) +
       (CASE d \in {1, 5} -> Least(42, Least(280, day.chars) \div 7)
          [] d \in {2, 3} -> (IF "commit" \in kinds THEN 20 ELSE 0)
                             + (IF "diff" \in kinds THEN 12 ELSE 0) + tested
          [] d = 4 -> Least(50, day.chars \div 12)))

\* Which process evidence of days 2 and 3 the reviewers are told is at hand.
ArtifactsAtHand(work) ==
  LET stored == work[2].artifacts \cup work[3].artifacts IN
  {a \in stored : a # "testResults"}
    \cup {a \in {"testResults"} : \E d \in {2, 3} : a \in work[d].artifacts /\ work[d].coverage}
SnapshotStatus(work) ==
  LET submitted == \E d \in {2, 3} : work[d].commit # 0
      repository == \E d \in {2, 3} : work[d].repo IN
  CASE ~submitted /\ ~repository -> "unavailable"
    [] repository /\ ArtifactsAtHand(work) # {} -> "available"
    [] OTHER -> "partial"

-----------------------------------------------------------------------------
(* The version and its rules. *)

\* A talent partner changes the trial's settings.  Snapshots are not touched.
UpdateTrial(days) ==
  /\ trialToggles' = days
  /\ UNCHANGED <<companyRubric, reviewConfig, version, rubricRows, shown, evaluated,
                 attempt, reviewFaults>>

\* The company's rubric on the trial is replaced.
ReplaceCompanyRubric ==
  /\ companyRubric < LastRubric
  /\ companyRubric' = companyRubric + 1
  /\ UNCHANGED <<trialToggles, reviewConfig, version, rubricRows, shown, evaluated,
                 attempt, reviewFaults>>

\* Winoe's own rubric (0) and the company's of the trial get a row for the
\* version, once per rubric version; rows that exist keep their content.
Materialized(rows) == rows \cup {0, companyRubric}

\* Generation builds the policy snapshot and materializes the rubrics.  It comes
\* again when its job is run again, and what it writes is not locked, whether or
\* not candidates were invited to the version.
GenerateVersion ==
  /\ version.edition < LastEdition
  /\ version' = [locked |-> FALSE, enabled |-> trialToggles, config |-> {reviewConfig},
                 edition |-> IF version.edition = 0 THEN 0 ELSE version.edition + 1]
  /\ rubricRows' = Materialized(rubricRows)
  /\ UNCHANGED <<trialToggles, companyRubric, reviewConfig, shown, evaluated, attempt,
                 reviewFaults>>

\* An invitation locks what is not locked, and materializes the rubrics once more.
LockVersion ==
  /\ ~version.locked /\ version.config # {} /\ LastEdition > 0
  /\ version' = [version EXCEPT !.locked = TRUE, !.edition = IF @ = 0 THEN 1 ELSE @]
  /\ rubricRows' = Materialized(rubricRows)
  /\ UNCHANGED <<trialToggles, companyRubric, reviewConfig, shown, evaluated, attempt,
                 reviewFaults>>

\* The candidate claims the session and is told which days the AI scores.
RenderClaim(s) ==
  /\ version.edition > 0 /\ shown[s] = NotShown
  /\ shown' = [shown EXCEPT ![s] = [edition |-> version.edition, days |-> version.enabled]]
  /\ UNCHANGED <<trialToggles, companyRubric, reviewConfig, version, rubricRows,
                 evaluated, attempt, reviewFaults>>

-----------------------------------------------------------------------------
(* An evaluation. *)

\* Rows of the version, or those materialized now when it has none.
\* Mutation: the rubrics are materialized anew for every evaluation.
AlwaysMaterialized(rows) == {0, companyRubric}
RubricSnapshots(rows) == IF rows # {} THEN rows ELSE Materialized(rows)

\* A company's rubric comes before Winoe's own; of several the first by version.
EffectiveRubric(rows) ==
  IF rows = {0} THEN 0 ELSE CHOOSE r \in rows \ {0} : \A o \in rows \ {0} : r <= o

\* Mutation: the toggles are the trial's, as they are now.
TogglesOfTrial(v) == trialToggles
EnabledDays(v) == v.enabled

\* A day is reviewed when its toggle is on; day 4 also needs a ready transcript.
ReviewedDays(a) == EnabledDays(a.policy) \ (IF a.work[4].ready THEN {} ELSE {4})
ModelsOf(v) == CHOOSE c \in v.config : TRUE
\* Reviewers of the snapshot run in demo or test mode, or call a provider.
CallsProvider(agent) == agent \in ModelsOf(attempt.policy).real

\* The policy snapshot is read with the session, the rubrics after the work.
BeginEvaluation(s) ==
  /\ attempt = NoAttempt /\ evaluated[s] = NoEvaluation /\ shown[s] # NotShown
  /\ \E work \in CandidateWork :
       attempt' = [NoAttempt EXCEPT !.session = s, !.work = work, !.policy = version,
                                    !.snapshot = SnapshotStatus(work), !.at = "rubrics"]
  /\ UNCHANGED <<trialToggles, companyRubric, reviewConfig, version, rubricRows, shown,
                 evaluated, reviewFaults>>
ReadRubrics ==
  /\ attempt.at = "rubrics"
  /\ attempt' = [attempt EXCEPT !.rows = RubricSnapshots(rubricRows), !.rules = version,
                                !.at = "review"]
  /\ UNCHANGED <<trialToggles, companyRubric, reviewConfig, version, rubricRows, shown,
                 evaluated, reviewFaults>>

\* The next day in order that no answer was asked for yet.
NextDay(d) ==
  /\ d \in ReviewedDays(attempt) \ {a.asked : a \in attempt.answers}
  /\ \A o \in Days : o < d => o \notin ReviewedDays(attempt) \ {a.asked : a \in attempt.answers}

AnswerFor(d, answered, score, evidence) ==
  attempt' = [attempt EXCEPT !.at = "review",
    !.answers = @ \cup {[asked |-> d, day |-> answered, score |-> score, evidence |-> evidence]}]

DeterministicReview(d) ==
  /\ attempt.at = "review" /\ NextDay(d) /\ ~CallsProvider(ReviewerOf(d))
  /\ AnswerFor(d, d, ScoreForDay(attempt.work, d), EvidenceOf(attempt.work, d))
  /\ UNCHANGED <<trialToggles, companyRubric, reviewConfig, version, rubricRows, shown,
                 evaluated, reviewFaults>>

\* The day in a provider's answer is the provider's: it is not compared with
\* the day that was asked about.
AnswerDays(d) == {d} \cup {a \in Days : <<d, a>> \in StrayAnswers}
ReviewDay(d) ==
  /\ attempt.at \in {"review", "fallback"} /\ NextDay(d) /\ CallsProvider(ReviewerOf(d))
  /\ \E answered \in AnswerDays(d), score \in ProviderScores :
       AnswerFor(d, answered, score, EvidenceOf(attempt.work, d))
  /\ UNCHANGED <<trialToggles, companyRubric, reviewConfig, version, rubricRows, shown,
                 evaluated, reviewFaults>>

\* A busy OpenAI is replaced by Anthropic when that is configured, and its
\* error, or that of a provider without a spare, ends the evaluation: a busy
\* provider so that the job is tried again, anything else for good.
ProviderFails ==
  /\ attempt.at \in {"review", "aggregate", "fallback", "aggregate_fallback"}
  /\ \/ \E d \in Days : NextDay(d) /\ CallsProvider(ReviewerOf(d))
     \/ attempt.at \in {"aggregate", "aggregate_fallback"}
  /\ reviewFaults < ReviewFaults
  /\ reviewFaults' = reviewFaults + 1
  /\ \E busy \in BOOLEAN :
       attempt' = [attempt EXCEPT !.at =
         IF busy /\ ModelsOf(attempt.policy).spare /\ ModelsOf(attempt.policy).provider = "openai"
              /\ @ \in {"review", "aggregate"}
         THEN IF @ = "review" THEN "fallback" ELSE "aggregate_fallback"
         ELSE IF busy THEN "retry" ELSE "failed"]
  /\ UNCHANGED <<trialToggles, companyRubric, reviewConfig, version, rubricRows, shown,
                 evaluated>>

\* A retried evaluation leaves nothing: its transaction was never committed.
GiveUpAttempt ==
  /\ attempt.at = "retry"
  /\ attempt' = NoAttempt
  /\ UNCHANGED <<trialToggles, companyRubric, reviewConfig, version, rubricRows, shown,
                 evaluated, reviewFaults>>

StartAggregation ==
  /\ attempt.at = "review" /\ ReviewedDays(attempt) = {a.asked : a \in attempt.answers}
  /\ attempt' = [attempt EXCEPT !.at = "aggregate"]
  /\ UNCHANGED <<trialToggles, companyRubric, reviewConfig, version, rubricRows, shown,
                 evaluated, reviewFaults>>

-----------------------------------------------------------------------------
(* The raw report, the rows and the composed report. *)
Placeholder(d) == [day |-> d, status |-> "human_review_required", score |-> 0]
ScoredDay(d, score) == [day |-> d, status |-> "scored", score |-> score]

\* Reviewers' day scores stand; the aggregator only fills in days they lack.
\* Mutation: the aggregator's word on a day replaces the reviewer's.
AggregatorWins(mine, others) ==
  {x \in mine : \A o \in others : o.day # x.day} \cup others
MergeDayScores(mine, others) == mine \cup {o \in others : \A x \in mine : x.day # o.day}

ReviewerDayScores ==
  {Placeholder(d) : d \in Days \ ReviewedDays(attempt)}
    \cup {ScoredDay(a.day, a.score) : a \in attempt.answers}

SumOver(answers) ==
  LET points(d) == IF \E a \in answers : a.asked = d
                   THEN (CHOOSE a \in answers : a.asked = d).score ELSE 0
  IN points(1) + points(2) + points(3) + points(4) + points(5)
CountOf(answers) ==
  LET one(d) == IF \E a \in answers : a.asked = d THEN 1 ELSE 0
  IN one(1) + one(2) + one(3) + one(4) + one(5)
AggregateScores(answers) ==
  IF answers = {} THEN 0 ELSE SumOver(answers) \div CountOf(answers)

\* Two reviews of a day by one reviewer are refused before anything is
\* written, two scores of a day only after the reviews were flushed: the
\* failed run that is committed then keeps the reviews.
ReviewRows == {[reviewer |-> ReviewerOf(a.asked), day |-> a.day, score |-> a.score] :
                 a \in attempt.answers}
TwiceReviewed == \E a, b \in attempt.answers :
  a # b /\ a.day = b.day /\ ReviewerOf(a.asked) = ReviewerOf(b.asked)
TwiceScored == \E a, b \in attempt.answers : a # b /\ a.day = b.day

CompletedRun(raw, overall) ==
  IF TwiceReviewed THEN [NoEvaluation EXCEPT !.status = "failed"]
  ELSE IF TwiceScored THEN [NoEvaluation EXCEPT !.status = "failed", !.reviews = ReviewRows]
  ELSE [status |-> "completed", reviews |-> ReviewRows,
        scores |-> {ScoredDay(a.day, a.score) : a \in attempt.answers},
        raw |-> raw, overall |-> overall, rubric |-> EffectiveRubric(attempt.rows),
        policy |-> attempt.policy, rules |-> attempt.rules]

\* One commit for rubric rows, reviews, scores, the run and its report.
Finish(run) ==
  /\ evaluated' = [evaluated EXCEPT ![attempt.session] = run]
  /\ rubricRows' = rubricRows \cup attempt.rows
  /\ attempt' = NoAttempt
  /\ UNCHANGED <<trialToggles, companyRubric, reviewConfig, version, shown, reviewFaults>>

AggregateDeterministic ==
  /\ attempt.at = "aggregate"
  /\ ~CallsProvider("winoeReport") \/ attempt.answers = {}
  /\ Finish(CompletedRun(ReviewerDayScores, AggregateScores(attempt.answers)))

\* A provider's report may speak of any day, a disabled one too.
AggregateWinoeReport ==
  /\ attempt.at \in {"aggregate", "aggregate_fallback"}
  /\ CallsProvider("winoeReport") /\ attempt.answers # {}
  /\ \E days \in {{1}, Days}, overall \in ProviderScores :
       Finish(CompletedRun(MergeDayScores(ReviewerDayScores, {ScoredDay(d, 70) : d \in days}), overall))

MarkFailedRun ==
  /\ attempt.at = "failed"
  /\ Finish([NoEvaluation EXCEPT !.status = "failed"])

\* The page: rows first, then the raw report's days left to a human.
ComposeDayScores(run) ==
  run.scores \cup {x \in run.raw : x.status = "human_review_required"
                                   /\ \A y \in run.scores : y.day # x.day}
ComposeReport(run) ==
  [overall |-> run.overall, days |-> ComposeDayScores(run), reviews |-> run.reviews]

-----------------------------------------------------------------------------
ReportInit ==
  /\ trialToggles \in Toggles /\ companyRubric \in 0..1 /\ companyRubric <= LastRubric
  /\ reviewConfig \in ReviewConfigs
  /\ version = NoVersion /\ rubricRows = {}
  /\ shown = [s \in ReportSessions |-> NotShown]
  /\ evaluated = [s \in ReportSessions |-> NoEvaluation]
  /\ attempt = NoAttempt /\ reviewFaults = 0

EvaluationStep ==
  \/ ReadRubrics \/ \E d \in Days : DeterministicReview(d) \/ ReviewDay(d)
  \/ StartAggregation \/ AggregateDeterministic \/ AggregateWinoeReport
  \/ ProviderFails \/ GiveUpAttempt \/ MarkFailedRun

ReportNext ==
  \/ \E days \in Toggles : UpdateTrial(days)
  \/ ReplaceCompanyRubric \/ GenerateVersion \/ LockVersion
  \/ \E s \in ReportSessions : RenderClaim(s) \/ BeginEvaluation(s)
  \/ EvaluationStep

ReportSpec == ReportInit /\ [][ReportNext]_reportVars

ReportTypeOK ==
  /\ trialToggles \subseteq Days /\ companyRubric \in 0..LastRubric
  /\ rubricRows \subseteq 0..LastRubric /\ version.edition \in 0..LastEdition
  /\ \A s \in ReportSessions :
       /\ evaluated[s].status \in {"none", "completed", "failed"}
       /\ \A x \in evaluated[s].scores : x.day \in Days /\ x.score \in 0..100
  /\ attempt.at \in {"none", "rubrics", "review", "fallback", "aggregate", "aggregate_fallback",
                     "retry", "failed"}

(* Every candidate of a scenario version is evaluated by the same rubric and *)
(* on the days its claim page named (day 4 only with a transcript), whatever *)
(* the talent partner changed on the trial in between and however often an   *)
(* evaluation was tried (the frozen snapshots of                             *)
(* ai_policy_snapshot_service.py and winoe_rubric_snapshots_service.py),     *)
(* but for what a generation that is run again writes: two evaluations read  *)
(* the same rubrics between two writes of the rubrics, and a page names the  *)
(* days of its own edition.                                                  *)
ReviewersNamed(s) ==
  {r.reviewer : r \in evaluated[s].reviews}
    \in {{ReviewerOf(d) : d \in shown[s].days}, {ReviewerOf(d) : d \in shown[s].days \ {4}}}
SameRulesForAll ==
  \A s, t \in ReportSessions :
    evaluated[s].status = "completed" /\ evaluated[t].status = "completed" =>
      /\ evaluated[s].rules = evaluated[t].rules => evaluated[s].rubric = evaluated[t].rubric
      /\ evaluated[s].policy.edition = shown[s].edition => ReviewersNamed(s)

(* The same for good: a generation that is run again spoils it               *)
(* (_apply_default_scenario_version has no look at the lock).                *)
SameRulesForGood ==
  \A s, t \in ReportSessions :
    evaluated[s].status = "completed" /\ evaluated[t].status = "completed" =>
      evaluated[s].rubric = evaluated[t].rubric /\ ReviewersNamed(s)

(* A completed report accounts for each day once, as scored or left to a     *)
(* human, and says the same of a day in its rows, its reviews and its raw    *)
(* JSON, unless a provider answered for another day than it was asked        *)
(* (complete_run, _merge_day_scores and _compose_day_scores).                *)
DaysAccountedFor ==
  \A s \in ReportSessions :
    LET run == evaluated[s]
        strayed == \/ \E r \in run.reviews : r.reviewer # ReviewerOf(r.day)
                   \/ \E x \in run.scores : x.day \notin run.policy.enabled
        page == ComposeReport(run).days IN
    /\ \A x, y \in page : x.day = y.day => x = y
    /\ {[day |-> r.day, score |-> r.score] : r \in run.reviews} =
         {[day |-> x.day, score |-> x.score] : x \in run.scores} \/ run.status = "failed"
    /\ run.status = "completed" /\ ~strayed =>
         page \subseteq run.raw /\ {x.day : x \in page} = Days

(* "If AI is disabled for a day, that day is marked human_review_required    *)
(* and excluded from AI scoring for that run"                                *)
(* (docs/mvp1/rubric_transparency.md:35).                                    *)
DisabledDaysUnscored ==
  \A s \in ReportSessions : \A x \in evaluated[s].scores : x.day \in shown[s].days
=============================================================================
