--------------------------- MODULE MCOfficeServices ---------------------------
(* What surrounds the candidate's work, for TLC: the upgrades of the schema,  *)
(* the scores of a report, the mails, the worker's heartbeat, readiness, the  *)
(* demo data and the storage of media.  The seven share no state, so each     *)
(* behaviour is one of a single component, and the variables of the others    *)
(* stay as they began.                                                        *)
EXTENDS SchemaUpgrades, ReportScores, Notifications, WorkerHealth,
        ServiceReadiness, DemoSeed, MediaStorage

VARIABLE office  \* the component whose behaviour this is

officeVars == <<office, schemaVars, reportVars, mailVars, healthVars, readinessVars,
          demoVars, mediaVars>>

-----------------------------------------------------------------------------
(* Databases.  A legacy one has two trials, and two sessions of the first or  *)
(* one of each; a half repaired one may have both parent tables, and children *)
(* with both columns or either.                                               *)
MCTrial(id, body, recruiter, partner, aside, extra, active, over) ==
  [id |-> id, body |-> body, recruiter |-> recruiter, partner |-> partner,
   aside |-> aside, extra |-> extra, active |-> active, over |-> over]
MCSession(id, simulation, trial, email, submissions, profile) ==
  [id |-> id, simulation |-> simulation, trial |-> trial, email |-> email,
   version |-> Null, submissions |-> submissions, profile |-> profile]
MCKey(name, to) == [name |-> name, column |-> "trial", to |-> to]

MCLegacy(recruiter, over, second, email, profile) ==
  [tables |-> {"simulations"},
   rows |-> [p \in ParentTables |-> IF p = "trials" THEN {} ELSE
     {MCTrial(1, 0, recruiter, Null, 1, Null, Null, over),
      MCTrial(2, 0, Null, Null, Null, Null, Null, FALSE)}],
   columns |-> [p \in ParentTables |-> IF p = "trials" THEN {} ELSE {"recruiter", "aside"}],
   links |-> [c \in ChildTables |-> IF c = "versions" THEN {} ELSE {"simulation"}],
   versions |-> {},
   sessions |-> {MCSession(1, 1, Null, "a", 1, profile),
                 MCSession(2, second, Null, email, 1, TRUE)},
   keys |-> [c \in ChildTables |-> IF c = "versions" THEN {} ELSE
     {[name |-> "other", column |-> "simulation", to |-> "simulations"]}]]
MCOld ==
  {MCLegacy(recruiter, over, second, email, profile) :
     recruiter \in 0..1, over \in BOOLEAN, second \in 1..2, email \in {"a", "b"},
     profile \in BOOLEAN}

MCOldKeys == {MCKey("old", "simulations")}
MCRepaired(legacy, canonical, spare, second, keys) ==
  LET single == canonical = {} /\ keys = {} IN
  [tables |-> IF single THEN {"simulations"} ELSE ParentTables,
   rows |-> [p \in ParentTables |-> IF p = "trials" THEN canonical ELSE legacy],
   columns |-> [p \in ParentTables |->
     IF p = "simulations" THEN TrialColumns
     ELSE IF single THEN {}
     ELSE IF canonical = {} /\ spare # {} THEN {"partner"}
     ELSE {"partner", "aside"} \cup IF keys = MCOldKeys THEN {"extra"} ELSE {}],
   links |-> [c \in ChildTables |-> IF c = "versions" THEN {"trial"} ELSE ParentColumns],
   versions |-> {NewVersion(1)} \cup spare,
   sessions |-> {MCSession(1, 1, Null, "a", 1, FALSE), second},
   keys |-> [c \in ChildTables |-> keys]]
MCHand ==
  {MCRepaired(legacy, canonical, spare, second, keys) :
     legacy \in {{}} \cup {{MCTrial(1, 0, recruiter, partner, 1, extra, active, TRUE)} :
       recruiter \in 0..1, partner \in 0..2, extra \in 0..1, active \in {0, 11}},
     canonical \in {{}} \cup {{MCTrial(id, said[1], Null, partner, said[2], Null, IF id = 1 THEN 11 ELSE 0, TRUE)} :
       id \in 1..2, said \in {<<0, 0>>, <<0, 1>>, <<1, 1>>}, partner \in 0..1},
     spare \in {{}, {[NewVersion(1) EXCEPT !.id = 12]}},
     second \in {MCSession(2, 0, 1, "a", 1, TRUE)} \cup {MCSession(2, s, t, "b", 1, TRUE) : s \in 0..1, t \in 0..2},
     keys \in {{}, MCOldKeys,
               {MCKey("new", "simulations"), MCKey("other", "trials")}}}

-----------------------------------------------------------------------------
(* Work of a session: all five days done, or one poor day and no more.        *)
MCDay(chars, commit, cutoff, diff, passed, failed, artifacts, segments) ==
  [chars |-> chars, commit |-> commit, cutoff |-> cutoff, diff |-> diff,
   passed |-> passed, failed |-> failed, artifacts |-> artifacts,
   coverage |-> artifacts # {}, repo |-> commit # 0, segments |-> segments,
   ready |-> segments # 0]
MCWork ==
  {[d \in Days |->
      CASE d \in {1, 5} -> MCDay(600, 0, 0, FALSE, 0, 0, {}, 0)
        [] d \in {2, 3} -> MCDay(0, d, 4, TRUE, 3, 1, {"testResults", "commitMetadata"}, 0)
        [] d = 4 -> MCDay(900, 0, 0, FALSE, 0, 0, {}, 4)],
   [d \in Days |->
      IF d = 2 THEN MCDay(0, 1, 0, FALSE, 0, 0, {}, 0)
      ELSE MCDay(0, 0, 0, FALSE, 0, 0, {}, 0)]}
MCToggles == {Days, {1, 2, 4}}
MCConfigs ==
  {[real |-> {"demoPresentationReviewer", "winoeReport"}, provider |-> "openai", spare |-> TRUE],
   [real |-> {"codeImplementationReviewer"}, provider |-> "anthropic", spare |-> FALSE]}
MCStray == {<<4, 5>>, <<2, 3>>}

(* Processes 1 and 2 share an instance id, as a container restarted; they are *)
(* alike, so the first of them to start may be called 1.  No fault is left    *)
(* for the time when the third is there too and the second was started.       *)
MCInstanceOf == [p \in Processes |-> IF p = 3 THEN 2 ELSE 1]
OneStartsFirst == process'[2].at # "off" => process'[1].at # "off"

(* Sessions are alike, and idle mailers: the first session to be evaluated    *)
(* may be called 1, and so may one of two idle mailers that begins.  Settings *)
(* that no generation or lock can read any more stay as they are.             *)
OneIsEvaluatedFirst == attempt'.session = 2 => evaluated[1] # NoEvaluation
SettingsAreRead ==
  /\ version.edition = LastEdition => trialToggles' = trialToggles
  /\ version.edition = LastEdition /\ version.locked => companyRubric' = companyRubric
OneSendsFirst ==
  mailer[2].at = "idle" /\ mailer'[2].at # "idle" => mailer[1].at # "idle"

(* Settings: complete ones, and each of their parts wrong or left out.        *)
MCBase ==
  [demo |-> FALSE, real |-> Features,
   provider |-> [f \in Features |-> IF f = "scenarioGeneration" THEN "anthropic" ELSE "openai"],
   keys |-> AiProviders, email |-> "resend", emailKey |-> TRUE,
   media |-> "s3", s3 |-> StorageFields, github |-> {"token", "org"}]
MCSettings ==
  {MCBase, [MCBase EXCEPT !.github = {"token"}]}
  \cup {[MCBase EXCEPT !.keys = k, !.provider = [f \in Features |-> p]] :
          k \in SUBSET AiProviders, p \in AiProviders \cup {"other"}}
  \cup {[MCBase EXCEPT !.real = r, !.demo = r = {}] : r \in SUBSET Features}
  \cup {[MCBase EXCEPT !.email = e, !.emailKey = k] :
          e \in {"console", "smtp", "other"}, k \in BOOLEAN}
  \cup {[MCBase EXCEPT !.media = m, !.s3 = StorageFields \ {x}] :
          m \in {"fake", "s3", "other"}, x \in StorageFields}

(* S3; fake storage in a directory; fake storage in memory; a life too long.  *)
MCSetup(provider, directory, life, most) ==
  [provider |-> provider, directory |-> directory, life |-> life, least |-> 1, most |-> most]
MCSetups ==
  {MCSetup("s3", TRUE, 1, 2), MCSetup("fake", TRUE, 2, 1), MCSetup("fake", FALSE, 1, 2),
   MCSetup("s3", TRUE, 3, 2)}

-----------------------------------------------------------------------------
(* Of the components with several initial states, those that are not the      *)
(* behaviour's begin in one of them.                                          *)
MCFirst == CHOOSE d \in MCOld : TRUE

OfficeInit ==
  /\ office \in {"schema", "reports", "mail", "health", "readiness", "demo", "media"}
  /\ SchemaInit /\ (office = "schema" \/ (database = MCFirst /\ revision = 0))
  /\ ReportInit
  /\ office = "reports" \/ (trialToggles = Days /\ companyRubric = 0 /\ reviewConfig.spare)
  /\ MailInit /\ (office = "mail" \/ partnerKnown)
  /\ HealthInit
  /\ ReadinessInit /\ (office = "readiness" \/ settings = MCBase)
  /\ DemoInit
  /\ MediaInit /\ (office = "media" \/ (setup.provider = "fake" /\ setup.directory))

Schema ==
  /\ office = "schema" /\ SchemaNext
  /\ UNCHANGED <<office, reportVars, mailVars, healthVars, readinessVars, demoVars, mediaVars>>
Reports ==
  /\ office = "reports" /\ ReportNext /\ OneIsEvaluatedFirst /\ SettingsAreRead
  /\ UNCHANGED <<office, schemaVars, mailVars, healthVars, readinessVars, demoVars, mediaVars>>
Mail ==
  /\ office = "mail" /\ MailNext /\ OneSendsFirst
  /\ UNCHANGED <<office, schemaVars, reportVars, healthVars, readinessVars, demoVars, mediaVars>>
Health ==
  /\ office = "health" /\ HealthNext /\ OneStartsFirst
  /\ UNCHANGED <<office, schemaVars, reportVars, mailVars, readinessVars, demoVars, mediaVars>>
Readiness ==
  /\ office = "readiness" /\ ReadinessNext
  /\ UNCHANGED <<office, schemaVars, reportVars, mailVars, healthVars, demoVars, mediaVars>>
Demo ==
  /\ office = "demo" /\ DemoNext
  /\ UNCHANGED <<office, schemaVars, reportVars, mailVars, healthVars, readinessVars, mediaVars>>
Media ==
  /\ office = "media" /\ MediaNext
  /\ UNCHANGED <<office, schemaVars, reportVars, mailVars, healthVars, readinessVars, demoVars>>

OfficeNext == Schema \/ Reports \/ Mail \/ Health \/ Readiness \/ Demo \/ Media

OfficeSpec == OfficeInit /\ [][OfficeNext]_officeVars

-----------------------------------------------------------------------------
(* The variables of all seven components keep their types.                    *)
OfficeTypeOK ==
  /\ SchemaTypeOK /\ ReportTypeOK /\ MailTypeOK /\ HealthTypeOK
  /\ ReadinessTypeOK /\ DemoTypeOK /\ MediaTypeOK

(* Candidates of one edition of a version are evaluated by the same rubric    *)
(* and on the days they were shown, and a report accounts for each day once   *)
(* (the frozen snapshots of ai_policy_snapshot_service.py,                    *)
(* _merge_day_scores).                                                        *)
ReportsAreFair == SameRulesForAll /\ DaysAccountedFor

(* What the backend holds for sent was delivered, and a further copy has an   *)
(* excuse: an answer or a row that was lost, or a lease that ran out under    *)
(* its worker (record_notification_delivery_audit,                            *)
(* has_successful_notification_delivery).                                     *)
MailsAreTrue == SentMeansTold /\ SecondCopiesExcused

(* What the heartbeat and the probe say of a process is so: a worker that     *)
(* looks ready is there or died without a word, one that lost its heartbeat   *)
(* takes no more work, and what a service says is ready can be built          *)
(* (run_worker_forever, build_readiness_payload).                             *)
ReadyMeansWorking == ReadyMeansAlive /\ LostBeatEndsWork /\ ReadyServicesWork

(* Uploads are taken in time, accepted as long as the storage holds what was  *)
(* declared, and never played once purged (complete_handoff_upload,           *)
(* resolve_signed_url_ttl, fake_storage_download_route).                      *)
MediaIsKeptAsSaid == AcceptedIsStored /\ UploadsEndInTime /\ PurgedNeverPlays
=============================================================================
