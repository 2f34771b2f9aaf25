---------------------------- MODULE ServiceReadiness ----------------------------
(* What GET /ready answers, what the configured providers need to be built,  *)
(* and one call of a language model with its retries and stand-ins           *)
(* (app/shared/http readiness service and factories, app/ai, the provider    *)
(* clients of app/integrations).  Settings are read at start and kept; the   *)
(* database and the worker's heartbeat change under the probe.               *)
EXTENDS Naturals

CONSTANTS
  SettingsChoices,  \* settings to consider: see SettingsShape
  StandIns,         \* models a fallback may try: _fallback_day_models
  LastProbe         \* bound: changes of database and heartbeat

ASSUME ReadinessAssumption == StandIns \in Nat \ {0} /\ LastProbe \in Nat

VARIABLES
  settings,  \* the configuration of this process
  postgres,  \* "up", "old" (tables or foreign keys missing), "down"
  lastBeat,  \* the latest heartbeat: "missing", "stopped", "stale", "fresh"
  probed,    \* last answer of the probe: "none", "ready", "not_ready", "error"
  changes,   \* bound on what happens around the probe
  call       \* [feature, step, left, asked, brief, answer]
readinessVars == <<settings, postgres, lastBeat, probed, changes, call>>

Features == {"scenarioGeneration", "transcription", "winoeReport"}
AiProviders == {"openai", "anthropic"}
StorageFields == {"endpoint", "bucket", "key", "secret", "region"}
SettingsShape ==
  [demo : BOOLEAN, real : SUBSET Features, provider : [Features -> AiProviders \cup {"other"}],
   keys : SUBSET AiProviders, email : {"console", "resend", "smtp", "other"}, emailKey : BOOLEAN,
   media : {"fake", "s3", "other"}, s3 : SUBSET StorageFields, github : SUBSET {"token", "org"}]
NoCall == [feature |-> "none", step |-> "idle", left |-> 0, asked |-> {}, brief |-> FALSE,
           answer |-> "none"]

ReadinessTypeOK ==
  /\ settings \in SettingsChoices
  /\ postgres \in {"up", "old", "down"} /\ lastBeat \in {"missing", "stopped", "stale", "fresh"}
  /\ probed \in {"none", "ready", "not_ready", "error"} /\ changes \in 0..LastProbe
  /\ call.feature \in Features \cup {"none"} /\ call.left \in 0..StandIns
  /\ call.asked \subseteq AiProviders /\ call.answer \in {"none", "checked", "raw", "error"}

ReadinessInit ==
  /\ settings \in SettingsChoices
  /\ postgres = "up" /\ lastBeat = "missing" /\ probed = "none" /\ changes = 0 /\ call = NoCall

-----------------------------------------------------------------------------
(* build_readiness_payload. *)
CheckDatabase == IF postgres = "up" THEN "ready" ELSE "not_ready"
CheckWorker == IF lastBeat = "fresh" THEN "ready" ELSE "not_ready"

\* api_key_configured: present, and not the placeholder.
HasKey(p) == p \in settings.keys
\* Mutation: the provider's name is enough.
NamedFeature(f) == IF settings.provider[f] \in AiProviders THEN "ready" ELSE "not_ready"
CheckAiFeature(f) ==
  IF f \notin settings.real THEN "skipped"
  ELSE IF settings.provider[f] \in AiProviders /\ HasKey(settings.provider[f])
       THEN "ready" ELSE "not_ready"
CheckAi ==
  IF \E f \in Features : CheckAiFeature(f) = "not_ready" THEN "not_ready"
  ELSE IF \A f \in Features : CheckAiFeature(f) = "skipped" THEN "skipped" ELSE "ready"
CheckGithub ==
  IF settings.demo THEN "skipped"
  ELSE IF settings.github = {"token", "org"} THEN "ready" ELSE "not_ready"
CheckEmail ==
  IF settings.email = "console" \/ (settings.email # "other" /\ settings.emailKey)
  THEN "ready" ELSE "not_ready"
CheckMedia ==
  IF settings.media = "fake"
     \/ (settings.media = "s3" /\ StorageFields \ {"region"} \subseteq settings.s3)
  THEN "ready" ELSE "not_ready"

\* The worker's check asks the database again, and does not catch its failure.
Probe ==
  /\ probed' = IF postgres = "down" THEN "error"
               ELSE IF "not_ready" \in {CheckDatabase, CheckWorker, CheckAi, CheckGithub,
                                        CheckEmail, CheckMedia}
               THEN "not_ready" ELSE "ready"
  /\ UNCHANGED <<settings, postgres, lastBeat, changes, call>>

Surroundings ==
  /\ changes < LastProbe /\ changes' = changes + 1
  /\ \/ postgres' \in {"up", "old", "down"} \ {postgres} /\ UNCHANGED lastBeat
     \/ lastBeat' \in {"stopped", "stale", "fresh"} \ {lastBeat} /\ UNCHANGED postgres
  /\ probed' = "none"
  /\ UNCHANGED <<settings, call>>

-----------------------------------------------------------------------------
(* What the factories build. *)
BuildsTranscription ==
  "transcription" \notin settings.real
    \/ (settings.provider["transcription"] = "openai" /\ HasKey("openai"))
BuildsModel(f) ==
  f \notin settings.real
    \/ (settings.provider[f] \in AiProviders /\ HasKey(settings.provider[f]))
BuildsEmail == settings.email \in {"console", "other"} \/ settings.emailKey
BuildsStorage ==
  settings.media = "fake" \/ (settings.media = "s3" /\ settings.s3 = StorageFields)

-----------------------------------------------------------------------------
(* One call: scenario, review of a day, aggregation or transcription. *)
StartCall(f) ==
  /\ call.step = "idle" /\ f \in settings.real
  /\ settings.provider[f] \in AiProviders
  /\ ~(f = "transcription" /\ settings.provider[f] = "anthropic")
  /\ \E left \in IF f = "transcription" THEN {0, 1} ELSE {0} :
       call' = [NoCall EXCEPT !.feature = f, !.step = settings.provider[f], !.left = left]
  /\ UNCHANGED <<settings, postgres, lastBeat, probed, changes>>

\* Mutation: a failure that will pass is not told from one that will not.
AnyFailureEnds(brief) == FALSE
CanStandIn(brief) == brief /\ call.feature = "winoeReport" /\ HasKey("anthropic")

Over(answer, asked, brief) ==
  [call EXCEPT !.step = "over", !.answer = answer, !.asked = asked, !.brief = @ \/ brief]
AskNext(step, asked, left) == [call EXCEPT !.step = step, !.asked = asked, !.left = left]
CallGoes(next) == call' = next /\ UNCHANGED <<settings, postgres, lastBeat, probed, changes>>

\* Mutation: the model that failed is one of its own stand-ins.
FailedModelToo == StandIns + 1
FallbackModels == StandIns

\* An OpenAI call failed for good or for now (brief): the stand-ins of a review.
AfterOpenAi(brief) ==
  IF CanStandIn(brief)
  THEN [call EXCEPT !.step = "standIn", !.left = FallbackModels, !.asked = @ \cup {"openai"}, !.brief = TRUE]
  ELSE Over("error", call.asked \cup {"openai"}, brief)

\* call_openai_json_schema: without a key nothing is asked; a schema the provider
\* refuses is put into the prompt instead; an answer is validated.
AskOpenAi ==
  /\ call.step = "openai" /\ call.feature # "transcription"
  /\ \/ ~HasKey("openai") /\ CallGoes(Over("error", call.asked, FALSE))
     \/ /\ HasKey("openai")
        /\ \/ CallGoes(Over("checked", call.asked \cup {"openai"}, FALSE))
           \/ \E brief \in BOOLEAN : CallGoes(AfterOpenAi(brief))
           \/ CallGoes(AskNext("prompt", call.asked \cup {"openai"}, 0))

\* Mutation: what the prompt brought back is taken as it is.
TakenAsItIs(valid) == "raw"
Validated(valid) == IF valid THEN "checked" ELSE "error"

AskWithPrompt ==
  /\ call.step = "prompt"
  /\ \/ \E valid \in BOOLEAN : CallGoes(Over(Validated(valid), call.asked, FALSE))
     \/ \E brief \in BOOLEAN : CallGoes(AfterOpenAi(brief))

\* call_anthropic_json: any failure of the tool call is tried once as text.
AskAnthropic ==
  /\ call.step \in {"anthropic", "standIn"}
  /\ \/ ~HasKey("anthropic") /\ CallGoes(Over("error", call.asked, FALSE))
     \/ /\ HasKey("anthropic")
        /\ \/ CallGoes(Over("checked", call.asked \cup {"anthropic"}, FALSE))
           \/ CallGoes(AskNext(IF call.step = "standIn" THEN "standInText" ELSE "text",
                               call.asked \cup {"anthropic"}, call.left))
AskAnthropicText ==
  /\ call.step \in {"text", "standInText"}
  /\ \/ CallGoes(Over("checked", call.asked, FALSE))
     \/ CallGoes(IF call.left > 1 THEN AskNext("standIn", call.asked, call.left - 1)
                 ELSE Over("error", call.asked, FALSE))

\* Recordings: the configured model, whisper-1, and the local model when both
\* failed for now; the local model's transcript must not be empty.
Transcribe ==
  /\ call.step = "openai" /\ call.feature = "transcription"
  /\ \/ ~HasKey("openai") /\ CallGoes(Over("error", {}, FALSE))
     \/ /\ HasKey("openai")
        /\ \/ CallGoes(Over("checked", {"openai"}, FALSE))
           \/ CallGoes(Over("error", {"openai"}, FALSE))
           \/ CallGoes(IF call.left > 0 THEN AskNext("openai", {"openai"}, call.left - 1)
                       ELSE [AskNext("local", {"openai"}, 0) EXCEPT !.brief = TRUE])
TranscribeLocally ==
  /\ call.step = "local"
  /\ \E answer \in {"checked", "error"} : CallGoes(Over(answer, call.asked, TRUE))

EndCall ==
  /\ call.step = "over" /\ CallGoes(NoCall)

ReadinessNext ==
  \/ Probe \/ Surroundings
  \/ \E f \in Features : StartCall(f)
  \/ AskOpenAi \/ AskWithPrompt \/ AskAnthropic \/ AskAnthropicText
  \/ Transcribe \/ TranscribeLocally \/ EndCall
ReadinessSpec == ReadinessInit /\ [][ReadinessNext]_readinessVars

-----------------------------------------------------------------------------
(* A process that called itself ready has the database's tables and a fresh  *)
(* worker, and can build what scenarios, reports and mails need; a report's  *)
(* call that failed for now did ask the stand-ins it has a key for, nobody   *)
(* without a key is asked, and no answer goes on that was not validated      *)
(* (build_readiness_payload; call_openai_json_schema, call_anthropic_json).  *)
ReadyServicesWork ==
  /\ probed = "ready" =>
       /\ postgres = "up" /\ lastBeat = "fresh" /\ BuildsEmail
       /\ BuildsModel("scenarioGeneration") /\ BuildsModel("winoeReport")
  /\ call.answer # "raw" /\ call.asked \subseteq settings.keys
  /\ call.answer = "error" /\ call.feature = "winoeReport" /\ call.brief /\ HasKey("anthropic")
       => "anthropic" \in call.asked

(* "Transcription is ready with the Anthropic provider": what the probe calls *)
(* ready can be built, transcription and storage included                     *)
(* (shared_http_readiness_service.py:276, the factories of app/integrations). *)
ReadyMeansBuilt == probed = "ready" => BuildsTranscription /\ BuildsStorage
=============================================================================
