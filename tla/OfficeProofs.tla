----------------------------- MODULE OfficeProofs -----------------------------
(***************************************************************************)
(* Proofs about what surrounds the candidate's work: the seven components  *)
(* that MCOfficeServices puts side by side.  Each is proved of its own     *)
(* specification, for every value of its constants; the last part carries  *)
(* the results over to the composition.                                    *)
(***************************************************************************)
EXTENDS MCOfficeServices, FiniteSetTheorems, TLAPS

-----------------------------------------------------------------------------
(* ServiceReadiness: the inductive invariant. *)

CallSteps == {"idle", "openai", "prompt", "anthropic", "text", "standIn", "standInText",
              "local", "over"}
CallRecords == [feature : Features \cup {"none"}, step : CallSteps, left : 0..StandIns,
                asked : SUBSET AiProviders, brief : BOOLEAN,
                answer : {"none", "checked", "raw", "error"}]

(* Whoever a call has asked has a key, an answer there is was validated,   *)
(* and the steps that follow an answer of a provider did ask it.           *)
CallInOrder ==
  /\ call.asked \subseteq settings.keys
  /\ call.answer # "raw"
  /\ call.step # "over" => call.answer = "none"
  /\ call.step = "prompt" => "openai" \in call.asked
  /\ call.step \in {"text", "standInText"} => "anthropic" \in call.asked
  /\ call.step = "local" => call.feature = "transcription"

(* Only a failure that will pass turns a call to its stand-ins, and a      *)
(* report's call that ends with one had no stand-in to ask, or asked it.   *)
StandInsAsked ==
  /\ call.step \in {"openai", "prompt"} /\ call.feature = "winoeReport" => ~call.brief
  /\ call.answer = "error" /\ call.feature = "winoeReport" /\ call.brief
       /\ "anthropic" \in settings.keys => "anthropic" \in call.asked

(* The probe's last answer is about the surroundings as they are.          *)
ProbeIsCurrent ==
  probed = "ready" =>
    /\ postgres = "up" /\ lastBeat = "fresh"
    /\ CheckAi # "not_ready" /\ CheckEmail = "ready"

ReadinessInv ==
  /\ ReadinessTypeOK
  /\ call \in CallRecords
  /\ CallInOrder /\ StandInsAsked /\ ProbeIsCurrent

LEMMA ReadinessInitInv == ReadinessInit => ReadinessInv
  BY ReadinessAssumption DEF ReadinessInit, ReadinessInv, ReadinessTypeOK, NoCall, CallRecords, CallSteps,
     CallInOrder, StandInsAsked, ProbeIsCurrent, Features, AiProviders

(* A call goes on as a record that keeps the invariant's three parts.      *)
LEMMA CallKeeps ==
  ASSUME ReadinessInv, NEW next \in CallRecords, CallGoes(next),
         next.asked \subseteq settings.keys, next.answer # "raw",
         next.step # "over" => next.answer = "none",
         next.step = "prompt" => "openai" \in next.asked,
         next.step \in {"text", "standInText"} => "anthropic" \in next.asked,
         next.step = "local" => next.feature = "transcription",
         next.step \in {"openai", "prompt"} /\ next.feature = "winoeReport" => ~next.brief,
         next.answer = "error" /\ next.feature = "winoeReport" /\ next.brief
           /\ "anthropic" \in settings.keys => "anthropic" \in next.asked
  PROVE  ReadinessInv'
<1>1. call' = next /\ UNCHANGED <<settings, postgres, lastBeat, probed, changes>>
  BY DEF CallGoes
<1>2. CallInOrder'
  BY <1>1 DEF CallInOrder
<1>3. StandInsAsked'
  BY <1>1 DEF StandInsAsked
<1>4. ProbeIsCurrent'
  BY <1>1 DEF ReadinessInv, ProbeIsCurrent, CheckAi, CheckAiFeature, CheckEmail, HasKey
<1>5. ReadinessTypeOK' /\ call' \in CallRecords
  BY <1>1 DEF ReadinessInv, ReadinessTypeOK, CallRecords
<1> QED
  BY <1>2, <1>3, <1>4, <1>5 DEF ReadinessInv

(* A call that is over has its answer; one that goes on has none yet.      *)
LEMMA CallIsOver ==
  ASSUME ReadinessInv, NEW reply \in {"checked", "error"},
         NEW asked \in SUBSET AiProviders, asked \subseteq settings.keys,
         NEW brief \in BOOLEAN,
         CallGoes(Over(reply, asked, brief)),
         reply = "error" /\ call.feature = "winoeReport" /\ (call.brief \/ brief)
           /\ "anthropic" \in settings.keys => "anthropic" \in asked
  PROVE  ReadinessInv'
<1> DEFINE next == Over(reply, asked, brief)
<1>1. call \in CallRecords
  BY DEF ReadinessInv
<1>2. /\ next \in CallRecords
      /\ next.step = "over" /\ next.answer = reply /\ next.asked = asked
      /\ next.feature = call.feature /\ next.brief = (call.brief \/ brief)
  BY <1>1 DEF Over, CallRecords, CallSteps
<1>3. CallGoes(next)
  OBVIOUS
<1> HIDE DEF next
<1> QED
  BY <1>2, <1>3, CallKeeps

LEMMA CallGoesOn ==
  ASSUME ReadinessInv, NEW step \in CallSteps \ {"over", "local", "idle"},
         NEW asked \in SUBSET AiProviders, asked \subseteq settings.keys,
         NEW left \in 0..StandIns, call.step # "over",
         CallGoes(AskNext(step, asked, left)),
         step = "prompt" => "openai" \in asked,
         step \in {"text", "standInText"} => "anthropic" \in asked,
         step \in {"openai", "prompt"} /\ call.feature = "winoeReport" => ~call.brief
  PROVE  ReadinessInv'
<1> DEFINE next == AskNext(step, asked, left)
<1>1. call \in CallRecords /\ call.answer = "none"
  BY DEF ReadinessInv, CallInOrder
<1>2. /\ next \in CallRecords
      /\ next.step = step /\ next.answer = "none" /\ next.asked = asked
      /\ next.feature = call.feature /\ next.brief = call.brief
  BY <1>1 DEF AskNext, CallRecords
<1>3. CallGoes(next)
  OBVIOUS
<1> HIDE DEF next
<1> QED
  BY <1>2, <1>3, CallKeeps

(* A failed OpenAI call: the stand-ins, when they may help.                *)
LEMMA AfterOpenAiKeeps ==
  ASSUME ReadinessInv, NEW brief \in BOOLEAN, call.step \in {"openai", "prompt"},
         "openai" \in settings.keys, CallGoes(AfterOpenAi(brief))
  PROVE  ReadinessInv'
<1>1. call \in CallRecords /\ call.answer = "none" /\ call.asked \subseteq settings.keys
      /\ StandIns \in Nat
  BY ReadinessAssumption DEF ReadinessInv, CallInOrder
<1>2. /\ call.asked \cup {"openai"} \in SUBSET AiProviders
      /\ call.asked \cup {"openai"} \subseteq settings.keys
  BY <1>1 DEF CallRecords, AiProviders
<1>3. CASE CanStandIn(brief)
  <2> DEFINE next == [call EXCEPT !.step = "standIn", !.left = FallbackModels,
                        !.asked = @ \cup {"openai"}, !.brief = TRUE]
  <2>1. /\ next.step = "standIn" /\ next.answer = "none" /\ next.asked = call.asked \cup {"openai"}
        /\ next \in CallRecords
    <3>1. StandIns \in 0..StandIns /\ "standIn" \in CallSteps
      BY <1>1 DEF CallSteps
    <3> QED
      BY <1>1, <1>2, <3>1 DEF CallRecords, FallbackModels
  <2>2. CallGoes(next)
    BY <1>3 DEF AfterOpenAi
  <2> HIDE DEF next
  <2> QED
    BY <2>1, <2>2, <1>2, CallKeeps
<1>4. CASE ~CanStandIn(brief)
  <2>1. CallGoes(Over("error", call.asked \cup {"openai"}, brief))
    BY <1>4 DEF AfterOpenAi
  <2>2. call.feature = "winoeReport" /\ (call.brief \/ brief) => "anthropic" \notin settings.keys
    <3>1. call.feature = "winoeReport" => ~call.brief
      BY DEF ReadinessInv, StandInsAsked
    <3> QED
      BY <3>1, <1>4 DEF CanStandIn, HasKey
  <2> QED
    BY <2>1, <2>2, <1>2, CallIsOver
<1> QED
  BY <1>3, <1>4

LEMMA AskOpenAiKeeps == ReadinessInv /\ (AskOpenAi \/ AskWithPrompt) => ReadinessInv'
<1> SUFFICES ASSUME ReadinessInv, AskOpenAi \/ AskWithPrompt PROVE ReadinessInv'
  OBVIOUS
<1>1. call \in CallRecords /\ call.asked \subseteq settings.keys /\ call.answer = "none"
      /\ StandIns \in Nat /\ call.asked \in SUBSET AiProviders
  BY ReadinessAssumption DEF ReadinessInv, CallInOrder, CallRecords, AskOpenAi, AskWithPrompt
<1>2. call.feature = "winoeReport" => ~call.brief
  BY DEF ReadinessInv, StandInsAsked, AskOpenAi, AskWithPrompt
<1>3. CASE AskOpenAi /\ ~HasKey("openai")
  <2>1. CallGoes(Over("error", call.asked, FALSE))
    BY <1>3 DEF AskOpenAi
  <2> QED
    BY <2>1, <1>1, <1>2, CallIsOver
<1>4. CASE AskOpenAi /\ HasKey("openai")
  <2> DEFINE asked == call.asked \cup {"openai"}
  <2>1. asked \in SUBSET AiProviders /\ asked \subseteq settings.keys /\ "openai" \in asked
        /\ "openai" \in settings.keys /\ call.step = "openai"
    BY <1>4, <1>1 DEF AiProviders, HasKey, AskOpenAi
  <2>2. \/ CallGoes(Over("checked", asked, FALSE))
        \/ \E brief \in BOOLEAN : CallGoes(AfterOpenAi(brief))
        \/ CallGoes(AskNext("prompt", asked, 0))
    BY <1>4 DEF AskOpenAi
  <2> HIDE DEF asked
  <2>3. CASE CallGoes(Over("checked", asked, FALSE))
    BY <2>1, <2>3, CallIsOver
  <2>4. CASE \E brief \in BOOLEAN : CallGoes(AfterOpenAi(brief))
    BY <2>1, <2>4, AfterOpenAiKeeps
  <2>5. CASE CallGoes(AskNext("prompt", asked, 0))
    BY <2>1, <2>5, <1>1, <1>2, CallGoesOn DEF CallSteps
  <2> QED
    BY <2>2, <2>3, <2>4, <2>5
<1>5. CASE AskWithPrompt
  <2>1. call.step = "prompt" /\ "openai" \in settings.keys
    BY <1>5 DEF AskWithPrompt, ReadinessInv, CallInOrder
  <2>2. \/ \E valid \in BOOLEAN : CallGoes(Over(Validated(valid), call.asked, FALSE))
        \/ \E brief \in BOOLEAN : CallGoes(AfterOpenAi(brief))
    BY <1>5 DEF AskWithPrompt
  <2>3. ASSUME NEW valid \in BOOLEAN, CallGoes(Over(Validated(valid), call.asked, FALSE))
        PROVE  ReadinessInv'
    <3>1. Validated(valid) \in {"checked", "error"}
      BY DEF Validated
    <3> QED
      BY <3>1, <2>3, <1>1, <1>2, CallIsOver
  <2> QED
    BY <2>1, <2>2, <2>3, AfterOpenAiKeeps
<1> QED
  BY <1>3, <1>4, <1>5

LEMMA AskAnthropicKeeps == ReadinessInv /\ (AskAnthropic \/ AskAnthropicText) => ReadinessInv'
<1> SUFFICES ASSUME ReadinessInv, AskAnthropic \/ AskAnthropicText PROVE ReadinessInv'
  OBVIOUS
<1>1. call \in CallRecords /\ call.asked \subseteq settings.keys /\ call.answer = "none"
      /\ StandIns \in Nat /\ call.asked \in SUBSET AiProviders /\ call.left \in 0..StandIns
      /\ call.step # "over"
  BY ReadinessAssumption DEF ReadinessInv, CallInOrder, CallRecords, AskAnthropic, AskAnthropicText
<1>2. CASE AskAnthropic /\ ~HasKey("anthropic")
  <2>1. CallGoes(Over("error", call.asked, FALSE)) /\ "anthropic" \notin settings.keys
    BY <1>2 DEF AskAnthropic, HasKey
  <2> QED
    BY <2>1, <1>1, CallIsOver
<1>3. CASE AskAnthropic /\ HasKey("anthropic")
  <2> DEFINE asked == call.asked \cup {"anthropic"}
             step == IF call.step = "standIn" THEN "standInText" ELSE "text"
  <2>1. asked \in SUBSET AiProviders /\ asked \subseteq settings.keys /\ "anthropic" \in asked
        /\ step \in {"text", "standInText"}
    BY <1>3, <1>1 DEF AiProviders, HasKey
  <2>2. CallGoes(Over("checked", asked, FALSE)) \/ CallGoes(AskNext(step, asked, call.left))
    BY <1>3 DEF AskAnthropic
  <2> HIDE DEF asked, step
  <2>3. CASE CallGoes(Over("checked", asked, FALSE))
    BY <2>1, <2>3, CallIsOver
  <2>4. CASE CallGoes(AskNext(step, asked, call.left))
    BY <2>1, <2>4, <1>1, CallGoesOn DEF CallSteps
  <2> QED
    BY <2>2, <2>3, <2>4
<1>4. CASE AskAnthropicText
  <2>1. "anthropic" \in call.asked
    BY <1>4 DEF AskAnthropicText, ReadinessInv, CallInOrder
  <2>2. \/ CallGoes(Over("checked", call.asked, FALSE))
        \/ CallGoes(Over("error", call.asked, FALSE))
        \/ call.left > 1 /\ CallGoes(AskNext("standIn", call.asked, call.left - 1))
    BY <1>4 DEF AskAnthropicText
  <2>3. CASE call.left > 1 /\ CallGoes(AskNext("standIn", call.asked, call.left - 1))
    <3>1. call.left - 1 \in 0..StandIns
      BY <1>1, <2>3
    <3> QED
      BY <3>1, <2>3, <1>1, CallGoesOn DEF CallSteps
  <2> QED
    BY <1>1, <2>1, <2>2, <2>3, CallIsOver
<1> QED
  BY <1>2, <1>3, <1>4

LEMMA TranscribeKeeps == ReadinessInv /\ (Transcribe \/ TranscribeLocally) => ReadinessInv'
<1> SUFFICES ASSUME ReadinessInv, Transcribe \/ TranscribeLocally PROVE ReadinessInv'
  OBVIOUS
<1>1. call \in CallRecords /\ call.asked \subseteq settings.keys /\ call.answer = "none"
      /\ StandIns \in Nat /\ call.asked \in SUBSET AiProviders /\ call.left \in 0..StandIns
      /\ call.feature = "transcription" /\ call.step # "over"
  BY ReadinessAssumption
  DEF ReadinessInv, CallInOrder, CallRecords, Transcribe, TranscribeLocally
<1>2. CASE Transcribe /\ ~HasKey("openai")
  <2>1. CallGoes(Over("error", {}, FALSE))
    BY <1>2 DEF Transcribe
  <2> QED
    BY <2>1, <1>1, CallIsOver
<1>3. CASE Transcribe /\ HasKey("openai")
  <2>1. {"openai"} \in SUBSET AiProviders /\ {"openai"} \subseteq settings.keys
    BY <1>3 DEF HasKey, AiProviders
  <2>2. \/ CallGoes(Over("checked", {"openai"}, FALSE))
        \/ CallGoes(Over("error", {"openai"}, FALSE))
        \/ call.left > 0 /\ CallGoes(AskNext("openai", {"openai"}, call.left - 1))
        \/ CallGoes([AskNext("local", {"openai"}, 0) EXCEPT !.brief = TRUE])
    BY <1>3 DEF Transcribe
  <2>3. CASE call.left > 0 /\ CallGoes(AskNext("openai", {"openai"}, call.left - 1))
    <3>1. call.left - 1 \in 0..StandIns
      BY <1>1, <2>3
    <3> QED
      BY <3>1, <2>1, <2>3, <1>1, CallGoesOn DEF CallSteps
  <2>4. CASE CallGoes([AskNext("local", {"openai"}, 0) EXCEPT !.brief = TRUE])
    <3> DEFINE next == [AskNext("local", {"openai"}, 0) EXCEPT !.brief = TRUE]
    <3>1. /\ next.step = "local" /\ next.answer = "none" /\ next.asked = {"openai"}
          /\ next.feature = "transcription"
          /\ next \in CallRecords
      <4>1. 0 \in 0..StandIns /\ "local" \in CallSteps
        BY <1>1 DEF CallSteps
      <4> QED
        BY <1>1, <2>1, <4>1 DEF AskNext, CallRecords
    <3>2. CallGoes(next)
      BY <2>4
    <3> HIDE DEF next
    <3> QED
      BY <3>1, <3>2, <2>1, CallKeeps
  <2> QED
    BY <1>1, <2>1, <2>2, <2>3, <2>4, CallIsOver
<1>4. CASE TranscribeLocally
  <2>1. PICK reply \in {"checked", "error"} : CallGoes(Over(reply, call.asked, TRUE))
    BY <1>4 DEF TranscribeLocally
  <2> QED
    BY <2>1, <1>1, CallIsOver
<1> QED
  BY <1>2, <1>3, <1>4

LEMMA CallBeginsOrEnds ==
  ASSUME ReadinessInv, EndCall \/ \E f \in Features : StartCall(f)
  PROVE  ReadinessInv'
<1>1. CASE EndCall
  <2>1. NoCall \in CallRecords /\ CallGoes(NoCall)
    BY <1>1, ReadinessAssumption DEF NoCall, CallRecords, CallSteps, EndCall
  <2> QED
    BY <2>1, CallKeeps DEF NoCall
<1>2. ASSUME NEW f \in Features, StartCall(f) PROVE ReadinessInv'
  <2>1. PICK left \in {0, 1} :
          CallGoes([NoCall EXCEPT !.feature = f, !.step = settings.provider[f], !.left = left])
    BY <1>2 DEF StartCall, CallGoes
  <2> DEFINE next == [NoCall EXCEPT !.feature = f, !.step = settings.provider[f], !.left = left]
  <2>2. settings.provider[f] \in AiProviders
    BY <1>2 DEF StartCall
  <2>5. left \in 0..StandIns
    BY ReadinessAssumption
  <2>3. /\ next \in CallRecords /\ next.step \in AiProviders
        /\ next.answer = "none" /\ next.asked = {} /\ next.brief = FALSE
    BY <2>2, <2>5 DEF NoCall, CallRecords, CallSteps, AiProviders
  <2>4. CallGoes(next)
    BY <2>1
  <2> HIDE DEF next
  <2> QED
    BY <2>3, <2>4, CallKeeps DEF AiProviders
<1> QED
  BY <1>1, <1>2

LEMMA AroundTheProbe ==
  ASSUME ReadinessInv, Probe \/ Surroundings \/ UNCHANGED readinessVars
  PROVE  ReadinessInv'
<1>1. CASE Probe
  <2>1. UNCHANGED <<settings, postgres, lastBeat, changes, call>>
    BY <1>1 DEF Probe
  <2>2. probed' \in {"error", "not_ready", "ready"}
        /\ (probed' = "ready" => /\ postgres = "up" /\ CheckWorker # "not_ready"
                                 /\ CheckAi # "not_ready" /\ CheckEmail # "not_ready")
    BY <1>1 DEF Probe, CheckDatabase
  <2>3. ProbeIsCurrent'
    BY <2>1, <2>2 DEF ProbeIsCurrent, CheckWorker, CheckAi, CheckAiFeature, CheckEmail, HasKey
  <2> QED
    BY <2>1, <2>2, <2>3 DEF ReadinessInv, ReadinessTypeOK, CallInOrder, StandInsAsked
<1>2. CASE Surroundings
  <2>1. changes' \in 0..LastProbe
    BY <1>2, ReadinessAssumption DEF Surroundings, ReadinessInv, ReadinessTypeOK
  <2> QED
    BY <1>2, <2>1 DEF Surroundings, ReadinessInv, ReadinessTypeOK, CallInOrder, StandInsAsked,
       ProbeIsCurrent
<1>3. CASE UNCHANGED readinessVars
  <2>1. UNCHANGED <<settings, postgres, lastBeat, probed, changes, call>>
    BY <1>3 DEF readinessVars
  <2>2. ProbeIsCurrent'
    BY <2>1 DEF ReadinessInv, ProbeIsCurrent, CheckAi, CheckAiFeature, CheckEmail, HasKey
  <2> QED
    BY <2>1, <2>2 DEF ReadinessInv, ReadinessTypeOK, CallInOrder, StandInsAsked
<1> QED
  BY <1>1, <1>2, <1>3

LEMMA ReadinessStep == ReadinessInv /\ [ReadinessNext]_readinessVars => ReadinessInv'
  BY AroundTheProbe, CallBeginsOrEnds, AskOpenAiKeeps, AskAnthropicKeeps, TranscribeKeeps
  DEF ReadinessNext

(* However the database, the heartbeat and the providers behave, the probe *)
(* and each call keep what ReadinessInv says of them.                      *)
THEOREM ReadinessInvariance == ReadinessSpec => []ReadinessInv
<1>1. ReadinessInit => ReadinessInv
  BY ReadinessInitInv
<1>2. ReadinessInv /\ [ReadinessNext]_readinessVars => ReadinessInv'
  BY ReadinessStep
<1> QED
  BY <1>1, <1>2, PTL DEF ReadinessSpec

LEMMA ReadinessInvWorks == ReadinessInv => ReadyServicesWork
<1> SUFFICES ASSUME ReadinessInv PROVE ReadyServicesWork
  OBVIOUS
<1>1. ASSUME probed = "ready" PROVE
        /\ postgres = "up" /\ lastBeat = "fresh" /\ BuildsEmail
        /\ BuildsModel("scenarioGeneration") /\ BuildsModel("winoeReport")
  <2>1. postgres = "up" /\ lastBeat = "fresh" /\ CheckAi # "not_ready" /\ CheckEmail = "ready"
    BY <1>1 DEF ReadinessInv, ProbeIsCurrent
  <2>2. BuildsEmail
    BY <2>1 DEF CheckEmail, BuildsEmail
  <2>3. \A f \in Features : CheckAiFeature(f) # "not_ready"
    BY <2>1 DEF CheckAi
  <2>4. \A f \in Features : BuildsModel(f)
    BY <2>3 DEF CheckAiFeature, BuildsModel
  <2> QED
    BY <2>1, <2>2, <2>4 DEF Features
<1> QED
  BY <1>1 DEF ReadyServicesWork, ReadinessInv, CallInOrder, StandInsAsked, HasKey

-----------------------------------------------------------------------------
(* WorkerHealth: the inductive invariant. *)

(* The heartbeat task lives only as long as its process, and a process     *)
(* that took a job after its heartbeat failed is on its way out: it never  *)
(* looks for another.                                                      *)
InOrder(loop, task) ==
  /\ task \in {"writing", "waiting"} => loop.at \notin {"off", "stopping", "gone"}
  /\ loop.claimsSince <= 1
  /\ loop.claimsSince = 1 =>
       /\ loop.at \in {"job", "check", "closing", "stopping", "gone"}
       /\ loop.at \in {"job", "check"} => task = "failed"

(* A row that says "running" was written by a process that is alive, or    *)
(* that died without a word since the row was written.                     *)
WriterOf(i, p) ==
  /\ InstanceOf[p] = i
  /\ \/ Alive(p)
     \/ /\ process[p].at = "gone" /\ process[p].endedAt > 0
        /\ process[p].endedAt >= heartbeat[i].at
RowHasWriter(i) ==
  heartbeat[i].status = "running" => \E p \in Processes : WriterOf(i, p)

LoopRecords == [at : {"off", "looking", "job", "idle", "check", "closing", "stopping", "gone"},
                stop : BOOLEAN, claimsSince : 0..2, endedAt : 0..LastSecond]
TaskStates == {"off", "writing", "waiting", "failed", "ended"}

HealthInv ==
  /\ HealthTypeOK
  /\ now >= 1 /\ \A i \in Instances : heartbeat[i].at <= now
  /\ \A p \in Processes : InOrder(process[p], beat[p])
  /\ \A i \in Instances : RowHasWriter(i)

LEMMA HealthInitInv == HealthInit => HealthInv
<1> SUFFICES ASSUME HealthInit PROVE HealthInv
  OBVIOUS
<1>1. now = 1 /\ 1 \in 0..LastSecond /\ 0 \in 0..LastSecond
      /\ healthFaults \in 0..HealthFaults
  BY WorkerHealthAssumption DEF HealthInit
<1>2. HealthTypeOK
  BY <1>1 DEF HealthInit, HealthTypeOK, NoRow
<1>3. /\ \A i \in Instances : heartbeat[i].at = 0 /\ heartbeat[i].status = "none"
      /\ \A p \in Processes : beat[p] = "off" /\ process[p].claimsSince = 0
  BY DEF HealthInit, NoRow
<1> QED
  BY <1>1, <1>2, <1>3 DEF HealthInv, InOrder, RowHasWriter

LEMMA ProcessFields ==
  ASSUME HealthInv, NEW p \in Processes
  PROVE  /\ process[p] \in LoopRecords /\ beat[p] \in TaskStates
         /\ process[p].claimsSince \in 0..1
         /\ InOrder(process[p], beat[p])
         /\ InstanceOf[p] \in Instances
         /\ now \in 0..LastSecond /\ now \in Nat /\ LastSecond \in Nat
         /\ beat = [beat EXCEPT ![p] = beat[p]] /\ process = [process EXCEPT ![p] = process[p]]
<1>1. process[p] \in LoopRecords /\ beat[p] \in TaskStates /\ now \in 0..LastSecond
  BY DEF HealthInv, HealthTypeOK, LoopRecords, TaskStates
<1>2. beat = [beat EXCEPT ![p] = beat[p]] /\ process = [process EXCEPT ![p] = process[p]]
  BY DEF HealthInv, HealthTypeOK
<1>3. InOrder(process[p], beat[p]) /\ InstanceOf[p] \in Instances
  BY DEF HealthInv, Instances
<1>4. process[p].claimsSince \in 0..1
  BY <1>1, <1>3 DEF LoopRecords, InOrder
<1> QED
  BY <1>1, <1>2, <1>3, <1>4, WorkerHealthAssumption

(* A step of process p alone, whose task is task and loop new afterwards.  *)
Becomes(p, new, task) ==
  /\ process' \in [Processes -> LoopRecords] /\ beat' \in [Processes -> TaskStates]
  /\ process'[p] = new /\ beat'[p] = task
  /\ \A o \in Processes \ {p} : process'[o] = process[o] /\ beat'[o] = beat[o]

LEMMA ProcessBecomes ==
  ASSUME HealthInv, NEW p \in Processes, NEW task \in TaskStates, NEW new \in LoopRecords,
         process' = [process EXCEPT ![p] = new], beat' = [beat EXCEPT ![p] = task]
  PROVE  Becomes(p, new, task)
<1>1. process \in [Processes -> LoopRecords] /\ beat \in [Processes -> TaskStates]
  BY DEF HealthInv, HealthTypeOK, LoopRecords, TaskStates
<1> QED
  BY <1>1 DEF Becomes

(* A step of process p that leaves the rows: its new record and its task   *)
(* are in order, and it still stands for the row it wrote.                 *)
LEMMA ProcessGoesOn ==
  ASSUME HealthInv, NEW p \in Processes, NEW new, NEW task, Becomes(p, new, task),
         UNCHANGED <<now, heartbeat>>, healthFaults' \in 0..HealthFaults,
         InOrder(new, task), process[p].at # "gone",
         Alive(p) => new.at \notin {"off", "gone"} \/ (new.at = "gone" /\ new.endedAt = now)
  PROVE  HealthInv'
<1>1. /\ now \in Nat /\ now \in 0..LastSecond
      /\ heartbeat \in [Instances -> [status : {"none", "running", "stopped"},
                                      at : 0..LastSecond, made : 0..LastSecond]]
  BY ProcessFields DEF HealthInv, HealthTypeOK
<1>2. /\ process'[p] = new /\ beat'[p] = task
      /\ \A o \in Processes \ {p} : process'[o] = process[o] /\ beat'[o] = beat[o]
      /\ HealthTypeOK'
  BY <1>1 DEF HealthTypeOK, LoopRecords, TaskStates, Becomes
<1>3. \A o \in Processes : InOrder(process[o], beat[o])'
  BY <1>2 DEF HealthInv
<1>4. ASSUME NEW i \in Instances PROVE RowHasWriter(i)'
  <2>1. SUFFICES ASSUME heartbeat[i].status = "running"
                 PROVE  \E o \in Processes : WriterOf(i, o)'
    BY DEF RowHasWriter
  <2>2. PICK o \in Processes : WriterOf(i, o)
    BY <2>1 DEF HealthInv, RowHasWriter
  <2>3. now >= 1 /\ heartbeat[i].at <= now
    BY DEF HealthInv
  <2>4. CASE o = p
    <3>1. Alive(p)
      BY <2>2, <2>4 DEF WriterOf
    <3>2. CASE new.at = "gone"
      BY <1>1, <1>2, <2>2, <2>3, <2>4, <3>1, <3>2 DEF WriterOf, Alive
    <3>3. CASE new.at # "gone"
      BY <1>2, <2>2, <2>4, <3>1, <3>3 DEF WriterOf, Alive
    <3> QED
      BY <3>2, <3>3
  <2>5. CASE o # p
    BY <1>2, <2>2, <2>5 DEF WriterOf, Alive
  <2> QED
    BY <2>4, <2>5
<1> QED
  BY <1>2, <1>3, <1>4 DEF HealthInv

(* The loop, before its end.                                               *)
LEMMA LoopKeeps ==
  ASSUME HealthInv, NEW p \in Processes,
         \/ StartWorker(p) \/ Signal(p) \/ TakeJob(p) \/ FindNoJob(p) \/ JobOrSleepEnds(p)
         \/ IterationRaises(p) \/ EndIteration(p)
  PROVE  HealthInv'
<1>1. /\ process[p] \in LoopRecords /\ process[p].claimsSince \in 0..1
      /\ beat[p] \in TaskStates /\ beat = [beat EXCEPT ![p] = beat[p]]
      /\ InOrder(process[p], beat[p])
  BY ProcessFields
<1>2. healthFaults' \in 0..HealthFaults
  BY WorkerHealthAssumption
  DEF HealthInv, HealthTypeOK, HealthFails, StartWorker, Signal, TakeJob, FindNoJob,
      JobOrSleepEnds, IterationRaises, EndIteration
<1>3. CASE StartWorker(p)
  <2> DEFINE new == [process[p] EXCEPT !.at = "looking"]
  <2>1. /\ process' = [process EXCEPT ![p] = new] /\ beat' = [beat EXCEPT ![p] = "writing"]
        /\ UNCHANGED <<now, heartbeat>> /\ process[p].at = "off"
    BY <1>3 DEF StartWorker, LoopTo
  <2>2. new \in LoopRecords /\ new.at = "looking" /\ new.claimsSince = process[p].claimsSince
    BY <1>1 DEF LoopRecords
  <2> HIDE DEF new
  <2>3. InOrder(new, "writing") /\ "writing" \in TaskStates
    BY <1>1, <2>1, <2>2 DEF InOrder, TaskStates
  <2>4. ~Alive(p)
    BY <2>1 DEF Alive
  <2> QED
    <3>1. InOrder(new, "writing") /\ process[p].at # "gone"
      BY <2>1, <2>3
    <3>2. Alive(p) => new.at \notin {"off", "gone"} \/ (new.at = "gone" /\ new.endedAt = now)
      BY <2>4
    <3>3. UNCHANGED <<now, heartbeat>> /\ healthFaults' \in 0..HealthFaults
      BY <2>1, <1>2
    <3>4. process' = [process EXCEPT ![p] = new] /\ beat' = [beat EXCEPT ![p] = "writing"]
      BY <2>1
    <3>5. "writing" \in TaskStates /\ new \in LoopRecords
      BY <2>2, <2>3
    <3>9. Becomes(p, new, "writing")
      BY <3>1, <3>2, <3>3, <3>4, <3>5, ProcessBecomes
    <3> QED
      BY <3>1, <3>2, <3>3, <3>4, <3>5, <3>9, ProcessGoesOn
<1>4. CASE Signal(p)
  <2> DEFINE new == [process[p] EXCEPT !.stop = TRUE]
  <2>1. /\ process' = [process EXCEPT ![p] = new] /\ beat' = [beat EXCEPT ![p] = beat[p]]
        /\ UNCHANGED <<now, heartbeat>> /\ process[p].at \notin {"off", "gone"}
    BY <1>1, <1>4 DEF Signal, Alive
  <2>2. new \in LoopRecords /\ new.at = process[p].at /\ new.claimsSince = process[p].claimsSince
    BY <1>1 DEF LoopRecords
  <2> HIDE DEF new
  <2>3. InOrder(new, beat[p])
    BY <1>1, <2>2 DEF InOrder
  <2>9. Becomes(p, new, beat[p])
    BY <1>1, <1>2, <2>1, <2>2, <2>3, ProcessBecomes
  <2> QED
    <3>1. InOrder(new, beat[p]) /\ process[p].at # "gone"
      BY <1>1, <1>2, <2>1, <2>2, <2>3, <2>9 DEF Alive
    <3>2. Alive(p) => new.at \notin {"off", "gone"}
              \/ (new.at = "gone" /\ new.endedAt = now)
      BY <1>1, <1>2, <2>1, <2>2, <2>3, <2>9 DEF Alive
    <3>3. UNCHANGED <<now, heartbeat>> /\ healthFaults' \in 0..HealthFaults
      BY <1>1, <1>2, <2>1, <2>2, <2>3, <2>9
    <3> QED
      BY <3>1, <3>2, <3>3, <2>9, ProcessGoesOn
<1>5. CASE TakeJob(p)
  <2> DEFINE since == IF beat[p] = "failed" /\ process[p].claimsSince < 2
                      THEN process[p].claimsSince + 1 ELSE process[p].claimsSince
             new == [process[p] EXCEPT !.at = "job", !.claimsSince = since]
  <2>1. /\ process' = [process EXCEPT ![p] = new] /\ beat' = [beat EXCEPT ![p] = beat[p]]
        /\ UNCHANGED <<now, heartbeat>> /\ process[p].at = "looking"
    BY <1>1, <1>5 DEF TakeJob
  <2>2. since \in 0..2 /\ since <= 1 /\ (since = 1 => beat[p] = "failed")
    BY <1>1, <2>1 DEF InOrder
  <2> HIDE DEF since
  <2>3. new \in LoopRecords /\ new.at = "job" /\ new.claimsSince = since
    BY <1>1, <2>2 DEF LoopRecords
  <2> HIDE DEF new
  <2>4. InOrder(new, beat[p])
    BY <2>2, <2>3 DEF InOrder
  <2>9. Becomes(p, new, beat[p])
    BY <1>1, <1>2, <2>1, <2>3, <2>4, ProcessBecomes
  <2> QED
    <3>1. InOrder(new, beat[p]) /\ process[p].at # "gone"
      BY <1>1, <1>2, <2>1, <2>3, <2>4, <2>9 DEF Alive
    <3>2. Alive(p) => new.at \notin {"off", "gone"}
              \/ (new.at = "gone" /\ new.endedAt = now)
      BY <1>1, <1>2, <2>1, <2>3, <2>4, <2>9 DEF Alive
    <3>3. UNCHANGED <<now, heartbeat>> /\ healthFaults' \in 0..HealthFaults
      BY <1>1, <1>2, <2>1, <2>3, <2>4, <2>9
    <3> QED
      BY <3>1, <3>2, <3>3, <2>9, ProcessGoesOn
<1>6. CASE FindNoJob(p) \/ JobOrSleepEnds(p) \/ IterationRaises(p) \/ EndIteration(p)
  <2>1. PICK at \in {"idle", "check", "closing", "looking"} :
          /\ process' = [process EXCEPT ![p] = [process[p] EXCEPT !.at = at]]
          /\ UNCHANGED <<now, heartbeat, beat>>
          /\ process[p].at \in {"looking", "job", "idle", "check"}
          /\ at = "idle" => process[p].at = "looking"
          /\ at = "check" => process[p].at \in {"job", "idle"}
          /\ at = "looking" => process[p].at = "check" /\ beat[p] # "failed"
    BY <1>6 DEF FindNoJob, JobOrSleepEnds, IterationRaises, EndIteration, MustClose, LoopTo
  <2> DEFINE new == [process[p] EXCEPT !.at = at]
  <2>2. new \in LoopRecords /\ new.at = at /\ new.claimsSince = process[p].claimsSince
    BY <1>1 DEF LoopRecords
  <2>3. process' = [process EXCEPT ![p] = new] /\ beat' = [beat EXCEPT ![p] = beat[p]]
    BY <1>1, <2>1
  <2> HIDE DEF new
  <2>4. InOrder(new, beat[p])
    BY <1>1, <2>1, <2>2 DEF InOrder
  <2>5. process[p].at # "gone" /\ new.at \notin {"off", "gone"}
    BY <2>1, <2>2
  <2>9. Becomes(p, new, beat[p])
    BY <1>1, <1>2, <2>1, <2>2, <2>3, <2>4, <2>5, ProcessBecomes
  <2> QED
    <3>1. InOrder(new, beat[p]) /\ process[p].at # "gone"
      BY <1>1, <1>2, <2>1, <2>2, <2>3, <2>4, <2>5, <2>9 DEF Alive
    <3>2. Alive(p) => new.at \notin {"off", "gone"}
              \/ (new.at = "gone" /\ new.endedAt = now)
      BY <1>1, <1>2, <2>1, <2>2, <2>3, <2>4, <2>5, <2>9 DEF Alive
    <3>3. UNCHANGED <<now, heartbeat>> /\ healthFaults' \in 0..HealthFaults
      BY <1>1, <1>2, <2>1, <2>2, <2>3, <2>4, <2>5, <2>9
    <3> QED
      BY <3>1, <3>2, <3>3, <2>9, ProcessGoesOn
<1> QED
  BY <1>3, <1>4, <1>5, <1>6

(* The task without its row, and a process that dies without a word.       *)
LEMMA TaskKeeps ==
  ASSUME HealthInv, NEW p \in Processes, BeatIsDue(p) \/ BeatFails(p)
  PROVE  HealthInv'
<1>1. PICK task \in {"writing", "failed"} :
        /\ beat' = [beat EXCEPT ![p] = task] /\ UNCHANGED <<now, heartbeat, process>>
        /\ beat[p] \in {"waiting", "writing"}
  BY DEF BeatIsDue, BeatFails
<1>2. healthFaults' \in 0..HealthFaults
  BY WorkerHealthAssumption DEF BeatIsDue, BeatFails, HealthFails, HealthInv, HealthTypeOK
<1>3. /\ InOrder(process[p], beat[p]) /\ process[p] \in LoopRecords
      /\ process[p].claimsSince \in 0..1
      /\ process = [process EXCEPT ![p] = process[p]]
  BY ProcessFields
<1>4. /\ InOrder(process[p], task) /\ process[p].at \notin {"off", "gone"}
      /\ task \in TaskStates
  BY <1>1, <1>3 DEF InOrder, TaskStates
<1>9. Becomes(p, process[p], task)
  BY <1>1, <1>2, <1>3, <1>4, ProcessBecomes
<1> QED
  <2>1. InOrder(process[p], task) /\ process[p].at # "gone"
    BY <1>1, <1>2, <1>3, <1>4, <1>9 DEF Alive
  <2>2. Alive(p) => process[p].at \notin {"off", "gone"}
              \/ (process[p].at = "gone" /\ process[p].endedAt = now)
    BY <1>1, <1>2, <1>3, <1>4, <1>9 DEF Alive
  <2>3. UNCHANGED <<now, heartbeat>> /\ healthFaults' \in 0..HealthFaults
    BY <1>1, <1>2, <1>3, <1>4, <1>9
  <2> QED
    BY <2>1, <2>2, <2>3, <1>9, ProcessGoesOn

LEMMA EndUnmarkedKeeps ==
  ASSUME HealthInv, NEW p \in Processes, EndUnmarked(p)
  PROVE  HealthInv'
<1> DEFINE new == [process[p] EXCEPT !.at = "gone", !.endedAt = now]
<1>1. /\ process' = [process EXCEPT ![p] = new] /\ beat' = [beat EXCEPT ![p] = "ended"]
      /\ UNCHANGED <<now, heartbeat>> /\ process[p].at # "gone"
  BY DEF EndUnmarked, Alive
<1>2. healthFaults' \in 0..HealthFaults
  BY WorkerHealthAssumption DEF EndUnmarked, HealthFails, HealthInv, HealthTypeOK
<1>3. /\ InOrder(process[p], beat[p]) /\ process[p] \in LoopRecords /\ now \in 0..LastSecond
      /\ process[p].claimsSince \in 0..1
  BY ProcessFields
<1>4. /\ new \in LoopRecords /\ new.at = "gone" /\ new.endedAt = now
      /\ new.claimsSince = process[p].claimsSince
  BY <1>3 DEF LoopRecords
<1> HIDE DEF new
<1>5. InOrder(new, "ended") /\ "ended" \in TaskStates
  BY <1>3, <1>4 DEF InOrder, TaskStates
<1>9. Becomes(p, new, "ended")
  BY <1>1, <1>2, <1>4, <1>5, ProcessBecomes
<1> QED
  BY <1>1, <1>2, <1>4, <1>5, <1>9, ProcessGoesOn

(* A row is written: the others stay.                                      *)
LEMMA RowIsWritten ==
  ASSUME HealthInv, NEW p \in Processes, NEW status \in {"running", "stopped"},
         Upsert(p, status)
  PROVE  /\ heartbeat' \in [Instances -> [status : {"none", "running", "stopped"},
                                          at : 0..LastSecond, made : 0..LastSecond]]
         /\ heartbeat'[InstanceOf[p]].status = status
         /\ \A i \in Instances \ {InstanceOf[p]} : heartbeat'[i] = heartbeat[i]
         /\ \A i \in Instances : heartbeat'[i].at <= now
<1> DEFINE i == InstanceOf[p]
           made == IF heartbeat[i].status = "none" THEN now ELSE heartbeat[i].made
           new == [status |-> status, at |-> now, made |-> made]
<1>1. /\ i \in Instances /\ now \in 0..LastSecond /\ now \in Nat
      /\ heartbeat \in [Instances -> [status : {"none", "running", "stopped"},
                                      at : 0..LastSecond, made : 0..LastSecond]]
      /\ \A j \in Instances : heartbeat[j].at <= now
  BY ProcessFields DEF HealthInv, HealthTypeOK
<1>2. made \in 0..LastSecond
  BY <1>1
<1>3. heartbeat' = [heartbeat EXCEPT ![i] = new]
  BY DEF Upsert
<1> HIDE DEF made, i
<1>4. new \in [status : {"none", "running", "stopped"}, at : 0..LastSecond, made : 0..LastSecond]
      /\ new.status = status /\ new.at = now
  BY <1>1, <1>2
<1> HIDE DEF new
<1>5. /\ heartbeat'[i] = new
      /\ \A j \in Instances \ {i} : heartbeat'[j] = heartbeat[j]
      /\ heartbeat' \in [Instances -> [status : {"none", "running", "stopped"},
                                          at : 0..LastSecond, made : 0..LastSecond]]
  BY <1>1, <1>3, <1>4
<1>6. \A j \in Instances : heartbeat'[j].at <= now
  BY <1>1, <1>4, <1>5
<1> QED
  BY <1>4, <1>5, <1>6 DEF i

(* A step of process p that writes its row: it is alive afterwards, or the *)
(* row says that it stopped.                                               *)
LEMMA RowAndProcess ==
  ASSUME HealthInv, NEW p \in Processes, NEW new, NEW task, Becomes(p, new, task),
         NEW status \in {"running", "stopped"}, Upsert(p, status),
         UNCHANGED <<now, healthFaults>>, InOrder(new, task),
         status = "running" => new.at \notin {"off", "gone"}
  PROVE  HealthInv'
<1>1. /\ heartbeat' \in [Instances -> [status : {"none", "running", "stopped"},
                                       at : 0..LastSecond, made : 0..LastSecond]]
      /\ heartbeat'[InstanceOf[p]].status = status
      /\ \A i \in Instances \ {InstanceOf[p]} : heartbeat'[i] = heartbeat[i]
      /\ \A i \in Instances : heartbeat'[i].at <= now
  BY RowIsWritten
<1>2. /\ process'[p] = new /\ beat'[p] = task
      /\ \A o \in Processes \ {p} : process'[o] = process[o] /\ beat'[o] = beat[o]
      /\ HealthTypeOK'
  <2>1. healthFaults' \in 0..HealthFaults /\ now' \in 0..LastSecond
    BY DEF HealthInv, HealthTypeOK
  <2> QED
    BY <1>1, <2>1 DEF HealthTypeOK, LoopRecords, TaskStates, Becomes
<1>3. \A o \in Processes : InOrder(process[o], beat[o])'
  BY <1>2 DEF HealthInv
<1>4. ASSUME NEW i \in Instances PROVE RowHasWriter(i)'
  <2>1. CASE i = InstanceOf[p]
    BY <1>1, <1>2, <2>1 DEF RowHasWriter, WriterOf, Alive
  <2>2. ASSUME i # InstanceOf[p], heartbeat[i].status = "running"
        PROVE  \E o \in Processes : WriterOf(i, o)'
    <3>1. PICK o \in Processes : WriterOf(i, o)
      BY <2>2 DEF HealthInv, RowHasWriter
    <3>2. o # p
      BY <2>2, <3>1 DEF WriterOf
    <3> QED
      BY <1>1, <1>2, <2>2, <3>1, <3>2 DEF WriterOf, Alive
  <2> QED
    BY <1>1, <2>1, <2>2 DEF RowHasWriter
<1>5. now' >= 1 /\ \A i \in Instances : heartbeat'[i].at <= now'
  BY <1>1 DEF HealthInv
<1> QED
  BY <1>2, <1>3, <1>4, <1>5 DEF HealthInv

LEMMA RowKeeps ==
  ASSUME HealthInv, NEW p \in Processes, WriteBeat(p) \/ Close(p) \/ MarkStopped(p)
  PROVE  HealthInv'
<1>1. /\ process[p] \in LoopRecords /\ InOrder(process[p], beat[p])
      /\ process[p].claimsSince \in 0..1
      /\ beat[p] \in TaskStates
      /\ process = [process EXCEPT ![p] = process[p]]
      /\ beat = [beat EXCEPT ![p] = beat[p]]
  BY ProcessFields
<1>2. healthFaults \in 0..HealthFaults
  BY DEF HealthInv, HealthTypeOK
<1>3. CASE WriteBeat(p)
  <2>1. /\ Upsert(p, "running") /\ UNCHANGED <<now, process, healthFaults>>
        /\ beat' = [beat EXCEPT ![p] = "waiting"] /\ beat[p] = "writing"
    BY <1>3 DEF WriteBeat
  <2>2. /\ InOrder(process[p], "waiting") /\ process[p].at \notin {"off", "gone"}
        /\ "waiting" \in TaskStates
    BY <1>1, <2>1 DEF InOrder, TaskStates
  <2>3. process' = [process EXCEPT ![p] = process[p]]
    BY <1>1, <2>1
  <2>9. Becomes(p, process[p], "waiting")
    BY <1>1, <2>1, <2>2, <2>3, ProcessBecomes
  <2> QED
    BY <1>1, <2>1, <2>2, <2>3, <2>9, RowAndProcess
<1>4. CASE Close(p)
  <2> DEFINE new == [process[p] EXCEPT !.at = "stopping"]
  <2>1. /\ process' = [process EXCEPT ![p] = new] /\ beat' = [beat EXCEPT ![p] = "ended"]
        /\ UNCHANGED <<now, healthFaults>> /\ process[p].at = "closing"
        /\ UNCHANGED heartbeat \/ Upsert(p, "running")
    BY <1>4 DEF Close, AwaitTask, LoopTo
  <2>2. new \in LoopRecords /\ new.at = "stopping" /\ new.claimsSince = process[p].claimsSince
    BY <1>1 DEF LoopRecords
  <2> HIDE DEF new
  <2>3. InOrder(new, "ended") /\ "ended" \in TaskStates
    BY <1>1, <2>2 DEF InOrder, TaskStates
  <2>4. CASE UNCHANGED heartbeat
    <3>1. Becomes(p, new, "ended")
      BY <1>2, <2>1, <2>2, <2>3, <2>4, ProcessBecomes
    <3> QED
      <4>1. InOrder(new, "ended") /\ process[p].at # "gone"
        BY <1>2, <2>1, <2>2, <2>3, <2>4, <3>1 DEF Alive
      <4>2. Alive(p) => new.at \notin {"off", "gone"}
              \/ (new.at = "gone" /\ new.endedAt = now)
        BY <1>2, <2>1, <2>2, <2>3, <2>4, <3>1 DEF Alive
      <4>3. UNCHANGED <<now, heartbeat>> /\ healthFaults' \in 0..HealthFaults
        BY <1>2, <2>1, <2>2, <2>3, <2>4, <3>1
      <4> QED
        BY <4>1, <4>2, <4>3, <3>1, ProcessGoesOn
  <2>5. CASE Upsert(p, "running")
    <3>1. Becomes(p, new, "ended")
      BY <2>1, <2>2, <2>3, <2>5, ProcessBecomes
    <3> QED
      BY <2>1, <2>2, <2>3, <2>5, <3>1, RowAndProcess
  <2> QED
    BY <2>1, <2>4, <2>5
<1>5. CASE MarkStopped(p)
  <2> DEFINE new == [process[p] EXCEPT !.at = "gone", !.endedAt = 0]
  <2>1. /\ Upsert(p, "stopped") /\ UNCHANGED <<now, beat, healthFaults>>
        /\ process' = [process EXCEPT ![p] = new] /\ process[p].at = "stopping"
    BY <1>5 DEF MarkStopped
  <2>2. 0 \in 0..LastSecond
    BY WorkerHealthAssumption
  <2>3. new \in LoopRecords /\ new.at = "gone" /\ new.claimsSince = process[p].claimsSince
    BY <1>1, <2>2 DEF LoopRecords
  <2> HIDE DEF new
  <2>4. InOrder(new, beat[p])
    BY <1>1, <2>1, <2>3 DEF InOrder
  <2>5. beat' = [beat EXCEPT ![p] = beat[p]]
    BY <1>1, <2>1
  <2>9. Becomes(p, new, beat[p])
    BY <1>1, <2>1, <2>3, <2>4, <2>5, ProcessBecomes
  <2> QED
    BY <1>1, <2>1, <2>3, <2>4, <2>5, <2>9, RowAndProcess
<1> QED
  BY <1>3, <1>4, <1>5

LEMMA HealthStepKeeps == HealthInv /\ [HealthNext]_healthVars => HealthInv'
<1> SUFFICES ASSUME HealthInv, [HealthNext]_healthVars PROVE HealthInv'
  OBVIOUS
<1>1. CASE TimePasses
  <2>1. /\ now' = now + 1 /\ now \in 0..LastSecond /\ now < LastSecond /\ LastSecond \in Nat
        /\ UNCHANGED <<heartbeat, process, beat, healthFaults>>
    BY <1>1, WorkerHealthAssumption DEF TimePasses, HealthInv, HealthTypeOK
  <2>2. HealthTypeOK'
    BY <2>1 DEF HealthInv, HealthTypeOK
  <2>3. now' >= 1 /\ \A i \in Instances : heartbeat'[i].at <= now'
    <3>1. \A i \in Instances : heartbeat[i].at \in 0..LastSecond
      BY DEF HealthInv, HealthTypeOK
    <3> QED
      BY <2>1, <3>1 DEF HealthInv
  <2>4. \A p \in Processes : InOrder(process[p], beat[p])'
    BY <2>1 DEF HealthInv
  <2>5. \A i \in Instances : RowHasWriter(i)'
    BY <2>1 DEF HealthInv, RowHasWriter, WriterOf, Alive
  <2> QED
    BY <2>2, <2>3, <2>4, <2>5 DEF HealthInv
<1>2. CASE UNCHANGED healthVars
  BY <1>2 DEF healthVars, HealthInv, HealthTypeOK, RowHasWriter, WriterOf, Alive
<1>3. CASE \E p \in Processes : HealthStep(p)
  BY <1>3, LoopKeeps, TaskKeeps, EndUnmarkedKeeps, RowKeeps DEF HealthStep
<1> QED
  BY <1>1, <1>2, <1>3 DEF HealthNext

(* However processes start, are signalled, lose their heartbeat or die,    *)
(* HealthInv holds of their loops, tasks and rows.                         *)
THEOREM HealthInvariance == HealthSpec => []HealthInv
<1>1. HealthInit => HealthInv
  BY HealthInitInv
<1>2. HealthInv /\ [HealthNext]_healthVars => HealthInv'
  BY HealthStepKeeps
<1> QED
  BY <1>1, <1>2, PTL DEF HealthSpec

LEMMA HealthInvIsTrue == HealthInv => ReadyMeansAlive /\ LostBeatEndsWork
<1> SUFFICES ASSUME HealthInv PROVE ReadyMeansAlive /\ LostBeatEndsWork
  OBVIOUS
<1>1. LostBeatEndsWork
  BY DEF HealthInv, LostBeatEndsWork, InOrder
<1>2. ReadyMeansAlive
  <2>1. SUFFICES ASSUME NEW i \in Instances, heartbeat[i].status = "running", Fresh(i)
        PROVE  \E p \in Processes :
                 \/ Alive(p)
                 \/ process[p].at = "gone" /\ process[p].endedAt > 0 /\ process[p].endedAt >= now - StaleAfter
    BY DEF ReadyMeansAlive, WorkerMayLookReady, LatestRows, Heartbeats
  <2>2. PICK p \in Processes : WriterOf(i, p)
    BY <2>1 DEF HealthInv, RowHasWriter
  <2>3. /\ process[p].endedAt \in 0..LastSecond /\ heartbeat[i].at \in 0..LastSecond
        /\ now \in Nat /\ StaleAfter \in Nat /\ LastSecond \in Nat
    BY WorkerHealthAssumption, ProcessFields DEF HealthInv, HealthTypeOK
  <2> QED
    BY <2>1, <2>2, <2>3 DEF WriterOf, Fresh
<1> QED
  BY <1>1, <1>2

-----------------------------------------------------------------------------
(* MediaStorage: the inductive invariant. *)

(* An upload is asked for in the day's window, and its URL ends in time.   *)
UploadInTime(row) ==
  /\ row.made <= WindowEnd /\ row.until <= row.made + MaxLife
  /\ row.status = "none" => row.until = 0
  /\ row.status # "none" => row.declared.size \in 1..MaxBytes

(* Nothing is stored before it was declared.  What the fake storage holds  *)
(* or remembers of an upload that is still awaited is what was declared,   *)
(* and the bytes are there before anything that describes them.  S3 keeps  *)
(* an object and its description together.  An object whose purge began is *)
(* gone.                                                                   *)
Held(k) ==
  /\ asset[k].status = "none" =>
       /\ object[k] = 0 /\ sidecar[k] = NoDescription
       /\ \A p \in Servers : memory[p][k] = NoDescription
  /\ Fake /\ asset[k].status = "uploading" =>
       /\ sidecar[k] # NoDescription => object[k] = asset[k].declared.size
       /\ setup.directory =>
            \A p \in Servers : memory[p][k] = NoDescription \/ object[k] = asset[k].declared.size
  /\ ~Fake /\ object[k] # 0 => sidecar[k].size = object[k]
  /\ asset[k].status = "purged" => minute >= RetentionEnd /\ object[k] = 0

(* Who writes or removes an object is the fake storage; a write ends       *)
(* before the retention does, and a removal begins after it.               *)
WriterInOrder(p) ==
  writer[p].at # "idle" =>
    LET k == writer[p].on IN
    /\ Fake /\ k \in Assets /\ asset[k].status # "none"
    /\ writer[p].at \in {"body", "described"} => minute < RetentionEnd
    /\ writer[p].at = "described" /\ asset[k].status = "uploading"
         => object[k] = asset[k].declared.size
    /\ writer[p].at = "removed" =>
         minute >= RetentionEnd /\ asset[k].status # "uploading" /\ object[k] = 0

MediaInv ==
  /\ MediaTypeOK /\ Valid(setup)
  /\ \A k \in Assets : UploadInTime(asset[k]) /\ Held(k)
  /\ \A p \in Servers : WriterInOrder(p)
  /\ ~(answer.late /\ answer.code = 200)

LEMMA MediaInitInv == MediaInit => MediaInv
<1> SUFFICES ASSUME MediaInit PROVE MediaInv
  OBVIOUS
<1> USE MediaStorageAssumption
<1>1. /\ NoDescription \in Descriptions /\ IdleWriter \in Writing
      /\ NoAsset.status = "none" /\ NoAsset.made = 0 /\ NoAsset.until = 0
  BY DEF NoDescription, Descriptions, ContentTypes, IdleWriter, Writing, NoAsset
<1>2. NoAsset \in AssetRows
  BY <1>1 DEF NoAsset, AssetRows, AssetStates
<1>3. /\ minute \in 1..LastMinute /\ 0 \in 0..(MaxBytes + 1) /\ StorageFaults \in 0..StorageFaults
      /\ 0 <= WindowEnd /\ 0 <= 0 + MaxLife
  BY DEF MediaInit
<1> HIDE MediaStorageAssumption
<1>4. answer \in [to : Assets \cup {0}, code : {200, 403, 404, 422}, late : BOOLEAN]
      /\ answer.late = FALSE
  BY DEF MediaInit
<1>5. MediaTypeOK
  BY <1>1, <1>2, <1>3, <1>4 DEF MediaInit, MediaTypeOK
<1>6. \A k \in Assets : UploadInTime(asset[k]) /\ Held(k)
  BY <1>1, <1>3 DEF MediaInit, UploadInTime, Held
<1>7. \A p \in Servers : WriterInOrder(p)
  BY DEF MediaInit, WriterInOrder, IdleWriter
<1> QED
  BY <1>4, <1>5, <1>6, <1>7 DEF MediaInit, MediaInv

LEMMA LifeBounded == ASSUME Valid(setup) PROVE Life \in 1..MaxLife
  BY MediaStorageAssumption DEF Life, Clamped, Valid

LEMMA MediaFields ==
  ASSUME MediaInv
  PROVE  /\ {MaxBytes, MaxLife, WindowEnd, RetentionEnd, LastMinute} \subseteq Nat
         /\ RetentionEnd > WindowEnd + MaxLife
         /\ minute \in Nat /\ Life \in 1..MaxLife /\ SignedUntil \in Nat
         /\ SignedUntil <= minute + MaxLife /\ SignedUntil # 0
         /\ \A k \in Assets : /\ asset[k] \in AssetRows /\ asset[k].made \in Nat
                              /\ asset[k].until \in Nat /\ asset[k].declared \in Descriptions
                              /\ asset[k].until # 0 => asset[k].status # "none"
                              /\ asset[k].until < RetentionEnd
<1>1. /\ {MaxBytes, MaxLife, WindowEnd, RetentionEnd, LastMinute} \subseteq Nat
      /\ RetentionEnd > WindowEnd + MaxLife
  BY MediaStorageAssumption
<1>2. minute \in Nat /\ minute >= 1
  BY <1>1 DEF MediaInv, MediaTypeOK
<1>3. Life \in 1..MaxLife
  BY LifeBounded DEF MediaInv
<1>4. SignedUntil \in Nat /\ SignedUntil <= minute + MaxLife /\ SignedUntil # 0
  BY <1>1, <1>2, <1>3 DEF SignedUntil
<1>5. ASSUME NEW k \in Assets
      PROVE  /\ asset[k] \in AssetRows /\ asset[k].made \in Nat
             /\ asset[k].until \in Nat /\ asset[k].declared \in Descriptions
             /\ asset[k].until # 0 => asset[k].status # "none"
             /\ asset[k].until < RetentionEnd
  <2>1. /\ asset[k] \in AssetRows /\ asset[k].made \in Nat
        /\ asset[k].until \in Nat /\ asset[k].declared \in Descriptions
    BY DEF MediaInv, MediaTypeOK, AssetRows
  <2>2. UploadInTime(asset[k])
    BY DEF MediaInv
  <2> QED
    BY <1>1, <2>1, <2>2 DEF UploadInTime
<1> QED
  BY <1>1, <1>2, <1>3, <1>4, <1>5

(* Links and answers.                                                      *)
LEMMA WatchingKeeps ==
  ASSUME MediaInv, NEW k \in Assets,
         Sign(k) \/ (\E p \in Servers : Download(p, k)) \/ UNCHANGED mediaVars
  PROVE  MediaInv'
<1>1. UNCHANGED <<setup, minute, asset, object, sidecar, memory, writer, faults_left>>
  BY DEF Sign, Download, mediaVars
<1>2. link' \in [Assets -> Nat]
  BY MediaFields DEF Sign, Download, mediaVars, MediaInv, MediaTypeOK
<1>3. /\ answer' \in [to : Assets \cup {0}, code : {200, 403, 404, 422}, late : BOOLEAN]
      /\ ~(answer'.late /\ answer'.code = 200)
  <2>1. CASE UNCHANGED answer
    BY <2>1 DEF MediaInv, MediaTypeOK
  <2>2. ASSUME NEW p \in Servers, Download(p, k)
        PROVE  /\ answer' \in [to : Assets \cup {0}, code : {200, 403, 404, 422}, late : BOOLEAN]
               /\ ~(answer'.late /\ answer'.code = 200)
    <3> DEFINE code == IF Fake THEN AnswerTo(p, k) ELSE S3AnswerTo(k)
    <3>1. code \in {200, 403, 404, 422} /\ (code = 200 => object[k] # 0)
      BY DEF AnswerTo, S3AnswerTo
    <3>2. answer' = [to |-> k, code |-> code, late |-> asset[k].status = "purged"]
      BY <2>2 DEF Download
    <3> HIDE DEF code
    <3>3. asset[k].status = "purged" => object[k] = 0
      BY DEF MediaInv, Held
    <3>4. (asset[k].status = "purged") \in BOOLEAN
      OBVIOUS
    <3>5. answer'.code = code /\ (answer'.late => asset[k].status = "purged")
      BY <3>2
    <3> QED
      BY <3>1, <3>2, <3>3, <3>4, <3>5
  <2> QED
    BY <2>1, <2>2 DEF Sign, mediaVars
<1>4. MediaTypeOK'
  BY <1>1, <1>2, <1>3 DEF MediaInv, MediaTypeOK
<1>5. \A j \in Assets : UploadInTime(asset[j])' /\ Held(j)'
  BY <1>1 DEF MediaInv, UploadInTime, Held, Fake
<1>6. \A p \in Servers : WriterInOrder(p)'
  BY <1>1 DEF MediaInv, WriterInOrder, Fake
<1> QED
  BY <1>1, <1>3, <1>4, <1>5, <1>6 DEF MediaInv, Valid

(* Time, and a crash.                                                      *)
LEMMA MinuteKeeps == ASSUME MediaInv, MinutePasses PROVE MediaInv'
<1>1. /\ minute' = minute + 1 /\ minute < LastMinute
      /\ minute + 1 = RetentionEnd => \A p \in Servers : writer[p] = IdleWriter
      /\ UNCHANGED <<setup, asset, object, sidecar, memory, writer, link, answer, faults_left>>
  BY DEF MinutePasses
<1>2. minute \in Nat /\ RetentionEnd \in Nat /\ LastMinute \in Nat
  BY MediaFields
<1>3. minute' \in 1..LastMinute /\ minute' >= minute
  BY <1>1, <1>2
<1>4. MediaTypeOK'
  BY <1>1, <1>3 DEF MediaInv, MediaTypeOK
<1>5. \A k \in Assets : UploadInTime(asset[k])' /\ Held(k)'
  <2>1. minute' \in Nat
    BY <1>1, <1>2
  <2> QED
    BY <1>1, <1>2, <1>3, <2>1 DEF MediaInv, UploadInTime, Held, Fake
<1>6. ASSUME NEW p \in Servers PROVE WriterInOrder(p)'
  <2>1. WriterInOrder(p)
    BY DEF MediaInv
  <2>2. writer[p].at \in {"body", "described"} => minute' < RetentionEnd
    BY <1>1, <1>2, <2>1 DEF WriterInOrder, IdleWriter
  <2>3. minute >= RetentionEnd => minute' >= RetentionEnd
    BY <1>1, <1>2
  <2> QED
    BY <1>1, <2>1, <2>2, <2>3 DEF WriterInOrder, Fake
<1> QED
  BY <1>1, <1>4, <1>5, <1>6 DEF MediaInv, Valid

LEMMA CrashKeepsMedia ==
  ASSUME MediaInv, NEW p \in Servers, StorageCrash(p) \/ RefuseBody(p)
  PROVE  MediaInv'
<1>1. /\ writer' = [writer EXCEPT ![p] = IdleWriter]
      /\ UNCHANGED <<setup, minute, asset, object, sidecar, link, answer>>
      /\ \/ UNCHANGED memory
         \/ memory' = [memory EXCEPT ![p] = [k \in Assets |-> NoDescription]]
  BY DEF StorageCrash, RefuseBody
<1>2. faults_left' \in 0..StorageFaults
  BY MediaStorageAssumption DEF StorageCrash, RefuseBody, MediaInv, MediaTypeOK
<1>3. NoDescription \in Descriptions /\ IdleWriter \in Writing /\ IdleWriter.at = "idle"
  BY DEF NoDescription, Descriptions, ContentTypes, IdleWriter, Writing
<1>4. /\ \A q \in Servers, k \in Assets : memory'[q][k] \in {memory[q][k], NoDescription}
      /\ memory' \in [Servers -> [Assets -> Descriptions]]
      /\ writer' \in [Servers -> Writing]
      /\ writer'[p].at = "idle" /\ \A q \in Servers \ {p} : writer'[q] = writer[q]
  BY <1>1, <1>3 DEF MediaInv, MediaTypeOK
<1>5. MediaTypeOK'
  BY <1>1, <1>2, <1>4 DEF MediaInv, MediaTypeOK
<1>6. ASSUME NEW k \in Assets PROVE UploadInTime(asset[k])' /\ Held(k)'
  <2>1. UploadInTime(asset[k]) /\ Held(k)
    BY DEF MediaInv
  <2>2. \A q \in Servers : memory'[q][k] \in {memory[q][k], NoDescription}
    BY <1>4
  <2> QED
    BY <1>1, <2>1, <2>2 DEF UploadInTime, Held, Fake
<1>7. \A q \in Servers : WriterInOrder(q)'
  BY <1>1, <1>4 DEF MediaInv, WriterInOrder, Fake
<1> QED
  BY <1>1, <1>5, <1>6, <1>7 DEF MediaInv, Valid

(* The rows: an upload is declared, completed, or its asset deleted.       *)
LEMMA DeclareKeeps ==
  ASSUME MediaInv, NEW k \in Assets, NEW kind \in {"recording", "supplemental"},
         NEW d \in Declarations, NEW name, Declare(k, kind, d, name)
  PROVE  MediaInv'
<1> DEFINE duration == IF kind = "recording" THEN d.duration ELSE 0
           declared == [d EXCEPT !.duration = duration]
           row == [status |-> "uploading", kind |-> kind, made |-> minute,
                   until |-> SignedUntil, declared |-> declared]
<1>1. /\ minute <= WindowEnd /\ asset[k].status = "none" /\ d.size \in 1..MaxBytes
      /\ asset' = [asset EXCEPT ![k] = row]
      /\ UNCHANGED <<setup, minute, object, sidecar, memory, writer, link, answer, faults_left>>
  BY DEF Declare, ValidUpload
<1>2. MaxDuration \in Nat /\ MaxBytes \in Nat /\ minute \in Nat
      /\ SignedUntil \in Nat /\ SignedUntil <= minute + MaxLife /\ MaxLife \in Nat
  BY MediaStorageAssumption, MediaFields
<1>3. duration \in Nat /\ d.size \in Nat /\ d.type \in ContentTypes
  BY <1>2 DEF Declarations, ContentTypes
<1> HIDE DEF duration
<1>4. declared \in Descriptions /\ declared.size = d.size
  <2>1. d = [type |-> d.type, size |-> d.size, duration |-> d.duration]
    BY DEF Declarations
  <2>2. declared = [type |-> d.type, size |-> d.size, duration |-> duration]
    BY <2>1
  <2> QED
    BY <1>3, <2>2 DEF Descriptions
<1> HIDE DEF declared
<1>5. /\ row \in AssetRows
      /\ row.status = "uploading" /\ row.made = minute /\ row.until = SignedUntil
      /\ row.declared = declared
  BY <1>2, <1>4 DEF AssetRows, AssetStates
<1> HIDE DEF row
<1>6. /\ asset' \in [Assets -> AssetRows] /\ asset'[k] = row
      /\ \A j \in Assets \ {k} : asset'[j] = asset[j]
  BY <1>1, <1>5 DEF MediaInv, MediaTypeOK
<1>7. MediaTypeOK'
  BY <1>1, <1>6 DEF MediaInv, MediaTypeOK
<1>8. ASSUME NEW j \in Assets PROVE UploadInTime(asset[j])' /\ Held(j)'
  <2>1. UploadInTime(asset[j]) /\ Held(j)
    BY DEF MediaInv
  <2>2. CASE j = k
    BY <1>1, <1>2, <1>4, <1>5, <1>6, <2>1, <2>2 DEF UploadInTime, Held, Fake
  <2>3. CASE j # k
    BY <1>1, <1>6, <2>1, <2>3 DEF UploadInTime, Held, Fake
  <2> QED
    BY <2>2, <2>3
<1>9. ASSUME NEW p \in Servers PROVE WriterInOrder(p)'
  <2>1. WriterInOrder(p)
    BY DEF MediaInv
  <2> QED
    BY <1>1, <1>6, <2>1 DEF WriterInOrder, Fake
<1> QED
  BY <1>1, <1>7, <1>8, <1>9 DEF MediaInv, Valid

LEMMA StatusMoves ==
  ASSUME MediaInv, NEW k \in Assets, NEW status \in {"uploaded", "deleted"},
         asset[k].status \in {"uploading", "uploaded"},
         asset' = [asset EXCEPT ![k].status = status],
         UNCHANGED <<setup, minute, object, sidecar, memory, writer, link, answer, faults_left>>
  PROVE  MediaInv'
<1> DEFINE row == [asset[k] EXCEPT !.status = status]
<1>1. /\ row \in AssetRows /\ row.status = status
      /\ row.made = asset[k].made /\ row.until = asset[k].until
      /\ row.declared = asset[k].declared
  BY MediaFields DEF AssetRows, AssetStates
<1>2. asset' = [asset EXCEPT ![k] = row]
  OBVIOUS
<1> HIDE DEF row
<1>0. asset \in [Assets -> AssetRows]
  BY DEF MediaInv, MediaTypeOK
<1>3. /\ asset' \in [Assets -> AssetRows] /\ asset'[k] = row
      /\ \A j \in Assets \ {k} : asset'[j] = asset[j]
  BY <1>0, <1>1, <1>2
<1>4. MediaTypeOK'
  BY <1>3 DEF MediaInv, MediaTypeOK
<1>5. ASSUME NEW j \in Assets PROVE UploadInTime(asset[j])' /\ Held(j)'
  <2>1. UploadInTime(asset[j]) /\ Held(j)
    BY DEF MediaInv
  <2>2. CASE j = k
    BY <1>1, <1>3, <2>1, <2>2 DEF UploadInTime, Held, Fake
  <2>3. CASE j # k
    BY <1>3, <2>1, <2>3 DEF UploadInTime, Held, Fake
  <2> QED
    BY <2>2, <2>3
<1>6. ASSUME NEW p \in Servers PROVE WriterInOrder(p)'
  <2>1. WriterInOrder(p)
    BY DEF MediaInv
  <2> QED
    BY <1>1, <1>3, <2>1 DEF WriterInOrder, Fake
<1> QED
  BY <1>4, <1>5, <1>6 DEF MediaInv, Valid

(* The storage: one object k, its description and what is remembered of it *)
(* change, and one process's work.                                         *)
StorageOf(k) ==
  /\ object' \in [Assets -> 0..(MaxBytes + 1)] /\ sidecar' \in [Assets -> Descriptions]
  /\ memory' \in [Servers -> [Assets -> Descriptions]]
  /\ \A j \in Assets \ {k} :
       /\ object'[j] = object[j] /\ sidecar'[j] = sidecar[j]
       /\ \A p \in Servers : memory'[p][j] = memory[p][j]

LEMMA StorageChanges ==
  ASSUME MediaInv, NEW k \in Assets, StorageOf(k),
         asset' \in [Assets -> AssetRows], UploadInTime(asset'[k]),
         \A j \in Assets \ {k} : asset'[j] = asset[j],
         writer' \in [Servers -> Writing], faults_left' \in 0..StorageFaults,
         UNCHANGED <<setup, minute, link, answer>>,
         Held(k)', \A p \in Servers : WriterInOrder(p)'
  PROVE  MediaInv'
<1>1. MediaTypeOK'
  BY DEF MediaInv, MediaTypeOK, StorageOf
<1>2. ASSUME NEW j \in Assets, j # k PROVE UploadInTime(asset[j])' /\ Held(j)'
  <2>1. UploadInTime(asset[j]) /\ Held(j)
    BY DEF MediaInv
  <2> QED
    BY <1>2, <2>1 DEF UploadInTime, Held, Fake, StorageOf
<1> QED
  BY <1>1, <1>2 DEF MediaInv, Valid

(* The fake storage writes.                                                *)
LEMMA NothingStored ==
  ASSUME MediaInv, NEW k \in Assets, UNCHANGED <<object, sidecar, memory>>
  PROVE  StorageOf(k)
  BY DEF MediaInv, MediaTypeOK, StorageOf

LEMMA WriterMoves ==
  ASSUME MediaInv, NEW p \in Servers, NEW new \in Writing,
         writer' = [writer EXCEPT ![p] = new]
  PROVE  /\ writer' \in [Servers -> Writing] /\ writer'[p] = new
         /\ \A q \in Servers \ {p} : writer'[q] = writer[q]
  BY DEF MediaInv, MediaTypeOK

LEMMA TakeUploadKeeps ==
  ASSUME MediaInv, NEW p \in Servers, NEW k \in Assets, TakeUpload(p, k)
  PROVE  MediaInv'
<1> DEFINE new == [on |-> k, at |-> "body"]
<1>1. /\ Fake /\ asset[k].until # 0 /\ minute <= asset[k].until
      /\ writer' = [writer EXCEPT ![p] = new]
      /\ UNCHANGED <<setup, minute, asset, object, sidecar, memory, link, answer, faults_left>>
  BY DEF TakeUpload, UrlAccepted
<1>2. /\ minute < RetentionEnd /\ asset[k].status # "none"
  BY <1>1, MediaFields
<1>3. new \in Writing /\ new.on = k /\ new.at = "body"
  BY DEF Writing
<1> HIDE DEF new
<1>4. /\ writer' \in [Servers -> Writing] /\ writer'[p] = new
      /\ \A q \in Servers \ {p} : writer'[q] = writer[q]
  BY <1>1, <1>3, WriterMoves
<1>5. ASSUME NEW q \in Servers PROVE WriterInOrder(q)'
  <2>1. WriterInOrder(q)
    BY DEF MediaInv
  <2>2. CASE q = p
    BY <1>1, <1>2, <1>3, <1>4, <2>2 DEF WriterInOrder, Fake
  <2>3. CASE q # p
    BY <1>1, <1>4, <2>1, <2>3 DEF WriterInOrder, Fake
  <2> QED
    BY <2>2, <2>3
<1>6. UploadInTime(asset'[k]) /\ Held(k)'
  BY <1>1 DEF MediaInv, UploadInTime, Held, Fake
<1>7. asset' \in [Assets -> AssetRows] /\ faults_left' \in 0..StorageFaults
      /\ \A j \in Assets \ {k} : asset'[j] = asset[j]
  BY <1>1 DEF MediaInv, MediaTypeOK
<1>8. StorageOf(k)
  BY <1>1, NothingStored
<1> QED
  BY <1>1, <1>4, <1>5, <1>6, <1>7, <1>8, StorageChanges

LEMMA DescriptionIsDeclared ==
  ASSUME MediaInv, NEW k \in Assets
  PROVE  DescriptionOf(k) \in Descriptions /\ DescriptionOf(k).size = asset[k].declared.size
<1> DEFINE d == asset[k].declared
           duration == IF d.duration = 0 THEN 10 ELSE d.duration
<1>1. d \in Descriptions
  BY MediaFields
<1>2. DescriptionOf(k) = [d EXCEPT !.duration = duration]
  BY DEF DescriptionOf
<1> HIDE DEF d
<1>3. duration \in Nat
  BY <1>1 DEF Descriptions
<1> HIDE DEF duration
<1>4. DescriptionOf(k) \in Descriptions /\ DescriptionOf(k).size = d.size
  BY <1>1, <1>2, <1>3 DEF Descriptions
<1> QED
  BY <1>4 DEF d

LEMMA WriteBytesKeeps ==
  ASSUME MediaInv, NEW p \in Servers, WriteBytes(p)
  PROVE  MediaInv'
<1>0. PICK k \in Assets : k = writer[p].on
  BY DEF WriteBytes, MediaInv, WriterInOrder
<1> DEFINE size == asset[k].declared.size
           new == IF setup.directory THEN [writer[p] EXCEPT !.at = "described"] ELSE IdleWriter
<1>1. /\ writer[p].at = "body"
      /\ memory' = [memory EXCEPT ![p][k] = DescriptionOf(k)]
      /\ setup.directory => object' = [object EXCEPT ![k] = size]
      /\ ~setup.directory => object' = object
      /\ writer' = [writer EXCEPT ![p] = new]
      /\ UNCHANGED <<setup, minute, asset, sidecar, link, answer, faults_left>>
  BY <1>0 DEF WriteBytes
<1>2. /\ Fake /\ k \in Assets /\ asset[k].status # "none" /\ minute < RetentionEnd
      /\ writer[p] \in Writing /\ IdleWriter \in Writing /\ IdleWriter.at = "idle"
  BY <1>0, <1>1 DEF MediaInv, MediaTypeOK, WriterInOrder, IdleWriter, Writing
<1>3. /\ new \in Writing /\ new.at \in {"idle", "described"}
      /\ new.at = "described" => new.on = k /\ setup.directory
  BY <1>0, <1>2 DEF Writing
<1> HIDE DEF new
<1>4. /\ writer' \in [Servers -> Writing] /\ writer'[p] = new
      /\ \A q \in Servers \ {p} : writer'[q] = writer[q]
  BY <1>1, <1>3, WriterMoves
<1>5. size \in 1..MaxBytes /\ size \in 0..(MaxBytes + 1) /\ asset[k].status # "purged"
      /\ DescriptionOf(k) \in Descriptions /\ DescriptionOf(k).size = size
  <2>1. UploadInTime(asset[k]) /\ Held(k) /\ MaxBytes \in Nat /\ minute \in Nat /\ RetentionEnd \in Nat
    BY <1>2, MediaFields DEF MediaInv
  <2>2. size \in 1..MaxBytes
    BY <1>2, <2>1 DEF UploadInTime
  <2>3. asset[k].status # "purged"
    BY <1>2, <2>1 DEF Held
  <2> QED
    BY <1>2, <2>1, <2>2, <2>3, DescriptionIsDeclared
<1> HIDE DEF size
<1>6. /\ memory' \in [Servers -> [Assets -> Descriptions]]
      /\ \A q \in Servers, j \in Assets :
           memory'[q][j] = IF q = p /\ j = k THEN DescriptionOf(k) ELSE memory[q][j]
  BY <1>1, <1>2, <1>5 DEF MediaInv, MediaTypeOK
<1>7. /\ object' \in [Assets -> 0..(MaxBytes + 1)]
      /\ \A j \in Assets \ {k} : object'[j] = object[j]
      /\ setup.directory => object'[k] = size
      /\ ~setup.directory => object'[k] = object[k]
  BY <1>1, <1>2, <1>5 DEF MediaInv, MediaTypeOK
<1>8. StorageOf(k)
  BY <1>1, <1>6, <1>7 DEF StorageOf, MediaInv, MediaTypeOK
<1>9. ASSUME NEW q \in Servers PROVE WriterInOrder(q)'
  <2>1. WriterInOrder(q)
    BY DEF MediaInv
  <2>2. CASE q = p
    BY <1>1, <1>2, <1>3, <1>4, <1>7, <2>2 DEF WriterInOrder, Fake, size
  <2>3. ASSUME q # p, writer[q].at # "idle", writer[q].on # k PROVE WriterInOrder(q)'
    BY <1>1, <1>4, <1>7, <2>1, <2>3 DEF WriterInOrder, Fake
  <2>4. ASSUME q # p, writer[q].at # "idle", writer[q].on = k PROVE WriterInOrder(q)'
    <3>1. writer[q].at # "removed"
      BY <1>2, <2>1, <2>4, MediaFields DEF WriterInOrder
    <3>2. writer[q].at = "described" =>
            (asset[k].status = "uploading" => object'[k] = asset[k].declared.size)
      BY <1>7, <2>1, <2>4 DEF WriterInOrder, size
    <3> QED
      BY <1>1, <1>4, <2>1, <2>4, <3>1, <3>2 DEF WriterInOrder, Fake
  <2> QED
    BY <1>4, <2>2, <2>3, <2>4 DEF WriterInOrder
<1>10. UploadInTime(asset'[k]) /\ Held(k)'
  <2>1. UploadInTime(asset[k]) /\ Held(k)
    BY <1>2 DEF MediaInv
  <2>2. CASE setup.directory
    BY <1>1, <1>2, <1>5, <1>6, <1>7, <2>1, <2>2 DEF UploadInTime, Held, Fake, size
  <2>3. CASE ~setup.directory
    BY <1>1, <1>2, <1>5, <1>6, <1>7, <2>1, <2>3 DEF UploadInTime, Held, Fake, size
  <2> QED
    BY <2>2, <2>3
<1>11. asset' \in [Assets -> AssetRows] /\ faults_left' \in 0..StorageFaults
       /\ \A j \in Assets \ {k} : asset'[j] = asset[j]
  BY <1>1 DEF MediaInv, MediaTypeOK
<1> QED
  BY <1>1, <1>2, <1>4, <1>8, <1>9, <1>10, <1>11, StorageChanges

LEMMA WriteDescriptionKeeps ==
  ASSUME MediaInv, NEW p \in Servers, WriteDescription(p)
  PROVE  MediaInv'
<1>0. PICK k \in Assets : k = writer[p].on
  BY DEF WriteDescription, MediaInv, WriterInOrder
<1>1. /\ writer[p].at = "described"
      /\ sidecar' = [sidecar EXCEPT ![k] = DescriptionOf(k)]
      /\ writer' = [writer EXCEPT ![p] = IdleWriter]
      /\ UNCHANGED <<setup, minute, asset, object, memory, link, answer, faults_left>>
  BY <1>0 DEF WriteDescription
<1>2. /\ Fake /\ k \in Assets /\ asset[k].status # "none"
      /\ asset[k].status = "uploading" => object[k] = asset[k].declared.size
      /\ IdleWriter \in Writing /\ IdleWriter.at = "idle"
  BY <1>0, <1>1 DEF MediaInv, WriterInOrder, IdleWriter, Writing
<1>3. DescriptionOf(k) \in Descriptions
  BY <1>2, DescriptionIsDeclared
<1>4. /\ writer' \in [Servers -> Writing] /\ writer'[p] = IdleWriter
      /\ \A q \in Servers \ {p} : writer'[q] = writer[q]
  BY <1>1, <1>2, WriterMoves
<1>5. StorageOf(k)
  BY <1>1, <1>2, <1>3 DEF StorageOf, MediaInv, MediaTypeOK
<1>6. \A q \in Servers : WriterInOrder(q)'
  BY <1>1, <1>2, <1>4 DEF MediaInv, WriterInOrder, Fake
<1>7. UploadInTime(asset'[k]) /\ Held(k)'
  BY <1>1, <1>2 DEF MediaInv, UploadInTime, Held, Fake
<1>8. asset' \in [Assets -> AssetRows] /\ faults_left' \in 0..StorageFaults
      /\ \A j \in Assets \ {k} : asset'[j] = asset[j]
  BY <1>1 DEF MediaInv, MediaTypeOK
<1> QED
  BY <1>1, <1>2, <1>4, <1>5, <1>6, <1>7, <1>8, StorageChanges

(* S3: an upload within the life of its URL, and the purge.                *)
LEMMA NoWriters ==
  ASSUME MediaInv, ~Fake, UNCHANGED <<setup, writer>>
  PROVE  \A p \in Servers : WriterInOrder(p)'
  BY DEF MediaInv, WriterInOrder, Fake

LEMMA PutToS3Keeps ==
  ASSUME MediaInv, NEW k \in Assets, NEW size \in DeclaredSizes, PutToS3(k, size)
  PROVE  MediaInv'
<1> DEFINE d == [asset[k].declared EXCEPT !.size = size]
<1>1. /\ asset[k].until # 0 /\ ~Fake /\ minute <= asset[k].until
      /\ object' = [object EXCEPT ![k] = size] /\ sidecar' = [sidecar EXCEPT ![k] = d]
      /\ UNCHANGED <<setup, minute, asset, memory, writer, link, answer, faults_left>>
  BY DEF PutToS3, Presigned
<1>2. /\ asset[k].status # "none" /\ minute < RetentionEnd
      /\ minute \in Nat /\ RetentionEnd \in Nat /\ MaxBytes \in Nat
      /\ asset[k].declared \in Descriptions
  BY <1>1, MediaFields
<1>3. size \in Nat /\ size \in 0..(MaxBytes + 1)
  BY <1>2 DEF DeclaredSizes
<1>4. d \in Descriptions /\ d.size = size
  BY <1>2, <1>3 DEF Descriptions
<1> HIDE DEF d
<1>5. StorageOf(k) /\ object'[k] = size /\ sidecar'[k] = d
  BY <1>1, <1>3, <1>4 DEF StorageOf, MediaInv, MediaTypeOK
<1>6. asset[k].status # "purged"
  BY <1>2 DEF MediaInv, Held
<1>7. UploadInTime(asset'[k]) /\ Held(k)'
  BY <1>1, <1>2, <1>4, <1>5, <1>6 DEF MediaInv, UploadInTime, Held, Fake
<1>8. /\ asset' \in [Assets -> AssetRows] /\ faults_left' \in 0..StorageFaults
      /\ \A j \in Assets \ {k} : asset'[j] = asset[j]
      /\ writer' \in [Servers -> Writing]
  BY <1>1 DEF MediaInv, MediaTypeOK
<1> QED
  BY <1>1, <1>5, <1>7, <1>8, NoWriters, StorageChanges

(* An object that is purged, or whose removal is under way, has a status   *)
(* of its own.                                                             *)
LEMMA PurgedRow ==
  ASSUME MediaInv, NEW k \in Assets, asset[k].status # "none",
         asset' = [asset EXCEPT ![k].status = "purged"]
  PROVE  /\ asset' \in [Assets -> AssetRows] /\ UploadInTime(asset'[k])
         /\ asset'[k].status = "purged"
         /\ \A j \in Assets \ {k} : asset'[j] = asset[j]
<1> DEFINE row == [asset[k] EXCEPT !.status = "purged"]
<1>1. /\ row \in AssetRows /\ row.status = "purged"
      /\ row.made = asset[k].made /\ row.until = asset[k].until
      /\ row.declared = asset[k].declared
  BY MediaFields DEF AssetRows, AssetStates
<1>2. asset' = [asset EXCEPT ![k] = row]
  OBVIOUS
<1> HIDE DEF row
<1>0. asset \in [Assets -> AssetRows]
  BY DEF MediaInv, MediaTypeOK
<1>3. /\ asset' \in [Assets -> AssetRows] /\ asset'[k] = row
      /\ \A j \in Assets \ {k} : asset'[j] = asset[j]
  BY <1>0, <1>1, <1>2
<1>4. UploadInTime(asset[k])
  BY DEF MediaInv
<1> QED
  BY <1>1, <1>3, <1>4 DEF UploadInTime

LEMMA RemoveFromS3Keeps ==
  ASSUME MediaInv, NEW k \in Assets, RemoveFromS3(k)
  PROVE  MediaInv'
<1>1. /\ ~Fake /\ minute >= RetentionEnd /\ asset[k].status \in {"uploaded", "deleted"}
      /\ object' = [object EXCEPT ![k] = 0]
      /\ sidecar' = [sidecar EXCEPT ![k] = NoDescription]
      /\ UNCHANGED <<setup, minute, memory, writer, link, answer>>
  BY DEF RemoveFromS3, Purgeable
<1>2. /\ UNCHANGED asset \/ asset' = [asset EXCEPT ![k].status = "purged"]
      /\ faults_left' \in 0..StorageFaults
  BY MediaStorageAssumption DEF RemoveFromS3, MediaInv, MediaTypeOK
<1>3. NoDescription \in Descriptions /\ 0 \in 0..(MaxBytes + 1)
  BY MediaFields DEF NoDescription, Descriptions, ContentTypes
<1>4. StorageOf(k) /\ object'[k] = 0
  BY <1>1, <1>3 DEF StorageOf, MediaInv, MediaTypeOK
<1>5. /\ asset' \in [Assets -> AssetRows] /\ UploadInTime(asset'[k])
      /\ asset'[k].status \in {"uploaded", "deleted", "purged"}
      /\ \A j \in Assets \ {k} : asset'[j] = asset[j]
  <2>1. CASE UNCHANGED asset
    BY <1>1, <2>1 DEF MediaInv, MediaTypeOK, UploadInTime
  <2>2. CASE asset' = [asset EXCEPT ![k].status = "purged"]
    BY <1>1, <2>2, PurgedRow
  <2> QED
    BY <1>2, <2>1, <2>2
<1>6. Held(k)'
  BY <1>1, <1>4, <1>5 DEF Held, Fake
<1>7. writer' \in [Servers -> Writing]
  BY <1>1 DEF MediaInv, MediaTypeOK
<1> QED
  BY <1>1, <1>2, <1>4, <1>5, <1>6, <1>7, NoWriters, StorageChanges

(* The fake storage's purge, in its two steps.                             *)
LEMMA RemoveBytesKeeps ==
  ASSUME MediaInv, NEW p \in Servers, NEW k \in Assets, RemoveBytes(p, k)
  PROVE  MediaInv'
<1> DEFINE new == [on |-> k, at |-> "removed"]
<1>1. /\ Fake /\ minute >= RetentionEnd /\ asset[k].status \in {"uploaded", "deleted"}
      /\ object' = [object EXCEPT ![k] = 0]
      /\ memory' = [memory EXCEPT ![p][k] = NoDescription]
      /\ writer' = [writer EXCEPT ![p] = new]
      /\ UNCHANGED <<setup, minute, asset, sidecar, link, answer, faults_left>>
  BY DEF RemoveBytes, Purgeable
<1>2. new \in Writing /\ new.on = k /\ new.at = "removed"
  BY DEF Writing
<1> HIDE DEF new
<1>3. /\ writer' \in [Servers -> Writing] /\ writer'[p] = new
      /\ \A q \in Servers \ {p} : writer'[q] = writer[q]
  BY <1>1, <1>2, WriterMoves
<1>4. NoDescription \in Descriptions /\ 0 \in 0..(MaxBytes + 1)
  BY MediaFields DEF NoDescription, Descriptions, ContentTypes
<1>5. StorageOf(k) /\ object'[k] = 0
  BY <1>1, <1>4 DEF StorageOf, MediaInv, MediaTypeOK
<1>6. ASSUME NEW q \in Servers PROVE WriterInOrder(q)'
  <2>1. WriterInOrder(q)
    BY DEF MediaInv
  <2>2. CASE q = p
    BY <1>1, <1>2, <1>3, <1>5, <2>2 DEF WriterInOrder, Fake
  <2>3. ASSUME q # p, writer[q].at # "idle" PROVE WriterInOrder(q)'
    <3>1. CASE writer[q].on = k
      BY <1>1, <1>3, <1>5, <2>1, <2>3, <3>1 DEF WriterInOrder, Fake
    <3>2. CASE writer[q].on # k
      BY <1>1, <1>3, <1>5, <2>1, <2>3, <3>2 DEF WriterInOrder, Fake, StorageOf
    <3> QED
      BY <3>1, <3>2
  <2> QED
    BY <1>3, <2>2, <2>3 DEF WriterInOrder
<1>7. UploadInTime(asset'[k]) /\ Held(k)'
  BY <1>1, <1>5 DEF MediaInv, UploadInTime, Held, Fake
<1>8. /\ asset' \in [Assets -> AssetRows] /\ faults_left' \in 0..StorageFaults
      /\ \A j \in Assets \ {k} : asset'[j] = asset[j]
  BY <1>1 DEF MediaInv, MediaTypeOK
<1> QED
  BY <1>1, <1>3, <1>5, <1>6, <1>7, <1>8, StorageChanges

LEMMA PurgeKeeps ==
  ASSUME MediaInv, NEW p \in Servers, Purge(p)
  PROVE  MediaInv'
<1>0. PICK k \in Assets : k = writer[p].on
  BY DEF Purge, MediaInv, WriterInOrder
<1>1. /\ writer[p].at = "removed"
      /\ sidecar' = [sidecar EXCEPT ![k] = NoDescription]
      /\ asset' = [asset EXCEPT ![k].status = "purged"]
      /\ writer' = [writer EXCEPT ![p] = IdleWriter]
      /\ UNCHANGED <<setup, minute, object, memory, link, answer, faults_left>>
  BY <1>0 DEF Purge
<1>2. /\ Fake /\ k \in Assets /\ asset[k].status # "none"
      /\ minute >= RetentionEnd /\ object[k] = 0
      /\ IdleWriter \in Writing /\ IdleWriter.at = "idle"
      /\ NoDescription \in Descriptions
  BY <1>0, <1>1 DEF MediaInv, WriterInOrder, IdleWriter, Writing, NoDescription, Descriptions,
     ContentTypes
<1>3. /\ writer' \in [Servers -> Writing] /\ writer'[p] = IdleWriter
      /\ \A q \in Servers \ {p} : writer'[q] = writer[q]
  BY <1>1, <1>2, WriterMoves
<1>4. StorageOf(k)
  BY <1>1, <1>2 DEF StorageOf, MediaInv, MediaTypeOK
<1>5. /\ asset' \in [Assets -> AssetRows] /\ UploadInTime(asset'[k])
      /\ asset'[k].status = "purged"
      /\ \A j \in Assets \ {k} : asset'[j] = asset[j]
  BY <1>1, <1>2, PurgedRow
<1>6. \A q \in Servers : WriterInOrder(q)'
  BY <1>1, <1>2, <1>3, <1>5 DEF MediaInv, WriterInOrder, Fake
<1>7. Held(k)'
  BY <1>1, <1>2, <1>5 DEF Held, Fake
<1>8. faults_left' \in 0..StorageFaults
  BY <1>1 DEF MediaInv, MediaTypeOK
<1> QED
  BY <1>1, <1>2, <1>3, <1>4, <1>5, <1>6, <1>7, <1>8, StorageChanges

LEMMA MediaStepKeeps == MediaInv /\ [MediaNext]_mediaVars => MediaInv'
<1> SUFFICES ASSUME MediaInv, [MediaNext]_mediaVars PROVE MediaInv'
  OBVIOUS
<1>1. CASE MinutePasses
  BY <1>1, MinuteKeeps
<1>2. ASSUME NEW p \in Servers,
             WriteBytes(p) \/ RefuseBody(p) \/ WriteDescription(p) \/ Purge(p) \/ StorageCrash(p)
      PROVE  MediaInv'
  BY <1>2, WriteBytesKeeps, CrashKeepsMedia, WriteDescriptionKeeps, PurgeKeeps
<1>3. ASSUME NEW k \in Assets,
             ShowPartner(k) \/ ShowCandidate(k) \/ DeleteAsset(k) \/ RemoveFromS3(k)
      PROVE  MediaInv'
  <2>1. CASE ShowPartner(k) \/ ShowCandidate(k)
    BY <2>1, WatchingKeeps DEF ShowPartner, ShowCandidate
  <2>2. CASE DeleteAsset(k)
    BY <2>2, StatusMoves DEF DeleteAsset
  <2> QED
    BY <1>3, <2>1, <2>2, RemoveFromS3Keeps
<1>4. ASSUME NEW k \in Assets, NEW kind \in {"recording", "supplemental"},
             NEW d \in Declarations, NEW name \in {"none", "mp4", "pdf"}, Declare(k, kind, d, name)
      PROVE  MediaInv'
  BY <1>4, DeclareKeeps
<1>5. ASSUME NEW k \in Assets, NEW size \in DeclaredSizes, PutToS3(k, size) PROVE MediaInv'
  BY <1>5, PutToS3Keeps
<1>6. ASSUME NEW k \in Assets, NEW p \in Servers,
             TakeUpload(p, k) \/ CompleteUpload(p, k) \/ Download(p, k) \/ RemoveBytes(p, k)
      PROVE  MediaInv'
  <2>1. CASE CompleteUpload(p, k)
    BY <2>1, StatusMoves DEF CompleteUpload
  <2> QED
    BY <1>6, <2>1, TakeUploadKeeps, WatchingKeeps, RemoveBytesKeeps
<1>7. CASE UNCHANGED mediaVars
  <2>1. 1 \in Assets
    BY MediaStorageAssumption DEF Assets
  <2> QED
    BY <1>7, <2>1, WatchingKeeps
<1> QED
  BY <1>1, <1>2, <1>3, <1>4, <1>5, <1>6, <1>7 DEF MediaNext

(* Whatever is uploaded, when and to which storage, and wherever a process *)
(* stops, MediaInv holds of rows, objects, writers and answers.            *)
THEOREM MediaInvariance == MediaSpec => []MediaInv
<1>1. MediaInit => MediaInv
  BY MediaInitInv
<1>2. MediaInv /\ [MediaNext]_mediaVars => MediaInv'
  BY MediaStepKeeps
<1> QED
  BY <1>1, <1>2, PTL DEF MediaSpec

-----------------------------------------------------------------------------
(* MediaStorage: what its properties say of a step. *)

LEMMA OnlyCompletionAccepts ==
  ASSUME MediaInv, NEW k \in Assets, [MediaNext]_mediaVars,
         asset[k].status = "uploading", asset'[k].status = "uploaded"
  PROVE  \E p \in Servers : CompleteUpload(p, k)
<1>1. asset \in [Assets -> AssetRows]
  BY DEF MediaInv, MediaTypeOK
<1>2. asset' # asset
  OBVIOUS
<1>3. ASSUME NEW p \in Servers,
             WriteBytes(p) \/ RefuseBody(p) \/ WriteDescription(p) \/ StorageCrash(p)
      PROVE  FALSE
  BY <1>2, <1>3 DEF WriteBytes, RefuseBody, WriteDescription, StorageCrash
<1>4. ASSUME NEW p \in Servers, Purge(p) PROVE FALSE
  <2>1. PICK j \in Assets : j = writer[p].on
    BY <1>4 DEF Purge, MediaInv, WriterInOrder
  <2>2. asset' = [asset EXCEPT ![j].status = "purged"]
    BY <1>4, <2>1 DEF Purge
  <2>3. asset[j] \in AssetRows
    BY <1>1
  <2>4. asset'[k].status \in {asset[k].status, "purged"}
    BY <1>1, <2>2, <2>3 DEF AssetRows
  <2> QED
    BY <2>4
<1>5. ASSUME NEW j \in Assets,
             ShowPartner(j) \/ ShowCandidate(j) \/ (\E size \in DeclaredSizes : PutToS3(j, size))
             \/ (\E p \in Servers : TakeUpload(p, j) \/ Download(p, j) \/ RemoveBytes(p, j))
      PROVE  FALSE
  BY <1>2, <1>5 DEF ShowPartner, ShowCandidate, Sign, PutToS3, TakeUpload, Download, RemoveBytes
<1>6. ASSUME NEW j \in Assets, NEW status \in {"deleted", "purged"},
             asset' = [asset EXCEPT ![j].status = status]
      PROVE  FALSE
  <2>1. asset[j] \in AssetRows
    BY <1>1
  <2>2. asset'[k].status \in {asset[k].status, status}
    BY <1>1, <1>6, <2>1 DEF AssetRows
  <2> QED
    BY <2>2
<1>7. ASSUME NEW j \in Assets, DeleteAsset(j) \/ RemoveFromS3(j) PROVE FALSE
  BY <1>2, <1>6, <1>7 DEF DeleteAsset, RemoveFromS3
<1>8. ASSUME NEW j \in Assets, NEW kind \in {"recording", "supplemental"},
             NEW d \in Declarations, NEW name \in {"none", "mp4", "pdf"}, Declare(j, kind, d, name)
      PROVE  FALSE
  <2>1. j # k
    BY <1>8 DEF Declare
  <2>2. asset'[k] = asset[k]
    BY <1>1, <1>8, <2>1 DEF Declare
  <2> QED
    BY <2>2
<1>9. ASSUME NEW j \in Assets, NEW p \in Servers, CompleteUpload(p, j)
      PROVE  CompleteUpload(p, k)
  <2>1. CASE j # k
    <3>1. asset'[k] = asset[k]
      BY <1>1, <1>9, <2>1 DEF CompleteUpload
    <3> QED
      BY <3>1
  <2> QED
    BY <1>9, <2>1
<1>10. ~MinutePasses /\ ~UNCHANGED mediaVars
  BY <1>2 DEF MinutePasses, mediaVars
<1> QED
  BY <1>3, <1>4, <1>5, <1>7, <1>8, <1>9, <1>10 DEF MediaNext

LEMMA AcceptedStep ==
  ASSUME MediaInv, NEW k \in Assets, NEW p \in Servers, CompleteUpload(p, k)
  PROVE  \/ object[k] = asset[k].declared.size
         \/ ~setup.directory /\ \E q \in Servers :
              memory[q][k].size = asset[k].declared.size
<1> DEFINE m == Metadata(p, k)
<1>1. /\ m.found /\ m.is.size = asset[k].declared.size /\ asset[k].status = "uploading"
      /\ Held(k) /\ sidecar[k] \in Descriptions /\ NoDescription \in Descriptions
  BY DEF CompleteUpload, AsDeclared, MediaInv, MediaTypeOK, NoDescription, Descriptions, ContentTypes
<1>2. CASE ~Fake
  <2>1. m = [found |-> object[k] # 0, is |-> [sidecar[k] EXCEPT !.duration = 0]]
    BY <1>2 DEF Metadata, S3Metadata
  <2>2. sidecar[k] = [type |-> sidecar[k].type, size |-> sidecar[k].size,
                      duration |-> sidecar[k].duration]
    BY <1>1 DEF Descriptions
  <2>3. m.found = (object[k] # 0) /\ m.is = [sidecar[k] EXCEPT !.duration = 0]
    BY <2>1
  <2>4. m.is.size = sidecar[k].size
    BY <2>2, <2>3
  <2>5. object[k] # 0 /\ sidecar[k].size = asset[k].declared.size
    BY <1>1, <2>3, <2>4
  <2> QED
    BY <1>1, <1>2, <2>5 DEF Held
<1>3. CASE Fake /\ setup.directory /\ sidecar[k] # NoDescription
  BY <1>1, <1>3 DEF Held
<1>4. CASE Fake /\ setup.directory /\ sidecar[k] = NoDescription /\ object[k] # 0
  <2>1. m.is = [NoDescription EXCEPT !.size = object[k]]
    BY <1>4 DEF Metadata, FakeMetadata
  <2>2. m.is.size = object[k]
    BY <2>1 DEF NoDescription
  <2> QED
    BY <1>1, <2>2
<1>5. CASE Fake /\ ~(setup.directory /\ (sidecar[k] # NoDescription \/ object[k] # 0))
  <2>1. m.found = (memory[p][k] # NoDescription) /\ m.is = memory[p][k]
    BY <1>5 DEF Metadata, FakeMetadata
  <2>2. memory[p][k] # NoDescription /\ memory[p][k].size = asset[k].declared.size
    BY <1>1, <2>1
  <2>3. setup.directory => object[k] = asset[k].declared.size
    BY <1>1, <1>5, <2>2 DEF Held
  <2> QED
    BY <2>2, <2>3
<1> QED
  BY <1>2, <1>3, <1>4, <1>5

LEMMA BodyIsTaken ==
  ASSUME MediaInv, NEW k \in Assets, NEW p \in Servers, [MediaNext]_mediaVars,
         writer'[p] # writer[p], writer'[p] = [on |-> k, at |-> "body"]
  PROVE  minute <= asset[k].until
<1>1. /\ writer \in [Servers -> Writing] /\ writer' # writer
      /\ writer'[p].at = "body" /\ writer'[p].on = k
  BY DEF MediaInv, MediaTypeOK
<1>2. ASSUME NEW q \in Servers, NEW new \in Writing, writer' = [writer EXCEPT ![q] = new]
      PROVE  p = q /\ new.at = "body" /\ new.on = k
  BY <1>1, <1>2
<1>3. IdleWriter \in Writing /\ IdleWriter.at # "body"
  BY DEF IdleWriter, Writing
<1>4. ASSUME NEW q \in Servers,
             RefuseBody(q) \/ WriteDescription(q) \/ Purge(q) \/ StorageCrash(q) \/ WriteBytes(q)
      PROVE  FALSE
  <2>1. CASE writer' = [writer EXCEPT ![q] = IdleWriter]
    BY <1>2, <1>3, <2>1
  <2>2. CASE writer' = [writer EXCEPT ![q] = [writer[q] EXCEPT !.at = "described"]]
    <3> DEFINE new == [writer[q] EXCEPT !.at = "described"]
    <3>1. new \in Writing /\ new.at = "described"
      BY <1>1 DEF Writing
    <3>2. writer' = [writer EXCEPT ![q] = new]
      BY <2>2
    <3> HIDE DEF new
    <3> QED
      BY <1>2, <3>1, <3>2
  <2> QED
    BY <1>4, <2>1, <2>2 DEF RefuseBody, WriteDescription, Purge, StorageCrash, WriteBytes
<1>5. ASSUME NEW q \in Servers, NEW j \in Assets, RemoveBytes(q, j) PROVE FALSE
  <2> DEFINE new == [on |-> j, at |-> "removed"]
  <2>1. new \in Writing /\ new.at = "removed"
    BY DEF Writing
  <2>2. writer' = [writer EXCEPT ![q] = new]
    BY <1>5 DEF RemoveBytes
  <2> HIDE DEF new
  <2> QED
    BY <1>2, <2>1, <2>2
<1>6. ASSUME NEW q \in Servers, NEW j \in Assets, TakeUpload(q, j)
      PROVE  minute <= asset[k].until
  <2> DEFINE new == [on |-> j, at |-> "body"]
  <2>1. new \in Writing /\ new.on = j
    BY DEF Writing
  <2>2. writer' = [writer EXCEPT ![q] = new] /\ minute <= asset[j].until
    BY <1>6 DEF TakeUpload, UrlAccepted
  <2> HIDE DEF new
  <2>3. j = k
    BY <1>2, <2>1, <2>2
  <2> QED
    BY <2>2, <2>3
<1>7. ASSUME NEW j \in Assets,
             \/ ShowPartner(j) \/ ShowCandidate(j) \/ DeleteAsset(j) \/ RemoveFromS3(j)
             \/ (\E size \in DeclaredSizes : PutToS3(j, size))
             \/ (\E q \in Servers : CompleteUpload(q, j) \/ Download(q, j))
             \/ (\E kind \in {"recording", "supplemental"}, d \in Declarations,
                    name \in {"none", "mp4", "pdf"} : Declare(j, kind, d, name))
      PROVE  FALSE
  BY <1>1, <1>7 DEF ShowPartner, ShowCandidate, Sign, DeleteAsset, RemoveFromS3, PutToS3,
     CompleteUpload, Download, Declare
<1>8. ~MinutePasses /\ ~UNCHANGED mediaVars
  BY <1>1 DEF MinutePasses, mediaVars
<1> QED
  BY <1>4, <1>5, <1>6, <1>7, <1>8 DEF MediaNext

LEMMA ObjectIsPut ==
  ASSUME MediaInv, NEW k \in Assets, [MediaNext]_mediaVars,
         ~Fake, object'[k] \notin {0, object[k]}
  PROVE  minute <= asset[k].until
<1>1. object \in [Assets -> 0..(MaxBytes + 1)] /\ object' # object
  BY DEF MediaInv, MediaTypeOK
<1>2. ASSUME NEW p \in Servers,
             WriteBytes(p) \/ RefuseBody(p) \/ WriteDescription(p) \/ Purge(p) \/ StorageCrash(p)
      PROVE  FALSE
  BY <1>1, <1>2 DEF WriteBytes, RefuseBody, WriteDescription, Purge, StorageCrash, MediaInv,
     WriterInOrder
<1>3. ASSUME NEW j \in Assets,
             \/ RemoveFromS3(j) \/ (\E p \in Servers : RemoveBytes(p, j))
      PROVE  FALSE
  <2>1. object' = [object EXCEPT ![j] = 0]
    BY <1>3 DEF RemoveFromS3, RemoveBytes
  <2> QED
    BY <1>1, <2>1
<1>4. ASSUME NEW j \in Assets, NEW size \in DeclaredSizes, PutToS3(j, size)
      PROVE  minute <= asset[k].until
  <2>1. object' = [object EXCEPT ![j] = size] /\ minute <= asset[j].until
    BY <1>4 DEF PutToS3, Presigned
  <2>2. j = k
    BY <1>1, <2>1
  <2> QED
    BY <2>1, <2>2
<1>5. ASSUME NEW j \in Assets,
             \/ ShowPartner(j) \/ ShowCandidate(j) \/ DeleteAsset(j)
             \/ (\E p \in Servers : CompleteUpload(p, j) \/ Download(p, j) \/ TakeUpload(p, j))
             \/ (\E kind \in {"recording", "supplemental"}, d \in Declarations,
                    name \in {"none", "mp4", "pdf"} : Declare(j, kind, d, name))
      PROVE  FALSE
  BY <1>1, <1>5 DEF ShowPartner, ShowCandidate, Sign, DeleteAsset, TakeUpload,
     CompleteUpload, Download, Declare
<1>6. ~MinutePasses /\ ~UNCHANGED mediaVars
  BY <1>1 DEF MinutePasses, mediaVars
<1> QED
  BY <1>2, <1>3, <1>4, <1>5, <1>6 DEF MediaNext

(* Whatever the storage and however its processes interleave, an upload is *)
(* only accepted while the storage holds what was declared.                *)
THEOREM MediaAccepted == MediaSpec => AcceptedIsStored
<1>1. MediaInv /\ [MediaNext]_mediaVars =>
        [\A k \in Assets :
           asset[k].status = "uploading" /\ asset'[k].status = "uploaded"
             => \/ object[k] = asset[k].declared.size
                \/ ~setup.directory /\ \E p \in Servers :
                     memory[p][k].size = asset[k].declared.size]_mediaVars
  BY OnlyCompletionAccepts, AcceptedStep
<1> QED
  BY <1>1, MediaInvariance, PTL DEF MediaSpec, AcceptedIsStored

(* No upload is taken later than the longest life of a signed URL after it *)
(* was asked for.                                                          *)
THEOREM MediaUploadsEnd == MediaSpec => UploadsEndInTime
<1>1. ASSUME MediaInv, [MediaNext]_mediaVars, NEW k \in Assets,
             \/ \E p \in Servers : writer'[p] # writer[p] /\ writer'[p] = [on |-> k, at |-> "body"]
             \/ ~Fake /\ object'[k] \notin {0, object[k]}
      PROVE  minute <= asset[k].made + MaxLife
  <2>1. minute <= asset[k].until
    BY <1>1, BodyIsTaken, ObjectIsPut
  <2>2. /\ minute \in Nat /\ asset[k].until \in Nat /\ asset[k].made \in Nat /\ MaxLife \in Nat
        /\ UploadInTime(asset[k])
    BY <1>1, MediaFields DEF MediaInv
  <2> QED
    BY <2>1, <2>2 DEF UploadInTime
<1>2. MediaInv /\ [MediaNext]_mediaVars =>
        [\A k \in Assets :
           \/ \E p \in Servers : writer'[p] # writer[p] /\ writer'[p] = [on |-> k, at |-> "body"]
           \/ ~Fake /\ object'[k] \notin {0, object[k]}
           => minute <= asset[k].made + MaxLife]_mediaVars
  BY <1>1
<1> QED
  BY <1>2, MediaInvariance, PTL DEF MediaSpec, UploadsEndInTime

(* A purged recording is never played, from whichever process's memory.    *)
THEOREM MediaNeverPlaysPurged == MediaSpec => PurgedNeverPlays
<1>1. MediaInv' => [~(answer'.late /\ answer'.code = 200)]_mediaVars
  BY DEF MediaInv
<1> QED
  BY <1>1, MediaInvariance, PTL DEF PurgedNeverPlays

-----------------------------------------------------------------------------
(* Notifications: the inductive invariant.                                 *)
(*                                                                         *)
(* A mailer holds a copy of a kind of mail while it may yet send one, or   *)
(* has sent one whose row is not committed.  The mails delivered are those *)
(* of committed rows, the excused ones and those sent by a mailer that     *)
(* still owes its row; and the committed rows and the copies held come to  *)
(* one, and another for each claim that overlapped.                        *)

MailerRecords ==
  [at : {"idle", "look", "send", "record", "commit", "settle"}, kind : MailKinds,
   attempt : Nat, tries : 0..SendAttempts, result : {"none", "sent", "failed", "before"},
   rows : [MailKinds -> [sent : Nat, other : Nat]]]

MailTypes ==
  /\ MailTypeOK
  /\ mailer \in [Mailers -> MailerRecords]
  /\ excused \in [MailKinds -> Nat] /\ overlaps \in [Notices -> Nat]

(* A mailer by itself.  The row of a candidate's confirmation stays with   *)
(* the mailer while it sends the talent partner's.                         *)
CandidateMail == "schedule_confirmation_candidate"
PartnerMail == "schedule_confirmation_talent_partner"
MailerInOrder(x) ==
  /\ x.at = "idle" => x = IdleMailer
  /\ x.at \in {"look", "send", "record"} => x.rows[x.kind].sent = 0
  /\ x.at = "look" => x.kind # "trial_invite" /\ x.result = "none"
  /\ x.at \in {"look", "send"} => x.tries < SendAttempts
  /\ x.at = "send" => x.result \in {"none", "failed"}
  /\ x.at = "record" => x.result # "none"
  /\ x.at = "settle" => x.kind \in Notices /\ x.rows = NoRows
  /\ x.kind = "trial_invite" =>
       x.result # "before" /\ (x.at = "commit" => x.result \in {"sent", "failed"})
  /\ \A k \in MailKinds :
       /\ x.rows[k].sent \in 0..1
       /\ x.rows[k].sent # 0 => k = x.kind \/ (k = CandidateMail /\ x.kind = PartnerMail)

OwesRow(x, k) ==
  x.rows[k].sent = 1 \/ (x.at = "record" /\ x.kind = k /\ x.result = "sent")
MaySend(x, k) ==
  \/ x.kind = k /\ (x.at = "send" \/ (x.at = "look" /\ audit[k].sent = 0))
  \/ x.kind = CandidateMail /\ k = PartnerMail /\ x.at \in {"look", "send", "record"}
HoldsCopy(x, k) == OwesRow(x, k) \/ MaySend(x, k)

Owing(k) == {m \in Mailers : OwesRow(mailer[m], k)}
Holding(k) == {m \in Mailers : HoldsCopy(mailer[m], k)}
Overlapping(k) == IF k \in Notices THEN overlaps[k] ELSE 0
One(condition) == IF condition THEN 1 ELSE 0

MailLedger ==
  \A k \in MailKinds : inbox[k] = audit[k].sent + excused[k] + Cardinality(Owing(k))
MailCopies ==
  \A k \in MailKinds \ {"trial_invite"} :
    audit[k].sent + Cardinality(Holding(k)) <= 1 + Overlapping(k)

(* Who is done with a notice, and did not fail, told the talent partner.   *)
NoticeTold(x) ==
  /\ x.kind \in Notices /\ partnerKnown /\ x.result # "failed"
  /\ x.at \in {"record", "commit", "settle"}
  => audit[x.kind].sent > 0 \/ OwesRow(x, x.kind)
NoticesTold ==
  \A k \in Notices : notice[k].status = "succeeded" /\ partnerKnown => audit[k].sent > 0

NothingConfirmed ==
  ~scheduled => /\ \A m \in Mailers : mailer[m].kind \notin Confirmations
                /\ \A k \in Confirmations : audit[k].sent = 0

MailInv ==
  /\ MailTypes /\ MailLedger /\ MailCopies /\ NoticesTold /\ NothingConfirmed
  /\ \A m \in Mailers : MailerInOrder(mailer[m]) /\ NoticeTold(mailer[m])

-----------------------------------------------------------------------------
(* Notifications: counting.                                                *)

LEMMA OneIsNat == ASSUME NEW c PROVE One(c) \in 0..1 /\ (One(c) = 1 <=> c)
BY DEF One

LEMMA AddedOne ==
  ASSUME NEW S, IsFiniteSet(S), NEW m
  PROVE  /\ IsFiniteSet(S \ {m}) /\ Cardinality(S) \in Nat /\ Cardinality(S \ {m}) \in Nat
         /\ Cardinality(S) = Cardinality(S \ {m}) + One(m \in S)
<1>1. IsFiniteSet(S \ {m}) /\ Cardinality(S \ {m}) \in Nat /\ Cardinality(S) \in Nat
  BY FS_CardinalityType, FS_Subset
<1>2. Cardinality(S \ {m}) = IF m \in S THEN Cardinality(S) - 1 ELSE Cardinality(S)
  BY FS_RemoveElement
<1> QED
  BY <1>1, <1>2 DEF One

LEMMA Recounted ==
  ASSUME NEW S, IsFiniteSet(S), NEW T, NEW m, T \ {m} \subseteq S \ {m}
  PROVE  /\ IsFiniteSet(T) /\ Cardinality(S) \in Nat /\ Cardinality(T) \in Nat
         /\ Cardinality(T) + One(m \in S) <= Cardinality(S) + One(m \in T)
         /\ T \ {m} = S \ {m} =>
              Cardinality(T) + One(m \in S) = Cardinality(S) + One(m \in T)
<1>1. IsFiniteSet(S \ {m}) /\ Cardinality(S) = Cardinality(S \ {m}) + One(m \in S)
      /\ Cardinality(S \ {m}) \in Nat /\ Cardinality(S) \in Nat
  BY AddedOne
<1>2. IsFiniteSet(T \ {m}) /\ Cardinality(T \ {m}) <= Cardinality(S \ {m})
  BY <1>1, FS_Subset
<1>3. IsFiniteSet(T)
  <2>1. IsFiniteSet((T \ {m}) \cup {m})
    BY <1>2, FS_AddElement
  <2>2. T \subseteq (T \ {m}) \cup {m}
    OBVIOUS
  <2> QED
    BY <2>1, <2>2, FS_Subset
<1>4. Cardinality(T) = Cardinality(T \ {m}) + One(m \in T)
      /\ Cardinality(T) \in Nat /\ Cardinality(T \ {m}) \in Nat
  BY <1>3, AddedOne
<1>5. One(m \in S) \in Nat /\ One(m \in T) \in Nat
  BY OneIsNat
<1>6. ASSUME T \ {m} = S \ {m} PROVE Cardinality(T \ {m}) = Cardinality(S \ {m})
  BY <1>6
<1> QED
  BY <1>1, <1>2, <1>3, <1>4, <1>5, <1>6

LEMMA FiniteHolders ==
  ASSUME NEW k
  PROVE  IsFiniteSet(Owing(k)) /\ IsFiniteSet(Holding(k))
<1>1. Owing(k) \subseteq Mailers /\ Holding(k) \subseteq Mailers
  BY DEF Owing, Holding
<1> QED
  BY <1>1, FS_Subset, NotificationsAssumption

LEMMA MailerFacts ==
  ASSUME MailInv, NEW m \in Mailers
  PROVE  /\ mailer[m] \in MailerRecords /\ DOMAIN mailer = Mailers
         /\ MailerInOrder(mailer[m]) /\ NoticeTold(mailer[m])
BY DEF MailInv, MailTypes

LEMMA KindFacts ==
  ASSUME MailTypes, NEW k \in MailKinds
  PROVE  /\ inbox[k] \in Nat /\ excused[k] \in Nat /\ audit[k].sent \in Nat
         /\ audit[k].other \in Nat /\ Overlapping(k) \in Nat
BY DEF MailTypes, MailTypeOK, Overlapping

LEMMA KindFactsNext ==
  ASSUME MailTypes', NEW k \in MailKinds
  PROVE  /\ inbox'[k] \in Nat /\ excused'[k] \in Nat /\ audit'[k].sent \in Nat
         /\ Overlapping(k)' \in Nat
BY DEF MailTypes, MailTypeOK, Overlapping

LEMMA KindsApart ==
  /\ Notices \subseteq MailKinds \ {"trial_invite"} /\ Confirmations \subseteq MailKinds \ {"trial_invite"}
  /\ Notices \cap Confirmations = {} /\ "trial_invite" \in MailKinds
  /\ CandidateMail \in Confirmations /\ PartnerMail \in Confirmations /\ CandidateMail # PartnerMail
  /\ Confirmations = {CandidateMail, PartnerMail}
  /\ "trial_invite" \notin Confirmations /\ "trial_invite" \notin Notices
BY DEF MailKinds, Notices, Confirmations, CandidateMail, PartnerMail

LEMMA IdleFacts ==
  /\ IdleMailer \in MailerRecords /\ MailerInOrder(IdleMailer) /\ NoticeTold(IdleMailer)
  /\ IdleMailer.at = "idle" /\ IdleMailer.kind = "trial_invite" /\ IdleMailer.result = "none"
  /\ IdleMailer.rows = NoRows /\ IdleMailer.tries = 0
  /\ \A k \in MailKinds : NoRows[k].sent = 0 /\ ~HoldsCopy(IdleMailer, k) /\ ~OwesRow(IdleMailer, k)
  /\ NoRows \in [MailKinds -> [sent : Nat, other : Nat]]
<1>1. /\ IdleMailer.at = "idle" /\ IdleMailer.kind = "trial_invite" /\ IdleMailer.result = "none"
      /\ IdleMailer.rows = NoRows /\ IdleMailer.tries = 0
      /\ \A k \in MailKinds : NoRows[k].sent = 0
      /\ NoRows \in [MailKinds -> [sent : Nat, other : Nat]]
  BY DEF IdleMailer, NoRows
<1>2. IdleMailer \in MailerRecords
  BY <1>1, KindsApart, NotificationsAssumption DEF MailerRecords, IdleMailer
<1>3. MailerInOrder(IdleMailer)
  BY <1>1 DEF MailerInOrder
<1>4. NoticeTold(IdleMailer)
  BY <1>1 DEF NoticeTold
<1>5. \A k \in MailKinds : ~HoldsCopy(IdleMailer, k) /\ ~OwesRow(IdleMailer, k)
  BY <1>1 DEF HoldsCopy, OwesRow, MaySend, CandidateMail
<1> QED
  BY <1>1, <1>2, <1>3, <1>4, <1>5

(* Who holds a copy is at work on its kind, or on both confirmations.      *)
LEMMA HoldersWork ==
  ASSUME NEW x \in MailerRecords, MailerInOrder(x), NEW k \in MailKinds, HoldsCopy(x, k)
  PROVE  x.at # "idle" /\ (k = x.kind \/ (k \in Confirmations /\ x.kind \in Confirmations))
<1>1. x.at # "idle"
  BY IdleFacts DEF MailerInOrder
<1>2. k = x.kind \/ (k = CandidateMail /\ x.kind = PartnerMail) \/ (k = PartnerMail /\ x.kind = CandidateMail)
  BY DEF MailerInOrder, HoldsCopy, OwesRow, MaySend
<1> QED
  BY <1>1, <1>2, KindsApart

-----------------------------------------------------------------------------
(* Notifications: what a step must see to.                                 *)

LEMMA MailInitInv == ASSUME MailInit PROVE MailInv
<1>1. \A m \in Mailers : mailer[m] = IdleMailer
  BY DEF MailInit
<1>2. MailTypes
  <2>1. MailTypeOK
    <3>6. partnerKnown \in BOOLEAN /\ scheduled \in BOOLEAN
      BY Zenon DEF MailInit
    <3>1. /\ inbox \in [MailKinds -> Nat] /\ reports \in 0..LastReport
          /\ mailFaults \in 0..MailFaults
      BY NotificationsAssumption DEF MailInit
    <3>2. audit \in [MailKinds -> [sent : Nat, other : Nat]]
      BY IdleFacts DEF MailInit
    <3>3. inviteMail \in [status : {"none", "sent", "failed", "rate_limited"},
                          asked : 0..LastInvite, recent : BOOLEAN]
      BY NotificationsAssumption DEF MailInit
    <3>4. notice \in [Notices -> [status : {"absent", "queued", "running", "succeeded", "dead_letter"},
                                  attempt : Nat]]
      BY DEF MailInit
    <3>5. \A m \in Mailers : /\ mailer[m].at \in {"idle", "look", "send", "record", "commit", "settle"}
                              /\ mailer[m].kind \in MailKinds /\ mailer[m].tries \in 0..SendAttempts
      BY <1>1, IdleFacts DEF MailerRecords
    <3> QED
      BY <3>1, <3>2, <3>3, <3>4, <3>5, <3>6 DEF MailTypeOK
  <2> QED
    BY <2>1, IdleFacts DEF MailInit, MailTypes
<1>3. \A k \in MailKinds : inbox[k] = 0 /\ audit[k].sent = 0 /\ excused[k] = 0
  BY IdleFacts DEF MailInit
<1>4. \A k \in MailKinds : Cardinality(Owing(k)) = 0 /\ Cardinality(Holding(k)) = 0
  <2> SUFFICES ASSUME NEW k \in MailKinds PROVE Owing(k) = {} /\ Holding(k) = {}
    BY FS_EmptySet
  <2> QED
    BY <1>1, IdleFacts DEF Owing, Holding
<1>5. MailLedger
  BY <1>3, <1>4 DEF MailLedger
<1>6. MailCopies
  BY <1>2, <1>3, <1>4, KindFacts DEF MailCopies
<1>7. NoticesTold /\ NothingConfirmed
  BY <1>1, <1>3, IdleFacts, KindsApart DEF NoticesTold, NothingConfirmed, MailInit
<1> QED
  BY <1>1, <1>2, <1>5, <1>6, <1>7, IdleFacts DEF MailInv

(* One mailer moves.  A copy that it holds afterwards it held before, was  *)
(* counted as an overlap, or nobody held one.                              *)
LEMMA MailerMoves ==
  ASSUME MailInv, NEW m \in Mailers, NEW x \in MailerRecords, x = mailer[m],
         NEW new \in MailerRecords, mailer' = [mailer EXCEPT ![m] = new],
         MailTypes', MailerInOrder(new), NoticeTold(new)', NoticesTold',
         partnerKnown' = partnerKnown, scheduled => scheduled',
         ~scheduled' => /\ new.kind \notin Confirmations
                        /\ \A k \in Confirmations : audit'[k].sent = audit[k].sent,
         \A k \in MailKinds :
           /\ audit'[k].sent >= audit[k].sent
           /\ inbox'[k] + audit[k].sent + excused[k] + One(OwesRow(x, k))
                = inbox[k] + audit'[k].sent + excused'[k] + One(OwesRow(new, k)),
         \A k \in MailKinds \ {"trial_invite"} :
           \/ audit'[k].sent + One(HoldsCopy(new, k)') + Overlapping(k)
                <= audit[k].sent + One(HoldsCopy(x, k)) + Overlapping(k)'
           \/ /\ Holding(k) = {}
              /\ audit'[k].sent + One(HoldsCopy(new, k)') <= 1 + Overlapping(k)'
  PROVE  MailInv'
<1>1. MailTypes /\ mailer'[m] = new /\ \A o \in Mailers \ {m} : mailer'[o] = mailer[o]
  BY DEF MailInv, MailTypes
<1>2. ASSUME NEW k \in MailKinds
      PROVE  /\ Owing(k)' \ {m} = Owing(k) \ {m} /\ Holding(k)' \ {m} \subseteq Holding(k) \ {m}
             /\ m \in Owing(k) <=> OwesRow(x, k)
             /\ m \in Owing(k)' <=> OwesRow(new, k)
             /\ m \in Holding(k) <=> HoldsCopy(x, k)
             /\ m \in Holding(k)' <=> HoldsCopy(new, k)'
  <2>1. audit'[k].sent >= audit[k].sent /\ audit[k].sent \in Nat /\ audit'[k].sent \in Nat
    BY <1>1, KindFacts, KindFactsNext
  <2>3. ASSUME NEW o \in Mailers \ {m} PROVE HoldsCopy(mailer[o], k)' => HoldsCopy(mailer[o], k)
    <3>1. PICK y : y = mailer[o]
      OBVIOUS
    <3>2. mailer'[o] = y
      BY <1>1, <3>1
    <3> QED
      BY <2>1, <3>1, <3>2 DEF HoldsCopy, MaySend, OwesRow
  <2>4. \A o \in Mailers \ {m} : OwesRow(mailer[o], k)' = OwesRow(mailer[o], k)
    BY <1>1 DEF OwesRow
  <2>5. OwesRow(mailer[m], k)' = OwesRow(new, k) /\ HoldsCopy(mailer[m], k)' = HoldsCopy(new, k)'
    BY <1>1 DEF OwesRow, HoldsCopy, MaySend
  <2>6. /\ \A o \in Mailers : o \in Owing(k)' <=> OwesRow(mailer[o], k)'
        /\ \A o \in Mailers : o \in Holding(k)' <=> HoldsCopy(mailer[o], k)'
        /\ Owing(k)' \subseteq Mailers /\ Holding(k)' \subseteq Mailers
    BY DEF Owing, Holding
  <2>7. /\ \A o \in Mailers : o \in Owing(k) <=> OwesRow(mailer[o], k)
        /\ \A o \in Mailers : o \in Holding(k) <=> HoldsCopy(mailer[o], k)
        /\ Owing(k) \subseteq Mailers /\ Holding(k) \subseteq Mailers
    BY DEF Owing, Holding
  <2>8. Owing(k)' \ {m} = Owing(k) \ {m}
    BY <2>4, <2>6, <2>7
  <2>9. Holding(k)' \ {m} \subseteq Holding(k) \ {m}
    BY <2>3, <2>6, <2>7
  <2>10. /\ m \in Owing(k) <=> OwesRow(x, k)
         /\ m \in Holding(k) <=> HoldsCopy(x, k)
    BY <2>7
  <2>11. /\ m \in Owing(k)' <=> OwesRow(new, k)
         /\ m \in Holding(k)' <=> HoldsCopy(new, k)'
    BY <2>5, <2>6
  <2> QED
    BY <2>8, <2>9, <2>10, <2>11
<1>3. MailLedger'
  <2> SUFFICES ASSUME NEW k \in MailKinds
               PROVE  inbox'[k] = audit'[k].sent + excused'[k] + Cardinality(Owing(k)')
    BY DEF MailLedger
  <2>1. /\ Cardinality(Owing(k)') \in Nat /\ Cardinality(Owing(k)) \in Nat
        /\ Cardinality(Owing(k)') + One(OwesRow(x, k)) = Cardinality(Owing(k)) + One(OwesRow(new, k))
    <3>1. IsFiniteSet(Owing(k)) /\ Owing(k)' \ {m} = Owing(k) \ {m}
      BY <1>2, FiniteHolders
    <3>2. /\ Cardinality(Owing(k)') \in Nat /\ Cardinality(Owing(k)) \in Nat
          /\ Cardinality(Owing(k)') + One(m \in Owing(k)) = Cardinality(Owing(k)) + One(m \in Owing(k)')
      BY <3>1, Recounted
    <3>3. One(m \in Owing(k)) = One(OwesRow(x, k)) /\ One(m \in Owing(k)') = One(OwesRow(new, k))
      BY <1>2 DEF One
    <3> QED
      BY <3>2, <3>3
  <2>2. inbox[k] = audit[k].sent + excused[k] + Cardinality(Owing(k))
    BY DEF MailInv, MailLedger
  <2>3. /\ inbox[k] \in Nat /\ excused[k] \in Nat /\ audit[k].sent \in Nat
        /\ inbox'[k] \in Nat /\ excused'[k] \in Nat /\ audit'[k].sent \in Nat
    BY <1>1, KindFacts, KindFactsNext
  <2>4. One(OwesRow(x, k)) \in Nat /\ One(OwesRow(new, k)) \in Nat
    BY OneIsNat
  <2> QED
    BY <2>1, <2>2, <2>3, <2>4
<1>4. MailCopies'
  <2> SUFFICES ASSUME NEW k \in MailKinds \ {"trial_invite"}
               PROVE  audit'[k].sent + Cardinality(Holding(k)') <= 1 + Overlapping(k)'
    BY DEF MailCopies
  <2>1. /\ Cardinality(Holding(k)') \in Nat /\ Cardinality(Holding(k)) \in Nat
        /\ Cardinality(Holding(k)') + One(HoldsCopy(x, k)) <= Cardinality(Holding(k)) + One(HoldsCopy(new, k)')
    <3>1. IsFiniteSet(Holding(k)) /\ Holding(k)' \ {m} \subseteq Holding(k) \ {m}
      BY <1>2, FiniteHolders
    <3>2. /\ Cardinality(Holding(k)') \in Nat /\ Cardinality(Holding(k)) \in Nat
          /\ Cardinality(Holding(k)') + One(m \in Holding(k))
               <= Cardinality(Holding(k)) + One(m \in Holding(k)')
      BY <3>1, Recounted
    <3>3. One(m \in Holding(k)) = One(HoldsCopy(x, k)) /\ One(m \in Holding(k)') = One(HoldsCopy(new, k)')
      BY <1>2 DEF One
    <3> QED
      BY <3>2, <3>3
  <2>2. audit[k].sent + Cardinality(Holding(k)) <= 1 + Overlapping(k)
    BY DEF MailInv, MailCopies
  <2>3. /\ audit[k].sent \in Nat /\ audit'[k].sent \in Nat
        /\ Overlapping(k) \in Nat /\ Overlapping(k)' \in Nat
    BY <1>1, KindFacts, KindFactsNext
  <2>4. One(HoldsCopy(x, k)) \in Nat /\ One(HoldsCopy(new, k)') \in Nat
    BY OneIsNat
  <2>5. CASE audit'[k].sent + One(HoldsCopy(new, k)') + Overlapping(k)
               <= audit[k].sent + One(HoldsCopy(x, k)) + Overlapping(k)'
    BY <2>1, <2>2, <2>3, <2>4, <2>5
  <2>6. CASE /\ Holding(k) = {}
             /\ audit'[k].sent + One(HoldsCopy(new, k)') <= 1 + Overlapping(k)'
    <3>1. Cardinality(Holding(k)) = 0
      BY <2>6, FS_EmptySet
    <3> QED
      BY <2>1, <2>3, <2>4, <2>6, <3>1
  <2> QED
    BY <2>5, <2>6
<1>5. NothingConfirmed'
  BY <1>1 DEF MailInv, NothingConfirmed
<1>6. ASSUME NEW o \in Mailers PROVE MailerInOrder(mailer'[o]) /\ NoticeTold(mailer[o])'
  <2>1. CASE o = m
    BY <1>1, <2>1 DEF NoticeTold, OwesRow
  <2>2. CASE o # m
    <3>1. mailer'[o] = mailer[o] /\ MailerInOrder(mailer[o]) /\ NoticeTold(mailer[o])
          /\ mailer[o].kind \in MailKinds
      BY <1>1, <2>2, MailerFacts DEF MailerRecords
    <3>2. /\ audit'[mailer[o].kind].sent >= audit[mailer[o].kind].sent
          /\ audit[mailer[o].kind].sent \in Nat /\ audit'[mailer[o].kind].sent \in Nat
      BY <1>1, <3>1, KindFacts, KindFactsNext
    <3>3. NoticeTold(mailer[o])'
      BY <3>1, <3>2 DEF NoticeTold, OwesRow
    <3> QED
      BY <3>1, <3>3
  <2> QED
    BY <2>1, <2>2
<1> QED
  BY <1>3, <1>4, <1>5, <1>6 DEF MailInv, MailerInOrder

(* A mailer goes on, and nothing is recorded as sent nor delivered.        *)
LEMMA MailerGoesOn ==
  ASSUME MailInv, NEW m \in Mailers, NEW x \in MailerRecords, x = mailer[m],
         NEW new \in MailerRecords, mailer' = [mailer EXCEPT ![m] = new],
         MailerInOrder(new), NoticeTold(new), ~scheduled => new.kind \notin Confirmations,
         \A k \in MailKinds : OwesRow(new, k) = OwesRow(x, k) /\ (HoldsCopy(new, k) => HoldsCopy(x, k)),
         UNCHANGED <<partnerKnown, inbox, audit, inviteMail, scheduled, reports, notice, excused,
                     overlaps, mailFaults>>
  PROVE  MailInv'
<1>1. MailTypes'
  BY DEF MailInv, MailTypes, MailTypeOK, MailerRecords
<1>2. NoticeTold(new)' /\ NoticesTold'
  BY DEF MailInv, NoticesTold, NoticeTold, OwesRow
<1>3. ASSUME NEW k \in MailKinds
      PROVE  /\ audit[k].sent \in Nat /\ inbox[k] \in Nat /\ excused[k] \in Nat
             /\ Overlapping(k) \in Nat /\ Overlapping(k)' = Overlapping(k)
             /\ HoldsCopy(new, k)' = HoldsCopy(new, k)
             /\ One(HoldsCopy(new, k)') <= One(HoldsCopy(x, k))
             /\ One(HoldsCopy(new, k)') \in Nat /\ One(HoldsCopy(x, k)) \in Nat
             /\ One(OwesRow(x, k)) = One(OwesRow(new, k)) /\ One(OwesRow(x, k)) \in Nat
  <2>1. audit[k].sent \in Nat /\ inbox[k] \in Nat /\ excused[k] \in Nat /\ Overlapping(k) \in Nat
    BY KindFacts DEF MailInv
  <2>2. Overlapping(k)' = Overlapping(k)
    BY DEF Overlapping
  <2>3. HoldsCopy(new, k)' = HoldsCopy(new, k)
    BY DEF HoldsCopy, OwesRow, MaySend
  <2>4. HoldsCopy(new, k) => HoldsCopy(x, k)
    OBVIOUS
  <2> QED
    BY <2>1, <2>2, <2>3, <2>4 DEF One
<1>4. \A k \in MailKinds :
        /\ audit'[k].sent >= audit[k].sent
        /\ inbox'[k] + audit[k].sent + excused[k] + One(OwesRow(x, k))
             = inbox[k] + audit'[k].sent + excused'[k] + One(OwesRow(new, k))
        /\ audit'[k].sent + One(HoldsCopy(new, k)') + Overlapping(k)
             <= audit[k].sent + One(HoldsCopy(x, k)) + Overlapping(k)'
  BY <1>3
<1> QED
  BY <1>1, <1>2, <1>4, MailerMoves

LEMMA LookKeeps == ASSUME MailInv, NEW m \in Mailers, Look(m) PROVE MailInv'
<1>1. PICK x \in MailerRecords : x = mailer[m]
  BY MailerFacts
<1>2. MailerInOrder(x) /\ x.at = "look" /\ x.kind \in MailKinds
  BY <1>1, MailerFacts DEF Look, MailerRecords
<1> DEFINE before == audit[x.kind].sent > 0
           away == ToPartner(x.kind) /\ ~partnerKnown
<1>3. PICK result, at : /\ result = (IF before THEN "before" ELSE "none")
                        /\ at = (IF away THEN "commit" ELSE IF before THEN "record" ELSE "send")
  OBVIOUS
<1>4. PICK new \in MailerRecords : new = [x EXCEPT !.result = result, !.at = at]
  BY <1>3 DEF MailerRecords
<1>5. mailer' = [mailer EXCEPT ![m] = new]
  BY <1>1, <1>3, <1>4 DEF Look, DeliveredBefore
<1>6. /\ new.at = at /\ new.result = result /\ new.kind = x.kind /\ new.rows = x.rows
      /\ new.tries = x.tries
  BY <1>4 DEF MailerRecords
<1>7. /\ at \in {"commit", "record", "send"} /\ result \in {"none", "before"}
      /\ (at = "send" => ~before /\ result = "none") /\ (at = "record" => result = "before")
      /\ (at = "commit" => away) /\ (result = "before" => before)
  BY <1>3
<1>8. audit[x.kind].sent \in Nat
  BY <1>2, KindFacts DEF MailInv
<1>9. x.kind = CandidateMail => ~ToPartner(x.kind)
  BY DEF ToPartner, Notices, CandidateMail
<1>10. MailerInOrder(new)
  BY <1>2, <1>6, <1>7 DEF MailerInOrder
<1>11. NoticeTold(new)
  BY <1>6, <1>7, <1>8 DEF NoticeTold
<1>12. ASSUME NEW k \in MailKinds
       PROVE  OwesRow(new, k) = OwesRow(x, k) /\ (HoldsCopy(new, k) => HoldsCopy(x, k))
  <2>1. OwesRow(new, k) = OwesRow(x, k)
    BY <1>2, <1>6, <1>7 DEF OwesRow
  <2>2. MaySend(new, k) => MaySend(x, k)
    BY <1>2, <1>6, <1>7, <1>8 DEF MaySend
  <2> QED
    BY <2>1, <2>2 DEF HoldsCopy
<1>13. ~scheduled => new.kind \notin Confirmations
  BY <1>1, <1>6 DEF MailInv, NothingConfirmed
<1>14. UNCHANGED <<partnerKnown, inbox, audit, inviteMail, scheduled, reports, notice, excused,
                   overlaps, mailFaults>>
  BY DEF Look
<1> HIDE DEF before, away
<1> QED
  BY <1>1, <1>5, <1>10, <1>11, <1>12, <1>13, <1>14, MailerGoesOn

-----------------------------------------------------------------------------
(* Notifications: sending. *)

(* An answer of the provider: the mail at hand arrived or not, and the     *)
(* mailer is done with it or tries again.                                  *)
LEMMA AnswerKeeps ==
  ASSUME MailInv, NEW m \in Mailers, NEW x \in MailerRecords, x = mailer[m], x.at = "send",
         NEW new \in MailerRecords, mailer' = [mailer EXCEPT ![m] = new],
         new.kind = x.kind, new.rows = x.rows,
         \/ new.at = "send" /\ new.result = "failed" /\ new.tries < SendAttempts
         \/ new.at = "record" /\ new.result \in {"sent", "failed"},
         NEW arrived \in 0..1, NEW lost \in 0..1,
         mailFaults' \in 0..MailFaults,
         inbox' = [inbox EXCEPT ![x.kind] = @ + arrived],
         excused' = [excused EXCEPT ![x.kind] = @ + lost],
         arrived = lost + One(new.result = "sent"),
         UNCHANGED <<partnerKnown, audit, inviteMail, scheduled, reports, notice, overlaps>>
  PROVE  MailInv'
<1>1. MailerInOrder(x) /\ x.kind \in MailKinds
  BY MailerFacts DEF MailerRecords
<1>2. MailerInOrder(new)
  BY <1>1 DEF MailerInOrder
<1>3. inbox \in [MailKinds -> Nat] /\ excused \in [MailKinds -> Nat]
  BY DEF MailInv, MailTypes, MailTypeOK
<1>4. inbox' \in [MailKinds -> Nat] /\ excused' \in [MailKinds -> Nat]
  BY <1>1, <1>3
<1>5. mailer' \in [Mailers -> MailerRecords]
  BY DEF MailInv, MailTypes
<1>6. MailTypes'
  BY <1>4, <1>5 DEF MailInv, MailTypes, MailTypeOK, MailerRecords
<1>7. NoticeTold(new)'
  BY DEF NoticeTold, OwesRow
<1>8. NoticesTold'
  BY DEF MailInv, NoticesTold
<1>9. ~scheduled' => new.kind \notin Confirmations
  BY DEF MailInv, NothingConfirmed
<1>10. ASSUME NEW k \in MailKinds
       PROVE  /\ audit[k].sent \in Nat
              /\ inbox'[k] + audit[k].sent + excused[k] + One(OwesRow(x, k))
                   = inbox[k] + audit'[k].sent + excused'[k] + One(OwesRow(new, k))
              /\ One(HoldsCopy(new, k)') <= One(HoldsCopy(x, k))
              /\ One(HoldsCopy(new, k)') \in Nat /\ One(HoldsCopy(x, k)) \in Nat
  <2>1. /\ audit[k].sent \in Nat /\ inbox[k] \in Nat /\ excused[k] \in Nat
    BY KindFacts DEF MailInv
  <2>2. x.rows[x.kind].sent = 0
    BY <1>1 DEF MailerInOrder
  <2>3. CASE k = x.kind
    <3>1. inbox'[k] = inbox[k] + arrived /\ excused'[k] = excused[k] + lost
      BY <1>3, <2>3
    <3>2. ~OwesRow(x, k) /\ OwesRow(new, k) = (new.result = "sent")
      BY <2>2, <2>3 DEF OwesRow
    <3>3. One(OwesRow(x, k)) = 0 /\ One(OwesRow(new, k)) = One(new.result = "sent")
      BY <3>2 DEF One
    <3>4. HoldsCopy(x, k)
      BY <2>3 DEF HoldsCopy, MaySend
    <3>5. One(HoldsCopy(x, k)) = 1 /\ One(HoldsCopy(new, k)') \in 0..1
      BY <3>4, OneIsNat DEF One
    <3>6. lost \in Nat /\ arrived \in Nat /\ One(new.result = "sent") \in Nat
      BY OneIsNat
    <3> QED
      BY <2>1, <3>1, <3>3, <3>5, <3>6
  <2>4. CASE k # x.kind
    <3>1. inbox'[k] = inbox[k] /\ excused'[k] = excused[k]
      BY <1>3, <2>4
    <3>2. OwesRow(x, k) = OwesRow(new, k)
      BY <2>4 DEF OwesRow
    <3>3. HoldsCopy(new, k)' => HoldsCopy(x, k)
      BY <2>4, <3>2 DEF HoldsCopy, MaySend, OwesRow
    <3>4. One(OwesRow(x, k)) = One(OwesRow(new, k)) /\ One(OwesRow(x, k)) \in Nat
      BY <3>2 DEF One
    <3>5. /\ One(HoldsCopy(new, k)') <= One(HoldsCopy(x, k))
          /\ One(HoldsCopy(new, k)') \in Nat /\ One(HoldsCopy(x, k)) \in Nat
      BY <3>3 DEF One
    <3> QED
      BY <2>1, <3>1, <3>4, <3>5
  <2> QED
    BY <2>3, <2>4
<1>11. \A k \in MailKinds : Overlapping(k)' = Overlapping(k) /\ Overlapping(k) \in Nat
  BY KindFacts DEF Overlapping, MailInv
<1>12. \A k \in MailKinds :
        /\ audit'[k].sent >= audit[k].sent
        /\ inbox'[k] + audit[k].sent + excused[k] + One(OwesRow(x, k))
             = inbox[k] + audit'[k].sent + excused'[k] + One(OwesRow(new, k))
        /\ audit'[k].sent + One(HoldsCopy(new, k)') + Overlapping(k)
             <= audit[k].sent + One(HoldsCopy(x, k)) + Overlapping(k)'
  BY <1>10, <1>11
<1> QED
  BY <1>2, <1>6, <1>7, <1>8, <1>9, <1>12, MailerMoves

LEMMA SendEmailKeeps == ASSUME MailInv, NEW m \in Mailers, SendEmail(m) PROVE MailInv'
<1>1. PICK x \in MailerRecords : x = mailer[m]
  BY MailerFacts
<1>2. /\ x.at = "send" /\ x.kind \in MailKinds /\ x.tries < SendAttempts /\ x.tries \in Nat
      /\ inbox \in [MailKinds -> Nat] /\ excused \in [MailKinds -> Nat] /\ mailFaults \in 0..MailFaults
  <2>1. MailerInOrder(x) /\ x.at = "send"
    BY <1>1, MailerFacts DEF SendEmail
  <2>2. inbox \in [MailKinds -> Nat] /\ excused \in [MailKinds -> Nat] /\ mailFaults \in 0..MailFaults
    BY DEF MailInv, MailTypes, MailTypeOK
  <2>3. x.kind \in MailKinds /\ x.tries \in Nat
    BY NotificationsAssumption DEF MailerRecords
  <2> QED
    BY <2>1, <2>2, <2>3 DEF MailerInOrder
<1>3. UNCHANGED <<partnerKnown, audit, inviteMail, scheduled, reports, notice, overlaps>>
  BY DEF SendEmail
<1>5. inbox = [inbox EXCEPT ![x.kind] = @ + 0] /\ excused = [excused EXCEPT ![x.kind] = @ + 0]
  BY <1>2
<1>6. CASE Accept(m)
  <2>1. PICK new \in MailerRecords : new = [x EXCEPT !.at = "record", !.result = "sent"]
    BY DEF MailerRecords
  <2>2. mailer' = [mailer EXCEPT ![m] = new]
    BY <1>1, <1>6, <2>1 DEF Accept
  <2>3. new.at = "record" /\ new.result = "sent" /\ new.kind = x.kind /\ new.rows = x.rows
    BY <2>1 DEF MailerRecords
  <2>4. PICK one \in 0..1, none \in 0..1 : one = 1 /\ none = 0
    OBVIOUS
  <2>5. /\ mailFaults' \in 0..MailFaults
        /\ inbox' = [inbox EXCEPT ![x.kind] = @ + one]
        /\ excused' = [excused EXCEPT ![x.kind] = @ + none]
    BY <1>1, <1>2, <1>5, <1>6, <2>4 DEF Accept, Arrives
  <2>6. one = none + One(new.result = "sent")
    BY <2>3, <2>4 DEF One
  <2> HIDE <2>4
  <2> QED
    BY <1>1, <1>2, <1>3, <2>2, <2>3, <2>5, <2>6, AnswerKeeps
<1>7. ASSUME FaultHappens,
             \/ UNCHANGED <<inbox, excused>>
             \/ Arrives(m) /\ excused' = [excused EXCEPT ![mailer[m].kind] = @ + 1],
             NEW new \in MailerRecords, mailer' = [mailer EXCEPT ![m] = new],
             new.kind = x.kind, new.rows = x.rows, new.result = "failed",
             new.at = "record" \/ (new.at = "send" /\ new.tries < SendAttempts)
      PROVE  MailInv'
  <2>1. PICK arrived \in 0..1 :
          /\ inbox' = [inbox EXCEPT ![x.kind] = @ + arrived]
          /\ excused' = [excused EXCEPT ![x.kind] = @ + arrived]
    <3>1. CASE UNCHANGED <<inbox, excused>>
      BY <1>5, <3>1
    <3>2. CASE Arrives(m) /\ excused' = [excused EXCEPT ![mailer[m].kind] = @ + 1]
      BY <1>1, <3>2 DEF Arrives
    <3> QED
      BY <1>7, <3>1, <3>2
  <2>2. mailFaults' \in 0..MailFaults
    BY <1>2, <1>7, NotificationsAssumption DEF FaultHappens
  <2>3. arrived = arrived + One(new.result = "sent")
    BY <1>7 DEF One
  <2> QED
    BY <1>1, <1>2, <1>3, <1>7, <2>1, <2>2, <2>3, AnswerKeeps
<1>8. CASE FailForNow(m)
  <2> DEFINE next == IF Again(m) THEN "send" ELSE "record"
             tried == x.tries + 1
  <2>1. next \in {"send", "record"} /\ tried \in 0..SendAttempts
        /\ (next = "send" => tried < SendAttempts)
    BY <1>1, <1>2, NotificationsAssumption DEF Again
  <2>2. mailer' = [mailer EXCEPT ![m] = [x EXCEPT !.tries = tried, !.result = "failed", !.at = next]]
    BY <1>1, <1>8 DEF FailForNow
  <2> HIDE DEF next, tried
  <2>3. PICK new \in MailerRecords :
          new = [x EXCEPT !.tries = tried, !.result = "failed", !.at = next]
    BY <2>1 DEF MailerRecords
  <2>4. /\ new.kind = x.kind /\ new.rows = x.rows /\ new.result = "failed" /\ new.at = next
        /\ new.tries = tried
    BY <2>3 DEF MailerRecords
  <2>5. mailer' = [mailer EXCEPT ![m] = new]
    BY <2>2, <2>3
  <2>6. new.at = "record" \/ (new.at = "send" /\ new.tries < SendAttempts)
    BY <2>1, <2>4
  <2> QED
    BY <1>7, <1>8, <2>4, <2>5, <2>6 DEF FailForNow
<1>9. CASE Refuse(m)
  <2>1. PICK new \in MailerRecords : new = [x EXCEPT !.at = "record", !.result = "failed"]
    BY DEF MailerRecords
  <2>2. mailer' = [mailer EXCEPT ![m] = new]
    BY <1>1, <1>9, <2>1 DEF Refuse
  <2>3. new.at = "record" /\ new.result = "failed" /\ new.kind = x.kind /\ new.rows = x.rows
    BY <2>1 DEF MailerRecords
  <2> QED
    BY <1>7, <1>9, <2>2, <2>3 DEF Refuse
<1> QED
  BY <1>6, <1>8, <1>9 DEF SendEmail

(* A mail that was sent gets its row. *)
LEMMA RowsRecorded ==
  ASSUME NEW x \in MailerRecords, NEW m \in Mailers, x = mailer[m], x.rows[x.kind].sent = 0
  PROVE  /\ RowOf(m) \in [MailKinds -> [sent : Nat, other : Nat]]
         /\ RowOf(m)[x.kind].sent = One(x.result = "sent")
         /\ \A k \in MailKinds : k # x.kind => RowOf(m)[k] = x.rows[k]
<1> DEFINE row == x.rows[x.kind]
           next == CASE x.result = "sent" -> [row EXCEPT !.sent = row.sent + 1]
                     [] x.result = "failed" -> [row EXCEPT !.other = row.other + 1]
                     [] OTHER -> row
<1>1. x.kind \in MailKinds /\ x.rows \in [MailKinds -> [sent : Nat, other : Nat]]
  BY DEF MailerRecords
<1>2. row \in [sent : Nat, other : Nat] /\ row.sent = 0
  BY <1>1
<1>3. RowOf(m) = [x.rows EXCEPT ![x.kind] = next]
  BY DEF RowOf
<1> HIDE DEF row
<1>4. next \in [sent : Nat, other : Nat] /\ next.sent = One(x.result = "sent")
  <2>1. CASE x.result = "sent"
    BY <1>2, <2>1 DEF One
  <2>2. CASE x.result = "failed"
    BY <1>2, <2>2 DEF One
  <2>3. CASE x.result \notin {"sent", "failed"}
    BY <1>2, <2>3 DEF One
  <2> QED
    BY <2>1, <2>2, <2>3
<1> HIDE DEF next
<1> QED
  BY <1>1, <1>3, <1>4

LEMMA RecordDeliveryKeeps == ASSUME MailInv, NEW m \in Mailers, RecordDelivery(m) PROVE MailInv'
<1>1. PICK x \in MailerRecords : x = mailer[m]
  BY MailerFacts
<1>2. MailerInOrder(x) /\ NoticeTold(x) /\ x.at = "record" /\ x.kind \in MailKinds
  BY <1>1, MailerFacts DEF RecordDelivery, MailerRecords
<1>3. x.rows[x.kind].sent = 0 /\ x.result # "none"
  BY <1>2 DEF MailerInOrder
<1>4. PICK mailRows : mailRows = RowOf(m)
  OBVIOUS
<1>5. /\ mailRows \in [MailKinds -> [sent : Nat, other : Nat]]
      /\ mailRows[x.kind].sent = One(x.result = "sent")
      /\ \A k \in MailKinds : k # x.kind => mailRows[k] = x.rows[k]
  BY <1>1, <1>3, <1>4, RowsRecorded
<1>6. \A k \in MailKinds : mailRows[k].sent \in 0..1 /\ ((mailRows[k].sent = 1) = OwesRow(x, k))
  <2> SUFFICES ASSUME NEW k \in MailKinds
               PROVE  mailRows[k].sent \in 0..1 /\ ((mailRows[k].sent = 1) = OwesRow(x, k))
    OBVIOUS
  <2>1. CASE k = x.kind
    BY <1>2, <1>3, <1>5, <2>1 DEF OwesRow, One
  <2>2. CASE k # x.kind
    BY <1>2, <1>5, <2>2 DEF OwesRow, MailerInOrder
  <2> QED
    BY <2>1, <2>2
<1>7. UNCHANGED <<partnerKnown, inbox, audit, inviteMail, scheduled, reports, notice, excused,
                  overlaps, mailFaults>>
  BY DEF RecordDelivery
<1>8. CASE x.kind = CandidateMail
  <2>1. PICK new \in MailerRecords :
          new = [IdleMailer EXCEPT !.at = "look", !.rows = mailRows, !.kind = PartnerMail]
    BY <1>5, IdleFacts, KindsApart DEF MailerRecords
  <2>2. mailer' = [mailer EXCEPT ![m] = new]
    BY <1>1, <1>4, <1>8, <2>1 DEF RecordDelivery, CandidateMail, PartnerMail
  <2>3. /\ new.at = "look" /\ new.kind = PartnerMail /\ new.rows = mailRows
        /\ new.result = "none" /\ new.tries = 0
    BY <2>1, IdleFacts DEF MailerRecords
  <2>4. mailRows[PartnerMail].sent = 0
    BY <1>2, <1>5, <1>8, KindsApart DEF MailerInOrder
  <2>5. MailerInOrder(new)
    <3>1. \A k \in MailKinds : mailRows[k].sent # 0 => k = CandidateMail
      BY <1>2, <1>5, <1>8, KindsApart DEF MailerInOrder
    <3> QED
      BY <1>6, <2>3, <2>4, <3>1, KindsApart, NotificationsAssumption DEF MailerInOrder
  <2>6. NoticeTold(new)
    BY <2>3 DEF NoticeTold
  <2>7. ~scheduled => new.kind \notin Confirmations
    BY <1>1, <1>8, KindsApart DEF MailInv, NothingConfirmed
  <2>8. ASSUME NEW k \in MailKinds
        PROVE  OwesRow(new, k) = OwesRow(x, k) /\ (HoldsCopy(new, k) => HoldsCopy(x, k))
    <3>1. OwesRow(new, k) = (mailRows[k].sent = 1)
      BY <2>3 DEF OwesRow
    <3>2. MaySend(new, k) => MaySend(x, k)
      BY <1>2, <1>8, <2>3, KindsApart DEF MaySend
    <3> QED
      BY <1>6, <3>1, <3>2 DEF HoldsCopy
  <2> QED
    BY <1>1, <1>7, <2>2, <2>5, <2>6, <2>7, <2>8, MailerGoesOn
<1>9. CASE x.kind # CandidateMail
  <2>1. PICK new \in MailerRecords : new = [x EXCEPT !.at = "commit", !.rows = mailRows]
    BY <1>5 DEF MailerRecords
  <2>2. mailer' = [mailer EXCEPT ![m] = new]
    BY <1>1, <1>4, <1>9, <2>1 DEF RecordDelivery, CandidateMail
  <2>3. /\ new.at = "commit" /\ new.kind = x.kind /\ new.rows = mailRows
        /\ new.result = x.result /\ new.tries = x.tries
    BY <2>1 DEF MailerRecords
  <2>4. MailerInOrder(new)
    <3>1. \A k \in MailKinds : mailRows[k].sent # 0 =>
            k = x.kind \/ (k = CandidateMail /\ x.kind = PartnerMail)
      BY <1>2, <1>5 DEF MailerInOrder
    <3>2. x.kind = "trial_invite" => x.result \in {"sent", "failed"}
      BY <1>2, <1>3 DEF MailerInOrder, MailerRecords
    <3> QED
      BY <1>6, <2>3, <3>1, <3>2 DEF MailerInOrder
  <2>5. \A k \in MailKinds : OwesRow(new, k) = OwesRow(x, k)
    BY <1>6, <2>3 DEF OwesRow
  <2>6. NoticeTold(new)
    BY <1>2, <2>3, <2>5 DEF NoticeTold
  <2>7. ~scheduled => new.kind \notin Confirmations
    BY <1>1, <2>3 DEF MailInv, NothingConfirmed
  <2>8. \A k \in MailKinds : HoldsCopy(new, k) => HoldsCopy(x, k)
    BY <1>9, <2>3, <2>5 DEF HoldsCopy, MaySend
  <2> QED
    BY <1>1, <1>7, <2>2, <2>4, <2>5, <2>6, <2>7, <2>8, MailerGoesOn
<1> QED
  BY <1>8, <1>9

LEMMA CommitKeeps == ASSUME MailInv, NEW m \in Mailers, Commit(m) PROVE MailInv'
<1>1. PICK x \in MailerRecords : x = mailer[m]
  BY MailerFacts
<1>2. /\ MailerInOrder(x) /\ NoticeTold(x) /\ x.at = "commit" /\ x.kind \in MailKinds
      /\ x.rows \in [MailKinds -> [sent : Nat, other : Nat]]
  BY <1>1, MailerFacts DEF Commit, MailerRecords
<1>3. /\ \A k \in MailKinds : audit'[k].sent = audit[k].sent + x.rows[k].sent
      /\ audit' \in [MailKinds -> [sent : Nat, other : Nat]]
  <2>1. audit' = [k \in MailKinds |-> [sent |-> audit[k].sent + x.rows[k].sent,
                                       other |-> audit[k].other + x.rows[k].other]]
    BY <1>1 DEF Commit
  <2>2. ASSUME NEW k \in MailKinds
        PROVE  /\ audit[k].sent \in Nat /\ audit[k].other \in Nat
               /\ x.rows[k].sent \in Nat /\ x.rows[k].other \in Nat
    BY <1>2, KindFacts DEF MailInv
  <2> QED
    BY <2>1, <2>2
<1>4. inviteMail' \in [status : {"none", "sent", "failed", "rate_limited"},
                       asked : 0..LastInvite, recent : BOOLEAN]
  <2>1. inviteMail \in [status : {"none", "sent", "failed", "rate_limited"},
                        asked : 0..LastInvite, recent : BOOLEAN]
    BY DEF MailInv, MailTypes, MailTypeOK
  <2>2. CASE x.kind = "trial_invite"
    <3>1. x.result \in {"sent", "failed"}
      BY <1>2, <2>2 DEF MailerInOrder
    <3>2. inviteMail' = [inviteMail EXCEPT !.status = x.result, !.recent = TRUE]
      BY <1>1, <2>2 DEF Commit
    <3> QED
      BY <2>1, <3>1, <3>2
  <2>3. CASE x.kind # "trial_invite"
    BY <1>1, <2>1, <2>3 DEF Commit
  <2> QED
    BY <2>2, <2>3
<1>5. PICK new \in MailerRecords :
        new = IF x.kind \in Notices THEN [x EXCEPT !.at = "settle", !.rows = NoRows] ELSE IdleMailer
  BY IdleFacts DEF MailerRecords
<1>6. mailer' = [mailer EXCEPT ![m] = new]
  BY <1>1, <1>5 DEF Commit
<1>7. /\ new.rows = NoRows /\ new.at \in {"idle", "settle"} /\ new.kind \notin Confirmations
      /\ new.at = "settle" => /\ new.kind = x.kind /\ x.kind \in Notices /\ new.result = x.result
      /\ new.at = "idle" => new = IdleMailer
  <2>1. CASE x.kind \in Notices
    BY <1>5, <2>1, KindsApart DEF MailerRecords
  <2>2. CASE x.kind \notin Notices
    BY <1>5, <2>2, IdleFacts, KindsApart
  <2> QED
    BY <2>1, <2>2
<1>8. \A k \in MailKinds : ~HoldsCopy(new, k)' /\ ~OwesRow(new, k) /\ NoRows[k].sent = 0
  BY <1>7, IdleFacts, KindsApart DEF HoldsCopy, OwesRow, MaySend
<1>9. MailerInOrder(new)
  <2>1. CASE new.at = "idle"
    BY <1>7, <2>1, IdleFacts
  <2>2. CASE new.at = "settle"
    BY <1>7, <1>8, <2>2, KindsApart DEF MailerInOrder
  <2> QED
    BY <1>7, <2>1, <2>2
<1>10. UNCHANGED <<partnerKnown, inbox, scheduled, reports, notice, excused, overlaps, mailFaults>>
  BY DEF Commit
<1>11. ASSUME NEW k \in MailKinds
       PROVE  /\ audit[k].sent \in Nat /\ audit'[k].sent \in Nat /\ x.rows[k].sent \in 0..1
              /\ (OwesRow(x, k) <=> x.rows[k].sent = 1)
              /\ One(OwesRow(x, k)) = x.rows[k].sent /\ One(OwesRow(new, k)) = 0
              /\ One(HoldsCopy(new, k)') = 0 /\ One(HoldsCopy(x, k)) >= x.rows[k].sent
              /\ One(HoldsCopy(x, k)) \in Nat
  <2>1. audit[k].sent \in Nat /\ audit'[k].sent \in Nat /\ x.rows[k].sent \in 0..1
    <3>1. audit[k].sent \in Nat /\ x.rows[k].sent \in 0..1
      BY <1>2, KindFacts DEF MailInv, MailerInOrder
    <3>2. audit'[k].sent = audit[k].sent + x.rows[k].sent
      BY <1>3
    <3> QED
      BY <3>1, <3>2
  <2>2. (OwesRow(x, k) <=> x.rows[k].sent = 1)
    BY <1>2 DEF OwesRow
  <2>3. OwesRow(x, k) => HoldsCopy(x, k)
    BY DEF HoldsCopy
  <2> QED
    BY <1>8, <2>1, <2>2, <2>3 DEF One
<1>12. ASSUME NEW k \in MailKinds
       PROVE  /\ audit'[k].sent >= audit[k].sent
              /\ inbox'[k] + audit[k].sent + excused[k] + One(OwesRow(x, k))
                   = inbox[k] + audit'[k].sent + excused'[k] + One(OwesRow(new, k))
              /\ audit'[k].sent + One(HoldsCopy(new, k)') + Overlapping(k)
                   <= audit[k].sent + One(HoldsCopy(x, k)) + Overlapping(k)'
  <2>1. inbox[k] \in Nat /\ excused[k] \in Nat /\ Overlapping(k) \in Nat
    BY KindFacts DEF MailInv
  <2>2. Overlapping(k)' = Overlapping(k) /\ inbox' = inbox /\ excused' = excused
    BY <1>10 DEF Overlapping
  <2>3. audit'[k].sent = audit[k].sent + x.rows[k].sent
    BY <1>3
  <2> QED
    BY <1>11, <2>1, <2>2, <2>3
<1>13. MailTypes'
  <2>1. mailer' \in [Mailers -> MailerRecords]
    BY <1>6 DEF MailInv, MailTypes
  <2> QED
    BY <1>3, <1>4, <1>10, <2>1 DEF MailInv, MailTypes, MailTypeOK, MailerRecords
<1>14. NoticeTold(new)'
  <2> SUFFICES ASSUME new.at = "settle", partnerKnown, new.result # "failed"
               PROVE  audit'[x.kind].sent > 0
    BY <1>7, <1>10 DEF NoticeTold
  <2>1. audit[x.kind].sent > 0 \/ OwesRow(x, x.kind)
    BY <1>2, <1>7 DEF NoticeTold
  <2>2. /\ audit'[x.kind].sent = audit[x.kind].sent + x.rows[x.kind].sent
        /\ audit[x.kind].sent \in Nat /\ x.rows[x.kind].sent \in 0..1
        /\ (OwesRow(x, x.kind) <=> x.rows[x.kind].sent = 1)
    BY <1>2, <1>3, <1>11
  <2> QED
    BY <2>1, <2>2
<1>15. NoticesTold'
  <2> SUFFICES ASSUME NEW k \in Notices, notice[k].status = "succeeded", partnerKnown
               PROVE  audit'[k].sent > 0
    BY <1>10 DEF NoticesTold
  <2>1. audit[k].sent > 0 /\ k \in MailKinds
    BY KindsApart DEF MailInv, NoticesTold
  <2> QED
    BY <1>11, <1>12, <2>1
<1>16. ~scheduled' => /\ new.kind \notin Confirmations
                      /\ \A k \in Confirmations : audit'[k].sent = audit[k].sent
  <2> SUFFICES ASSUME ~scheduled, NEW k \in Confirmations PROVE audit'[k].sent = audit[k].sent
    BY <1>7, <1>10
  <2>1. x.kind \notin Confirmations /\ k \in MailKinds
    BY <1>1, KindsApart DEF MailInv, NothingConfirmed
  <2>2. x.rows[k].sent = 0
    BY <1>2, <2>1, KindsApart DEF MailerInOrder
  <2> QED
    BY <1>3, <1>11, <2>1, <2>2
<1> QED
  BY <1>1, <1>6, <1>9, <1>10, <1>12, <1>13, <1>14, <1>15, <1>16, MailerMoves

LEMMA SettleNoticeKeeps == ASSUME MailInv, NEW m \in Mailers, SettleNotice(m) PROVE MailInv'
<1>1. PICK x \in MailerRecords : x = mailer[m]
  BY MailerFacts
<1>2. MailerInOrder(x) /\ NoticeTold(x) /\ x.at = "settle" /\ x.kind \in Notices /\ x.rows = NoRows
  BY <1>1, MailerFacts DEF SettleNotice, MailerInOrder
<1>3. mailer' = [mailer EXCEPT ![m] = IdleMailer]
  BY DEF SettleNotice
<1>4. PICK ends : ends = NoticeEnds(m)
  OBVIOUS
<1>5. /\ ends \in {"succeeded", "queued", "dead_letter"}
      /\ ends = "succeeded" => x.result # "failed"
      /\ notice' = [notice EXCEPT ![x.kind].status = ends]
  BY <1>1, <1>4 DEF NoticeEnds, SettleNotice
<1>6. UNCHANGED <<partnerKnown, inbox, audit, inviteMail, scheduled, reports, excused, overlaps, mailFaults>>
  BY DEF SettleNotice
<1>7. MailTypes'
  <2>1. mailer' \in [Mailers -> MailerRecords]
    BY <1>3, IdleFacts DEF MailInv, MailTypes
  <2>2. notice' \in [Notices -> [status : {"absent", "queued", "running", "succeeded", "dead_letter"},
                                 attempt : Nat]]
    BY <1>2, <1>5 DEF MailInv, MailTypes, MailTypeOK
  <2> QED
    BY <1>6, <2>1, <2>2 DEF MailInv, MailTypes, MailTypeOK, MailerRecords
<1>8. NoticesTold'
  <2> SUFFICES ASSUME NEW k \in Notices, notice'[k].status = "succeeded", partnerKnown
               PROVE  audit[k].sent > 0
    BY <1>6 DEF NoticesTold
  <2>1. CASE k = x.kind
    <3>1. notice'[k].status = ends
      BY <1>2, <1>5, <2>1 DEF MailInv, MailTypes, MailTypeOK
    <3>2. audit[k].sent > 0 \/ OwesRow(x, k)
      BY <1>2, <1>5, <2>1, <3>1 DEF NoticeTold
    <3>3. ~OwesRow(x, k)
      BY <1>2, IdleFacts, KindsApart DEF OwesRow
    <3> QED
      BY <3>2, <3>3
  <2>2. CASE k # x.kind
    <3>1. notice'[k] = notice[k]
      BY <1>5, <2>2 DEF MailInv, MailTypes, MailTypeOK
    <3> QED
      BY <3>1 DEF MailInv, NoticesTold
  <2> QED
    BY <2>1, <2>2
<1>9. NoticeTold(IdleMailer)'
  BY IdleFacts DEF NoticeTold
<1>10. ASSUME NEW k \in MailKinds
       PROVE  /\ audit'[k].sent >= audit[k].sent
              /\ inbox'[k] + audit[k].sent + excused[k] + One(OwesRow(x, k))
                   = inbox[k] + audit'[k].sent + excused'[k] + One(OwesRow(IdleMailer, k))
              /\ audit'[k].sent + One(HoldsCopy(IdleMailer, k)') + Overlapping(k)
                   <= audit[k].sent + One(HoldsCopy(x, k)) + Overlapping(k)'
  <2>1. /\ inbox[k] \in Nat /\ excused[k] \in Nat /\ audit[k].sent \in Nat /\ Overlapping(k) \in Nat
        /\ inbox' = inbox /\ excused' = excused /\ audit' = audit /\ Overlapping(k)' = Overlapping(k)
    BY <1>6, KindFacts DEF MailInv, Overlapping
  <2>2. ~OwesRow(x, k) /\ ~OwesRow(IdleMailer, k)
    BY <1>2, IdleFacts DEF OwesRow
  <2>3. ~HoldsCopy(IdleMailer, k)'
    BY IdleFacts DEF HoldsCopy, OwesRow, MaySend, CandidateMail
  <2>4. /\ One(OwesRow(x, k)) = 0 /\ One(OwesRow(IdleMailer, k)) = 0
        /\ One(HoldsCopy(IdleMailer, k)') = 0 /\ One(HoldsCopy(x, k)) \in 0..1
    BY <2>2, <2>3 DEF One
  <2> QED
    BY <2>1, <2>4
<1>11. ~scheduled' => /\ IdleMailer.kind \notin Confirmations
                      /\ \A k \in Confirmations : audit'[k].sent = audit[k].sent
  BY <1>6, IdleFacts, KindsApart
<1>12. PICK new \in MailerRecords : new = IdleMailer
  BY IdleFacts
<1> QED
  BY <1>1, <1>3, <1>6, <1>7, <1>8, <1>9, <1>10, <1>11, <1>12, IdleFacts, MailerMoves

LEMMA MailerDiesKeeps == ASSUME MailInv, NEW m \in Mailers, MailerDies(m) PROVE MailInv'
<1>1. PICK x \in MailerRecords : x = mailer[m]
  BY MailerFacts
<1>2. MailerInOrder(x)
  BY <1>1, MailerFacts
<1>3. PICK new \in MailerRecords : new = IdleMailer
  BY IdleFacts
<1>4. mailer' = [mailer EXCEPT ![m] = new]
  BY <1>3 DEF MailerDies
<1>5. UNCHANGED <<partnerKnown, inbox, audit, inviteMail, scheduled, reports, notice, overlaps>>
  BY DEF MailerDies
<1>6. ASSUME NEW k \in MailKinds PROVE Unknown(m, k) = One(OwesRow(x, k)) /\ Unknown(m, k) \in 0..1
  <2>1. Unknown(m, k) = x.rows[k].sent + IF x.at = "record" /\ x.kind = k /\ x.result = "sent" THEN 1 ELSE 0
    BY <1>1 DEF Unknown
  <2>2. x.rows[k].sent \in 0..1 /\ (x.at = "record" /\ x.kind = k => x.rows[k].sent = 0)
    BY <1>2 DEF MailerInOrder
  <2> QED
    BY <2>1, <2>2 DEF OwesRow, One
<1>7. \A k \in MailKinds : excused'[k] = excused[k] + One(OwesRow(x, k))
  BY <1>6 DEF MailerDies
<1>8. excused' \in [MailKinds -> Nat]
  <2>1. excused' = [k \in MailKinds |-> excused[k] + Unknown(m, k)]
    BY DEF MailerDies
  <2>2. \A k \in MailKinds : excused[k] \in Nat /\ Unknown(m, k) \in Nat
    BY <1>6, KindFacts DEF MailInv
  <2> QED
    BY <2>1, <2>2
<1>9. mailFaults' \in 0..MailFaults
  BY NotificationsAssumption DEF MailerDies, FaultHappens, MailInv, MailTypes, MailTypeOK
<1>10. MailTypes'
  <2>1. mailer' \in [Mailers -> MailerRecords]
    BY <1>4 DEF MailInv, MailTypes
  <2> QED
    BY <1>5, <1>8, <1>9, <2>1 DEF MailInv, MailTypes, MailTypeOK, MailerRecords
<1>11. NoticesTold' /\ NoticeTold(new)'
  BY <1>3, <1>5, IdleFacts DEF MailInv, NoticesTold, NoticeTold
<1>12. ASSUME NEW k \in MailKinds
       PROVE  /\ audit'[k].sent >= audit[k].sent
              /\ inbox'[k] + audit[k].sent + excused[k] + One(OwesRow(x, k))
                   = inbox[k] + audit'[k].sent + excused'[k] + One(OwesRow(new, k))
              /\ audit'[k].sent + One(HoldsCopy(new, k)') + Overlapping(k)
                   <= audit[k].sent + One(HoldsCopy(x, k)) + Overlapping(k)'
  <2>1. /\ inbox[k] \in Nat /\ excused[k] \in Nat /\ audit[k].sent \in Nat /\ Overlapping(k) \in Nat
        /\ inbox' = inbox /\ audit' = audit /\ Overlapping(k)' = Overlapping(k)
    BY <1>5, KindFacts DEF MailInv, Overlapping
  <2>2. ~OwesRow(new, k)
    BY <1>3, IdleFacts
  <2>3. ~HoldsCopy(new, k)'
    BY <1>3, IdleFacts DEF HoldsCopy, OwesRow, MaySend, CandidateMail
  <2>4. /\ One(OwesRow(x, k)) \in 0..1 /\ One(OwesRow(new, k)) = 0
        /\ One(HoldsCopy(new, k)') = 0 /\ One(HoldsCopy(x, k)) \in 0..1
    BY <2>2, <2>3, OneIsNat DEF One
  <2>5. excused'[k] = excused[k] + One(OwesRow(x, k))
    BY <1>7
  <2> QED
    BY <2>1, <2>4, <2>5
<1>13. ~scheduled' => /\ new.kind \notin Confirmations
                      /\ \A k \in Confirmations : audit'[k].sent = audit[k].sent
  BY <1>3, <1>5, IdleFacts, KindsApart
<1>14. MailerInOrder(new)
  BY <1>3, IdleFacts
<1> QED
  BY <1>1, <1>4, <1>5, <1>10, <1>11, <1>12, <1>13, <1>14, MailerMoves

-----------------------------------------------------------------------------
(* Notifications: what asks for mails. *)

(* A mailer that begins, on a kind of which nobody holds a copy, or of     *)
(* which the overlap is counted; partner's mail follows the candidate's.   *)
LEMMA MailerBegins ==
  ASSUME MailInv, NEW m \in Mailers, NEW at \in {"look", "send"}, NEW kind \in MailKinds,
         NEW tried \in Nat, Starts(m, at, kind, tried),
         at = "look" => kind # "trial_invite", at = "send" => kind = "trial_invite",
         UNCHANGED <<partnerKnown, inbox, audit, excused, mailFaults>>,
         reports' \in 0..LastReport, scheduled' \in BOOLEAN, scheduled => scheduled',
         kind \in Confirmations => scheduled',
         inviteMail' \in [status : {"none", "sent", "failed", "rate_limited"},
                          asked : 0..LastInvite, recent : BOOLEAN],
         notice' \in [Notices -> [status : {"absent", "queued", "running", "succeeded", "dead_letter"},
                                  attempt : Nat]],
         overlaps' \in [Notices -> Nat],
         \A k \in Notices : notice'[k].status = "succeeded" => notice[k].status = "succeeded",
         \A k \in MailKinds \ {"trial_invite"} :
           \/ (k # kind /\ ~(k = PartnerMail /\ kind = CandidateMail)) /\ Overlapping(k)' = Overlapping(k)
           \/ Overlapping(k)' = Overlapping(k) + 1
           \/ Holding(k) = {} /\ (at = "look" => audit[k].sent = 0 \/ (k \in Notices /\ k = kind))
              /\ Overlapping(k)' = Overlapping(k)
  PROVE  MailInv'
<1>1. /\ mailer[m].at = "idle" /\ mailer[m] = IdleMailer
      /\ mailer' = [mailer EXCEPT ![m] = [IdleMailer EXCEPT !.at = at, !.kind = kind, !.attempt = tried]]
  BY MailerFacts DEF Starts, MailerInOrder
<1>2. PICK x \in MailerRecords : x = IdleMailer
  BY IdleFacts
<1>3. PICK new \in MailerRecords : new = [IdleMailer EXCEPT !.at = at, !.kind = kind, !.attempt = tried]
  BY <1>2 DEF MailerRecords
<1>4. mailer' = [mailer EXCEPT ![m] = new]
  BY <1>1, <1>3
<1>5. /\ new.at = at /\ new.kind = kind /\ new.result = "none" /\ new.rows = NoRows /\ new.tries = 0
  BY <1>2, <1>3, IdleFacts DEF MailerRecords
<1>6. MailerInOrder(new)
  BY <1>5, IdleFacts, NotificationsAssumption DEF MailerInOrder
<1>7. MailTypes'
  <2>1. mailer' \in [Mailers -> MailerRecords]
    BY <1>4 DEF MailInv, MailTypes
  <2>2. UNCHANGED <<partnerKnown, inbox, audit, excused, mailFaults>>
    OBVIOUS
  <2> QED
    BY <2>1, <2>2 DEF MailInv, MailTypes, MailTypeOK, MailerRecords
<1>8. NoticeTold(new)' /\ NoticesTold'
  BY <1>5 DEF NoticeTold, NoticesTold, MailInv
<1>9. ASSUME NEW k \in MailKinds
      PROVE  /\ One(OwesRow(x, k)) = 0 /\ One(OwesRow(new, k)) = 0 /\ One(HoldsCopy(x, k)) = 0
             /\ One(HoldsCopy(new, k)') \in 0..1
             /\ audit[k].sent \in Nat /\ inbox[k] \in Nat /\ excused[k] \in Nat
             /\ Overlapping(k) \in Nat
             /\ HoldsCopy(new, k)' => k = kind \/ (k = PartnerMail /\ kind = CandidateMail)
             /\ HoldsCopy(new, k)' /\ k = kind /\ at = "look" => audit[k].sent = 0
  <2>1. ~OwesRow(x, k) /\ ~HoldsCopy(x, k)
    BY <1>2, IdleFacts
  <2>2. ~OwesRow(new, k)
    BY <1>5, IdleFacts DEF OwesRow
  <2>3. /\ HoldsCopy(new, k)' => k = kind \/ (k = PartnerMail /\ kind = CandidateMail)
        /\ HoldsCopy(new, k)' /\ k = kind /\ at = "look" => audit[k].sent = 0
    BY <1>5, <2>2, KindsApart DEF HoldsCopy, MaySend, OwesRow
  <2>4. audit[k].sent \in Nat /\ inbox[k] \in Nat /\ excused[k] \in Nat /\ Overlapping(k) \in Nat
    BY KindFacts DEF MailInv
  <2> QED
    BY <2>1, <2>2, <2>3, <2>4, OneIsNat DEF One
<1>10. \A k \in MailKinds :
         /\ audit'[k].sent >= audit[k].sent
         /\ inbox'[k] + audit[k].sent + excused[k] + One(OwesRow(x, k))
              = inbox[k] + audit'[k].sent + excused'[k] + One(OwesRow(new, k))
  BY <1>9
<1>11. ASSUME NEW k \in MailKinds \ {"trial_invite"}
       PROVE  \/ audit'[k].sent + One(HoldsCopy(new, k)') + Overlapping(k)
                   <= audit[k].sent + One(HoldsCopy(x, k)) + Overlapping(k)'
              \/ /\ Holding(k) = {}
                 /\ audit'[k].sent + One(HoldsCopy(new, k)') <= 1 + Overlapping(k)'
  <2>1. CASE (k # kind /\ ~(k = PartnerMail /\ kind = CandidateMail)) /\ Overlapping(k)' = Overlapping(k)
    <3>1. ~HoldsCopy(new, k)'
      BY <1>9, <2>1
    <3>2. One(HoldsCopy(new, k)') = 0
      BY <3>1 DEF One
    <3> QED
      BY <1>9, <2>1, <3>2
  <2>2. CASE Overlapping(k)' = Overlapping(k) + 1
    BY <1>9, <2>2
  <2>3. CASE Holding(k) = {} /\ (at = "look" => audit[k].sent = 0 \/ (k \in Notices /\ k = kind))
             /\ Overlapping(k)' = Overlapping(k)
    <3>1. at = "look" \/ k # kind
      OBVIOUS
    <3>2. audit[k].sent + Cardinality(Holding(k)) <= 1 + Overlapping(k)
      BY DEF MailInv, MailCopies
    <3>3. Cardinality(Holding(k)) = 0
      BY <2>3, FS_EmptySet
    <3>4. CASE audit[k].sent = 0
      BY <1>9, <2>3, <3>4
    <3>5. CASE audit[k].sent # 0
      <4>1. ~HoldsCopy(new, k)'
        BY <1>9, <2>3, <3>1, <3>5, KindsApart
      <4>2. One(HoldsCopy(new, k)') = 0
        BY <4>1 DEF One
      <4> QED
        BY <1>9, <2>3, <3>2, <3>3, <4>2
    <3> QED
      BY <3>4, <3>5
  <2> QED
    BY <2>1, <2>2, <2>3
<1>12. ~scheduled' => /\ new.kind \notin Confirmations
                      /\ \A k \in Confirmations : audit'[k].sent = audit[k].sent
  BY <1>5
<1>13. x = mailer[m]
  BY <1>1, <1>2
<1> QED
  BY <1>4, <1>6, <1>7, <1>8, <1>10, <1>11, <1>12, <1>13, MailerMoves

LEMMA ClaimNoticeKeeps ==
  ASSUME MailInv, NEW m \in Mailers, NEW k \in Notices, ClaimNotice(m, k)
  PROVE  MailInv'
<1>1. k \in MailKinds /\ k # "trial_invite" /\ k \notin Confirmations
  BY KindsApart
<1>2. UNCHANGED <<partnerKnown, inbox, audit, inviteMail, scheduled, reports, excused, mailFaults>>
  BY DEF ClaimNotice
<1>3. /\ notice \in [Notices -> [status : {"absent", "queued", "running", "succeeded", "dead_letter"},
                                 attempt : Nat]]
      /\ overlaps \in [Notices -> Nat] /\ reports \in 0..LastReport /\ scheduled \in BOOLEAN
      /\ inviteMail \in [status : {"none", "sent", "failed", "rate_limited"},
                         asked : 0..LastInvite, recent : BOOLEAN]
  BY DEF MailInv, MailTypes, MailTypeOK
<1>4. PICK tried \in Nat : tried = notice[k].attempt + 1
  BY <1>3
<1>5. Starts(m, "look", k, tried)
  BY <1>4 DEF ClaimNotice
<1>6. notice' = [notice EXCEPT ![k] = [status |-> "running", attempt |-> tried]]
  BY <1>3, <1>4 DEF ClaimNotice
<1>7. /\ notice' \in [Notices -> [status : {"absent", "queued", "running", "succeeded", "dead_letter"},
                                  attempt : Nat]]
      /\ \A j \in Notices : notice'[j].status = "succeeded" => notice[j].status = "succeeded"
  BY <1>3, <1>6
<1>8. ASSUME NEW j \in MailKinds \ {"trial_invite"}
      PROVE  \/ (j # k /\ ~(j = PartnerMail /\ k = CandidateMail)) /\ Overlapping(j)' = Overlapping(j)
             \/ Overlapping(j)' = Overlapping(j) + 1
             \/ Holding(j) = {} /\ (audit[j].sent = 0 \/ (j \in Notices /\ j = k))
                /\ Overlapping(j)' = Overlapping(j)
  <2>1. CASE j # k
    <3>1. overlaps' = [overlaps EXCEPT ![k] = @ + 1] \/ overlaps' = overlaps
      BY DEF ClaimNotice
    <3>2. Overlapping(j)' = Overlapping(j)
      BY <1>3, <2>1, <3>1 DEF Overlapping
    <3> QED
      BY <1>1, <2>1, <3>2, KindsApart
  <2>2. CASE j = k /\ AtWork(k)
    <3>1. overlaps' = [overlaps EXCEPT ![k] = @ + 1]
      BY <2>2 DEF ClaimNotice
    <3> QED
      BY <1>3, <2>2, <3>1 DEF Overlapping
  <2>3. CASE j = k /\ ~AtWork(k)
    <3>1. overlaps' = overlaps
      BY <2>3 DEF ClaimNotice
    <3>2. ASSUME NEW o \in Mailers, HoldsCopy(mailer[o], k) PROVE FALSE
      <4>1. mailer[o].at = "idle" \/ mailer[o].kind # k
        BY <2>3 DEF AtWork
      <4>2. PICK y \in MailerRecords : y = mailer[o] /\ MailerInOrder(y)
        BY MailerFacts
      <4>3. HoldsCopy(y, k)
        BY <3>2, <4>2
      <4> QED
        BY <1>1, <4>1, <4>2, <4>3, HoldersWork
    <3> QED
      BY <2>3, <3>1, <3>2 DEF Holding, Overlapping
  <2> QED
    BY <2>1, <2>2, <2>3
<1>9. overlaps' \in [Notices -> Nat]
  <2>1. overlaps' = [overlaps EXCEPT ![k] = @ + 1] \/ overlaps' = overlaps
    BY DEF ClaimNotice
  <2> QED
    BY <1>3, <2>1
<1> QED
  BY <1>1, <1>2, <1>3, <1>5, <1>7, <1>8, <1>9, MailerBegins

LEMMA ConfirmScheduleKeeps ==
  ASSUME MailInv, NEW m \in Mailers, ConfirmSchedule(m)
  PROVE  MailInv'
<1>1. /\ ~scheduled /\ scheduled' = TRUE
      /\ Starts(m, "look", CandidateMail, 0)
      /\ UNCHANGED <<partnerKnown, inbox, audit, inviteMail, reports, notice, excused, overlaps, mailFaults>>
  BY DEF ConfirmSchedule, CandidateMail
<1>2. /\ \A k \in Confirmations : audit[k].sent = 0
      /\ \A o \in Mailers : mailer[o].kind \notin Confirmations
  BY <1>1 DEF MailInv, NothingConfirmed
<1>3. ASSUME NEW k \in Confirmations PROVE Holding(k) = {}
  <2> SUFFICES ASSUME NEW o \in Mailers, HoldsCopy(mailer[o], k) PROVE FALSE
    BY DEF Holding
  <2>1. PICK y \in MailerRecords : y = mailer[o] /\ MailerInOrder(y)
    BY MailerFacts
  <2>2. HoldsCopy(y, k) /\ y.kind \notin Confirmations /\ k \in MailKinds
    BY <1>2, <2>1, KindsApart
  <2> QED
    BY <2>1, <2>2, HoldersWork
<1>4. ASSUME NEW k \in MailKinds \ {"trial_invite"}
      PROVE  \/ (k # CandidateMail /\ ~(k = PartnerMail /\ CandidateMail = CandidateMail))
                   /\ Overlapping(k)' = Overlapping(k)
             \/ Holding(k) = {} /\ audit[k].sent = 0 /\ Overlapping(k)' = Overlapping(k)
  <2>1. Overlapping(k)' = Overlapping(k)
    BY <1>1 DEF Overlapping
  <2> QED
    BY <1>2, <1>3, <2>1, KindsApart
<1>5. /\ notice \in [Notices -> [status : {"absent", "queued", "running", "succeeded", "dead_letter"},
                                 attempt : Nat]]
      /\ overlaps \in [Notices -> Nat] /\ reports \in 0..LastReport
      /\ inviteMail \in [status : {"none", "sent", "failed", "rate_limited"},
                         asked : 0..LastInvite, recent : BOOLEAN]
  BY DEF MailInv, MailTypes, MailTypeOK
<1>6. CandidateMail \in MailKinds /\ CandidateMail # "trial_invite"
  BY KindsApart
<1> QED
  BY <1>1, <1>4, <1>5, <1>6, MailerBegins

(* Steps that leave every mailer and every mail alone. *)
LEMMA MailersStay ==
  ASSUME MailInv, UNCHANGED <<partnerKnown, inbox, scheduled, mailer, excused, overlaps, mailFaults>>,
         audit' \in [MailKinds -> [sent : Nat, other : Nat]],
         \A k \in MailKinds : audit'[k].sent = audit[k].sent,
         inviteMail' \in [status : {"none", "sent", "failed", "rate_limited"},
                          asked : 0..LastInvite, recent : BOOLEAN],
         reports' \in 0..LastReport,
         notice' \in [Notices -> [status : {"absent", "queued", "running", "succeeded", "dead_letter"},
                                  attempt : Nat]],
         \A k \in Notices : notice'[k].status = "succeeded" => notice[k].status = "succeeded"
  PROVE  MailInv'
<1>1. MailTypes'
  BY DEF MailInv, MailTypes, MailTypeOK
<1>2. ASSUME NEW k \in MailKinds
      PROVE  Owing(k)' = Owing(k) /\ Holding(k)' = Holding(k) /\ Overlapping(k)' = Overlapping(k)
  BY DEF Owing, Holding, Overlapping, HoldsCopy, OwesRow, MaySend
<1>3. MailLedger' /\ MailCopies'
  BY <1>2 DEF MailInv, MailLedger, MailCopies
<1>4. NoticesTold' /\ NothingConfirmed'
  BY KindsApart DEF MailInv, NoticesTold, NothingConfirmed
<1>5. ASSUME NEW m \in Mailers PROVE MailerInOrder(mailer[m])' /\ NoticeTold(mailer[m])'
  BY MailerFacts, KindsApart DEF NoticeTold, OwesRow, MailerInOrder
<1> QED
  BY <1>1, <1>3, <1>4, <1>5 DEF MailInv

LEMMA AskForInviteKeeps == ASSUME MailInv, NEW m \in Mailers, AskForInvite(m) PROVE MailInv'
<1>1. /\ notice \in [Notices -> [status : {"absent", "queued", "running", "succeeded", "dead_letter"},
                                 attempt : Nat]]
      /\ overlaps \in [Notices -> Nat] /\ reports \in 0..LastReport /\ scheduled \in BOOLEAN
      /\ audit \in [MailKinds -> [sent : Nat, other : Nat]]
      /\ inviteMail \in [status : {"none", "sent", "failed", "rate_limited"},
                         asked : 0..LastInvite, recent : BOOLEAN]
  BY DEF MailInv, MailTypes, MailTypeOK
<1>2. /\ inviteMail.asked < LastInvite
      /\ UNCHANGED <<partnerKnown, inbox, scheduled, reports, notice, excused, overlaps, mailFaults>>
  BY DEF AskForInvite
<1>3. inviteMail.asked + 1 \in 0..LastInvite
  BY <1>1, <1>2, NotificationsAssumption
<1>4. CASE inviteMail.recent
  <2>1. /\ inviteMail' = [status |-> "rate_limited", asked |-> inviteMail.asked + 1, recent |-> TRUE]
        /\ audit' = [audit EXCEPT !["trial_invite"].other = @ + 1] /\ mailer' = mailer
    BY <1>4 DEF AskForInvite, RateLimit
  <2>2. /\ audit' \in [MailKinds -> [sent : Nat, other : Nat]]
        /\ \A k \in MailKinds : audit'[k].sent = audit[k].sent
    BY <1>1, <2>1, KindsApart
  <2>3. inviteMail' \in [status : {"none", "sent", "failed", "rate_limited"},
                         asked : 0..LastInvite, recent : BOOLEAN]
    BY <1>3, <2>1
  <2> QED
    BY <1>1, <1>2, <2>1, <2>2, <2>3, MailersStay
<1>5. CASE ~inviteMail.recent
  <2>1. /\ inviteMail' = [inviteMail EXCEPT !.asked = @ + 1]
        /\ Starts(m, "send", "trial_invite", 0) /\ audit' = audit
    BY <1>5 DEF AskForInvite
  <2>2. inviteMail' \in [status : {"none", "sent", "failed", "rate_limited"},
                         asked : 0..LastInvite, recent : BOOLEAN]
    BY <1>1, <1>3, <2>1
  <2>3. \A k \in MailKinds \ {"trial_invite"} :
          (k # "trial_invite" /\ ~(k = PartnerMail /\ "trial_invite" = CandidateMail))
             /\ Overlapping(k)' = Overlapping(k)
    BY <1>2, KindsApart DEF Overlapping
  <2> QED
    BY <1>1, <1>2, <2>1, <2>2, <2>3, KindsApart, MailerBegins
<1> QED
  BY <1>4, <1>5

LEMMA EnqueueKeeps ==
  ASSUME MailInv, LimitPasses \/ CompleteSession \/ ReportBecomesReady
  PROVE  MailInv'
<1>1. /\ notice \in [Notices -> [status : {"absent", "queued", "running", "succeeded", "dead_letter"},
                                 attempt : Nat]]
      /\ audit \in [MailKinds -> [sent : Nat, other : Nat]] /\ reports \in 0..LastReport
      /\ inviteMail \in [status : {"none", "sent", "failed", "rate_limited"},
                         asked : 0..LastInvite, recent : BOOLEAN]
  BY DEF MailInv, MailTypes, MailTypeOK
<1>2. ASSUME NEW k \in Notices, EnqueueNotice(k)
      PROVE  /\ notice' \in [Notices -> [status : {"absent", "queued", "running", "succeeded", "dead_letter"},
                                         attempt : Nat]]
             /\ \A j \in Notices : notice'[j].status = "succeeded" => notice[j].status = "succeeded"
  BY <1>1, <1>2 DEF EnqueueNotice
<1>3. CASE LimitPasses
  <2>1. inviteMail' \in [status : {"none", "sent", "failed", "rate_limited"},
                         asked : 0..LastInvite, recent : BOOLEAN]
    BY <1>1, <1>3 DEF LimitPasses
  <2> QED
    BY <1>1, <1>3, <2>1, MailersStay DEF LimitPasses
<1>4. CASE CompleteSession
  <2>1. EnqueueNotice("candidate_completed") /\ "candidate_completed" \in Notices
    BY <1>4 DEF CompleteSession, Notices
  <2>2. UNCHANGED <<partnerKnown, inbox, audit, inviteMail, scheduled, reports, mailer, excused,
                    overlaps, mailFaults>>
    BY <1>4 DEF CompleteSession
  <2> QED
    BY <1>1, <1>2, <2>1, <2>2, MailersStay
<1>5. CASE ReportBecomesReady
  <2>1. EnqueueNotice("winoe_report_ready") /\ "winoe_report_ready" \in Notices
    BY <1>5 DEF ReportBecomesReady, Notices
  <2>2. /\ UNCHANGED <<partnerKnown, inbox, audit, inviteMail, scheduled, mailer, excused,
                       overlaps, mailFaults>>
        /\ reports' \in 0..LastReport
    BY <1>1, <1>5, NotificationsAssumption DEF ReportBecomesReady
  <2> QED
    BY <1>1, <1>2, <2>1, <2>2, MailersStay
<1> QED
  BY <1>3, <1>4, <1>5

LEMMA MailStepKeeps == ASSUME MailInv, [MailNext]_mailVars PROVE MailInv'
<1>1. CASE UNCHANGED mailVars
  <2>1. UNCHANGED <<partnerKnown, inbox, audit, inviteMail, scheduled, reports, notice, mailer,
                    excused, overlaps, mailFaults>>
    BY <1>1 DEF mailVars
  <2> QED
    BY <2>1, MailersStay DEF MailInv, MailTypes, MailTypeOK
<1>2. CASE MailNext
  <2>1. ASSUME NEW m \in Mailers, MailerStep(m) PROVE MailInv'
    BY <2>1, LookKeeps, SendEmailKeeps, RecordDeliveryKeeps, CommitKeeps, SettleNoticeKeeps DEF MailerStep
  <2> QED
    BY <1>2, <2>1, AskForInviteKeeps, ConfirmScheduleKeeps, MailerDiesKeeps, ClaimNoticeKeeps, EnqueueKeeps
       DEF MailNext
<1> QED
  BY <1>1, <1>2

(* The inductive invariant of the mails holds from the start               *)
(* (app/notifications and the notification handlers).                      *)
THEOREM MailInvariance == MailSpec => []MailInv
<1>1. MailInit => MailInv
  BY MailInitInv
<1>2. MailInv /\ [MailNext]_mailVars => MailInv'
  BY MailStepKeeps
<1> QED
  BY <1>1, <1>2, PTL DEF MailSpec

LEMMA MailInvBounds == ASSUME MailInv PROVE MailTypeOK
BY DEF MailInv, MailTypes

LEMMA MailInvIsTrue == ASSUME MailInv PROVE SentMeansTold /\ SecondCopiesExcused
<1>1. ASSUME NEW k \in MailKinds
      PROVE  /\ audit[k].sent \in Nat /\ inbox[k] \in Nat /\ excused[k] \in Nat
             /\ Overlapping(k) \in Nat /\ Cardinality(Owing(k)) \in Nat
             /\ inbox[k] = audit[k].sent + excused[k] + Cardinality(Owing(k))
  BY KindFacts, FiniteHolders, FS_CardinalityType DEF MailInv, MailLedger
<1>2. ASSUME NEW k \in MailKinds \ {"trial_invite"}
      PROVE  inbox[k] <= 1 + excused[k] + Overlapping(k)
  <2>1. Owing(k) \subseteq Holding(k)
    BY DEF Owing, Holding, HoldsCopy
  <2>2. Cardinality(Owing(k)) <= Cardinality(Holding(k)) /\ Cardinality(Holding(k)) \in Nat
    BY <2>1, FiniteHolders, FS_Subset, FS_CardinalityType
  <2>3. audit[k].sent + Cardinality(Holding(k)) <= 1 + Overlapping(k)
    BY DEF MailInv, MailCopies
  <2> QED
    BY <1>1, <2>2, <2>3
<1>3. SentMeansTold
  <2>1. ASSUME NEW k \in Notices, notice[k].status = "succeeded", partnerKnown
        PROVE  inbox[k] > 0 /\ audit[k].sent > 0
    <3>1. audit[k].sent > 0 /\ k \in MailKinds
      BY <2>1, KindsApart DEF MailInv, NoticesTold
    <3> QED
      BY <1>1, <3>1
  <2>2. \A k \in MailKinds : audit[k].sent <= inbox[k]
    BY <1>1
  <2> QED
    BY <2>1, <2>2 DEF SentMeansTold
<1>4. SecondCopiesExcused
  <2>1. ASSUME NEW k \in Notices PROVE inbox[k] <= 1 + excused[k] + overlaps[k]
    BY <1>2, KindsApart DEF Overlapping
  <2>2. ASSUME NEW k \in Confirmations PROVE inbox[k] <= 1 + excused[k]
    <3>1. k \in MailKinds \ {"trial_invite"} /\ Overlapping(k) = 0
      BY KindsApart DEF Overlapping
    <3> QED
      BY <1>1, <1>2, <3>1
  <2> QED
    BY <2>1, <2>2 DEF SecondCopiesExcused
<1> QED
  BY <1>3, <1>4

-----------------------------------------------------------------------------
(* DemoSeed: the inductive invariant. *)

(* Rows that use of the dataset of seed n leaves. *)
UseRows(n) == {<<k, c, n>> : k \in ByUse \ {"edit"}, c \in DemoCandidates}
                \cup {<<"edit", "demo", n>>}

(* What is committed is no dataset, or one whole one with its repositories *)
(* and rows by use of that one; the guest's row aside.                     *)
OneDataset(n) ==
  /\ Whole(n) \subseteq rows /\ DemoCandidates \subseteq repos
  /\ \A r \in rows : r \in Whole(n) \cup UseRows(n) \cup {GuestRow}
Committed == rows \subseteq {GuestRow} \/ \E n \in 1..LastSeed : OneDataset(n)

Clearing == {"reports", "sessions", "trials", "commit"}
Filling == {"company", "session", "repository", "submissions", "report", "finish"}

(* While a dataset is cleared, nothing that stays needs what is deleted,   *)
(* and only rows by use have come since the ids were selected.             *)
ClearedInOrder ==
  seeder.at \in Clearing =>
    /\ seeder.added = {} /\ seeder.removed \subseteq rows /\ seeder.selected \subseteq rows
    /\ \A r \in rows : r \in seeder.selected \/ r = GuestRow \/ r[1] \in ByUse
    /\ \A r \in rows \ seeder.removed, p \in seeder.removed : ~Needs(r, p)
    /\ seeder.at \in {"trials", "commit"} =>
         \A r \in seeder.selected : r[1] \in OfSession \cup {"job"} => r \in seeder.removed
    /\ seeder.at = "commit" => \A r \in seeder.selected : r[1] \in OfTrial => r \in seeder.removed

(* What the seed has written of the candidate at hand. *)
RowsWritten(at) ==
  CASE at = "repository" -> {"session"}
    [] at = "submissions" -> {"session", "group", "workspace"}
    [] at = "report" -> {"session", "group", "workspace", "recording", "transcript",
                         "submission", "audit"}
    [] OTHER -> {}
Done(c) == SessionRows(c, seeder.seed) \subseteq seeder.added /\ c \in repos
Left(c) == \E i \in 1..Len(seeder.left) : seeder.left[i] = c

(* While a dataset is written, no other is committed, and each candidate's *)
(* rows are written or are still to come.                                  *)
FilledInOrder ==
  seeder.at \in Filling =>
    /\ rows \subseteq {GuestRow} /\ seeder.left \in Seq(DemoCandidates)
    /\ seeder.added \subseteq Whole(seeder.seed)
    /\ seeder.at # "company" =>
         /\ SeededRows(seeder.seed) \subseteq seeder.added
         /\ \A c \in DemoCandidates : Done(c) \/ Left(c)
    /\ seeder.at \in {"repository", "submissions", "report"} => seeder.left # <<>>
    /\ \A k \in RowsWritten(seeder.at) : <<k, Head(seeder.left), seeder.seed>> \in seeder.added
    /\ seeder.at \in {"submissions", "report"} => Head(seeder.left) \in repos
    /\ seeder.at = "finish" => seeder.left = <<>>

SeedRecords ==
  /\ DOMAIN seeder = {"at", "seed", "selected", "removed", "added", "left"}
  /\ seeder.at \in {"idle", "select"} \cup Clearing \cup Filling
  /\ seeder.seed \in 0..LastSeed /\ (seeder.at # "idle" => seeder.seed \in 1..LastSeed)
  /\ seeder.at = "select" => seeder.removed = {} /\ seeder.added = {}
  /\ seeder.at \in {"select"} \cup Clearing => seeder.left = <<>>
  /\ repos \subseteq DemoCandidates /\ refused \in 0..LastSeed /\ demoFaults \in 0..DemoFaults

DemoInv == SeedRecords /\ Committed /\ ClearedInOrder /\ FilledInOrder

-----------------------------------------------------------------------------
(* DemoSeed: rows, the beginning and the end of a seed, and its use. *)

LEMMA RowsOfSeed ==
  ASSUME NEW n \in Nat
  PROVE  /\ \A r \in Whole(n) : r[1] \in OfTrial \cup OfSession /\ r[2] # "guest" /\ r[3] = n
         /\ \A r \in UseRows(n) : r[1] \in ByUse /\ r[2] # "guest" /\ r[3] = n
         /\ \A k \in OfTrial : <<k, "demo", n>> \in Whole(n)
         /\ \A k \in OfSession, c \in DemoCandidates : <<k, c, n>> \in Whole(n)
         /\ \A r \in Whole(n) : r[1] = "session" => \E c \in DemoCandidates : r = <<"session", c, n>>
         /\ GuestRow[1] = "session" /\ GuestRow[2] = "guest" /\ GuestRow[3] = 0
<1>1. ASSUME NEW r \in Whole(n)
      PROVE  \/ \E k \in OfTrial : r = <<k, "demo", n>>
             \/ \E k \in OfSession, c \in DemoCandidates : r = <<k, c, n>>
  BY DEF Whole, SeededRows, SessionRows
<1>2. \A c \in DemoCandidates : c # "guest"
  BY DemoAssumption
<1>3. \A r \in Whole(n) : r[1] \in OfTrial \cup OfSession /\ r[2] # "guest" /\ r[3] = n
  BY <1>1, <1>2
<1>4. \A r \in UseRows(n) : r[1] \in ByUse /\ r[2] # "guest" /\ r[3] = n
  BY <1>2 DEF UseRows, ByUse
<1>5. \A k \in OfTrial : <<k, "demo", n>> \in Whole(n)
  BY DEF Whole, SeededRows
<1>6. \A k \in OfSession, c \in DemoCandidates : <<k, c, n>> \in Whole(n)
  BY DEF Whole, SessionRows
<1>7. ASSUME NEW r \in Whole(n), r[1] = "session"
      PROVE  \E c \in DemoCandidates : r = <<"session", c, n>>
  <2>1. \A k \in OfTrial : k # "session"
    BY DEF OfTrial
  <2> QED
    BY <1>1, <1>7, <2>1
<1>8. GuestRow[1] = "session" /\ GuestRow[2] = "guest" /\ GuestRow[3] = 0
  BY DEF GuestRow
<1> QED
  BY <1>3, <1>4, <1>5, <1>6, <1>7, <1>8

LEMMA DemoInitInv == ASSUME DemoInit PROVE DemoInv
<1>1. /\ seeder = [at |-> "idle", seed |-> 0, selected |-> {}, removed |-> {}, added |-> {}, left |-> <<>>]
      /\ rows = {} /\ repos = {} /\ refused = 0 /\ demoFaults = 0
  BY DEF DemoInit, IdleSeeder
<1>2. seeder.at = "idle" /\ seeder.seed = 0
  BY <1>1
<1>3. SeedRecords
  BY <1>1, DemoAssumption DEF SeedRecords
<1> QED
  BY <1>1, <1>2, <1>3 DEF DemoInv, Committed, ClearedInOrder, FilledInOrder, Clearing, Filling

(* The seeder gives up, or is done: what is committed stays what it is.    *)
LEMMA IdleKeeps ==
  ASSUME DemoInv, seeder' = IdleSeeder(seeder.seed), Committed',
         repos' \subseteq DemoCandidates, refused' \in 0..LastSeed, demoFaults' \in 0..DemoFaults
  PROVE  DemoInv'
<1>1. seeder' = [at |-> "idle", seed |-> seeder.seed, selected |-> {}, removed |-> {}, added |-> {},
                 left |-> <<>>]
  BY DEF IdleSeeder
<1>2. /\ seeder'.at = "idle" /\ seeder'.seed \in 0..LastSeed
      /\ DOMAIN seeder' = {"at", "seed", "selected", "removed", "added", "left"}
  BY <1>1 DEF DemoInv, SeedRecords
<1>3. SeedRecords'
  BY <1>1, <1>2 DEF SeedRecords
<1> QED
  BY <1>2, <1>3 DEF DemoInv, ClearedInOrder, FilledInOrder, Clearing, Filling

LEMMA CommittedStays ==
  ASSUME Committed, rows' = rows, repos \subseteq repos' PROVE Committed'
BY DEF Committed, OneDataset

(* The use of a dataset needs it: rows by use are of the committed one.    *)
LEMMA UseDemoKeeps == ASSUME DemoInv, UseDemo PROVE DemoInv'
<1>1. PICK k \in ByUse, s \in rows :
        /\ s[1] = "session" /\ s[2] # "guest"
        /\ LET made == <<k, IF k = "edit" THEN "demo" ELSE s[2], s[3]>>
           IN  /\ \A p \in rows : Needs(made, p) => p \notin seeder.removed
               /\ rows' = rows \cup {made}
  BY DEF UseDemo
<1>2. UNCHANGED <<seeder, repos, refused, demoFaults>>
  BY DEF UseDemo
<1>3. s # GuestRow
  BY <1>1 DEF GuestRow
<1>4. PICK n \in 1..LastSeed : OneDataset(n)
  BY <1>3 DEF DemoInv, Committed
<1>5. n \in Nat
  OBVIOUS
<1>6. s \in Whole(n)
  <2>1. s \in Whole(n) \cup UseRows(n)
    BY <1>3, <1>4 DEF OneDataset
  <2>2. \A r \in UseRows(n) : r[1] # "session"
    BY <1>5, RowsOfSeed DEF ByUse
  <2> QED
    BY <1>1, <2>1, <2>2
<1>7. PICK c \in DemoCandidates : s = <<"session", c, n>>
  BY <1>1, <1>5, <1>6, RowsOfSeed
<1> DEFINE made == <<k, IF k = "edit" THEN "demo" ELSE s[2], s[3]>>
<1>8. made = <<k, IF k = "edit" THEN "demo" ELSE c, n>> /\ made[1] = k
  BY <1>7
<1>9. made \in UseRows(n)
  BY <1>8 DEF UseRows
<1>10. rows' = rows \cup {made} /\ \A p \in rows : Needs(made, p) => p \notin seeder.removed
  BY <1>1
<1> HIDE DEF made
<1>11. Committed'
  <2>1. OneDataset(n)'
    BY <1>2, <1>4, <1>9, <1>10 DEF OneDataset
  <2> QED
    BY <2>1 DEF Committed
<1>12. SeedRecords'
  BY <1>2 DEF DemoInv, SeedRecords
<1>13. ~(rows \subseteq {GuestRow})
  BY <1>3
<1>14. FilledInOrder'
  BY <1>2, <1>13 DEF DemoInv, FilledInOrder
<1>15. ClearedInOrder'
  <2>1. SUFFICES ASSUME seeder.at \in Clearing
                 PROVE  /\ seeder.removed \subseteq rows' /\ seeder.selected \subseteq rows'
                        /\ \A r \in rows' : r \in seeder.selected \/ r = GuestRow \/ r[1] \in ByUse
                        /\ \A r \in rows' \ seeder.removed, p \in seeder.removed : ~Needs(r, p)
    BY <1>2 DEF DemoInv, ClearedInOrder
  <2>2. ClearedInOrder
    BY DEF DemoInv
  <2>3. seeder.removed \subseteq rows /\ seeder.selected \subseteq rows
    BY <2>1, <2>2 DEF ClearedInOrder
  <2>4. \A r \in rows' : r \in seeder.selected \/ r = GuestRow \/ r[1] \in ByUse
    BY <1>8, <1>10, <2>1, <2>2 DEF ClearedInOrder
  <2>5. ASSUME NEW r \in rows' \ seeder.removed, NEW p \in seeder.removed PROVE ~Needs(r, p)
    <3>1. CASE r = made
      BY <1>10, <2>3, <3>1
    <3>2. CASE r # made
      BY <1>10, <2>1, <2>2, <3>2 DEF ClearedInOrder
    <3> QED
      BY <3>1, <3>2
  <2> QED
    BY <1>10, <2>3, <2>4, <2>5
<1> QED
  BY <1>11, <1>12, <1>14, <1>15 DEF DemoInv

LEMMA InviteGuestKeeps == ASSUME DemoInv, InviteGuest PROVE DemoInv'
<1>1. rows' = rows \cup {GuestRow} /\ GuestRow \notin rows
      /\ UNCHANGED <<seeder, repos, refused, demoFaults>>
  BY DEF InviteGuest
<1>2. Committed'
  BY <1>1 DEF DemoInv, Committed, OneDataset
<1>3. SeedRecords' /\ FilledInOrder'
  BY <1>1 DEF DemoInv, SeedRecords, FilledInOrder, Done, Left
<1>4. ClearedInOrder'
  <2>1. SUFFICES ASSUME seeder.at \in Clearing
                 PROVE  /\ seeder.removed \subseteq rows' /\ seeder.selected \subseteq rows'
                        /\ \A r \in rows' : r \in seeder.selected \/ r = GuestRow \/ r[1] \in ByUse
                        /\ \A r \in rows' \ seeder.removed, p \in seeder.removed : ~Needs(r, p)
    BY <1>1 DEF DemoInv, ClearedInOrder
  <2>2. /\ seeder.removed \subseteq rows /\ seeder.selected \subseteq rows
        /\ \A r \in rows : r \in seeder.selected \/ r = GuestRow \/ r[1] \in ByUse
        /\ \A r \in rows \ seeder.removed, p \in seeder.removed : ~Needs(r, p)
    BY <2>1 DEF DemoInv, ClearedInOrder
  <2>3. ASSUME NEW p \in seeder.removed PROVE ~Needs(GuestRow, p)
    <3>1. p \in rows /\ p # GuestRow
      BY <1>1, <2>2
    <3>2. PICK n \in 1..LastSeed : OneDataset(n)
      BY <3>1 DEF DemoInv, Committed
    <3>3. n \in Nat /\ n # 0 /\ p \in Whole(n) \cup UseRows(n)
      BY <3>1, <3>2 DEF OneDataset
    <3>4. p[3] = n
      BY <3>3, RowsOfSeed
    <3> QED
      BY <3>3, <3>4 DEF Needs, GuestRow
  <2> QED
    BY <1>1, <2>2, <2>3
<1> QED
  BY <1>2, <1>3, <1>4 DEF DemoInv

-----------------------------------------------------------------------------
(* DemoSeed: a seed begins and clears what an earlier one left. *)

LEMMA StartSeedKeeps == ASSUME DemoInv, StartSeed PROVE DemoInv'
<1>1. UNCHANGED <<rows, repos, refused, demoFaults>> /\ seeder.seed < LastSeed
  BY DEF StartSeed
<1>2. seeder' = [at |-> "select", seed |-> seeder.seed + 1, selected |-> {}, removed |-> {},
                 added |-> {}, left |-> <<>>]
  BY DEF StartSeed, IdleSeeder
<1>3. seeder.seed + 1 \in 1..LastSeed
  BY <1>1, DemoAssumption DEF DemoInv, SeedRecords
<1>4. /\ seeder'.at = "select" /\ seeder'.seed \in 1..LastSeed /\ seeder'.removed = {}
      /\ seeder'.added = {} /\ DOMAIN seeder' = {"at", "seed", "selected", "removed", "added", "left"}
      /\ seeder'.left = <<>>
  BY <1>2, <1>3
<1>5. SeedRecords'
  BY <1>1, <1>4 DEF DemoInv, SeedRecords
<1>6. Committed'
  BY <1>1, CommittedStays DEF DemoInv
<1> QED
  BY <1>4, <1>5, <1>6 DEF DemoInv, ClearedInOrder, FilledInOrder, Clearing, Filling

LEMMA ResetDatabaseKeeps == ASSUME DemoInv, ResetDatabase PROVE DemoInv'
<1>1. UNCHANGED <<seeder, repos, refused, demoFaults>> /\ rows' = {} /\ seeder.at = "select"
  BY DEF ResetDatabase
<1> QED
  BY <1>1 DEF DemoInv, SeedRecords, Committed, ClearedInOrder, FilledInOrder, Clearing, Filling

LEMMA SelectKeeps == ASSUME DemoInv, Select PROVE DemoInv'
<1>1. UNCHANGED <<rows, repos, refused, demoFaults>> /\ seeder.at = "select"
  BY DEF Select
<1>2. /\ seeder'.at = "reports" /\ seeder'.selected = {r \in rows : InScope(r)}
      /\ seeder'.seed = seeder.seed /\ seeder'.removed = seeder.removed
      /\ seeder'.added = seeder.added /\ DOMAIN seeder' = DOMAIN seeder
      /\ seeder'.left = seeder.left
  BY DEF Select, DemoInv, SeedRecords
<1>3. SeedRecords'
  BY <1>1, <1>2 DEF DemoInv, SeedRecords, Clearing
<1>4. Committed'
  BY <1>1, CommittedStays DEF DemoInv
<1>5. \A r \in rows : r \in seeder'.selected \/ r[1] \in ByUse
  BY <1>2 DEF InScope, ByUse
<1>6. seeder'.removed = {} /\ seeder'.added = {}
  BY <1>1, <1>2 DEF DemoInv, SeedRecords
<1> QED
  BY <1>1, <1>2, <1>3, <1>4, <1>5, <1>6 DEF DemoInv, ClearedInOrder, FilledInOrder, Clearing, Filling

LEMMA DeleteKeeps ==
  ASSUME DemoInv, NEW kinds, NEW next \in Clearing, seeder.at \in Clearing, Delete(kinds, next),
         next \in {"trials", "commit"} =>
           \/ seeder.at = "trials"
           \/ OfSession \cup {"job"} \subseteq kinds,
         next = "commit" => OfTrial \subseteq kinds
  PROVE  DemoInv'
<1> DEFINE gone == {r \in seeder.selected : r[1] \in kinds}
<1>1. CASE ~MayDelete(gone)
  <2>1. /\ seeder' = IdleSeeder(seeder.seed) /\ refused' = seeder.seed
        /\ UNCHANGED <<rows, repos, demoFaults>>
    BY <1>1 DEF Delete
  <2>2. Committed'
    BY <2>1, CommittedStays DEF DemoInv
  <2> QED
    BY <2>1, <2>2, IdleKeeps DEF DemoInv, SeedRecords
<1>2. CASE MayDelete(gone)
  <2>1. /\ seeder' = [seeder EXCEPT !.at = next, !.removed = @ \cup gone]
        /\ UNCHANGED <<rows, repos, refused, demoFaults>>
    BY <1>2 DEF Delete
  <2>2. /\ seeder'.at = next /\ seeder'.selected = seeder.selected
        /\ seeder'.seed = seeder.seed /\ seeder'.removed = seeder.removed \cup gone
        /\ seeder'.added = seeder.added /\ DOMAIN seeder' = DOMAIN seeder
        /\ seeder'.left = seeder.left
    BY <2>1 DEF DemoInv, SeedRecords
  <2>3. SeedRecords'
    BY <2>1, <2>2 DEF DemoInv, SeedRecords, Clearing, Filling
  <2>4. Committed'
    BY <2>1, CommittedStays DEF DemoInv
  <2>5. FilledInOrder'
    BY <2>2 DEF FilledInOrder, Clearing, Filling
  <2>6. ClearedInOrder
    BY DEF DemoInv
  <2>7. ClearedInOrder'
    <3>1. seeder.added = {} /\ Seen = rows \ seeder.removed
      BY <2>6 DEF ClearedInOrder, Seen
    <3>2. gone \subseteq rows /\ seeder'.selected \subseteq rows'
      BY <2>1, <2>2, <2>6 DEF ClearedInOrder
    <3>3. \A r \in rows \ seeder'.removed, p \in seeder'.removed : ~Needs(r, p)
      BY <1>2, <2>2, <2>6, <3>1 DEF ClearedInOrder, MayDelete
    <3>4. next \in {"trials", "commit"} =>
            \A r \in seeder.selected : r[1] \in OfSession \cup {"job"} => r \in seeder'.removed
      BY <2>2, <2>6 DEF ClearedInOrder
    <3>5. next = "commit" => \A r \in seeder.selected : r[1] \in OfTrial => r \in seeder'.removed
      BY <2>2
    <3>6. seeder'.added = {} /\ seeder'.removed \subseteq rows'
          /\ \A r \in rows' : r \in seeder'.selected \/ r = GuestRow \/ r[1] \in ByUse
      BY <2>1, <2>2, <2>6, <3>1, <3>2 DEF ClearedInOrder
    <3> QED
      BY <2>1, <2>2, <3>2, <3>3, <3>4, <3>5, <3>6 DEF ClearedInOrder
  <2> QED
    BY <2>3, <2>4, <2>5, <2>7 DEF DemoInv
<1> QED
  BY <1>1, <1>2

LEMMA DeletesKeep ==
  ASSUME DemoInv, DeleteReports \/ DeleteSessions \/ DeleteTrials PROVE DemoInv'
<1>1. CASE DeleteReports
  BY <1>1, DeleteKeeps DEF DeleteReports, Clearing
<1>2. CASE DeleteSessions
  BY <1>2, DeleteKeeps DEF DeleteSessions, Clearing
<1>3. CASE DeleteTrials
  BY <1>3, DeleteKeeps DEF DeleteTrials, Clearing
<1> QED
  BY <1>1, <1>2, <1>3

(* At the commit of the clearing nothing of a dataset is left.             *)
LEMMA ClearedAtCommit ==
  ASSUME DemoInv, seeder.at = "commit" PROVE rows \ seeder.removed \subseteq {GuestRow}
<1>1. /\ \A r \in rows : r \in seeder.selected \/ r = GuestRow \/ r[1] \in ByUse
      /\ \A r \in rows \ seeder.removed, p \in seeder.removed : ~Needs(r, p)
      /\ \A r \in seeder.selected :
           r[1] \in OfSession \cup {"job"} \cup OfTrial => r \in seeder.removed
  BY DEF DemoInv, ClearedInOrder, Clearing
<1>2. SUFFICES ASSUME NEW r \in rows, r # GuestRow, r \notin seeder.removed PROVE FALSE
  OBVIOUS
<1>3. PICK n \in 1..LastSeed : OneDataset(n)
  BY <1>2 DEF DemoInv, Committed
<1>4. n \in Nat /\ r \in Whole(n) \cup UseRows(n) /\ Whole(n) \subseteq rows
  BY <1>2, <1>3 DEF OneDataset
<1>5. GuestRow \notin Whole(n)
  BY <1>4, RowsOfSeed
<1>6. ASSUME NEW p \in Whole(n) PROVE p \in seeder.removed
  <2>1. p \in rows /\ p # GuestRow /\ p[1] \in OfTrial \cup OfSession
    BY <1>4, <1>5, RowsOfSeed
  <2>2. \A k \in OfTrial \cup OfSession : k \notin ByUse
    BY DEF OfTrial, OfSession, ByUse
  <2> QED
    BY <1>1, <2>1, <2>2
<1>7. r \in UseRows(n)
  BY <1>2, <1>4, <1>6
<1>8. CASE r = <<"edit", "demo", n>>
  <2> DEFINE p == <<"version", "demo", n>>
  <2>1. p \in Whole(n)
    BY <1>4, RowsOfSeed DEF OfTrial
  <2>2. p[1] = "version" /\ p[2] = "demo" /\ p[3] = n /\ r[1] = "edit" /\ r[3] = n
    BY <1>8
  <2>3. "version" \in Parents("edit")
    BY DEF Parents
  <2> HIDE DEF p
  <2>4. Needs(r, p)
    BY <2>2, <2>3 DEF Needs
  <2> QED
    BY <1>1, <1>2, <1>6, <2>1, <2>4
<1>9. ASSUME NEW k \in ByUse \ {"edit"}, NEW c \in DemoCandidates, r = <<k, c, n>> PROVE FALSE
  <2> DEFINE p == <<"session", c, n>>
  <2>1. p \in Whole(n)
    BY <1>4, RowsOfSeed DEF OfSession
  <2>2. p[1] = "session" /\ p[2] = c /\ p[3] = n /\ r[1] = k /\ r[2] = c /\ r[3] = n
    BY <1>9
  <2>3. k = "job" \/ "session" \in Parents(k)
    BY <1>9 DEF Parents, ByUse
  <2> HIDE DEF p
  <2>4. Needs(r, p)
    BY <2>2, <2>3 DEF Needs
  <2> QED
    BY <1>1, <1>2, <1>6, <2>1, <2>4
<1> QED
  BY <1>7, <1>8, <1>9 DEF UseRows

LEMMA CommitClearKeeps == ASSUME DemoInv, CommitClear PROVE DemoInv'
<1>1. /\ rows' = rows \ seeder.removed /\ seeder.at = "commit"
      /\ UNCHANGED <<repos, refused, demoFaults>>
  BY DEF CommitClear
<1>2. rows' \subseteq {GuestRow}
  BY <1>1, ClearedAtCommit
<1>3. /\ seeder'.at = "company" /\ seeder'.seed = seeder.seed /\ seeder'.added = seeder.added
      /\ seeder'.left = seeder.left /\ DOMAIN seeder' = DOMAIN seeder
  BY DEF CommitClear, DemoInv, SeedRecords
<1>4. seeder.left = <<>> /\ <<>> \in Seq(DemoCandidates) /\ seeder.added = {}
  BY <1>1 DEF DemoInv, SeedRecords, ClearedInOrder, Clearing
<1>5. SeedRecords'
  BY <1>1, <1>3, <1>4 DEF DemoInv, SeedRecords, Clearing, Filling
<1>6. FilledInOrder'
  BY <1>2, <1>3, <1>4 DEF FilledInOrder, RowsWritten
<1> QED
  BY <1>2, <1>3, <1>5, <1>6 DEF DemoInv, Committed, ClearedInOrder, Clearing

-----------------------------------------------------------------------------
(* DemoSeed: a seed writes its dataset. *)

LEMMA CandidatesInTurn ==
  /\ SetToSeq(DemoCandidates) \in Seq(DemoCandidates)
  /\ \A c \in DemoCandidates :
       \E i \in 1..Len(SetToSeq(DemoCandidates)) : SetToSeq(DemoCandidates)[i] = c
<1> DEFINE n == Cardinality(DemoCandidates)
           f == SetToSeq(DemoCandidates)
<1>1. n \in Nat /\ ExistsBijection(1..n, DemoCandidates) /\ IsFiniteSet(DemoCandidates)
  BY DemoAssumption, FS_CardinalityType
<1>2. \E g \in [1..n -> DemoCandidates] : IsInjective(g)
  BY <1>1 DEF ExistsBijection, Bijection, Injection
<1>3. f \in [1..n -> DemoCandidates] /\ IsInjective(f)
  BY <1>2 DEF SetToSeq
<1>4. f \in Injection(1..n, DemoCandidates)
  BY <1>3 DEF Injection
<1>5. Cardinality(1..n) = n
  BY <1>1, FS_Interval
<1>6. f \in Surjection(1..n, DemoCandidates)
  BY <1>1, <1>4, <1>5, FS_Injection
<1> HIDE DEF n, f
<1>7. f \in Seq(DemoCandidates) /\ Len(f) = n
  BY <1>1, <1>3
<1>8. \A c \in DemoCandidates : \E i \in 1..n : f[i] = c
  BY <1>6 DEF Surjection
<1> QED
  BY <1>7, <1>8 DEF f

(* A step of the writing, of which nothing is committed yet.               *)
LEMMA WritingKeeps ==
  ASSUME DemoInv, NEW next \in Filling, seeder.at \in Filling,
         seeder'.at = next, seeder'.seed = seeder.seed, DOMAIN seeder' = DOMAIN seeder,
         repos \subseteq repos', repos' \subseteq DemoCandidates,
         UNCHANGED <<rows, refused, demoFaults>>,
         FilledInOrder'
  PROVE  DemoInv'
<1>1. SeedRecords'
  BY DEF DemoInv, SeedRecords, Filling, Clearing
<1>2. Committed'
  BY CommittedStays DEF DemoInv
<1>3. ClearedInOrder'
  BY DEF ClearedInOrder, Clearing, Filling
<1> QED
  BY <1>1, <1>2, <1>3 DEF DemoInv

LEMMA AddTrialKeeps == ASSUME DemoInv, AddTrial PROVE DemoInv'
<1>1. UNCHANGED <<rows, repos, refused, demoFaults>> /\ seeder.at = "company"
  BY DEF AddTrial
<1>2. /\ seeder'.at = "session" /\ seeder'.added = SeededRows(seeder.seed)
      /\ seeder'.left = SetToSeq(DemoCandidates) /\ seeder'.seed = seeder.seed
      /\ DOMAIN seeder' = DOMAIN seeder
  BY DEF AddTrial, DemoInv, SeedRecords
<1>3. rows \subseteq {GuestRow}
  BY <1>1 DEF DemoInv, FilledInOrder, Filling
<1>4. SeededRows(seeder.seed) \subseteq Whole(seeder.seed)
  BY DEF Whole
<1>5. \A c \in DemoCandidates : Left(c)'
  BY <1>2, CandidatesInTurn DEF Left
<1>6. FilledInOrder'
  <2>1. RowsWritten(seeder'.at) = {}
    BY <1>2 DEF RowsWritten
  <2> QED
    BY <1>1, <1>2, <1>3, <1>4, <1>5, <2>1, CandidatesInTurn DEF FilledInOrder
<1>7. repos' \subseteq DemoCandidates
  BY <1>1 DEF DemoInv, SeedRecords
<1> QED
  BY <1>1, <1>2, <1>6, <1>7, WritingKeeps DEF Filling

(* A step that adds rows of the candidate at hand.                         *)
LEMMA AddsKeeps ==
  ASSUME DemoInv, NEW new \in SUBSET OfSession, NEW next \in {"repository", "submissions", "report"},
         seeder.at \in {"session", "repository", "submissions"}, seeder.left # <<>>,
         Adds({Row(k) : k \in new}, next),
         RowsWritten(next) \subseteq RowsWritten(seeder.at) \cup new,
         repos' = repos \/ repos' = repos \cup {Candidate},
         next = "submissions" => repos' = repos \cup {Candidate},
         next = "report" => seeder.at = "submissions",
         UNCHANGED <<rows, refused, demoFaults>>
  PROVE  DemoInv'
<1> DEFINE c == Head(seeder.left)
           n == seeder.seed
<1>1. /\ rows \subseteq {GuestRow} /\ seeder.left \in Seq(DemoCandidates)
      /\ seeder.added \subseteq Whole(n) /\ SeededRows(n) \subseteq seeder.added
      /\ \A d \in DemoCandidates : Done(d) \/ Left(d)
      /\ \A k \in RowsWritten(seeder.at) : <<k, c, n>> \in seeder.added
      /\ seeder.at = "submissions" => c \in repos
  BY DEF DemoInv, FilledInOrder, Filling
<1>2. c \in DemoCandidates
  BY <1>1
<1>3. n \in Nat
  BY DemoAssumption DEF DemoInv, SeedRecords
<1>4. {Row(k) : k \in new} = {<<k, c, n>> : k \in new}
  BY DEF Row, Candidate
<1>5. /\ seeder'.at = next /\ seeder'.added = seeder.added \cup {<<k, c, n>> : k \in new}
      /\ seeder'.left = seeder.left /\ seeder'.seed = seeder.seed /\ DOMAIN seeder' = DOMAIN seeder
  BY <1>4 DEF Adds, DemoInv, SeedRecords
<1>6. {<<k, c, n>> : k \in new} \subseteq Whole(n)
  BY <1>2, <1>3, RowsOfSeed
<1>7. repos \subseteq repos' /\ repos' \subseteq DemoCandidates
  BY <1>2 DEF Candidate, DemoInv, SeedRecords
<1>8. \A d \in DemoCandidates : (Done(d) \/ Left(d))'
  BY <1>1, <1>5, <1>7 DEF Done, Left
<1>9. \A k \in RowsWritten(next) : <<k, c, n>> \in seeder'.added
  BY <1>1, <1>5
<1>10. next \in {"submissions", "report"} => c \in repos'
  BY <1>1, <1>7 DEF Candidate
<1>11. FilledInOrder'
  BY <1>1, <1>5, <1>6, <1>8, <1>9, <1>10 DEF FilledInOrder
<1> QED
  BY <1>5, <1>7, <1>11, WritingKeeps DEF Filling

LEMMA AddSessionKeeps == ASSUME DemoInv, AddSession PROVE DemoInv'
<1>1. UNCHANGED <<rows, repos, refused, demoFaults>> /\ seeder.at = "session"
  BY DEF AddSession
<1>2. CASE seeder.left = <<>>
  <2>1. /\ seeder'.at = "finish" /\ seeder'.added = seeder.added /\ seeder'.left = seeder.left
        /\ seeder'.seed = seeder.seed /\ DOMAIN seeder' = DOMAIN seeder
    BY <1>2 DEF AddSession, SeederTo, DemoInv, SeedRecords
  <2>2. FilledInOrder
    BY DEF DemoInv
  <2>3. \A d \in DemoCandidates : (Done(d) \/ Left(d))'
    BY <1>1, <2>1, <2>2 DEF FilledInOrder, Filling, Done, Left
  <2>4. FilledInOrder'
    <3>1. RowsWritten(seeder'.at) = {}
      BY <2>1 DEF RowsWritten
    <3> QED
      BY <1>1, <1>2, <2>1, <2>2, <2>3, <3>1 DEF FilledInOrder, Filling
  <2>5. repos' \subseteq DemoCandidates
    BY <1>1 DEF DemoInv, SeedRecords
  <2> QED
    BY <1>1, <2>1, <2>4, <2>5, WritingKeeps DEF Filling
<1>3. CASE seeder.left # <<>>
  <2>1. {Row("session")} = {Row(k) : k \in {"session"}}
    OBVIOUS
  <2>2. Adds({Row(k) : k \in {"session"}}, "repository")
    BY <1>3, <2>1 DEF AddSession
  <2>3. RowsWritten("repository") = {"session"} /\ {"session"} \in SUBSET OfSession
    BY DEF RowsWritten, OfSession
  <2> QED
    BY <1>1, <1>3, <2>2, <2>3, AddsKeeps
<1> QED
  BY <1>2, <1>3

LEMMA AddRepositoryKeeps == ASSUME DemoInv, AddRepository PROVE DemoInv'
<1>1. /\ UNCHANGED <<rows, refused, demoFaults>> /\ seeder.at = "repository"
      /\ repos' = repos \cup {Candidate}
  BY DEF AddRepository
<1>2. seeder.left # <<>>
  BY <1>1 DEF DemoInv, FilledInOrder, Filling
<1>3. {Row("group"), Row("workspace")} = {Row(k) : k \in {"group", "workspace"}}
  OBVIOUS
<1>4. Adds({Row(k) : k \in {"group", "workspace"}}, "submissions")
  BY <1>3 DEF AddRepository
<1>5. /\ RowsWritten("submissions") \subseteq RowsWritten("repository") \cup {"group", "workspace"}
      /\ {"group", "workspace"} \in SUBSET OfSession
  BY DEF RowsWritten, OfSession
<1> QED
  BY <1>1, <1>2, <1>4, <1>5, AddsKeeps

LEMMA AddSubmissionsKeeps == ASSUME DemoInv, AddSubmissions PROVE DemoInv'
<1> DEFINE new == {"recording", "transcript", "submission", "audit"}
<1>1. UNCHANGED <<rows, repos, refused, demoFaults>> /\ seeder.at = "submissions"
  BY DEF AddSubmissions
<1>2. seeder.left # <<>>
  BY <1>1 DEF DemoInv, FilledInOrder, Filling
<1>3. RecordingRows \cup SubmissionRows \cup AuditRows = {Row(k) : k \in new}
  BY DEF RecordingRows, SubmissionRows, AuditRows
<1>4. Adds({Row(k) : k \in new}, "report")
  BY <1>3 DEF AddSubmissions
<1>5. /\ RowsWritten("report") \subseteq RowsWritten("submissions") \cup new /\ new \in SUBSET OfSession
  BY DEF RowsWritten, OfSession
<1> HIDE DEF new
<1> QED
  BY <1>1, <1>2, <1>4, <1>5, AddsKeeps

LEMMA AddReportKeeps == ASSUME DemoInv, AddReport PROVE DemoInv'
<1> DEFINE c == Head(seeder.left)
           n == seeder.seed
           new == {<<k, c, n>> : k \in {"run", "marker", "score", "review"}}
<1>1. UNCHANGED <<rows, repos, refused, demoFaults>> /\ seeder.at = "report"
  BY DEF AddReport, LeavesRunOpen
<1>2. /\ rows \subseteq {GuestRow} /\ seeder.left \in Seq(DemoCandidates) /\ seeder.left # <<>>
      /\ seeder.added \subseteq Whole(n) /\ SeededRows(n) \subseteq seeder.added
      /\ \A d \in DemoCandidates : Done(d) \/ Left(d)
      /\ \A k \in RowsWritten("report") : <<k, c, n>> \in seeder.added
      /\ c \in repos
  BY <1>1 DEF DemoInv, FilledInOrder, Filling
<1>3. c \in DemoCandidates /\ n \in Nat
  BY <1>2, DemoAssumption DEF DemoInv, SeedRecords
<1>4. ReportRows = new
  BY DEF ReportRows, ScoreRows, DemoReviewRows, Row, Candidate
<1>5. new \subseteq Whole(n)
  BY <1>3, RowsOfSeed DEF OfSession
<1>6. /\ seeder'.at = "session" /\ seeder'.added = seeder.added \cup new
      /\ seeder'.left = Tail(seeder.left) /\ seeder'.seed = n /\ DOMAIN seeder' = DOMAIN seeder
  BY <1>4 DEF AddReport, DemoInv, SeedRecords
<1>7. SessionRows(c, n) \subseteq seeder'.added
  <2>1. \A k \in OfSession : k \in RowsWritten("report") \/ k \in {"run", "marker", "score", "review"}
    BY DEF OfSession, RowsWritten
  <2> QED
    BY <1>2, <1>6, <2>1 DEF SessionRows
<1> HIDE DEF new
<1>8. ASSUME NEW d \in DemoCandidates PROVE Done(d)' \/ Left(d)'
  <2>1. CASE Done(d)
    BY <1>1, <1>6, <2>1 DEF Done
  <2>2. CASE d = c
    BY <1>1, <1>2, <1>6, <1>7, <2>2 DEF Done
  <2>3. CASE Left(d) /\ d # c
    <3>1. PICK i \in 1..Len(seeder.left) : seeder.left[i] = d
      BY <2>3 DEF Left
    <3>2. i # 1
      BY <1>2, <2>3, <3>1
    <3>3. i - 1 \in 1..Len(Tail(seeder.left)) /\ Tail(seeder.left)[i - 1] = d
      BY <1>2, <3>1, <3>2
    <3> QED
      BY <1>6, <3>3 DEF Left
  <2> QED
    BY <1>2, <2>1, <2>2, <2>3
<1>9. FilledInOrder'
  <2>1. RowsWritten(seeder'.at) = {}
    BY <1>6 DEF RowsWritten
  <2>2. Tail(seeder.left) \in Seq(DemoCandidates)
    BY <1>2
  <2> QED
    BY <1>1, <1>2, <1>5, <1>6, <1>8, <2>1, <2>2 DEF FilledInOrder
<1>10. repos' \subseteq DemoCandidates
  BY <1>1 DEF DemoInv, SeedRecords
<1> QED
  BY <1>1, <1>6, <1>9, <1>10, WritingKeeps DEF Filling

LEMMA CommitSeedKeeps == ASSUME DemoInv, CommitSeed PROVE DemoInv'
<1>1. PICK n \in 1..LastSeed : n = seeder.seed
  BY DEF CommitSeed, DemoInv, SeedRecords
<1>2. /\ rows' = rows \cup seeder.added /\ seeder' = IdleSeeder(n) /\ seeder.at = "finish"
      /\ UNCHANGED <<repos, refused, demoFaults>>
  BY <1>1 DEF CommitSeed
<1>3. /\ rows \subseteq {GuestRow} /\ seeder.added \subseteq Whole(n)
      /\ SeededRows(n) \subseteq seeder.added /\ seeder.left = <<>>
      /\ \A d \in DemoCandidates : Done(d) \/ Left(d)
  BY <1>2, <1>1 DEF DemoInv, FilledInOrder, Filling
<1>4. \A d \in DemoCandidates : Done(d)
  BY <1>3 DEF Left
<1>5. Whole(n) \subseteq seeder.added /\ DemoCandidates \subseteq repos
  BY <1>3, <1>4, <1>1 DEF Whole, Done
<1>6. OneDataset(n)'
  BY <1>2, <1>3, <1>5 DEF OneDataset
<1>7. Committed'
  BY <1>6 DEF Committed
<1> QED
  BY <1>2, <1>1, <1>7, IdleKeeps DEF DemoInv, SeedRecords

LEMMA SeedFailsKeeps == ASSUME DemoInv, SeedFails PROVE DemoInv'
<1>1. /\ seeder' = IdleSeeder(seeder.seed) /\ UNCHANGED <<rows, refused>>
      /\ demoFaults' = demoFaults + 1 /\ demoFaults < DemoFaults
      /\ repos' \in {repos, repos \cup (IF seeder.at = "repository" THEN {Candidate} ELSE {})}
  BY DEF SeedFails
<1>2. seeder.at = "repository" => Candidate \in DemoCandidates
  BY DEF DemoInv, FilledInOrder, Filling, Candidate
<1>3. repos \subseteq repos' /\ repos' \subseteq DemoCandidates
  BY <1>1, <1>2 DEF DemoInv, SeedRecords
<1>4. Committed'
  BY <1>1, <1>3, CommittedStays DEF DemoInv
<1>5. demoFaults' \in 0..DemoFaults
  BY <1>1, DemoAssumption DEF DemoInv, SeedRecords
<1> QED
  BY <1>1, <1>3, <1>4, <1>5, IdleKeeps DEF DemoInv, SeedRecords

LEMMA DemoStepKeeps == ASSUME DemoInv, [DemoNext]_demoVars PROVE DemoInv'
<1>1. CASE UNCHANGED demoVars
  BY <1>1 DEF demoVars, DemoInv, SeedRecords, Committed, OneDataset, ClearedInOrder,
     FilledInOrder, Done, Left
<1> QED
  BY <1>1, UseDemoKeeps, InviteGuestKeeps, StartSeedKeeps, ResetDatabaseKeeps, SelectKeeps,
     DeletesKeep, CommitClearKeeps, AddTrialKeeps, AddSessionKeeps, AddRepositoryKeeps,
     AddSubmissionsKeeps, AddReportKeeps, CommitSeedKeeps, SeedFailsKeeps DEF DemoNext

LEMMA DemoInvTypes == ASSUME DemoInv PROVE DemoTypeOK
<1>1. ASSUME NEW r \in rows
      PROVE  r[1] \in OfTrial \cup OfSession \cup ByUse /\ r[3] \in 0..LastSeed
  <2>1. "session" \in OfSession /\ 0 \in 0..LastSeed
    BY DemoAssumption DEF OfSession
  <2>2. CASE rows \subseteq {GuestRow}
    BY <2>1, <2>2 DEF GuestRow
  <2>3. CASE \E n \in 1..LastSeed : OneDataset(n)
    <3>1. PICK n \in 1..LastSeed : OneDataset(n)
      BY <2>3
    <3>2. n \in Nat /\ n \in 0..LastSeed
      BY DemoAssumption
    <3>3. r \in Whole(n) \/ r \in UseRows(n) \/ r = GuestRow
      BY <3>1 DEF OneDataset
    <3>4. r \in Whole(n) => r[1] \in OfTrial \cup OfSession /\ r[3] = n
      BY <3>2, RowsOfSeed
    <3>5. r \in UseRows(n) => r[1] \in ByUse /\ r[3] = n
      BY <3>2, RowsOfSeed
    <3> QED
      BY <2>1, <3>2, <3>3, <3>4, <3>5 DEF GuestRow
  <2> QED
    BY <2>2, <2>3 DEF DemoInv, Committed
<1> QED
  BY <1>1 DEF DemoInv, SeedRecords, DemoTypeOK, Clearing, Filling

(* However seeds, their failures and the use of the demo interleave,       *)
(* DemoInv holds of what is committed and of the transaction that is open. *)
THEOREM DemoInvariance == DemoSpec => []DemoInv
<1>1. DemoInv /\ [DemoNext]_demoVars => DemoInv'
  BY DemoStepKeeps
<1> QED
  BY <1>1, DemoInitInv, PTL DEF DemoSpec

LEMMA DemoInvIsWhole == ASSUME DemoInv PROVE DemoIsWholeOrGone /\ DemoTypeOK
<1>1. CASE rows \subseteq {GuestRow}
  <2>1. \A r \in rows : r[2] = "guest" /\ r[1] \in OfSession /\ r[3] = 0
    BY <1>1 DEF GuestRow, OfSession
  <2>2. DemoIsWholeOrGone
    BY <2>1 DEF DemoIsWholeOrGone
  <2>3. \A r \in rows : r[1] \in OfTrial \cup OfSession \cup ByUse /\ r[3] \in 0..LastSeed
    BY <2>1, DemoAssumption
  <2> QED
    BY <2>2, <2>3 DEF DemoTypeOK, DemoInv, SeedRecords, Clearing, Filling
<1>2. ASSUME NEW n \in 1..LastSeed, OneDataset(n) PROVE DemoIsWholeOrGone /\ DemoTypeOK
  <2>1. n \in Nat /\ n \in 0..LastSeed /\ 0 \in 0..LastSeed
    BY DemoAssumption
  <2>2. ASSUME NEW r \in rows
        PROVE  /\ r[3] = n \/ r[2] = "guest"
               /\ r[1] \in OfTrial \cup OfSession \cup ByUse /\ r[3] \in 0..LastSeed
    <3>1. r \in Whole(n) \cup UseRows(n) \cup {GuestRow}
      BY <1>2 DEF OneDataset
    <3>2. "session" \in OfSession
      BY DEF OfSession
    <3> QED
      BY <2>1, <3>1, <3>2, RowsOfSeed
  <2>3. DemoIsWholeOrGone
    BY <1>2, <2>2 DEF OneDataset, DemoIsWholeOrGone
  <2> QED
    BY <2>2, <2>3 DEF DemoTypeOK, DemoInv, SeedRecords, Clearing, Filling
<1> QED
  BY <1>1, <1>2 DEF DemoInv, Committed

-----------------------------------------------------------------------------
(* ReportScores: the inductive invariant. *)

(* A run that is over, of a session that was shown this page.              *)
ReviewersOf(run) == {r.reviewer : r \in run.reviews}
PageTrue(run) ==
  LET strayed == \/ \E r \in run.reviews : r.reviewer # ReviewerOf(r.day)
                 \/ \E x \in run.scores : x.day \notin run.policy.enabled
      page == ComposeReport(run).days IN
  /\ \A x, y \in page : x.day = y.day => x = y
  /\ {[day |-> r.day, score |-> r.score] : r \in run.reviews} =
       {[day |-> x.day, score |-> x.score] : x \in run.scores} \/ run.status = "failed"
  /\ run.status = "completed" /\ ~strayed =>
       page \subseteq run.raw /\ {x.day : x \in page} = Days
ReviewedAsNamed(run, named) ==
  ReviewersOf(run) \in {{ReviewerOf(d) : d \in named}, {ReviewerOf(d) : d \in named \ {4}}}
RunTrue(run, claim) ==
  /\ run.status \in {"completed", "failed"}
  /\ \A x \in run.scores : x.day \in Days /\ x.score \in 0..100
  /\ run.status = "completed" /\ run.policy.edition = claim.edition =>
       ReviewedAsNamed(run, claim.days)
  /\ PageTrue(run)

VersionRecords ==
  [locked : BOOLEAN, edition : 0..LastEdition, enabled : SUBSET Days,
   config : SUBSET ReviewConfigs]
ReportShape ==
  /\ trialToggles \subseteq Days /\ companyRubric \in 0..LastRubric
  /\ rubricRows \subseteq 0..LastRubric
  /\ version \in VersionRecords
  /\ reviewConfig \in ReviewConfigs
  /\ DOMAIN shown = ReportSessions /\ DOMAIN evaluated = ReportSessions
  /\ version.edition > 0 => rubricRows # {}
  /\ version.locked => version.edition > 0

(* What the version was like, now or before: an edition is locked once,    *)
(* and a locked one is not unlocked but by another edition.                *)
Past(v) ==
  /\ v.edition \in 1..version.edition
  /\ v.edition = version.edition /\ v.locked => version.locked

(* A claim page shows the days of its edition, what is evaluated was shown *)
(* before, and evaluations that read the same version have one rubric.     *)
PagesAreTrue ==
  \A s \in ReportSessions :
    shown[s] # NotShown =>
      /\ shown[s].edition \in 1..version.edition
      /\ shown[s].edition = version.edition => shown[s].days = version.enabled
RunsAreTrue ==
  \A s \in ReportSessions :
    evaluated[s] # NoEvaluation => shown[s] # NotShown /\ RunTrue(evaluated[s], shown[s])
Read(run, rules, rubric) ==
  run.status = "completed" /\ run.rules = rules => run.rubric = rubric
RulesArePast ==
  \A s \in ReportSessions :
    /\ evaluated[s].status = "completed" => Past(evaluated[s].rules)
    /\ Read(evaluated[s], version, EffectiveRubric(rubricRows))
OneRubricEach ==
  \A s, t \in ReportSessions :
    evaluated[s].status = "completed" => Read(evaluated[t], evaluated[s].rules, evaluated[s].rubric)

(* The evaluation under way has the rubrics of the version it read, and    *)
(* one answer for each of the days that it asked about.                    *)
Asking == {"review", "fallback"}
Aggregating == {"aggregate", "aggregate_fallback"}
AnswersInOrder(answers, days) ==
  /\ \A a \in answers : a.asked \in days /\ a.day \in Days /\ a.score \in 0..100
  /\ \A a, b \in answers : a.asked = b.asked => a = b
AttemptFields ==
  {"session", "work", "policy", "rules", "rows", "snapshot", "answers", "at"}
AttemptInOrder ==
  attempt # NoAttempt =>
    /\ attempt.session \in ReportSessions /\ attempt.work \in CandidateWork
    /\ shown[attempt.session] # NotShown /\ evaluated[attempt.session] = NoEvaluation
    /\ attempt.at \in {"rubrics"} \cup Asking \cup Aggregating \cup {"retry", "failed"}
    /\ DOMAIN attempt = AttemptFields
    /\ attempt.policy.enabled \subseteq Days
    /\ attempt.policy.edition = shown[attempt.session].edition =>
         attempt.policy.enabled = shown[attempt.session].days
    /\ AnswersInOrder(attempt.answers, ReviewedDays(attempt))
    /\ attempt.at \in Aggregating =>
         ReviewedDays(attempt) = {a.asked : a \in attempt.answers}
AttemptHasRubrics ==
  attempt # NoAttempt /\ attempt.at # "rubrics" =>
    /\ Past(attempt.rules) /\ attempt.rows \subseteq rubricRows
    /\ attempt.rules = version => attempt.rows = rubricRows
    /\ \A s \in ReportSessions :
         Read(evaluated[s], attempt.rules, EffectiveRubric(attempt.rows))

ReportInv ==
  /\ ReportShape /\ PagesAreTrue /\ RunsAreTrue /\ RulesArePast /\ OneRubricEach
  /\ AttemptInOrder /\ AttemptHasRubrics

-----------------------------------------------------------------------------
(* ReportScores: the built-in score. *)

LEMMA QuotientIsNat == ASSUME NEW a \in Nat, NEW b \in Nat \ {0} PROVE a \div b \in Nat
OBVIOUS

LEMMA LeastIsNat ==
  ASSUME NEW a \in Nat, NEW b \in Nat
  PROVE  Least(a, b) \in Nat /\ Least(a, b) <= a /\ Least(a, b) <= b
BY DEF Least

LEMMA ScoreInRange ==
  ASSUME NEW work \in CandidateWork, NEW d \in Days
  PROVE  ScoreForDay(work, d) \in 0..100
<1> DEFINE day == work[d]
           basis == EvidenceOf(work, d)
           kinds == {e.kind : e \in basis}
           pieces == IF d = 4 THEN Least(3, day.segments)
                     ELSE IF d \in {2, 3} THEN Cardinality(kinds)
                     ELSE Least(1, day.chars)
           total == day.passed + day.failed
           tested == IF "tests" \notin kinds THEN 0
                     ELSE 8 + (15 * day.passed) \div total
           text == Least(42, Least(280, day.chars) \div 7)
           code == (IF "commit" \in kinds THEN 20 ELSE 0) + (IF "diff" \in kinds THEN 12 ELSE 0) + tested
           spoken == Least(50, day.chars \div 12)
           more == CASE d \in {1, 5} -> text [] d \in {2, 3} -> code [] d = 4 -> spoken
<1>1. day \in DayRecords
  BY ReportAssumption
<1>2. /\ day.chars \in Nat /\ day.passed \in Nat /\ day.failed \in Nat /\ day.segments \in Nat
  BY <1>1 DEF DayRecords
<1>3. pieces \in Nat
  <2>1. CASE d \in {2, 3}
    <3>1. kinds \subseteq {"commit", "diff", "tests"}
      <4>1. basis = CodeEvidence(work[d])
        BY <2>1 DEF EvidenceOf
      <4>2. \A e \in CodeEvidence(work[d]) : e.kind \in {"commit", "diff", "tests"}
        BY DEF CodeEvidence
      <4> QED
        BY <4>1, <4>2
    <3>2. IsFiniteSet({"commit", "diff", "tests"})
      <4>1. IsFiniteSet({"commit"})
        BY FS_Singleton
      <4>2. IsFiniteSet({"commit"} \cup {"diff"})
        BY <4>1, FS_AddElement
      <4>3. IsFiniteSet(({"commit"} \cup {"diff"}) \cup {"tests"})
        BY <4>2, FS_AddElement
      <4>4. ({"commit"} \cup {"diff"}) \cup {"tests"} = {"commit", "diff", "tests"}
        OBVIOUS
      <4> QED
        BY <4>3, <4>4
    <3>3. IsFiniteSet(kinds)
      BY <3>1, <3>2, FS_Subset
    <3>4. Cardinality(kinds) \in Nat
      BY <3>3, FS_CardinalityType
    <3> QED
      BY <2>1, <3>4
  <2>2. CASE d \notin {2, 3}
    BY <1>2, <2>2, LeastIsNat
  <2> QED
    BY <2>1, <2>2
<1>4. more \in Nat
  <2>1. CASE d \in {1, 5}
    <3>1. Least(280, day.chars) \in Nat
      BY <1>2 DEF Least
    <3>2. Least(280, day.chars) \div 7 \in Nat
      BY <3>1
    <3>3. text \in Nat
      BY <3>2 DEF Least
    <3> QED
      BY <2>1, <3>3
  <2>2. CASE d \in {2, 3}
    <3>1. "tests" \in kinds => total > 0
      <4>1. ASSUME NEW e \in CodeEvidence(work[d]), e.kind = "tests" PROVE total > 0
        <5> DEFINE shows == [commit |-> CommitOf(day) # 0, diff |-> day.diff, tests |-> total > 0]
        <5>1. \A k \in {k \in DOMAIN shows : shows[k]} : shows[k]
          OBVIOUS
        <5>2. CodeEvidence(work[d]) =
                {[kind |-> k, ref |-> IF k = "commit" THEN CommitOf(day) ELSE day.commit] :
                   k \in {k \in DOMAIN shows : shows[k]}}
          BY DEF CodeEvidence
        <5>3. shows[e.kind]
          <6> HIDE DEF shows
          <6> QED
            BY <5>1, <5>2
        <5>4. shows["tests"] = (total > 0)
          OBVIOUS
        <5> QED
          BY <4>1, <5>3, <5>4
      <4>2. basis = CodeEvidence(work[d])
        BY <2>2 DEF EvidenceOf
      <4> QED
        BY <4>1, <4>2
    <3>2. tested \in Nat
      <4>1. CASE "tests" \in kinds
        <5>1. total \in Nat \ {0} /\ 15 * day.passed \in Nat
          BY <1>2, <3>1, <4>1
        <5>2. (15 * day.passed) \div total \in Nat
          BY <5>1, QuotientIsNat
        <5> QED
          BY <4>1, <5>2
      <4> QED
        BY <4>1
    <3> HIDE DEF tested
    <3>3. code \in Nat
      BY <3>2
    <3> QED
      BY <2>2, <3>3
  <2>3. CASE d = 4
    <3>1. day.chars \div 12 \in Nat
      BY <1>2, QuotientIsNat
    <3>2. spoken \in Nat
      BY <3>1, LeastIsNat
    <3> QED
      BY <2>3, <3>2
  <2> QED
    BY <2>1, <2>2, <2>3 DEF Days
<1>5. ScoreForDay(work, d) = Least(100, 8 + Least(40, 12 * pieces) + more)
  BY DEF ScoreForDay
<1> HIDE DEF more, pieces
<1>6. 8 + Least(40, 12 * pieces) + more \in Nat
  BY <1>3, <1>4, LeastIsNat
<1> QED
  BY <1>5, <1>6 DEF Least

-----------------------------------------------------------------------------
(* ReportScores: a completed run tells the truth.                          *)

LEMMA SameReviewer ==
  ASSUME NEW d \in Days, NEW e \in Days, ReviewerOf(d) = ReviewerOf(e)
  PROVE  d = e \/ (d \in {2, 3} /\ e \in {2, 3})
<1>1. /\ ReviewerOf(1) = "designDocReviewer" /\ ReviewerOf(2) = "codeImplementationReviewer"
      /\ ReviewerOf(3) = "codeImplementationReviewer"
      /\ ReviewerOf(4) = "demoPresentationReviewer" /\ ReviewerOf(5) = "reflectionEssayReviewer"
  BY DEF ReviewerOf
<1>2. d \in {1, 2, 3, 4, 5} /\ e \in {1, 2, 3, 4, 5}
  BY DEF Days
<1> QED
  BY <1>1, <1>2

LEMMA FailedRunIsTrue ==
  ASSUME NEW claim, NEW flushed
  PROVE  /\ RunTrue([NoEvaluation EXCEPT !.status = "failed"], claim)
         /\ RunTrue([NoEvaluation EXCEPT !.status = "failed", !.reviews = flushed], claim)
<1>1. ASSUME NEW run, run.status = "failed", run.scores = {}, run.raw = {}
      PROVE  RunTrue(run, claim)
  <2>1. ComposeReport(run).days = {}
    BY <1>1 DEF ComposeReport, ComposeDayScores
  <2>2. PageTrue(run)
    BY <1>1, <2>1 DEF PageTrue
  <2> QED
    BY <1>1, <2>2 DEF RunTrue
<1> QED
  BY <1>1 DEF NoEvaluation

(* What is written when no day was scored twice.                           *)
LEMMA CompletedRunIsTrue ==
  ASSUME ReportInv, attempt # NoAttempt, attempt.at \in Aggregating, NEW raw, NEW overall,
         ReviewerDayScores \subseteq raw,
         \A x \in raw : x.status = "human_review_required" => x.day \in Days /\ x = Placeholder(x.day)
  PROVE  RunTrue(CompletedRun(raw, overall), shown[attempt.session])
<1> DEFINE run == CompletedRun(raw, overall)
           answers == attempt.answers
           claim == shown[attempt.session]
           named == attempt.policy.enabled
           reviewed == ReviewedDays(attempt)
           page == ComposeReport(run).days
<1>1. /\ named \subseteq Days /\ AnswersInOrder(answers, reviewed)
      /\ reviewed = {a.asked : a \in answers}
      /\ attempt.policy.edition = claim.edition => named = claim.days
  BY DEF ReportInv, AttemptInOrder
<1>2. reviewed = named \/ reviewed = named \ {4}
  BY <1>1 DEF ReviewedDays, EnabledDays
<1>3. CASE TwiceReviewed
  <2>1. run = [NoEvaluation EXCEPT !.status = "failed"]
    BY <1>3 DEF CompletedRun
  <2>2. RunTrue([NoEvaluation EXCEPT !.status = "failed"], claim)
    BY FailedRunIsTrue
  <2> QED
    BY <2>1, <2>2
<1>4. CASE ~TwiceReviewed /\ TwiceScored
  <2>1. run = [NoEvaluation EXCEPT !.status = "failed", !.reviews = ReviewRows]
    BY <1>4 DEF CompletedRun
  <2>2. RunTrue([NoEvaluation EXCEPT !.status = "failed", !.reviews = ReviewRows], claim)
    BY FailedRunIsTrue
  <2> QED
    BY <2>1, <2>2
<1>5. CASE ~TwiceReviewed /\ ~TwiceScored
  <2>1. /\ run.status = "completed" /\ run.reviews = ReviewRows
        /\ run.scores = {ScoredDay(a.day, a.score) : a \in answers}
        /\ run.raw = raw /\ run.policy = attempt.policy
    BY <1>5 DEF CompletedRun
  <2> HIDE DEF run
  <2>2. /\ \A x \in run.scores : \E a \in answers :
               x.day = a.day /\ x.score = a.score /\ x.status = "scored"
        /\ \A a \in answers : \E x \in run.scores : x.day = a.day /\ x.score = a.score
    <3>1. \A a \in answers : /\ ScoredDay(a.day, a.score).day = a.day
                             /\ ScoredDay(a.day, a.score).score = a.score
                             /\ ScoredDay(a.day, a.score).status = "scored"
      BY DEF ScoredDay
    <3>2. \A a \in answers : ScoredDay(a.day, a.score) \in run.scores
      BY <2>1
    <3>3. \A x \in run.scores : \E a \in answers : x = ScoredDay(a.day, a.score)
      BY <2>1
    <3> QED
      BY <3>1, <3>2, <3>3
  <2>11. /\ \A r \in run.reviews : \E a \in answers :
               r.day = a.day /\ r.score = a.score /\ r.reviewer = ReviewerOf(a.asked)
         /\ \A a \in answers : \E r \in run.reviews :
               r.day = a.day /\ r.score = a.score /\ r.reviewer = ReviewerOf(a.asked)
    <3> DEFINE OneRow(a) == [reviewer |-> ReviewerOf(a.asked), day |-> a.day, score |-> a.score]
    <3>1. \A a \in answers : /\ OneRow(a).day = a.day /\ OneRow(a).score = a.score
                             /\ OneRow(a).reviewer = ReviewerOf(a.asked)
      OBVIOUS
    <3>2. run.reviews = {OneRow(a) : a \in answers}
      BY <2>1 DEF ReviewRows
    <3> HIDE DEF OneRow
    <3>3. /\ \A a \in answers : OneRow(a) \in run.reviews
          /\ \A r \in run.reviews : \E a \in answers : r = OneRow(a)
      BY <3>2
    <3> QED
      BY <3>1, <3>3
  <2>3. \A x, y \in run.scores : x.day = y.day => x = y
    BY <1>5, <2>1 DEF ScoredDay, TwiceScored
  <2>4. page = run.scores \cup {x \in raw : x.status = "human_review_required"
                                            /\ \A y \in run.scores : y.day # x.day}
    BY <2>1 DEF ComposeReport, ComposeDayScores
  <2>5. \A x \in run.scores : x.day \in Days /\ x.score \in 0..100
    BY <1>1, <2>2 DEF AnswersInOrder
  <2>6. ReviewersOf(run) = {ReviewerOf(d) : d \in reviewed}
    <3> DEFINE all == {ReviewerOf(d) : d \in reviewed}
    <3>1. \A d \in reviewed : \E a \in answers : a.asked = d
      BY <1>1
    <3>2. \A a \in answers : a.asked \in reviewed
      BY <1>1
    <3> HIDE DEF reviewed
    <3>3. \A r \in run.reviews : r.reviewer \in all
      BY <2>11, <3>2
    <3>4. \A d \in reviewed : \E r \in run.reviews : r.reviewer = ReviewerOf(d)
      BY <2>11, <3>1
    <3> QED
      BY <3>3, <3>4 DEF ReviewersOf
  <2>7. \A x, y \in page : x.day = y.day => x = y
    BY <2>3, <2>4
  <2>8. {[day |-> r.day, score |-> r.score] : r \in run.reviews} =
          {[day |-> x.day, score |-> x.score] : x \in run.scores}
    <3>1. \A r \in run.reviews : \E x \in run.scores : r.day = x.day /\ r.score = x.score
      BY <2>2, <2>11
    <3>2. \A x \in run.scores : \E r \in run.reviews : r.day = x.day /\ r.score = x.score
      BY <2>2, <2>11
    <3> QED
      BY <3>1, <3>2
  <2>9. ASSUME \A r \in run.reviews : r.reviewer = ReviewerOf(r.day),
               \A x \in run.scores : x.day \in named
        PROVE  page \subseteq run.raw /\ {x.day : x \in page} = Days
    <3>1. \A a \in answers : ReviewerOf(a.asked) = ReviewerOf(a.day) /\ a.day \in named
      BY <2>2, <2>9, <2>11
    <3>2. run.scores \subseteq raw
      BY <2>1 DEF ReviewerDayScores
    <3>3. \A x \in page : x.day \in Days
      BY <2>4, <2>5
    <3>4. ASSUME NEW d \in Days, d \notin reviewed PROVE \E x \in page : x.day = d
      <4>1. Placeholder(d) \in raw
        BY <3>4 DEF ReviewerDayScores
      <4>2. Placeholder(d).day = d /\ Placeholder(d).status = "human_review_required"
        BY DEF Placeholder
      <4> QED
        BY <2>4, <4>1, <4>2
    <3>5. ASSUME NEW d \in Days, d \in reviewed PROVE \E x \in page : x.day = d
      <4>1. \A a \in answers : \E x \in page : x.day = a.day
        BY <2>2, <2>4
      <4>2. PICK a \in answers : a.asked = d
        BY <1>1, <3>5
      <4>3. a.day = d \/ (d \in {2, 3} /\ a.day \in {2, 3})
        BY <1>1, <3>1, <4>2, SameReviewer DEF AnswersInOrder
      <4>4. CASE a.day = d
        BY <4>1, <4>4
      <4>5. CASE a.day # d
        <5>1. d \in {2, 3} /\ a.day \in {2, 3}
          BY <4>3, <4>5
        <5>2. a.day \in reviewed
          BY <1>2, <3>1, <5>1
        <5>3. PICK b \in answers : b.asked = a.day
          BY <1>1, <5>2
        <5>4. b.day \in {2, 3}
          <6>1. b.day = a.day \/ b.day \in {2, 3}
            BY <1>1, <3>1, <5>3, SameReviewer DEF AnswersInOrder
          <6> QED
            BY <5>1, <6>1
        <5>5. b.day # a.day
          BY <1>5, <4>2, <4>5, <5>3 DEF TwiceScored
        <5>6. b.day = d
          BY <4>5, <5>1, <5>4, <5>5
        <5> QED
          BY <4>1, <5>6
      <4> QED
        BY <4>4, <4>5
    <3> QED
      BY <2>1, <2>4, <3>2, <3>3, <3>4, <3>5
  <2>10. PageTrue(run)
    <3> DEFINE strayed == \/ \E r \in run.reviews : r.reviewer # ReviewerOf(r.day)
                          \/ \E x \in run.scores : x.day \notin named
    <3>1. ASSUME ~strayed PROVE page \subseteq run.raw /\ {x.day : x \in page} = Days
      <4>1. \A r \in run.reviews : r.reviewer = ReviewerOf(r.day)
        BY <3>1
      <4>2. \A x \in run.scores : x.day \in named
        BY <3>1
      <4> HIDE DEF page, named
      <4> QED
        BY <2>9, <4>1, <4>2
    <3>3. named = run.policy.enabled
      BY <2>1
    <3> HIDE DEF named
    <3>2. PageTrue(run) =
            (/\ \A x, y \in page : x.day = y.day => x = y
             /\ {[day |-> r.day, score |-> r.score] : r \in run.reviews} =
                  {[day |-> x.day, score |-> x.score] : x \in run.scores} \/ run.status = "failed"
             /\ run.status = "completed" /\ ~strayed =>
                  page \subseteq run.raw /\ {x.day : x \in page} = Days)
      BY <3>3 DEF PageTrue
    <3> QED
      BY <2>7, <2>8, <3>1, <3>2
  <2>14. attempt.policy.edition = claim.edition => named = claim.days
    BY <1>1
  <2> HIDE DEF reviewed, named, claim
  <2>12. attempt.policy.edition = claim.edition => ReviewedAsNamed(run, claim.days)
    BY <1>2, <2>6, <2>14 DEF ReviewedAsNamed
  <2>13. RunTrue(run, claim)
    BY <2>1, <2>5, <2>10, <2>12 DEF RunTrue
  <2> QED
    BY <2>13 DEF run, claim
<1> QED
  BY <1>3, <1>4, <1>5

-----------------------------------------------------------------------------
(* ReportScores: the steps.                                                *)

(* An edition that is written now, or locked now, was read by nobody.      *)
LEMMA RewrittenStep ==
  ASSUME ReportInv, NEW old \in VersionRecords, old = version, version' \in VersionRecords,
         \/ version'.edition = 0
         \/ version'.edition > old.edition
         \/ version'.edition = old.edition /\ version'.locked /\ ~old.locked
              /\ version'.enabled = old.enabled,
         version'.edition >= old.edition,
         version'.locked => version'.edition > 0,
         rubricRows' = Materialized(rubricRows),
         UNCHANGED <<trialToggles, companyRubric, reviewConfig, shown, evaluated, attempt>>
  PROVE  ReportInv'
<1> USE DEF ReportInv
<1>1. 0 \in rubricRows' /\ rubricRows' \subseteq 0..LastRubric /\ rubricRows \subseteq rubricRows'
  BY ReportAssumption DEF Materialized, ReportShape
<1>2. ReportShape'
  BY <1>1 DEF ReportShape
<1>3. old.edition \in Nat /\ version'.edition \in Nat
  BY ReportAssumption DEF VersionRecords
<1>4. ASSUME NEW v, Past(v) PROVE Past(v)' /\ v # version'
  BY <1>3, <1>4 DEF Past
<1>5. PagesAreTrue'
  BY <1>3 DEF PagesAreTrue
<1>6. RunsAreTrue' /\ OneRubricEach'
  BY DEF RunsAreTrue, OneRubricEach, Read
<1>7. RulesArePast'
  <2> SUFFICES ASSUME NEW s \in ReportSessions, evaluated[s].status = "completed"
               PROVE  Past(evaluated[s].rules)' /\ evaluated[s].rules # version'
    BY DEF RulesArePast, Read
  <2>1. Past(evaluated[s].rules)
    BY DEF RulesArePast
  <2>2. PICK v : v = evaluated[s].rules
    OBVIOUS
  <2>3. Past(v)' /\ v # version'
    BY <1>4, <2>1, <2>2
  <2> QED
    BY <2>2, <2>3 DEF Past
<1>8. AttemptInOrder'
  BY DEF AttemptInOrder, ReviewedDays, EnabledDays
<1>9. AttemptHasRubrics'
  <2> SUFFICES ASSUME attempt # NoAttempt, attempt.at # "rubrics"
               PROVE  /\ Past(attempt.rules)' /\ attempt.rows \subseteq rubricRows'
                      /\ attempt.rules # version'
                      /\ \A s \in ReportSessions :
                           Read(evaluated[s], attempt.rules, EffectiveRubric(attempt.rows))
    BY DEF AttemptHasRubrics, Read
  <2>1. /\ Past(attempt.rules) /\ attempt.rows \subseteq rubricRows
        /\ \A s \in ReportSessions :
             Read(evaluated[s], attempt.rules, EffectiveRubric(attempt.rows))
    BY DEF AttemptHasRubrics
  <2>2. PICK v : v = attempt.rules
    OBVIOUS
  <2>3. Past(v)' /\ v # version'
    BY <1>4, <2>1, <2>2
  <2> QED
    BY <1>1, <2>1, <2>2, <2>3 DEF Past
<1> QED
  BY <1>2, <1>5, <1>6, <1>7, <1>8, <1>9

LEMMA RulesStep ==
  ASSUME ReportInv,
         \/ \E days \in Toggles : UpdateTrial(days)
         \/ ReplaceCompanyRubric \/ GenerateVersion \/ LockVersion
  PROVE  ReportInv'
<1>1. ASSUME trialToggles' \subseteq Days, companyRubric' \in 0..LastRubric,
             UNCHANGED <<reviewConfig, version, rubricRows, shown, evaluated, attempt>>
      PROVE  ReportInv'
  BY <1>1 DEF ReportInv, ReportShape, PagesAreTrue, RunsAreTrue, RulesArePast, OneRubricEach,
              AttemptInOrder, AttemptHasRubrics, Past, Read, ReviewedDays, EnabledDays
<1>2. CASE \E days \in Toggles : UpdateTrial(days)
  <2>1. trialToggles' \subseteq Days
    BY <1>2, ReportAssumption DEF UpdateTrial
  <2> QED
    BY <1>1, <1>2, <2>1 DEF UpdateTrial, ReportInv, ReportShape
<1>3. CASE ReplaceCompanyRubric
  <2>1. companyRubric' \in 0..LastRubric
    BY <1>3, ReportAssumption DEF ReplaceCompanyRubric, ReportInv, ReportShape
  <2> QED
    BY <1>1, <1>3, <2>1 DEF ReplaceCompanyRubric, ReportInv, ReportShape
<1>4. PICK old \in VersionRecords : old = version
  BY DEF ReportInv, ReportShape
<1>5. old.edition \in 0..LastEdition /\ old.locked \in BOOLEAN
  BY <1>4 DEF VersionRecords
<1>6. CASE GenerateVersion
  <2> DEFINE next == [locked |-> FALSE, enabled |-> trialToggles, config |-> {reviewConfig},
                      edition |-> IF old.edition = 0 THEN 0 ELSE old.edition + 1]
  <2>1. version' = next /\ old.edition < LastEdition
    BY <1>4, <1>6 DEF GenerateVersion
  <2>2. next \in VersionRecords
    BY <1>5, <2>1, ReportAssumption DEF VersionRecords, ReportInv, ReportShape
  <2>3. /\ next.edition = 0 \/ next.edition > old.edition
        /\ next.edition >= old.edition /\ ~next.locked
    BY <1>5, ReportAssumption
  <2>4. /\ rubricRows' = Materialized(rubricRows)
        /\ UNCHANGED <<trialToggles, companyRubric, reviewConfig, shown, evaluated, attempt>>
    BY <1>6 DEF GenerateVersion
  <2> HIDE DEF next
  <2> QED
    BY <1>4, <2>1, <2>2, <2>3, <2>4, RewrittenStep
<1>7. CASE LockVersion
  <2> DEFINE next == [old EXCEPT !.locked = TRUE, !.edition = IF @ = 0 THEN 1 ELSE @]
  <2>1. version' = next /\ ~old.locked /\ LastEdition > 0
    BY <1>4, <1>7 DEF LockVersion
  <2>2. next \in VersionRecords
    <3>1. PICK e : e = IF old.edition = 0 THEN 1 ELSE old.edition
      OBVIOUS
    <3>2. e \in 0..LastEdition
      BY <1>5, <2>1, <3>1, ReportAssumption
    <3>3. next = [old EXCEPT !.locked = TRUE, !.edition = e]
      BY <3>1
    <3> QED
      BY <3>2, <3>3 DEF VersionRecords
  <2>3. /\ next.locked /\ next.enabled = old.enabled
        /\ next.edition = IF old.edition = 0 THEN 1 ELSE old.edition
    BY DEF VersionRecords
  <2>4. /\ next.edition > old.edition \/ next.edition = old.edition
        /\ next.edition >= old.edition /\ next.edition > 0
    BY <1>5, <2>3, ReportAssumption
  <2>5. /\ rubricRows' = Materialized(rubricRows)
        /\ UNCHANGED <<trialToggles, companyRubric, reviewConfig, shown, evaluated, attempt>>
    BY <1>7 DEF LockVersion
  <2> HIDE DEF next
  <2> QED
    BY <1>4, <2>1, <2>2, <2>3, <2>4, <2>5, RewrittenStep
<1> QED
  BY <1>2, <1>3, <1>6, <1>7

LEMMA ClaimStep ==
  ASSUME ReportInv, NEW s \in ReportSessions, RenderClaim(s)
  PROVE  ReportInv'
<1> USE DEF ReportInv
<1> DEFINE page == [edition |-> version.edition, days |-> version.enabled]
<1>1. /\ version.edition > 0 /\ shown[s] = NotShown
      /\ shown' = [shown EXCEPT ![s] = page]
      /\ UNCHANGED <<trialToggles, companyRubric, reviewConfig, version, rubricRows, evaluated, attempt>>
  BY DEF RenderClaim
<1>2. /\ page.edition = version.edition /\ page.days = version.enabled
      /\ version.edition \in 1..version.edition
  BY <1>1, ReportAssumption DEF ReportShape, VersionRecords
<1>3. page # NotShown
  <2>1. NotShown.edition = 0
    BY DEF NotShown
  <2> HIDE DEF page
  <2> QED
    BY <1>1, <1>2, <2>1
<1> HIDE DEF page
<1>4. /\ shown'[s] = page
      /\ \A t \in ReportSessions \ {s} : shown'[t] = shown[t]
      /\ DOMAIN shown' = ReportSessions
  BY <1>1 DEF ReportShape
<1>5. evaluated[s] = NoEvaluation
  BY <1>1 DEF RunsAreTrue
<1>6. ReportShape'
  BY <1>1, <1>4 DEF ReportShape
<1>7. PagesAreTrue'
  BY <1>1, <1>2, <1>3, <1>4 DEF PagesAreTrue
<1>8. RunsAreTrue'
  BY <1>1, <1>3, <1>4, <1>5 DEF RunsAreTrue
<1>9. RulesArePast' /\ OneRubricEach' /\ AttemptHasRubrics'
  BY <1>1 DEF RulesArePast, OneRubricEach, AttemptHasRubrics, Past, Read
<1>10. AttemptInOrder'
  BY <1>1, <1>3, <1>4 DEF AttemptInOrder, ReviewedDays, EnabledDays
<1> QED
  BY <1>6, <1>7, <1>8, <1>9, <1>10

(* Steps that change nothing but the evaluation under way.                 *)
LEMMA AttemptStep ==
  ASSUME ReportInv, AttemptInOrder', AttemptHasRubrics',
         UNCHANGED <<trialToggles, companyRubric, reviewConfig, version, rubricRows, shown,
                     evaluated>>
  PROVE  ReportInv'
BY DEF ReportInv, ReportShape, PagesAreTrue, RunsAreTrue, RulesArePast, Past, Read, OneRubricEach

LEMMA BeginStep ==
  ASSUME ReportInv, NEW s \in ReportSessions, BeginEvaluation(s)
  PROVE  ReportInv'
<1>1. /\ evaluated[s] = NoEvaluation /\ shown[s] # NotShown
      /\ UNCHANGED <<trialToggles, companyRubric, reviewConfig, version, rubricRows, shown,
                     evaluated>>
  BY DEF BeginEvaluation
<1>2. PICK work \in CandidateWork :
        attempt' = [NoAttempt EXCEPT !.session = s, !.work = work, !.policy = version,
                                     !.snapshot = SnapshotStatus(work), !.at = "rubrics"]
  BY DEF BeginEvaluation
<1>3. /\ attempt'.session = s /\ attempt'.work = work /\ attempt'.policy = version
      /\ attempt'.answers = {} /\ attempt'.at = "rubrics" /\ DOMAIN attempt' = AttemptFields
  BY <1>2 DEF NoAttempt, AttemptFields
<1>4. /\ version.enabled \subseteq Days
      /\ version.edition = shown[s].edition => version.enabled = shown[s].days
  BY <1>1 DEF ReportInv, ReportShape, VersionRecords, PagesAreTrue
<1>5. AttemptInOrder'
  BY <1>1, <1>3, <1>4 DEF AttemptInOrder, Asking, Aggregating, AnswersInOrder
<1>6. AttemptHasRubrics'
  BY <1>3 DEF AttemptHasRubrics
<1> QED
  BY <1>1, <1>5, <1>6, AttemptStep

LEMMA ReadRubricsStep ==
  ASSUME ReportInv, ReadRubrics
  PROVE  ReportInv'
<1>1. /\ attempt # NoAttempt /\ attempt.at = "rubrics"
      /\ UNCHANGED <<trialToggles, companyRubric, reviewConfig, version, rubricRows, shown,
                     evaluated>>
  BY DEF ReadRubrics, NoAttempt
<1>2. DOMAIN attempt = AttemptFields
  BY <1>1 DEF ReportInv, AttemptInOrder
<1>3. version.edition \in 1..version.edition
  <2>1. shown[attempt.session] # NotShown /\ attempt.session \in ReportSessions
    BY <1>1 DEF ReportInv, AttemptInOrder
  <2>2. shown[attempt.session].edition \in 1..version.edition /\ version.edition \in Nat
    BY <2>1, ReportAssumption DEF ReportInv, PagesAreTrue, ReportShape, VersionRecords
  <2> QED
    BY <2>2
<1>4. RubricSnapshots(rubricRows) = rubricRows
  BY <1>3 DEF ReportInv, ReportShape, RubricSnapshots
<1>5. attempt' = [attempt EXCEPT !.rows = rubricRows, !.rules = version, !.at = "review"]
  BY <1>4 DEF ReadRubrics
<1>6. /\ attempt'.session = attempt.session /\ attempt'.work = attempt.work
      /\ attempt'.policy = attempt.policy /\ attempt'.answers = attempt.answers
      /\ attempt'.rows = rubricRows /\ attempt'.rules = version /\ attempt'.at = "review"
      /\ DOMAIN attempt' = AttemptFields
  BY <1>2, <1>5 DEF AttemptFields
<1>7. AttemptInOrder'
  BY <1>1, <1>6 DEF ReportInv, AttemptInOrder, ReviewedDays, EnabledDays, Asking, Aggregating
<1>8. AttemptHasRubrics'
  BY <1>1, <1>3, <1>6 DEF ReportInv, AttemptHasRubrics, RulesArePast, Past
<1> QED
  BY <1>1, <1>7, <1>8, AttemptStep

LEMMA AnswerStep ==
  ASSUME ReportInv, attempt.at \in Asking, NEW d \in Days, NextDay(d),
         NEW word \in Days, NEW score \in 0..100, NEW basis,
         AnswerFor(d, word, score, basis),
         UNCHANGED <<trialToggles, companyRubric, reviewConfig, version, rubricRows, shown,
                     evaluated>>
  PROVE  ReportInv'
<1>1. attempt # NoAttempt
  BY DEF NoAttempt, Asking
<1>2. /\ DOMAIN attempt = AttemptFields
      /\ AnswersInOrder(attempt.answers, ReviewedDays(attempt))
  BY <1>1 DEF ReportInv, AttemptInOrder
<1> DEFINE one == [asked |-> d, day |-> word, score |-> score, evidence |-> basis]
<1>3. one.asked = d /\ one.day = word /\ one.score = score
  OBVIOUS
<1>4. attempt' = [attempt EXCEPT !.at = "review", !.answers = @ \cup {one}]
  BY DEF AnswerFor
<1> HIDE DEF one
<1>5. /\ attempt'.session = attempt.session /\ attempt'.work = attempt.work
      /\ attempt'.rows = attempt.rows /\ attempt'.policy = attempt.policy
      /\ attempt'.rules = attempt.rules /\ attempt'.at = "review"
      /\ attempt'.answers = attempt.answers \cup {one}
      /\ DOMAIN attempt' = DOMAIN attempt
  BY <1>2, <1>4 DEF AttemptFields
<1>6. d \in ReviewedDays(attempt) /\ \A a \in attempt.answers : a.asked # d
  BY DEF NextDay
<1>7. AnswersInOrder(attempt.answers \cup {one}, ReviewedDays(attempt))
  BY <1>2, <1>3, <1>6 DEF AnswersInOrder
<1>8. AttemptInOrder'
  BY <1>1, <1>5, <1>7 DEF ReportInv, AttemptInOrder, Asking, Aggregating, ReviewedDays, EnabledDays
<1>9. AttemptHasRubrics'
  BY <1>1, <1>5 DEF ReportInv, AttemptHasRubrics, Past, Asking
<1> QED
  BY <1>8, <1>9, AttemptStep

LEMMA ReviewStep ==
  ASSUME ReportInv, NEW d \in Days, DeterministicReview(d) \/ ReviewDay(d)
  PROVE  ReportInv'
<1>1. CASE DeterministicReview(d)
  <2>1. attempt.at \in Asking /\ attempt # NoAttempt /\ NextDay(d)
    BY <1>1 DEF DeterministicReview, Asking, NoAttempt
  <2>2. attempt.work \in CandidateWork
    BY <2>1 DEF ReportInv, AttemptInOrder
  <2>3. ScoreForDay(attempt.work, d) \in 0..100
    BY <2>2, ScoreInRange
  <2>4. /\ AnswerFor(d, d, ScoreForDay(attempt.work, d), EvidenceOf(attempt.work, d))
        /\ UNCHANGED <<trialToggles, companyRubric, reviewConfig, version, rubricRows, shown,
                       evaluated>>
    BY <1>1 DEF DeterministicReview
  <2> QED
    BY <2>1, <2>3, <2>4, AnswerStep
<1>2. CASE ReviewDay(d)
  <2>1. attempt.at \in Asking /\ NextDay(d)
    BY <1>2 DEF ReviewDay, Asking
  <2>2. PICK word \in AnswerDays(d), score \in ProviderScores :
          AnswerFor(d, word, score, EvidenceOf(attempt.work, d))
    BY <1>2 DEF ReviewDay
  <2>3. word \in Days /\ score \in 0..100
    BY <2>2, ReportAssumption DEF AnswerDays
  <2>4. UNCHANGED <<trialToggles, companyRubric, reviewConfig, version, rubricRows, shown,
                    evaluated>>
    BY <1>2 DEF ReviewDay
  <2> QED
    BY <2>1, <2>2, <2>3, <2>4, AnswerStep
<1> QED
  BY <1>1, <1>2

(* The evaluation goes on elsewhere, or fails.                             *)
LEMMA MoveStep ==
  ASSUME ReportInv, attempt # NoAttempt, attempt.at # "rubrics",
         NEW next \in Asking \cup Aggregating \cup {"retry", "failed"},
         attempt' = [attempt EXCEPT !.at = next],
         next \in Aggregating =>
           ReviewedDays(attempt) = {a.asked : a \in attempt.answers},
         UNCHANGED <<trialToggles, companyRubric, reviewConfig, version, rubricRows, shown,
                     evaluated>>
  PROVE  ReportInv'
<1>1. DOMAIN attempt = AttemptFields
  BY DEF ReportInv, AttemptInOrder
<1>2. /\ attempt'.session = attempt.session /\ attempt'.work = attempt.work
      /\ attempt'.rows = attempt.rows /\ attempt'.policy = attempt.policy
      /\ attempt'.rules = attempt.rules /\ attempt'.at = next
      /\ attempt'.answers = attempt.answers /\ DOMAIN attempt' = DOMAIN attempt
  BY <1>1 DEF AttemptFields
<1>3. AttemptInOrder'
  BY <1>2 DEF ReportInv, AttemptInOrder, ReviewedDays, EnabledDays
<1>4. AttemptHasRubrics'
  BY <1>2 DEF ReportInv, AttemptHasRubrics, Past
<1> QED
  BY <1>3, <1>4, AttemptStep

LEMMA ProviderFailsStep ==
  ASSUME ReportInv, ProviderFails
  PROVE  ReportInv'
<1>1. attempt.at \in Asking \cup Aggregating /\ attempt # NoAttempt /\ attempt.at # "rubrics"
  BY DEF ProviderFails, Asking, Aggregating, NoAttempt
<1>2. PICK busy \in BOOLEAN :
       attempt' = [attempt EXCEPT !.at =
         IF busy /\ ModelsOf(attempt.policy).spare /\ ModelsOf(attempt.policy).provider = "openai"
              /\ @ \in {"review", "aggregate"}
         THEN IF @ = "review" THEN "fallback" ELSE "aggregate_fallback"
         ELSE IF busy THEN "retry" ELSE "failed"]
  BY DEF ProviderFails
<1> DEFINE n ==
         IF busy /\ ModelsOf(attempt.policy).spare /\ ModelsOf(attempt.policy).provider = "openai"
              /\ attempt.at \in {"review", "aggregate"}
         THEN IF attempt.at = "review" THEN "fallback" ELSE "aggregate_fallback"
         ELSE IF busy THEN "retry" ELSE "failed"
<1>3. attempt' = [attempt EXCEPT !.at = n]
  BY <1>2
<1>4. n \in {"fallback", "retry", "failed"} \/ (n = "aggregate_fallback" /\ attempt.at = "aggregate")
  BY <1>1
<1> HIDE DEF n
<1>5. PICK next : next = n
  OBVIOUS
<1>6. /\ next \in Asking \cup Aggregating \cup {"retry", "failed"}
      /\ next \in Aggregating => attempt.at \in Aggregating
  BY <1>4, <1>5 DEF Asking, Aggregating
<1>7. next \in Aggregating => ReviewedDays(attempt) = {a.asked : a \in attempt.answers}
  BY <1>1, <1>6 DEF ReportInv, AttemptInOrder
<1>8. /\ attempt' = [attempt EXCEPT !.at = next]
      /\ UNCHANGED <<trialToggles, companyRubric, reviewConfig, version, rubricRows, shown,
                     evaluated>>
  BY <1>3, <1>5 DEF ProviderFails
<1> QED
  BY <1>1, <1>6, <1>7, <1>8, MoveStep

(* What an attempt writes is of the rules it read.                         *)
OfAttempt(run) ==
  run.status = "completed" =>
    run.rules = attempt.rules /\ run.rubric = EffectiveRubric(attempt.rows)

LEMMA FinishStep ==
  ASSUME ReportInv, attempt # NoAttempt, attempt.at # "rubrics", NEW run,
         RunTrue(run, shown[attempt.session]), OfAttempt(run), Finish(run)
  PROVE  ReportInv'
<1> DEFINE s == attempt.session
<1>1. /\ s \in ReportSessions /\ shown[s] # NotShown
      /\ Past(attempt.rules) /\ attempt.rows \subseteq rubricRows
      /\ attempt.rules = version => attempt.rows = rubricRows
      /\ \A t \in ReportSessions : Read(evaluated[t], attempt.rules, EffectiveRubric(attempt.rows))
  BY DEF ReportInv, AttemptInOrder, AttemptHasRubrics
<1>2. /\ evaluated' = [evaluated EXCEPT ![s] = run] /\ rubricRows' = rubricRows
      /\ attempt' = NoAttempt
      /\ UNCHANGED <<trialToggles, companyRubric, reviewConfig, version, shown>>
  BY <1>1 DEF Finish
<1>3. /\ evaluated'[s] = run /\ DOMAIN evaluated' = ReportSessions
      /\ \A t \in ReportSessions \ {s} : evaluated'[t] = evaluated[t]
  BY <1>1, <1>2 DEF ReportInv, ReportShape
<1>4. ReportShape' /\ PagesAreTrue'
  BY <1>2, <1>3 DEF ReportInv, ReportShape, PagesAreTrue
<1>5. RunsAreTrue'
  BY <1>1, <1>2, <1>3 DEF ReportInv, RunsAreTrue
<1>6. RulesArePast'
  <2> SUFFICES ASSUME NEW t \in ReportSessions
               PROVE  /\ evaluated'[t].status = "completed" => Past(evaluated'[t].rules)
                      /\ Read(evaluated'[t], version, EffectiveRubric(rubricRows))
    BY <1>2 DEF RulesArePast, Past, Read
  <2>1. CASE t = s
    BY <1>1, <1>3, <2>1 DEF OfAttempt, Read
  <2>2. CASE t # s
    BY <1>3, <2>2 DEF ReportInv, RulesArePast
  <2> QED
    BY <2>1, <2>2
<1>7. OneRubricEach'
  <2> SUFFICES ASSUME NEW t \in ReportSessions, NEW u \in ReportSessions,
                      evaluated'[t].status = "completed"
               PROVE  Read(evaluated'[u], evaluated'[t].rules, evaluated'[t].rubric)
    BY DEF OneRubricEach, Read
  <2>1. CASE t = s /\ u = s
    BY <2>1 DEF Read
  <2>2. CASE t = s /\ u # s
    BY <1>1, <1>3, <2>2 DEF OfAttempt, Read
  <2>3. CASE t # s /\ u = s
    BY <1>1, <1>3, <2>3 DEF OfAttempt, Read
  <2>4. CASE t # s /\ u # s
    BY <1>3, <2>4 DEF ReportInv, OneRubricEach
  <2> QED
    BY <2>1, <2>2, <2>3, <2>4
<1>8. AttemptInOrder' /\ AttemptHasRubrics'
  BY <1>2 DEF AttemptInOrder, AttemptHasRubrics, NoAttempt
<1> QED
  BY <1>4, <1>5, <1>6, <1>7, <1>8 DEF ReportInv

LEMMA CompletedOfAttempt == ASSUME NEW raw, NEW overall PROVE OfAttempt(CompletedRun(raw, overall))
<1>1. /\ [NoEvaluation EXCEPT !.status = "failed"].status # "completed"
      /\ [NoEvaluation EXCEPT !.status = "failed", !.reviews = ReviewRows].status # "completed"
  BY DEF NoEvaluation
<1>2. CASE TwiceReviewed \/ TwiceScored
  BY <1>1, <1>2 DEF OfAttempt, CompletedRun
<1>3. CASE ~TwiceReviewed /\ ~TwiceScored
  BY <1>3 DEF OfAttempt, CompletedRun
<1> QED
  BY <1>2, <1>3

LEMMA PlaceholdersOnly ==
  ASSUME ReportInv, attempt # NoAttempt
  PROVE  \A x \in ReviewerDayScores : x.status = "human_review_required" =>
           x.day \in Days /\ x = Placeholder(x.day)
<1>1. \A d \in Days : Placeholder(d).day = d
  BY DEF Placeholder
<1>2. \A a \in attempt.answers : ScoredDay(a.day, a.score).status = "scored"
  BY DEF ScoredDay
<1>3. \A x \in ReviewerDayScores :
        \/ \E d \in Days : x = Placeholder(d)
        \/ \E a \in attempt.answers : x = ScoredDay(a.day, a.score)
  BY DEF ReviewerDayScores
<1> QED
  BY <1>1, <1>2, <1>3

LEMMA EvaluationStepKeeps ==
  ASSUME ReportInv, EvaluationStep
  PROVE  ReportInv'
<1>1. CASE \E d \in Days : DeterministicReview(d) \/ ReviewDay(d)
  BY <1>1, ReviewStep
<1>2. CASE StartAggregation
  <2>1. /\ attempt # NoAttempt /\ attempt' = [attempt EXCEPT !.at = "aggregate"]
        /\ attempt.at # "rubrics"
        /\ ReviewedDays(attempt) = {a.asked : a \in attempt.answers}
        /\ UNCHANGED <<trialToggles, companyRubric, reviewConfig, version, rubricRows, shown,
                       evaluated>>
    BY <1>2 DEF StartAggregation, NoAttempt
  <2>2. PICK next \in Aggregating : next = "aggregate"
    BY DEF Aggregating
  <2> QED
    BY <2>1, <2>2, MoveStep
<1>3. CASE ProviderFails
  BY <1>3, ProviderFailsStep
<1>4. CASE GiveUpAttempt
  <2>1. AttemptInOrder' /\ AttemptHasRubrics'
    BY <1>4 DEF GiveUpAttempt, AttemptInOrder, AttemptHasRubrics, NoAttempt
  <2> QED
    BY <1>4, <2>1, AttemptStep DEF GiveUpAttempt
<1>5. CASE AggregateDeterministic
  <2>1. attempt # NoAttempt /\ attempt.at \in Aggregating /\ attempt.at # "rubrics"
    BY <1>5 DEF AggregateDeterministic, NoAttempt, Aggregating
  <2>2. PICK raw, overall : raw = ReviewerDayScores /\ overall = AggregateScores(attempt.answers)
    OBVIOUS
  <2>3. Finish(CompletedRun(raw, overall))
    BY <1>5, <2>2 DEF AggregateDeterministic
  <2>4. RunTrue(CompletedRun(raw, overall), shown[attempt.session])
    BY <2>1, <2>2, PlaceholdersOnly, CompletedRunIsTrue
  <2>5. PICK run : run = CompletedRun(raw, overall) /\ OfAttempt(run)
    BY CompletedOfAttempt
  <2> QED
    BY <2>1, <2>3, <2>4, <2>5, FinishStep
<1>6. CASE AggregateWinoeReport
  <2>1. attempt # NoAttempt /\ attempt.at \in Aggregating /\ attempt.at # "rubrics"
    BY <1>6 DEF AggregateWinoeReport, NoAttempt, Aggregating
  <2>2. PICK days \in {{1}, Days}, overall \in ProviderScores :
          Finish(CompletedRun(MergeDayScores(ReviewerDayScores, {ScoredDay(d, 70) : d \in days}), overall))
    BY <1>6 DEF AggregateWinoeReport
  <2>3. PICK others : others = {ScoredDay(d, 70) : d \in days}
    OBVIOUS
  <2>4. PICK raw : raw = MergeDayScores(ReviewerDayScores, others)
    OBVIOUS
  <2>5. \A o \in others : o.status = "scored"
    BY <2>3 DEF ScoredDay
  <2>6. /\ ReviewerDayScores \subseteq raw
        /\ \A x \in raw : x \in ReviewerDayScores \/ x.status = "scored"
    BY <2>4, <2>5 DEF MergeDayScores
  <2>7. RunTrue(CompletedRun(raw, overall), shown[attempt.session])
    BY <2>1, <2>6, PlaceholdersOnly, CompletedRunIsTrue
  <2>8. Finish(CompletedRun(raw, overall))
    BY <2>2, <2>3, <2>4
  <2>9. PICK run : run = CompletedRun(raw, overall) /\ OfAttempt(run)
    BY CompletedOfAttempt
  <2> QED
    BY <2>1, <2>7, <2>8, <2>9, FinishStep
<1>7. CASE MarkFailedRun
  <2>1. attempt # NoAttempt /\ attempt.at # "rubrics"
    BY <1>7 DEF MarkFailedRun, NoAttempt
  <2>2. PICK run : run = [NoEvaluation EXCEPT !.status = "failed"]
    OBVIOUS
  <2>3. RunTrue(run, shown[attempt.session]) /\ OfAttempt(run)
    BY <2>2, FailedRunIsTrue DEF OfAttempt, NoEvaluation
  <2> QED
    BY <1>7, <2>1, <2>2, <2>3, FinishStep DEF MarkFailedRun
<1> QED
  BY <1>1, <1>2, <1>3, <1>4, <1>5, <1>6, <1>7, ReadRubricsStep DEF EvaluationStep

LEMMA ReportInitInv == ReportInit => ReportInv
<1> SUFFICES ASSUME ReportInit PROVE ReportInv
  OBVIOUS
<1>1. ReportShape
  <2>1. trialToggles \subseteq Days /\ companyRubric \in 0..LastRubric
    BY ReportAssumption DEF ReportInit
  <2>2. /\ rubricRows = {} /\ reviewConfig \in ReviewConfigs /\ version = NoVersion
        /\ DOMAIN shown = ReportSessions /\ DOMAIN evaluated = ReportSessions
    BY DEF ReportInit
  <2> QED
    BY <2>1, <2>2, ReportAssumption DEF ReportShape, NoVersion, VersionRecords
<1>2. \A s \in ReportSessions : shown[s] = NotShown /\ evaluated[s] = NoEvaluation
  BY DEF ReportInit
<1>3. NoEvaluation.status = "none" /\ attempt = NoAttempt
  BY DEF NoEvaluation, ReportInit
<1>4. PagesAreTrue /\ RunsAreTrue /\ AttemptInOrder /\ AttemptHasRubrics
  BY <1>2, <1>3 DEF PagesAreTrue, RunsAreTrue, AttemptInOrder, AttemptHasRubrics
<1>5. RulesArePast /\ OneRubricEach
  BY <1>2, <1>3 DEF RulesArePast, OneRubricEach, Read
<1> QED
  BY <1>1, <1>4, <1>5 DEF ReportInv

LEMMA ReportStepKeeps == ReportInv /\ [ReportNext]_reportVars => ReportInv'
<1> SUFFICES ASSUME ReportInv, [ReportNext]_reportVars PROVE ReportInv'
  OBVIOUS
<1>1. CASE UNCHANGED reportVars
  BY <1>1 DEF reportVars, ReportInv, ReportShape, PagesAreTrue, RunsAreTrue, RulesArePast,
              OneRubricEach, AttemptInOrder, AttemptHasRubrics, Past, Read, ReviewedDays,
              EnabledDays
<1>2. CASE ReportNext
  BY <1>2, RulesStep, ClaimStep, BeginStep, EvaluationStepKeeps DEF ReportNext
<1> QED
  BY <1>1, <1>2

(* The inductive invariant of the reports holds from the start             *)
(* (evaluations_services_evaluations_evaluator_service.py and what it      *)
(* calls).                                                                 *)
THEOREM ReportInvariance == ReportSpec => []ReportInv
<1> QED
  BY ReportInitInv, ReportStepKeeps, PTL DEF ReportSpec

LEMMA ReportInvIsFair == ReportInv => ReportTypeOK /\ SameRulesForAll /\ DaysAccountedFor
<1> SUFFICES ASSUME ReportInv PROVE ReportTypeOK /\ SameRulesForAll /\ DaysAccountedFor
  OBVIOUS
<1>1. \A s \in ReportSessions : evaluated[s] # NoEvaluation => RunTrue(evaluated[s], shown[s])
  BY DEF ReportInv, RunsAreTrue
<1>2. /\ NoEvaluation.status = "none" /\ NoEvaluation.scores = {} /\ NoEvaluation.reviews = {}
      /\ NoEvaluation.raw = {}
  BY DEF NoEvaluation
<1>3. SameRulesForAll
  <2>1. \A s \in ReportSessions :
          evaluated[s].status = "completed" /\ evaluated[s].policy.edition = shown[s].edition =>
            ReviewersNamed(s)
    BY <1>1, <1>2 DEF RunTrue, ReviewedAsNamed, ReviewersNamed, ReviewersOf
  <2> QED
    BY <2>1 DEF SameRulesForAll, ReportInv, OneRubricEach, Read
<1>4. DaysAccountedFor
  <2>1. \A s \in ReportSessions : PageTrue(evaluated[s])
    <3> SUFFICES ASSUME NEW s \in ReportSessions PROVE PageTrue(evaluated[s])
      OBVIOUS
    <3>1. CASE evaluated[s] # NoEvaluation
      BY <1>1, <3>1 DEF RunTrue
    <3>2. CASE evaluated[s] = NoEvaluation
      <4>1. ComposeReport(evaluated[s]).days = {}
        BY <1>2, <3>2 DEF ComposeReport, ComposeDayScores
      <4> QED
        BY <1>2, <3>2, <4>1 DEF PageTrue
    <3> QED
      BY <3>1, <3>2
  <2> QED
    BY <2>1 DEF DaysAccountedFor, PageTrue
<1>5. ReportTypeOK
  <2>1. \A s \in ReportSessions :
          /\ evaluated[s].status \in {"none", "completed", "failed"}
          /\ \A x \in evaluated[s].scores : x.day \in Days /\ x.score \in 0..100
    BY <1>1, <1>2 DEF RunTrue
  <2>2. attempt.at \in {"none", "rubrics", "review", "fallback", "aggregate", "aggregate_fallback",
                        "retry", "failed"}
    BY DEF ReportInv, AttemptInOrder, NoAttempt, Asking, Aggregating
  <2> QED
    BY <2>1, <2>2 DEF ReportTypeOK, ReportInv, ReportShape, VersionRecords
<1> QED
  BY <1>3, <1>4, <1>5
-----------------------------------------------------------------------------
(* SchemaUpgrades: the inductive invariant. *)

(* A database as the migrations may find it. *)
Sound(d) == d \in Databases /\ FitsSchema(d) /\ OwnVersions(d)

(* Until the schema is reconciled every session belongs to a trial of the  *)
(* old table, and before what is left of it is dropped to one of the new.  *)
OfOldTrials(d) ==
  /\ "simulations" \in d.tables
  /\ \A s \in d.sessions : Owner(s) \in Ids(d, "simulations")
OfNewTrials(d) ==
  \A s \in d.sessions : s.trial # Null => s.trial \in Ids(d, "trials")

(* What the migrations up to this revision have seen to. *)
Migrated(d, r) ==
  /\ Sound(d)
  /\ r <= 2 => OfOldTrials(d)
  /\ r = 2 => "trial" \in d.links["versions"]
  /\ r >= 2 => d.links["versions"] # {}

(* A row as newer code stores it, and what a database says, in whichever   *)
(* table and columns.                                                      *)
NewParent(row) == [row EXCEPT !.partner = Coalesce(row.partner, row.recruiter), !.recruiter = Null]
NewChild(row) == [row EXCEPT !.trial = Owner(row), !.simulation = Null]
ParentContent(d) == {NewParent(row) : row \in d.rows["simulations"] \cup d.rows["trials"]}
ChildContent(d, c) == {NewChild(row) : row \in Rows(d, c)}
StandingContent(d) == {NewParent(row) : row \in Standing(d)}
HasAside(d) == "aside" \in d.columns["simulations"] \cup d.columns["trials"]
SameContent(n, d) ==
  /\ ParentContent(n) = ParentContent(d) /\ StandingContent(n) = StandingContent(d)
  /\ HasAside(n) = HasAside(d)
  /\ \A c \in ChildTables : ChildContent(n, c) = ChildContent(d, c)

(* A row stores nothing in a column that is not there.                     *)
RowFits(row, cols) == \A column \in TrialColumns \ cols : row[column] = Null

(* Nothing that was there is lost or changed. *)
KeptSoFar(before, d) ==
  /\ AllFacts(before) = AllFacts(d) /\ AllWhole(before) = AllWhole(d)
  /\ \A c \in ChildTables : Links(before, c) \subseteq Links(d, c)

(* The table "trials" has all the trials, under the new columns; the       *)
(* children lead to it.                                                    *)
NewKey == [name |-> "new", column |-> "trial", to |-> "trials"]
NewColumns(d) ==
  "trials" \in d.tables /\ "partner" \in d.columns["trials"] /\ "recruiter" \notin d.columns["trials"]
AllMoved(d) ==
  \A row \in d.rows["simulations"] : \E kept \in d.rows["trials"] : Facts(kept) = Facts(row)
NewLinks(d) == \A c \in ChildTables : d.links[c] = {"trial"}
NewKeys(d) == \A c \in ChildTables : d.keys[c] = {NewKey}
KeyedToTrials(d) == \A c \in ChildTables : {key \in d.keys[c] : key.to = "trials"} = {NewKey}

(* What each step of the unification finds of the database it began with. *)
AtStep(d, before, step) ==
  /\ KeptSoFar(before, d)
  /\ step # "parents" => NewColumns(d) /\ AllMoved(d)
  /\ step \in {"uniques", "keys", "drop", "backfill"} => NewLinks(d)
  /\ step \in {"drop", "backfill"} => OfNewTrials(d) /\ KeyedToTrials(d)
  /\ step = "backfill" => d.tables = {"trials"} /\ NewKeys(d)

(* A finished unification; and that what it said is still said when it is  *)
(* undone and done again.                                                  *)
Finished(u) ==
  /\ Sound(u) /\ u.tables = {"trials"} /\ NewColumns(u) /\ NewLinks(u) /\ NewKeys(u)
  /\ \A row \in u.rows["trials"] : row.active # Null /\ Firsts(u, row.id) # {}
  /\ \A s \in u.sessions : s.trial # Null => s.version # Null
OneTable(d) == \E t \in ParentTables : d.tables = {t}
StillSays(d, all) ==
  all # {} => \E u \in all : all = {u} /\ Finished(u) /\ SameContent(d, u) /\ OneTable(d)

SchemaInv ==
  /\ SchemaTypeOK /\ beforehand \in Databases
  /\ unifying = "failed" => revision < 5
  /\ unifying # "failed" =>
       /\ Migrated(database, revision)
       /\ unifying # "no" => revision = 4 /\ AtStep(database, beforehand, unifying)
       /\ revision = 5 => Finished(database) /\ KeptSoFar(beforehand, database) /\ unified # {}
       /\ unified # {} => revision >= 3
       /\ StillSays(database, unified)

LEMMA SchemaInitInv == ASSUME SchemaInit PROVE SchemaInv
<1>1. Sound(database) /\ database = beforehand
  BY SchemaAssumption DEF SchemaInit, Sound
<1>2. ASSUME revision <= 2 PROVE OfOldTrials(database)
  <2>1. database \in OldDatabases
    BY <1>2 DEF SchemaInit
  <2>2. /\ database.tables = {"simulations"}
        /\ \A s \in database.sessions : s.trial = Null /\ s.simulation \in Ids(database, "simulations")
    BY <2>1, SchemaAssumption
  <2> QED
    BY <2>2 DEF OfOldTrials, Owner, Coalesce
<1>3. ASSUME revision >= 2 PROVE database.links["versions"] # {}
  BY <1>3, SchemaAssumption DEF SchemaInit
<1>4. revision \in {0, 4} /\ unifying = "no" /\ unified = {}
  BY DEF SchemaInit
<1>5. Migrated(database, revision)
  BY <1>1, <1>2, <1>3, <1>4 DEF Migrated
<1>6. SchemaTypeOK /\ beforehand \in Databases
  BY <1>1, <1>4 DEF SchemaTypeOK, Sound
<1> QED
  BY <1>4, <1>5, <1>6 DEF SchemaInv, StillSays

(* The invariant says what the unification promises. *)
LEMMA FinishedLosesNothing ==
  ASSUME NEW u, Finished(u)
  PROVE  /\ {Facts(row) : row \in u.rows["trials"]} = AllFacts(u)
         /\ {WholeFacts(row) : row \in u.rows["trials"]} = AllWhole(u)
         /\ \A c \in ChildTables : {key \in u.keys[c] : key.column = "trial"} = {NewKey}
         /\ \A row \in u.rows["trials"] : \E v \in u.versions : v.id = row.active /\ v.trial = row.id
         /\ \A s \in u.sessions : s.trial # Null =>
              \E v \in u.versions : v.id = s.version /\ v.trial = s.trial
<1>1. /\ u \in Databases /\ FitsSchema(u) /\ OwnVersions(u) /\ NewKeys(u) /\ NewLinks(u)
      /\ "simulations" \notin u.tables /\ "simulations" \in ParentTables /\ "trials" \in ParentTables
      /\ "versions" \in ChildTables /\ "sessions" \in ChildTables /\ "simulation" \in ParentColumns
  BY DEF Finished, Sound, ParentTables, ChildTables, ParentColumns
<1>2. u.rows["simulations"] = {}
  BY <1>1 DEF FitsSchema, TableFits
<1>3. {Facts(row) : row \in u.rows["trials"]} = AllFacts(u)
  BY <1>2 DEF AllFacts
<1>12. {WholeFacts(row) : row \in u.rows["trials"]} = AllWhole(u)
  BY <1>2 DEF AllWhole, Standing
<1>4. \A c \in ChildTables : {key \in u.keys[c] : key.column = "trial"} = {NewKey}
  BY <1>1 DEF NewKeys, NewKey
<1>5. \A v \in u.versions : v.simulation = Null
  BY <1>1 DEF FitsSchema, ChildFits, NewLinks, Rows
<1>7. \A row \in u.rows["trials"] : row.active # Null /\ row.id # Null
  BY <1>1 DEF Finished, Databases, ParentRows
<1>8. \A row \in u.rows["trials"] : <<row.active, row.id>> \in Links(u, "versions")
  BY <1>1, <1>7 DEF OwnVersions
<1>9. \A s \in u.sessions : s.trial # Null => <<s.version, s.trial>> \in Links(u, "versions")
  BY <1>1 DEF OwnVersions, Finished, Owner, Coalesce
<1>10. ASSUME NEW row \in u.rows["trials"] PROVE \E v \in u.versions : v.id = row.active /\ v.trial = row.id
  <2>1. PICK v \in u.versions : <<row.active, row.id>> = <<v.id, Owner(v)>>
    BY <1>8 DEF Links, Rows
  <2> QED
    BY <1>5, <1>7, <2>1 DEF Owner, Coalesce
<1>11. ASSUME NEW s \in u.sessions, s.trial # Null
       PROVE  \E v \in u.versions : v.id = s.version /\ v.trial = s.trial
  <2>1. PICK v \in u.versions : <<s.version, s.trial>> = <<v.id, Owner(v)>>
    BY <1>9, <1>11 DEF Links, Rows
  <2> QED
    BY <1>5, <1>11, <2>1 DEF Owner, Coalesce
<1> QED
  BY <1>3, <1>4, <1>10, <1>11, <1>12

-----------------------------------------------------------------------------
(* SchemaUpgrades: what a database says. *)

LEMMA DatabaseParts ==
  ASSUME NEW d \in Databases
  PROVE  /\ d.tables \subseteq ParentTables
         /\ \A t \in ParentTables : d.rows[t] \subseteq ParentRows
         /\ \A t \in ParentTables : d.columns[t] \subseteq TrialColumns
         /\ \A c \in ChildTables : d.links[c] \subseteq ParentColumns
         /\ d.versions \subseteq VersionLinks /\ d.sessions \subseteq SessionLinks
         /\ \A c \in ChildTables : d.keys[c] \subseteq ForeignKeys
         /\ \A t \in ParentTables : Ids(d, t) \subseteq Nat \ {Null}
         /\ Rows(d, "versions") = d.versions /\ Rows(d, "sessions") = d.sessions
<1>1. \A t \in ParentTables : d.rows[t] \subseteq ParentRows
  BY DEF Databases
<1>2. \A t \in ParentTables : Ids(d, t) \subseteq Nat \ {Null}
  BY <1>1 DEF Ids, ParentRows
<1> QED
  BY <1>1, <1>2 DEF Databases, Rows

LEMMA ParentSays ==
  ASSUME NEW row \in ParentRows
  PROVE  /\ NewParent(row) \in ParentRows
         /\ NewParent(row).id = row.id /\ NewParent(row).body = row.body
         /\ NewParent(row).partner = Coalesce(row.partner, row.recruiter) /\ NewParent(row).recruiter = Null
         /\ NewParent(row).aside = row.aside /\ NewParent(row).extra = row.extra
         /\ NewParent(row).active = row.active /\ NewParent(row).over = row.over
<1>1. Coalesce(row.partner, row.recruiter) \in Nat /\ Null \in Nat
  BY DEF Coalesce, ParentRows, Null
<1> QED
  BY <1>1 DEF NewParent, ParentRows

LEMMA VersionSays ==
  ASSUME NEW v \in VersionLinks
  PROVE  /\ NewChild(v) \in VersionLinks
         /\ NewChild(v).id = v.id /\ NewChild(v).trial = Owner(v) /\ NewChild(v).simulation = Null
         /\ NewChild(v).first = v.first
<1>1. Owner(v) \in Nat /\ Null \in Nat
  BY DEF Owner, Coalesce, VersionLinks, Null
<1> QED
  BY <1>1 DEF NewChild, VersionLinks

LEMMA SessionSays ==
  ASSUME NEW s \in SessionLinks
  PROVE  /\ NewChild(s) \in SessionLinks
         /\ NewChild(s).id = s.id /\ NewChild(s).trial = Owner(s) /\ NewChild(s).simulation = Null
         /\ NewChild(s).email = s.email /\ NewChild(s).version = s.version
         /\ NewChild(s).submissions = s.submissions /\ NewChild(s).profile = s.profile
<1>1. Owner(s) \in Nat /\ Null \in Nat
  BY DEF Owner, Coalesce, SessionLinks, Null
<1> QED
  BY <1>1 DEF NewChild, SessionLinks

(* One of the tables has no rows: all of the other stand.                  *)
LEMMA AllStand ==
  ASSUME NEW d, d.rows["simulations"] = {} \/ d.rows["trials"] = {}
  PROVE  /\ Standing(d) = d.rows["simulations"] \cup d.rows["trials"]
         /\ StandingContent(d) = ParentContent(d)
<1>1. Standing(d) = d.rows["simulations"] \cup d.rows["trials"]
  <2>1. d.rows["trials"] = {} => Ids(d, "trials") = {}
    BY DEF Ids
  <2> QED
    BY <2>1 DEF Standing
<1> QED
  BY <1>1 DEF StandingContent, ParentContent

(* The rows of the new table, stored otherwise, leave as many of the old.  *)
LEMMA StandingAgain ==
  ASSUME NEW n \in Databases, NEW d \in Databases, n.rows["simulations"] = d.rows["simulations"],
         {NewParent(row) : row \in n.rows["trials"]} = {NewParent(row) : row \in d.rows["trials"]}
  PROVE  StandingContent(n) = StandingContent(d)
<1>1. \A x \in Databases : \A row \in x.rows["trials"] : NewParent(row).id = row.id
  BY DatabaseParts, ParentSays DEF ParentTables
<1>2. \A x \in Databases : Ids(x, "trials") = {said.id : said \in {NewParent(row) : row \in x.rows["trials"]}}
  BY <1>1 DEF Ids
<1>3. Ids(n, "trials") = Ids(d, "trials")
  BY <1>2
<1>4. \A x \in Databases : StandingContent(x) =
        {NewParent(row) : row \in x.rows["trials"]}
          \cup {NewParent(row) : row \in {old \in x.rows["simulations"] : old.id \notin Ids(x, "trials")}}
  BY DEF StandingContent, Standing
<1> QED
  BY <1>3, <1>4

(* Every row of the one is a row of the other. *)
LEMMA SameRows ==
  ASSUME NEW n, NEW d, SameContent(n, d)
  PROVE  /\ \A row \in n.rows["simulations"] \cup n.rows["trials"] :
              \E kept \in d.rows["simulations"] \cup d.rows["trials"] : NewParent(kept) = NewParent(row)
         /\ \A c \in ChildTables : \A row \in Rows(n, c) : \E kept \in Rows(d, c) : NewChild(kept) = NewChild(row)
<1>1. ASSUME NEW row \in n.rows["simulations"] \cup n.rows["trials"]
      PROVE  \E kept \in d.rows["simulations"] \cup d.rows["trials"] : NewParent(kept) = NewParent(row)
  <2>1. NewParent(row) \in ParentContent(n)
    BY DEF ParentContent
  <2>2. NewParent(row) \in ParentContent(d)
    BY <2>1 DEF SameContent
  <2> QED
    BY <2>2 DEF ParentContent
<1>2. ASSUME NEW c \in ChildTables, NEW row \in Rows(n, c)
      PROVE  \E kept \in Rows(d, c) : NewChild(kept) = NewChild(row)
  <2>1. NewChild(row) \in ChildContent(n, c)
    BY DEF ChildContent
  <2>2. NewChild(row) \in ChildContent(d, c)
    BY <2>1 DEF SameContent
  <2> QED
    BY <2>2 DEF ChildContent
<1> QED
  BY <1>1, <1>2

LEMMA SameContentTurned == \A n, d : SameContent(n, d) => SameContent(d, n)
BY DEF SameContent

LEMMA SameContentChained ==
  ASSUME NEW m, NEW n, NEW d, SameContent(m, n), SameContent(n, d) PROVE SameContent(m, d)
BY DEF SameContent

LEMMA SaidAgain ==
  ASSUME NEW n \in Databases, NEW d \in Databases, SameContent(n, d)
  PROVE  /\ AllFacts(n) \subseteq AllFacts(d) /\ AllWhole(n) \subseteq AllWhole(d)
         /\ \A c \in ChildTables : Links(n, c) \subseteq Links(d, c)
<1>3. AllWhole(n) \subseteq AllWhole(d)
  <2> SUFFICES ASSUME NEW row \in Standing(n) PROVE WholeFacts(row) \in AllWhole(d)
    BY DEF AllWhole
  <2>1. NewParent(row) \in StandingContent(n)
    BY DEF StandingContent
  <2>2. NewParent(row) \in StandingContent(d)
    BY <2>1 DEF SameContent
  <2>3. PICK kept \in Standing(d) : NewParent(kept) = NewParent(row)
    BY <2>2 DEF StandingContent
  <2>4. row \in ParentRows /\ kept \in ParentRows
    BY DatabaseParts DEF ParentTables, Standing
  <2>5. WholeFacts(row) = WholeFacts(kept)
    BY <2>3, <2>4, ParentSays DEF WholeFacts, Facts
  <2> QED
    BY <2>5 DEF AllWhole
<1>1. AllFacts(n) \subseteq AllFacts(d)
  <2> SUFFICES ASSUME NEW row \in n.rows["simulations"] \cup n.rows["trials"]
               PROVE  Facts(row) \in AllFacts(d)
    BY DEF AllFacts
  <2>1. PICK kept \in d.rows["simulations"] \cup d.rows["trials"] : NewParent(kept) = NewParent(row)
    BY SameRows
  <2>2. row \in ParentRows /\ kept \in ParentRows
    BY DatabaseParts DEF ParentTables
  <2>3. Facts(row) = Facts(kept)
    BY <2>1, <2>2, ParentSays DEF Facts
  <2> QED
    BY <2>3 DEF AllFacts
<1>2. ASSUME NEW c \in ChildTables PROVE Links(n, c) \subseteq Links(d, c)
  <2> SUFFICES ASSUME NEW row \in Rows(n, c) PROVE <<row.id, Owner(row)>> \in Links(d, c)
    BY DEF Links
  <2>1. PICK kept \in Rows(d, c) : NewChild(kept) = NewChild(row)
    BY SameRows
  <2>2. row.id = kept.id /\ Owner(row) = Owner(kept)
    <3>1. CASE c = "versions"
      BY <2>1, <3>1, DatabaseParts, VersionSays
    <3>2. CASE c = "sessions"
      BY <2>1, <3>2, DatabaseParts, SessionSays
    <3> QED
      BY <3>1, <3>2 DEF ChildTables
  <2> QED
    BY <2>2 DEF Links
<1> QED
  BY <1>1, <1>2, <1>3

(* What is only stored otherwise keeps what the unification promises, and  *)
(* its versions.                                                           *)
LEMMA SaysTheSame ==
  ASSUME NEW n \in Databases, NEW d \in Databases, SameContent(n, d)
  PROVE  /\ AllFacts(n) = AllFacts(d) /\ AllWhole(n) = AllWhole(d)
         /\ \A c \in ChildTables : Links(n, c) = Links(d, c)
         /\ OwnVersions(d) => OwnVersions(n)
<1>1. SameContent(d, n)
  BY SameContentTurned
<1>2. AllFacts(n) = AllFacts(d) /\ AllWhole(n) = AllWhole(d) /\ \A c \in ChildTables : Links(n, c) = Links(d, c)
  <2>1. AllFacts(n) \subseteq AllFacts(d) /\ AllWhole(n) \subseteq AllWhole(d) /\ \A c \in ChildTables : Links(n, c) \subseteq Links(d, c)
    BY SaidAgain
  <2>2. AllFacts(d) \subseteq AllFacts(n) /\ AllWhole(d) \subseteq AllWhole(n) /\ \A c \in ChildTables : Links(d, c) \subseteq Links(n, c)
    BY <1>1, SaidAgain
  <2> QED
    BY <2>1, <2>2
<1>3. Links(n, "versions") = Links(d, "versions")
  BY <1>2 DEF ChildTables
<1>4. ASSUME OwnVersions(d), NEW t \in ParentTables, NEW row \in n.rows[t], row.active # Null
      PROVE  <<row.active, row.id>> \in Links(n, "versions")
  <2>1. row \in n.rows["simulations"] \cup n.rows["trials"]
    BY DEF ParentTables
  <2>2. PICK kept \in d.rows["simulations"] \cup d.rows["trials"] : NewParent(kept) = NewParent(row)
    BY <2>1, SameRows
  <2>3. row \in ParentRows /\ kept \in ParentRows
    BY DatabaseParts DEF ParentTables
  <2>4. row.active = kept.active /\ row.id = kept.id
    BY <2>2, <2>3, ParentSays
  <2>5. <<kept.active, kept.id>> \in Links(d, "versions")
    BY <1>4, <2>4 DEF OwnVersions, ParentTables
  <2> QED
    BY <1>3, <2>4, <2>5
<1>5. ASSUME OwnVersions(d), NEW s \in n.sessions, s.version # Null
      PROVE  <<s.version, Owner(s)>> \in Links(n, "versions")
  <2>1. PICK kept \in d.sessions : NewChild(kept) = NewChild(s)
    BY SameRows, DatabaseParts DEF ChildTables
  <2>2. s.version = kept.version /\ Owner(s) = Owner(kept)
    BY <2>1, DatabaseParts, SessionSays
  <2>3. <<kept.version, Owner(kept)>> \in Links(d, "versions")
    BY <1>5, <2>2 DEF OwnVersions
  <2> QED
    BY <1>3, <2>2, <2>3
<1>6. OwnVersions(d) => OwnVersions(n)
  BY <1>4, <1>5 DEF OwnVersions
<1> QED
  BY <1>2, <1>6

-----------------------------------------------------------------------------
(* SchemaUpgrades: what is written to a database. *)

(* A child with other rows, columns or keys; the rest is as it was. *)
ChildOf(n, d, c) ==
  /\ n.tables = d.tables /\ n.rows = d.rows /\ n.columns = d.columns
  /\ \A b \in ChildTables \ {c} : Rows(n, b) = Rows(d, b) /\ n.links[b] = d.links[b] /\ n.keys[b] = d.keys[b]

LEMMA ChildRowsWritten ==
  ASSUME NEW d \in Databases, NEW c \in ChildTables,
         NEW new, c = "versions" => new \subseteq VersionLinks,
         c = "sessions" => new \subseteq SessionLinks,
         NEW m, m = WithRows(d, c, new)
  PROVE  /\ m \in Databases /\ Rows(m, c) = new
         /\ m.links = d.links /\ m.keys = d.keys
         /\ ChildOf(m, d, c)
<1>1. CASE c = "versions"
  <2>1. m = [d EXCEPT !.versions = new]
    BY <1>1 DEF WithRows
  <2>2. /\ m \in Databases /\ m.versions = new /\ m.sessions = d.sessions
        /\ m.links = d.links /\ m.keys = d.keys
        /\ m.tables = d.tables /\ m.rows = d.rows /\ m.columns = d.columns
    BY <1>1, <2>1 DEF Databases
  <2> QED
    BY <1>1, <2>2 DEF Rows, ChildTables, ChildOf
<1>2. CASE c = "sessions"
  <2>1. m = [d EXCEPT !.sessions = new]
    BY <1>2 DEF WithRows
  <2>2. /\ m \in Databases /\ m.sessions = new /\ m.versions = d.versions
        /\ m.links = d.links /\ m.keys = d.keys
        /\ m.tables = d.tables /\ m.rows = d.rows /\ m.columns = d.columns
    BY <1>2, <2>1 DEF Databases
  <2> QED
    BY <1>2, <2>2 DEF Rows, ChildTables, ChildOf
<1> QED
  BY <1>1, <1>2 DEF ChildTables

WithLinks(n, m, c, joined, keys) == n = [m EXCEPT !.links[c] = joined, !.keys[c] = keys]

LEMMA ChildWritten ==
  ASSUME NEW d \in Databases, NEW c \in ChildTables,
         NEW new, c = "versions" => new \subseteq VersionLinks,
         c = "sessions" => new \subseteq SessionLinks,
         NEW joined \in SUBSET ParentColumns, NEW keys \in SUBSET ForeignKeys,
         NEW m, m = WithRows(d, c, new),
         NEW n, WithLinks(n, m, c, joined, keys)
  PROVE  /\ n \in Databases /\ ChildOf(n, d, c)
         /\ Rows(n, c) = new /\ n.links[c] = joined /\ n.keys[c] = keys
<1>1. m \in Databases /\ Rows(m, c) = new /\ m.links = d.links /\ m.keys = d.keys /\ ChildOf(m, d, c)
  BY ChildRowsWritten
<1>2. PICK l \in [ChildTables -> SUBSET ParentColumns] : l = [m.links EXCEPT ![c] = joined]
  BY <1>1 DEF Databases
<1>3. PICK k \in [ChildTables -> SUBSET ForeignKeys] : k = [m.keys EXCEPT ![c] = keys]
  BY <1>1 DEF Databases
<1>4. n = [m EXCEPT !.links = l, !.keys = k]
  BY <1>2, <1>3 DEF WithLinks
<1>5. /\ n \in Databases /\ n.links = l /\ n.keys = k
      /\ n.tables = m.tables /\ n.rows = m.rows /\ n.columns = m.columns
      /\ n.versions = m.versions /\ n.sessions = m.sessions
  BY <1>1, <1>4 DEF Databases
<1>6. /\ l[c] = joined /\ k[c] = keys
      /\ \A b \in ChildTables \ {c} : l[b] = m.links[b] /\ k[b] = m.keys[b]
  BY <1>1, <1>2, <1>3 DEF Databases
<1>7. \A b \in ChildTables : Rows(n, b) = Rows(m, b)
  BY <1>5 DEF Rows
<1> QED
  BY <1>1, <1>5, <1>6, <1>7 DEF ChildOf

(* The keys only. *)
WithKeys(n, d, c, keys) == n = [d EXCEPT !.keys[c] = keys]

LEMMA KeysWritten ==
  ASSUME NEW d \in Databases, NEW c \in ChildTables, NEW keys \in SUBSET ForeignKeys,
         NEW n, WithKeys(n, d, c, keys)
  PROVE  /\ n \in Databases /\ ChildOf(n, d, c)
         /\ Rows(n, c) = Rows(d, c) /\ n.links = d.links /\ n.keys[c] = keys
<1>1. PICK k \in [ChildTables -> SUBSET ForeignKeys] : k = [d.keys EXCEPT ![c] = keys]
  BY DEF Databases
<1>2. n = [d EXCEPT !.keys = k]
  BY <1>1 DEF WithKeys
<1>3. /\ n \in Databases /\ n.keys = k /\ n.links = d.links
      /\ n.tables = d.tables /\ n.rows = d.rows /\ n.columns = d.columns
      /\ n.versions = d.versions /\ n.sessions = d.sessions
  BY <1>2 DEF Databases
<1>4. k[c] = keys /\ \A b \in ChildTables \ {c} : k[b] = d.keys[b]
  BY <1>1 DEF Databases
<1>5. \A b \in ChildTables : Rows(n, b) = Rows(d, b)
  BY <1>3 DEF Rows
<1> QED
  BY <1>3, <1>4, <1>5 DEF ChildOf

(* With it the schema is still kept to, and as much is said. *)
LEMMA ChildSaysTheSame ==
  ASSUME NEW n, NEW d, NEW c \in ChildTables, ChildOf(n, d, c), FitsSchema(d),
         ChildFits(n, c), c = "sessions" => n.links[c] # {},
         ChildContent(n, c) = ChildContent(d, c)
  PROVE  FitsSchema(n) /\ SameContent(n, d)
<1>1. ASSUME NEW t \in ParentTables PROVE TableFits(n, t)
  BY DEF FitsSchema, TableFits, ChildOf
<1>2. ASSUME NEW b \in ChildTables PROVE ChildFits(n, b) /\ ChildContent(n, b) = ChildContent(d, b)
  <2>1. CASE b = c
    BY <2>1
  <2>2. CASE b # c
    <3>1. Rows(n, b) = Rows(d, b) /\ n.links[b] = d.links[b] /\ n.keys[b] = d.keys[b]
      BY <2>2 DEF ChildOf
    <3>2. ChildFits(d, b)
      BY DEF FitsSchema
    <3> QED
      BY <3>1, <3>2 DEF ChildFits, ChildContent
  <2> QED
    BY <2>1, <2>2
<1>3. n.tables # {} /\ n.links["sessions"] # {}
  <2>1. CASE c = "sessions"
    BY <2>1 DEF ChildOf, FitsSchema
  <2>2. CASE c # "sessions"
    BY <2>2 DEF ChildOf, FitsSchema, ChildTables
  <2> QED
    BY <2>1, <2>2
<1>4. ParentContent(n) = ParentContent(d) /\ StandingContent(n) = StandingContent(d) /\ HasAside(n) = HasAside(d)
  BY DEF ChildOf, ParentContent, StandingContent, Standing, Ids, HasAside
<1> QED
  BY <1>1, <1>2, <1>3, <1>4 DEF FitsSchema, SameContent

(* What becomes of a row whose parent, or owner, moves to the other column. *)
LEMMA VersionMoves ==
  ASSUME NEW v \in VersionLinks
  PROVE  /\ LET m == [v EXCEPT !["trial"] = v["simulation"], !["simulation"] = Null] IN
              /\ m \in VersionLinks /\ m.simulation = Null
              /\ v.trial = Null => NewChild(m) = NewChild(v)
         /\ LET m == [v EXCEPT !["simulation"] = v["trial"], !["trial"] = Null] IN
              /\ m \in VersionLinks /\ m.trial = Null
              /\ v.simulation = Null => NewChild(m) = NewChild(v)
         /\ NewChild(NewChild(v)) = NewChild(v)
<1>1. /\ Null \in Nat /\ v.trial \in Nat /\ v.simulation \in Nat /\ Owner(v) \in Nat
      /\ \A a : Coalesce(a, Null) = a /\ Coalesce(Null, a) = a
  BY DEF Null, VersionLinks, Owner, Coalesce
<1>2. PICK a : a = [v EXCEPT !["trial"] = v["simulation"], !["simulation"] = Null]
  OBVIOUS
<1>3. PICK b : b = [v EXCEPT !["simulation"] = v["trial"], !["trial"] = Null]
  OBVIOUS
<1>4. PICK c : c = NewChild(v)
  OBVIOUS
<1>5. a \in VersionLinks /\ a.trial = v.simulation /\ a.simulation = Null /\ a.id = v.id /\ a.first = v.first
  BY <1>1, <1>2 DEF VersionLinks
<1>6. b \in VersionLinks /\ b.simulation = v.trial /\ b.trial = Null /\ b.id = v.id /\ b.first = v.first
  BY <1>1, <1>3 DEF VersionLinks
<1>7. c \in VersionLinks /\ c.trial = Owner(v) /\ c.simulation = Null /\ c.id = v.id /\ c.first = v.first
  BY <1>4, VersionSays
<1>8. ASSUME NEW x \in VersionLinks, x.id = v.id, x.first = v.first, Owner(x) = Owner(v)
      PROVE  NewChild(x) = NewChild(v)
  BY <1>8, <1>1 DEF NewChild, VersionLinks
<1>9. v.trial = Null => NewChild(a) = NewChild(v)
  BY <1>1, <1>5, <1>8 DEF Owner
<1>10. v.simulation = Null => NewChild(b) = NewChild(v)
  BY <1>1, <1>6, <1>8 DEF Owner
<1>11. NewChild(c) = NewChild(v)
  <2>1. Owner(c) = Owner(v)
    BY <1>1, <1>7 DEF Owner
  <2> QED
    BY <1>7, <1>8, <2>1
<1> QED
  BY <1>2, <1>3, <1>4, <1>5, <1>6, <1>9, <1>10, <1>11

LEMMA SessionMoves ==
  ASSUME NEW v \in SessionLinks
  PROVE  /\ LET m == [v EXCEPT !["trial"] = v["simulation"], !["simulation"] = Null] IN
              /\ m \in SessionLinks /\ m.simulation = Null
              /\ v.trial = Null => NewChild(m) = NewChild(v)
         /\ LET m == [v EXCEPT !["simulation"] = v["trial"], !["trial"] = Null] IN
              /\ m \in SessionLinks /\ m.trial = Null
              /\ v.simulation = Null => NewChild(m) = NewChild(v)
         /\ NewChild(NewChild(v)) = NewChild(v)
<1> DEFINE Rest(x) == /\ x.id = v.id /\ x.email = v.email /\ x.version = v.version
                      /\ x.submissions = v.submissions /\ x.profile = v.profile
<1>1. /\ Null \in Nat /\ v.trial \in Nat /\ v.simulation \in Nat /\ Owner(v) \in Nat
      /\ \A a : Coalesce(a, Null) = a /\ Coalesce(Null, a) = a
  BY DEF Null, SessionLinks, Owner, Coalesce
<1>2. PICK a : a = [v EXCEPT !["trial"] = v["simulation"], !["simulation"] = Null]
  OBVIOUS
<1>3. PICK b : b = [v EXCEPT !["simulation"] = v["trial"], !["trial"] = Null]
  OBVIOUS
<1>4. PICK c : c = NewChild(v)
  OBVIOUS
<1>5. a \in SessionLinks /\ a.trial = v.simulation /\ a.simulation = Null /\ Rest(a)
  BY <1>1, <1>2 DEF SessionLinks
<1>6. b \in SessionLinks /\ b.simulation = v.trial /\ b.trial = Null /\ Rest(b)
  BY <1>1, <1>3 DEF SessionLinks
<1>7. c \in SessionLinks /\ c.trial = Owner(v) /\ c.simulation = Null /\ Rest(c)
  BY <1>4, SessionSays
<1>8. ASSUME NEW x \in SessionLinks, Rest(x), Owner(x) = Owner(v)
      PROVE  NewChild(x) = NewChild(v)
  BY <1>8, <1>1 DEF NewChild, SessionLinks
<1> HIDE DEF Rest
<1>9. v.trial = Null => NewChild(a) = NewChild(v)
  BY <1>1, <1>5, <1>8 DEF Owner
<1>10. v.simulation = Null => NewChild(b) = NewChild(v)
  BY <1>1, <1>6, <1>8 DEF Owner
<1>11. NewChild(c) = NewChild(v)
  <2>1. Owner(c) = Owner(v)
    BY <1>1, <1>7 DEF Owner
  <2> QED
    BY <1>7, <1>8, <2>1
<1> QED
  BY <1>2, <1>3, <1>4, <1>5, <1>6, <1>9, <1>10, <1>11

LEMMA ParentMoves ==
  ASSUME NEW v \in ParentRows
  PROVE  /\ LET m == [v EXCEPT !["partner"] = v["recruiter"], !["recruiter"] = Null] IN
              /\ m \in ParentRows /\ m.recruiter = Null /\ m.aside = v.aside /\ m.extra = v.extra
              /\ v.partner = Null => NewParent(m) = NewParent(v)
         /\ LET m == [v EXCEPT !["recruiter"] = v["partner"], !["partner"] = Null] IN
              /\ m \in ParentRows /\ m.partner = Null /\ m.aside = v.aside /\ m.extra = v.extra
              /\ v.recruiter = Null => NewParent(m) = NewParent(v)
         /\ NewParent(NewParent(v)) = NewParent(v)
<1> DEFINE Rest(x) == /\ x.id = v.id /\ x.body = v.body /\ x.aside = v.aside /\ x.extra = v.extra
                      /\ x.active = v.active /\ x.over = v.over
           User(x) == Coalesce(x.partner, x.recruiter)
<1>1. /\ Null \in Nat /\ v.partner \in Nat /\ v.recruiter \in Nat /\ User(v) \in Nat
      /\ \A a : Coalesce(a, Null) = a /\ Coalesce(Null, a) = a
  BY DEF Null, ParentRows, Coalesce
<1>2. PICK a : a = [v EXCEPT !["partner"] = v["recruiter"], !["recruiter"] = Null]
  OBVIOUS
<1>3. PICK b : b = [v EXCEPT !["recruiter"] = v["partner"], !["partner"] = Null]
  OBVIOUS
<1>4. PICK c : c = NewParent(v)
  OBVIOUS
<1>5. a \in ParentRows /\ a.partner = v.recruiter /\ a.recruiter = Null /\ Rest(a)
  BY <1>1, <1>2 DEF ParentRows
<1>6. b \in ParentRows /\ b.recruiter = v.partner /\ b.partner = Null /\ Rest(b)
  BY <1>1, <1>3 DEF ParentRows
<1>7. c \in ParentRows /\ c.partner = User(v) /\ c.recruiter = Null /\ Rest(c)
  BY <1>4, ParentSays
<1>8. ASSUME NEW x \in ParentRows, Rest(x), User(x) = User(v)
      PROVE  NewParent(x) = NewParent(v)
  BY <1>8, <1>1 DEF NewParent, ParentRows
<1>12. /\ a.aside = v.aside /\ a.extra = v.extra
       /\ b.aside = v.aside /\ b.extra = v.extra
  BY <1>5, <1>6
<1> HIDE DEF Rest
<1>9. v.partner = Null => NewParent(a) = NewParent(v)
  BY <1>1, <1>5, <1>8
<1>10. v.recruiter = Null => NewParent(b) = NewParent(v)
  BY <1>1, <1>6, <1>8
<1>11. NewParent(c) = NewParent(v)
  <2>1. User(c) = User(v)
    BY <1>1, <1>7
  <2> QED
    BY <1>7, <1>8, <2>1
<1> QED
  BY <1>2, <1>3, <1>4, <1>5, <1>6, <1>9, <1>10, <1>11, <1>12

(* A child whose column has a new name. *)
LEMMA LinkRenamed ==
  ASSUME NEW d \in Databases, FitsSchema(d), NEW c \in ChildTables, NEW from, NEW to,
         \/ from = "simulation" /\ to = "trial"
         \/ from = "trial" /\ to = "simulation",
         NEW n, n = RenameLink(d, c, from, to)
  PROVE  /\ n \in Databases /\ FitsSchema(n) /\ SameContent(n, d) /\ ChildOf(n, d, c)
         /\ d.links[c] # {from} => n = d
         /\ d.links[c] = {from} =>
              /\ n.links[c] = {to}
              /\ n.keys[c] = {[key EXCEPT !.column = to] : key \in d.keys[c]}
<1>1. CASE d.links[c] # {from}
  BY <1>1 DEF RenameLink, SameContent, ChildOf
<1>2. CASE d.links[c] = {from}
  <2> DEFINE M(row) == [row EXCEPT ![to] = row[from], ![from] = Null]
  <2>1. PICK new : new = {M(row) : row \in Rows(d, c)}
    OBVIOUS
  <2>2. PICK keys : keys = {[key EXCEPT !.column = to] : key \in d.keys[c]}
    OBVIOUS
  <2>3. ChildFits(d, c) /\ from \in ParentColumns /\ to \in ParentColumns /\ from # to
    BY DEF FitsSchema, ParentColumns
  <2>4. \A row \in Rows(d, c) : row[to] = Null
    BY <1>2, <2>3 DEF ChildFits
  <2>5. ASSUME NEW row \in Rows(d, c)
        PROVE  /\ c = "versions" => M(row) \in VersionLinks
               /\ c = "sessions" => M(row) \in SessionLinks
               /\ M(row)[from] = Null /\ NewChild(M(row)) = NewChild(row)
    <3>1. CASE c = "versions"
      <4>1. row \in VersionLinks
        BY <3>1, DatabaseParts
      <4> QED
        BY <2>4, <3>1, <4>1, VersionMoves
    <3>2. CASE c = "sessions"
      <4>1. row \in SessionLinks
        BY <3>2, DatabaseParts
      <4> QED
        BY <2>4, <3>2, <4>1, SessionMoves
    <3> QED
      BY <3>1, <3>2 DEF ChildTables
  <2>6. keys \in SUBSET ForeignKeys /\ \A key \in keys : key.column = to
    <3>1. \A key \in ForeignKeys : /\ [key EXCEPT !.column = to] \in ForeignKeys
                                   /\ [key EXCEPT !.column = to].column = to
      BY <2>3 DEF ForeignKeys
    <3> QED
      BY <2>2, <3>1, DatabaseParts
  <2>7. PICK m : m = WithRows(d, c, new)
    OBVIOUS
  <2>8. PICK joined \in SUBSET ParentColumns : joined = {to}
    BY <2>3
  <2> HIDE DEF M
  <2>9. WithLinks(n, m, c, joined, keys)
    <3>1. new = Renamed(Rows(d, c), from, to)
      BY <2>1 DEF Renamed, M
    <3>2. n = [m EXCEPT !.links[c] = {to},
                 !.keys[c] = {[key EXCEPT !.column = IF key.column = from THEN to ELSE key.column] : key \in @}]
      BY <1>2, <2>7, <3>1 DEF RenameLink
    <3>3. \A key \in d.keys[c] : key.column = from
      BY <1>2, <2>3 DEF ChildFits
    <3>4. keys = {[key EXCEPT !.column = IF key.column = from THEN to ELSE key.column] : key \in d.keys[c]}
      BY <2>2, <3>3
    <3>5. m \in Databases /\ m.keys = d.keys
      BY <2>1, <2>5, <2>7, ChildRowsWritten
    <3> QED
      BY <2>8, <3>2, <3>4, <3>5 DEF Databases, WithLinks
  <2>10. /\ n \in Databases /\ ChildOf(n, d, c)
         /\ Rows(n, c) = new /\ n.links[c] = {to} /\ n.keys[c] = keys
    BY <2>1, <2>5, <2>6, <2>7, <2>8, <2>9, ChildWritten
  <2>11. ChildFits(n, c)
    <3>1. \A row \in new : row[from] = Null
      BY <2>1, <2>5
    <3>2. ParentColumns \ {to} = {from}
      BY <2>3 DEF ParentColumns
    <3> QED
      BY <2>6, <2>10, <3>1, <3>2 DEF ChildFits
  <2>12. ChildContent(n, c) = ChildContent(d, c)
    <3>1. ChildContent(n, c) = {NewChild(row) : row \in new}
      BY <2>10 DEF ChildContent
    <3>2. {NewChild(row) : row \in new} = {NewChild(row) : row \in Rows(d, c)}
      BY <2>1, <2>5
    <3> QED
      BY <3>1, <3>2 DEF ChildContent
  <2>13. FitsSchema(n) /\ SameContent(n, d)
    BY <2>10, <2>11, <2>12, ChildSaysTheSame
  <2> QED
    BY <1>2, <2>2, <2>10, <2>13
<1> QED
  BY <1>1, <1>2

(* A child whose rows name their trial in the new column. *)
LEMMA ChildMadeCanonical ==
  ASSUME NEW d \in Databases, FitsSchema(d), NEW c \in ChildTables, d.links[c] # {}, NEW n, n = ChildCanonical(d, c)
  PROVE  /\ n \in Databases /\ FitsSchema(n) /\ SameContent(n, d) /\ ChildOf(n, d, c)
         /\ n.links[c] = {"trial"}
<1>1. CASE d.links[c] # ParentColumns
  <2>1. n = RenameLink(d, c, "simulation", "trial")
    BY <1>1 DEF ChildCanonical
  <2>2. PICK from : from = "simulation"
    OBVIOUS
  <2>3. PICK to : to = "trial"
    OBVIOUS
  <2>4. /\ n \in Databases /\ FitsSchema(n) /\ SameContent(n, d) /\ ChildOf(n, d, c)
        /\ d.links[c] # {from} => n = d
        /\ d.links[c] = {from} => n.links[c] = {to}
    BY <2>1, <2>2, <2>3, LinkRenamed
  <2>5. d.links[c] \subseteq {"simulation", "trial"} /\ d.links[c] # {"simulation", "trial"}
    BY <1>1, DatabaseParts DEF ParentColumns
  <2>6. d.links[c] # {from} => d.links[c] = {"trial"}
    BY <2>2, <2>5
  <2> QED
    BY <2>3, <2>4, <2>6
<1>2. CASE d.links[c] = ParentColumns
  <2>1. PICK new : new = {NewChild(row) : row \in Rows(d, c)}
    OBVIOUS
  <2>2. PICK keys : keys = {key \in d.keys[c] : key.column # "simulation"}
    OBVIOUS
  <2>3. ASSUME NEW row \in Rows(d, c)
        PROVE  /\ c = "versions" => NewChild(row) \in VersionLinks
               /\ c = "sessions" => NewChild(row) \in SessionLinks
               /\ NewChild(row).simulation = Null /\ NewChild(NewChild(row)) = NewChild(row)
    <3>1. CASE c = "versions"
      <4>1. row \in VersionLinks
        BY <3>1, DatabaseParts
      <4> QED
        BY <3>1, <4>1, VersionMoves, VersionSays
    <3>2. CASE c = "sessions"
      <4>1. row \in SessionLinks
        BY <3>2, DatabaseParts
      <4> QED
        BY <3>2, <4>1, SessionMoves, SessionSays
    <3> QED
      BY <3>1, <3>2 DEF ChildTables
  <2>4. keys \in SUBSET ForeignKeys /\ \A key \in keys : key.column = "trial"
    BY <2>2, DatabaseParts DEF ForeignKeys, ParentColumns
  <2>5. PICK m : m = WithRows(d, c, new)
    OBVIOUS
  <2>6. PICK joined \in SUBSET ParentColumns : joined = {"trial"}
    BY DEF ParentColumns
  <2>7. WithLinks(n, m, c, joined, keys)
    <3>1. new = {[row EXCEPT !.trial = Coalesce(row.trial, row.simulation), !.simulation = Null] : row \in Rows(d, c)}
      BY <2>1 DEF NewChild, Owner
    <3>2. n = [m EXCEPT !.links[c] = {"trial"}, !.keys[c] = {key \in @ : key.column # "simulation"}]
      BY <1>2, <2>5, <3>1 DEF ChildCanonical
    <3>3. m \in Databases /\ m.keys = d.keys
      BY <2>1, <2>3, <2>5, ChildRowsWritten
    <3> QED
      BY <2>2, <2>6, <3>2, <3>3 DEF Databases, WithLinks
  <2>8. /\ n \in Databases /\ ChildOf(n, d, c)
        /\ Rows(n, c) = new /\ n.links[c] = {"trial"} /\ n.keys[c] = keys
    BY <2>1, <2>3, <2>4, <2>5, <2>6, <2>7, ChildWritten
  <2>9. ChildFits(n, c)
    <3>1. \A row \in new : row.simulation = Null
      BY <2>1, <2>3
    <3> QED
      BY <2>4, <2>8, <3>1 DEF ChildFits, ParentColumns
  <2>10. ChildContent(n, c) = ChildContent(d, c)
    <3>1. ChildContent(n, c) = {NewChild(row) : row \in new}
      BY <2>8 DEF ChildContent
    <3>2. {NewChild(row) : row \in new} = {NewChild(row) : row \in Rows(d, c)}
      BY <2>1, <2>3
    <3> QED
      BY <3>1, <3>2 DEF ChildContent
  <2>11. FitsSchema(n) /\ SameContent(n, d)
    BY <2>8, <2>9, <2>10, ChildSaysTheSame
  <2> QED
    BY <2>8, <2>11
<1> QED
  BY <1>1, <1>2

LEMMA KeyPut ==
  ASSUME NEW d \in Databases, FitsSchema(d), NEW c \in ChildTables, NEW column \in d.links[c],
         NEW name \in {"old", "new"}, NEW parent \in ParentTables,
         NEW n, n = WithKey(d, c, column, name, parent)
  PROVE  /\ n \in Databases /\ FitsSchema(n) /\ SameContent(n, d) /\ ChildOf(n, d, c)
         /\ n.links = d.links /\ Rows(n, c) = Rows(d, c)
         /\ n.keys[c] = {key \in d.keys[c] : key.name # name /\ <<key.column, key.to>> # <<column, parent>>}
                          \cup {[name |-> name, column |-> column, to |-> parent]}
<1>1. PICK keys : keys =
     {key \in d.keys[c] : key.name # name /\ <<key.column, key.to>> # <<column, parent>>}
       \cup {[name |-> name, column |-> column, to |-> parent]}
  OBVIOUS
<1>2. ChildFits(d, c)
  BY DEF FitsSchema
<1>3. keys \in SUBSET ForeignKeys /\ \A key \in keys : key.column \in d.links[c]
  <2>1. column \in ParentColumns
    BY DatabaseParts
  <2>2. [name |-> name, column |-> column, to |-> parent] \in ForeignKeys
    BY <2>1 DEF ForeignKeys
  <2>3. d.keys[c] \subseteq ForeignKeys
    BY DatabaseParts
  <2> QED
    BY <1>1, <1>2, <2>2, <2>3 DEF ChildFits
<1>4. WithKeys(n, d, c, keys)
  BY <1>1 DEF WithKey, WithKeys, Databases
<1>5. /\ n \in Databases /\ ChildOf(n, d, c)
      /\ Rows(n, c) = Rows(d, c) /\ n.links = d.links /\ n.keys[c] = keys
  BY <1>3, <1>4, KeysWritten
<1>6. ChildFits(n, c) /\ (c = "sessions" => n.links[c] # {})
  BY <1>2, <1>3, <1>5 DEF ChildFits, FitsSchema
<1>7. ChildContent(n, c) = ChildContent(d, c)
  BY <1>5 DEF ChildContent
<1>8. FitsSchema(n) /\ SameContent(n, d)
  BY <1>5, <1>6, <1>7, ChildSaysTheSame
<1> QED
  BY <1>1, <1>5, <1>8

LEMMA OldKeysGone ==
  ASSUME NEW d \in Databases, FitsSchema(d), NEW c \in ChildTables, NEW n, n = WithoutOldKeys(d, c)
  PROVE  /\ n \in Databases /\ FitsSchema(n) /\ SameContent(n, d) /\ ChildOf(n, d, c)
         /\ n.links = d.links
<1>1. PICK keys : keys = {key \in d.keys[c] : key.column # "trial" \/ key.to # "simulations"}
  OBVIOUS
<1>2. keys \in SUBSET ForeignKeys
  BY <1>1, DatabaseParts
<1>3. WithKeys(n, d, c, keys)
  BY <1>1 DEF WithoutOldKeys, WithKeys, Databases
<1>4. /\ n \in Databases /\ ChildOf(n, d, c)
      /\ Rows(n, c) = Rows(d, c) /\ n.links = d.links /\ n.keys[c] = keys
  BY <1>2, <1>3, KeysWritten
<1>5. ChildFits(n, c) /\ (c = "sessions" => n.links[c] # {})
  BY <1>1, <1>4 DEF ChildFits, FitsSchema
<1>6. ChildContent(n, c) = ChildContent(d, c)
  BY <1>4 DEF ChildContent
<1>7. FitsSchema(n) /\ SameContent(n, d)
  BY <1>4, <1>5, <1>6, ChildSaysTheSame
<1> QED
  BY <1>4, <1>7

(* The parents' tables, with other rows and columns; the children's rows   *)
(* and columns are as they were.                                           *)
ParentsOf(n, d) ==
  /\ n.links = d.links /\ n.versions = d.versions /\ n.sessions = d.sessions
  /\ \A c \in ChildTables : \A key \in n.keys[c] : \E old \in d.keys[c] : key.column = old.column

WithTables(n, d, tables, stored, columns) == n = [d EXCEPT !.tables = tables, !.rows = stored, !.columns = columns]

LEMMA TablesWritten ==
  ASSUME NEW d \in Databases, NEW tables \in SUBSET ParentTables,
         NEW stored \in [ParentTables -> SUBSET ParentRows],
         NEW columns \in [ParentTables -> SUBSET TrialColumns],
         NEW n, WithTables(n, d, tables, stored, columns)
  PROVE  /\ n \in Databases /\ ParentsOf(n, d)
         /\ n.tables = tables /\ n.rows = stored /\ n.columns = columns /\ n.keys = d.keys
BY DEF Databases, WithTables, ParentsOf

LEMMA ParentFits ==
  ASSUME NEW n, NEW d, ParentsOf(n, d), FitsSchema(d), n.tables # {},
         \A t \in ParentTables : TableFits(n, t)
  PROVE  /\ FitsSchema(n)
         /\ \A c \in ChildTables : ChildContent(n, c) = ChildContent(d, c) /\ Links(n, c) = Links(d, c)
<1>1. \A c \in ChildTables : Rows(n, c) = Rows(d, c) /\ n.links[c] = d.links[c]
  BY DEF ParentsOf, Rows
<1>2. ASSUME NEW c \in ChildTables
      PROVE  ChildFits(n, c) /\ ChildContent(n, c) = ChildContent(d, c) /\ Links(n, c) = Links(d, c)
  <2>1. ChildFits(d, c)
    BY DEF FitsSchema
  <2>2. ChildContent(n, c) = ChildContent(d, c) /\ Links(n, c) = Links(d, c)
    BY <1>1 DEF ChildContent, Links
  <2>3. \A key \in n.keys[c] : key.column \in n.links[c]
    BY <1>1, <2>1 DEF ChildFits, ParentsOf
  <2> QED
    BY <1>1, <2>1, <2>2, <2>3 DEF ChildFits
<1>3. n.links["sessions"] # {}
  BY DEF ParentsOf, FitsSchema
<1> QED
  BY <1>2, <1>3 DEF FitsSchema

LEMMA ParentSaysTheSame ==
  ASSUME NEW n, NEW d, ParentsOf(n, d), FitsSchema(d), n.tables # {},
         \A t \in ParentTables : TableFits(n, t),
         ParentContent(n) = ParentContent(d), StandingContent(n) = StandingContent(d), HasAside(n) = HasAside(d)
  PROVE  FitsSchema(n) /\ SameContent(n, d)
BY ParentFits DEF SameContent

(* Other rows and columns of one table. *)
LEMMA TableWritten ==
  ASSUME NEW d \in Databases, NEW t \in ParentTables,
         NEW new \in SUBSET ParentRows, NEW cols \in SUBSET TrialColumns,
         NEW stored, stored = [d.rows EXCEPT ![t] = new],
         NEW columns, columns = [d.columns EXCEPT ![t] = cols]
  PROVE  /\ stored \in [ParentTables -> SUBSET ParentRows]
         /\ columns \in [ParentTables -> SUBSET TrialColumns]
         /\ stored[t] = new /\ columns[t] = cols
         /\ \A b \in ParentTables \ {t} : stored[b] = d.rows[b] /\ columns[b] = d.columns[b]
BY DEF Databases

(* The rows of "trials" are stored otherwise, with the same meaning. *)
WithTrials(n, d, new, cols) == n = [d EXCEPT !.rows["trials"] = new, !.columns["trials"] = cols]
LEMMA TrialsWritten ==
  ASSUME NEW d \in Databases, FitsSchema(d), "trials" \in d.tables,
         NEW new \in SUBSET ParentRows, NEW cols \in SUBSET TrialColumns,
         NEW n, WithTrials(n, d, new, cols)
  PROVE  /\ n \in Databases /\ ParentsOf(n, d) /\ n.tables = d.tables /\ n.keys = d.keys
         /\ n.rows["trials"] = new /\ n.columns["trials"] = cols
         /\ n.rows["simulations"] = d.rows["simulations"] /\ n.columns["simulations"] = d.columns["simulations"]
         /\ /\ cols \cap {"recruiter", "partner"} # {}
            /\ \A row \in new : RowFits(row, cols)
            => FitsSchema(n)
         /\ /\ {NewParent(row) : row \in new} = {NewParent(row) : row \in d.rows["trials"]}
            /\ ("aside" \in cols) = ("aside" \in d.columns["trials"])
            => SameContent(n, d)
<1>1. PICK t \in ParentTables : t = "trials"
  BY DEF ParentTables
<1>2. PICK stored : stored = [d.rows EXCEPT ![t] = new]
  OBVIOUS
<1>3. PICK columns : columns = [d.columns EXCEPT ![t] = cols]
  OBVIOUS
<1>4. PICK tables \in SUBSET ParentTables : tables = d.tables
  BY DatabaseParts
<1>5. /\ stored \in [ParentTables -> SUBSET ParentRows]
      /\ columns \in [ParentTables -> SUBSET TrialColumns]
      /\ stored[t] = new /\ columns[t] = cols
      /\ \A b \in ParentTables \ {t} : stored[b] = d.rows[b] /\ columns[b] = d.columns[b]
  BY <1>2, <1>3 DEF Databases
<1>6. WithTables(n, d, tables, stored, columns)
  <2>1. n = [d EXCEPT !.rows = stored, !.columns = columns]
    BY <1>1, <1>2, <1>3 DEF WithTrials
  <2>2. n = [d EXCEPT !.tables = tables, !.rows = stored, !.columns = columns]
    BY <1>4, <2>1 DEF Databases
  <2> QED
    BY <2>2 DEF WithTables
<1>7. /\ n \in Databases /\ ParentsOf(n, d)
      /\ n.tables = tables /\ n.rows = stored /\ n.columns = columns /\ n.keys = d.keys
  BY <1>5, <1>6, TablesWritten
<1>8. /\ n.rows["trials"] = new /\ n.columns["trials"] = cols
      /\ n.rows["simulations"] = d.rows["simulations"] /\ n.columns["simulations"] = d.columns["simulations"]
  BY <1>1, <1>5, <1>7 DEF ParentTables
<1>9. ASSUME cols \cap {"recruiter", "partner"} # {},
             \A row \in new : RowFits(row, cols)
      PROVE  FitsSchema(n)
  <2>1. TableFits(n, "trials")
    BY <1>4, <1>7, <1>8, <1>9 DEF TableFits, RowFits
  <2>2. TableFits(n, "simulations")
    <3>1. TableFits(d, "simulations")
      BY DEF FitsSchema, ParentTables
    <3> QED
      BY <1>4, <1>7, <1>8, <3>1 DEF TableFits
  <2>3. n.tables # {} /\ \A b \in ParentTables : TableFits(n, b)
    BY <1>4, <1>7, <2>1, <2>2 DEF ParentTables
  <2> QED
    BY <1>7, <2>3, ParentFits
<1>10. ASSUME {NewParent(row) : row \in new} = {NewParent(row) : row \in d.rows["trials"]},
              ("aside" \in cols) = ("aside" \in d.columns["trials"])
       PROVE  SameContent(n, d)
  <2>1. ParentContent(n) = {NewParent(row) : row \in d.rows["simulations"]} \cup {NewParent(row) : row \in new}
    BY <1>8 DEF ParentContent
  <2>2. ParentContent(d) = {NewParent(row) : row \in d.rows["simulations"]}
                             \cup {NewParent(row) : row \in d.rows["trials"]}
    BY DEF ParentContent
  <2>3. \A c \in ChildTables : ChildContent(n, c) = ChildContent(d, c)
    BY <1>7 DEF ParentsOf, ChildContent, Rows
  <2>4. StandingContent(n) = StandingContent(d)
    BY <1>7, <1>8, <1>10, StandingAgain
  <2>5. HasAside(n) = HasAside(d)
    BY <1>8, <1>10 DEF HasAside
  <2> QED
    BY <1>10, <2>1, <2>2, <2>3, <2>4, <2>5 DEF SameContent
<1> QED
  BY <1>4, <1>7, <1>8, <1>9, <1>10

(* A parent table whose owner column has a new name. *)
LEMMA ColumnRenamed ==
  ASSUME NEW d \in Databases, FitsSchema(d), NEW from, NEW to,
         \/ from = "recruiter" /\ to = "partner"
         \/ from = "partner" /\ to = "recruiter",
         NEW n, n = RenameColumn(d, "trials", from, to)
  PROVE  /\ n \in Databases /\ FitsSchema(n) /\ SameContent(n, d) /\ ParentsOf(n, d)
         /\ n.tables = d.tables /\ n.keys = d.keys
<1>1. CASE ~(from \in d.columns["trials"] /\ to \notin d.columns["trials"])
  BY <1>1 DEF RenameColumn, SameContent, ParentsOf
<1>2. CASE from \in d.columns["trials"] /\ to \notin d.columns["trials"]
  <2> DEFINE M(row) == [row EXCEPT ![to] = row[from], ![from] = Null]
  <2>1. PICK new : new = {M(row) : row \in d.rows["trials"]}
    OBVIOUS
  <2>2. PICK cols : cols = (d.columns["trials"] \ {from}) \cup {to}
    OBVIOUS
  <2>3. TableFits(d, "trials") /\ "trials" \in ParentTables
    BY DEF FitsSchema, ParentTables
  <2>4. "trials" \in d.tables
    BY <1>2, <2>3 DEF TableFits
  <2>5. \A row \in d.rows["trials"] : row[to] = Null
    BY <1>2, <2>3 DEF TableFits, TrialColumns
  <2>6. ASSUME NEW row \in d.rows["trials"]
        PROVE  /\ M(row) \in ParentRows /\ M(row)[from] = Null /\ NewParent(M(row)) = NewParent(row)
               /\ M(row).aside = row.aside /\ M(row).extra = row.extra
    <3>1. row \in ParentRows
      BY <2>3, DatabaseParts
    <3>2. CASE from = "recruiter" /\ to = "partner"
      <4>1. row.partner = Null
        BY <2>5, <3>2
      <4>2. /\ [row EXCEPT !["partner"] = row["recruiter"], !["recruiter"] = Null] \in ParentRows
            /\ [row EXCEPT !["partner"] = row["recruiter"], !["recruiter"] = Null].recruiter = Null
            /\ NewParent([row EXCEPT !["partner"] = row["recruiter"], !["recruiter"] = Null]) = NewParent(row)
            /\ [row EXCEPT !["partner"] = row["recruiter"], !["recruiter"] = Null].aside = row.aside
            /\ [row EXCEPT !["partner"] = row["recruiter"], !["recruiter"] = Null].extra = row.extra
        BY <3>1, <4>1, ParentMoves
      <4> QED
        BY <3>2, <4>2
    <3>3. CASE from = "partner" /\ to = "recruiter"
      <4>1. row.recruiter = Null
        BY <2>5, <3>3
      <4>2. /\ [row EXCEPT !["recruiter"] = row["partner"], !["partner"] = Null] \in ParentRows
            /\ [row EXCEPT !["recruiter"] = row["partner"], !["partner"] = Null].partner = Null
            /\ NewParent([row EXCEPT !["recruiter"] = row["partner"], !["partner"] = Null]) = NewParent(row)
            /\ [row EXCEPT !["recruiter"] = row["partner"], !["partner"] = Null].aside = row.aside
            /\ [row EXCEPT !["recruiter"] = row["partner"], !["partner"] = Null].extra = row.extra
        BY <3>1, <4>1, ParentMoves
      <4> QED
        BY <3>3, <4>2
    <3> QED
      BY <3>2, <3>3
  <2> HIDE DEF M
  <2>7. cols \in SUBSET TrialColumns /\ cols \cap {"recruiter", "partner"} = {to}
    <3>1. d.columns["trials"] \subseteq TrialColumns
      BY <2>3, DatabaseParts
    <3> QED
      BY <2>2, <3>1 DEF TrialColumns
  <2>8. new \in SUBSET ParentRows
    BY <2>1, <2>6
  <2>9. WithTrials(n, d, new, cols)
    <3>1. new = Renamed(d.rows["trials"], from, to)
      BY <2>1 DEF Renamed, M
    <3>2. n = [d EXCEPT !.rows["trials"] = Renamed(@, from, to), !.columns["trials"] = (@ \ {from}) \cup {to}]
      BY <1>2 DEF RenameColumn
    <3> QED
      BY <2>2, <3>1, <3>2 DEF WithTrials
  <2>10. \A row \in new : RowFits(row, cols)
    <3> SUFFICES ASSUME NEW row \in d.rows["trials"], NEW column \in TrialColumns \ cols
                 PROVE  M(row)[column] = Null
      BY <2>1 DEF RowFits
    <3>1. column = from \/ (column \in {"aside", "extra"} /\ column \notin d.columns["trials"])
      BY <2>2 DEF TrialColumns
    <3>2. column # from => row[column] = Null
      BY <2>3, <3>1 DEF TableFits
    <3> QED
      BY <2>6, <3>1, <3>2
  <2>11. {NewParent(row) : row \in new} = {NewParent(row) : row \in d.rows["trials"]}
    BY <2>1, <2>6
  <2>12. ("aside" \in cols) = ("aside" \in d.columns["trials"])
    BY <2>2
  <2> QED
    BY <2>4, <2>7, <2>8, <2>9, <2>10, <2>11, <2>12, TrialsWritten
<1> QED
  BY <1>1, <1>2

LEMMA ParentMadeCanonical ==
  ASSUME NEW d \in Databases, FitsSchema(d), NEW n, n = ParentCanonical(d)
  PROVE  /\ n \in Databases /\ FitsSchema(n) /\ SameContent(n, d) /\ ParentsOf(n, d)
         /\ n.tables = d.tables /\ n.keys = d.keys
         /\ n.rows["simulations"] = d.rows["simulations"] /\ n.columns["simulations"] = d.columns["simulations"]
         /\ "trials" \in d.tables => NewColumns(n)
         /\ "trials" \notin d.tables => n = d
<1>1. TableFits(d, "trials") /\ "trials" \in ParentTables
  BY DEF FitsSchema, ParentTables
<1>2. CASE "recruiter" \notin d.columns["trials"]
  <2>1. n = d
    BY <1>2 DEF ParentCanonical
  <2>2. "trials" \in d.tables => NewColumns(d)
    BY <1>1, <1>2 DEF TableFits, NewColumns
  <2> QED
    BY <2>1, <2>2 DEF SameContent, ParentsOf
<1>3. CASE "recruiter" \in d.columns["trials"]
  <2>1. PICK new : new = {NewParent(row) : row \in d.rows["trials"]}
    OBVIOUS
  <2>2. PICK cols : cols = (d.columns["trials"] \ {"recruiter"}) \cup {"partner"}
    OBVIOUS
  <2>3. "trials" \in d.tables
    BY <1>1, <1>3 DEF TableFits
  <2>4. ASSUME NEW row \in d.rows["trials"]
        PROVE  /\ NewParent(row) \in ParentRows /\ NewParent(row).recruiter = Null
               /\ NewParent(NewParent(row)) = NewParent(row)
               /\ NewParent(row).aside = row.aside /\ NewParent(row).extra = row.extra
    <3>1. row \in ParentRows
      BY <1>1, DatabaseParts
    <3> QED
      BY <3>1, ParentMoves, ParentSays
  <2>5. cols \in SUBSET TrialColumns /\ cols \cap {"recruiter", "partner"} = {"partner"}
    <3>1. d.columns["trials"] \subseteq TrialColumns
      BY <1>1, DatabaseParts
    <3> QED
      BY <2>2, <3>1 DEF TrialColumns
  <2>6. new \in SUBSET ParentRows
    BY <2>1, <2>4
  <2>7. WithTrials(n, d, new, cols)
    BY <1>3, <2>1, <2>2 DEF WithTrials, ParentCanonical, NewParent
  <2>8. \A row \in new : RowFits(row, cols)
    <3> SUFFICES ASSUME NEW row \in d.rows["trials"], NEW column \in TrialColumns \ cols
                 PROVE  NewParent(row)[column] = Null
      BY <2>1 DEF RowFits
    <3>1. column = "recruiter" \/ (column \in {"aside", "extra"} /\ column \notin d.columns["trials"])
      BY <2>2 DEF TrialColumns
    <3>2. column # "recruiter" => row[column] = Null
      BY <1>1, <3>1 DEF TableFits
    <3> QED
      BY <2>4, <3>1, <3>2
  <2>11. ("aside" \in cols) = ("aside" \in d.columns["trials"])
    BY <2>2
  <2>9. {NewParent(row) : row \in new} = {NewParent(row) : row \in d.rows["trials"]}
    BY <2>1, <2>4
  <2>10. /\ n \in Databases /\ FitsSchema(n) /\ SameContent(n, d) /\ ParentsOf(n, d)
         /\ n.tables = d.tables /\ n.keys = d.keys /\ n.columns["trials"] = cols
         /\ n.rows["simulations"] = d.rows["simulations"] /\ n.columns["simulations"] = d.columns["simulations"]
    BY <2>3, <2>5, <2>6, <2>7, <2>8, <2>9, <2>11, TrialsWritten
  <2> QED
    BY <2>3, <2>5, <2>10 DEF NewColumns
<1> QED
  BY <1>2, <1>3

(* A parent table with a new name. *)
LEMMA ParentMoved ==
  ASSUME NEW d \in Databases, FitsSchema(d), NEW from \in ParentTables, NEW to \in ParentTables, from # to,
         d.tables = {from}, NEW n, n = MoveParent(d, from, to)
  PROVE  /\ n \in Databases /\ FitsSchema(n) /\ SameContent(n, d) /\ ParentsOf(n, d)
         /\ n.tables = {to} /\ n.rows[to] = d.rows[from]
<1>1. PICK stored : stored = [d.rows EXCEPT ![to] = d.rows[from], ![from] = {}]
  OBVIOUS
<1>2. PICK columns : columns = [d.columns EXCEPT ![to] = d.columns[from], ![from] = {}]
  OBVIOUS
<1>3. PICK keys : keys = [c \in ChildTables |->
              {[key EXCEPT !.to = IF key.to = from THEN to ELSE key.to] : key \in d.keys[c]}]
  OBVIOUS
<1>4. /\ stored \in [ParentTables -> SUBSET ParentRows]
      /\ stored[to] = d.rows[from] /\ stored[from] = {}
  BY <1>1 DEF Databases
<1>5. /\ columns \in [ParentTables -> SUBSET TrialColumns]
      /\ columns[to] = d.columns[from] /\ columns[from] = {}
  BY <1>2 DEF Databases
<1>6. \A key \in ForeignKeys : LET k == [key EXCEPT !.to = IF key.to = from THEN to ELSE key.to]
                               IN k \in ForeignKeys /\ k.column = key.column
  BY DEF ForeignKeys
<1>7. /\ keys \in [ChildTables -> SUBSET ForeignKeys]
      /\ \A c \in ChildTables : \A key \in keys[c] : \E old \in d.keys[c] : key.column = old.column
  <2> DEFINE M(key) == [key EXCEPT !.to = IF key.to = from THEN to ELSE key.to]
  <2>1. \A c \in ChildTables : d.keys[c] \subseteq ForeignKeys
    BY DatabaseParts
  <2>2. \A key \in ForeignKeys : M(key) \in ForeignKeys /\ M(key).column = key.column
    BY <1>6
  <2>3. keys = [c \in ChildTables |-> {M(key) : key \in d.keys[c]}]
    BY <1>3
  <2> HIDE DEF M
  <2>4. \A c \in ChildTables : keys[c] = {M(key) : key \in d.keys[c]}
    BY <2>3
  <2>5. \A c \in ChildTables : {M(key) : key \in d.keys[c]} \in SUBSET ForeignKeys
    BY <2>1, <2>2
  <2>6. keys \in [ChildTables -> SUBSET ForeignKeys]
    BY <2>3, <2>5
  <2>7. ASSUME NEW c \in ChildTables, NEW key \in keys[c] PROVE \E old \in d.keys[c] : key.column = old.column
    BY <2>1, <2>2, <2>4
  <2> QED
    BY <2>6, <2>7
<1>8. n = [d EXCEPT !.tables = {to}, !.rows = stored, !.columns = columns, !.keys = keys]
  BY <1>1, <1>2, <1>3 DEF MoveParent
<1>9. /\ n \in Databases /\ n.tables = {to} /\ n.rows = stored /\ n.columns = columns /\ n.keys = keys
      /\ n.links = d.links /\ n.versions = d.versions /\ n.sessions = d.sessions
  <2>1. {to} \in SUBSET ParentTables
    OBVIOUS
  <2> QED
    BY <1>4, <1>5, <1>7, <1>8, <2>1 DEF Databases
<1>10. ParentsOf(n, d)
  BY <1>7, <1>9 DEF ParentsOf
<1>11. TableFits(d, from) /\ TableFits(d, to)
  BY DEF FitsSchema
<1>12. TableFits(n, to) /\ TableFits(n, from)
  BY <1>4, <1>5, <1>9, <1>11 DEF TableFits
<1>13. \A t \in ParentTables : t = from \/ t = to
  BY DEF ParentTables
<1>14. ParentContent(n) = ParentContent(d)
  <2>1. d.rows[to] = {}
    BY <1>11 DEF TableFits
  <2>2. d.rows["simulations"] \cup d.rows["trials"] = d.rows[from]
    BY <1>13, <2>1 DEF ParentTables
  <2>3. n.rows["simulations"] \cup n.rows["trials"] = d.rows[from]
    BY <1>4, <1>9, <1>13 DEF ParentTables
  <2> QED
    BY <2>2, <2>3 DEF ParentContent
<1>15. n.tables # {} /\ \A t \in ParentTables : TableFits(n, t)
  BY <1>9, <1>12, <1>13
<1>17. StandingContent(n) = StandingContent(d)
  <2>1. d.rows[to] = {} /\ n.rows[from] = {}
    BY <1>4, <1>9, <1>11 DEF TableFits
  <2>2. \A x : x.rows[from] = {} \/ x.rows[to] = {} => x.rows["simulations"] = {} \/ x.rows["trials"] = {}
    BY DEF ParentTables
  <2> QED
    BY <1>14, <2>1, <2>2, AllStand
<1>18. HasAside(n) = HasAside(d)
  <2>1. d.columns[to] = {}
    BY <1>11 DEF TableFits
  <2>2. d.columns["simulations"] \cup d.columns["trials"] = d.columns[from]
    BY <1>13, <2>1 DEF ParentTables
  <2>3. n.columns["simulations"] \cup n.columns["trials"] = d.columns[from]
    BY <1>5, <1>9, <1>13 DEF ParentTables
  <2> QED
    BY <2>2, <2>3 DEF HasAside
<1>16. FitsSchema(n) /\ SameContent(n, d)
  BY <1>10, <1>14, <1>15, <1>17, <1>18, ParentSaysTheSame
<1> QED
  BY <1>4, <1>9, <1>10, <1>16

(* What is only stored otherwise stays sound, and still says what it said. *)
LEMMA SoundAgain ==
  ASSUME NEW d, Sound(d), NEW n \in Databases, FitsSchema(n), SameContent(n, d)
  PROVE  Sound(n)
BY SaysTheSame DEF Sound

LEMMA StillSaid ==
  ASSUME NEW d, NEW n, NEW all, StillSays(d, all), SameContent(n, d), OneTable(d) => OneTable(n)
  PROVE  StillSays(n, all)
<1> SUFFICES ASSUME all # {}
             PROVE  \E u \in all : all = {u} /\ Finished(u) /\ SameContent(n, u) /\ OneTable(n)
  BY DEF StillSays
<1>1. PICK u \in all : all = {u} /\ Finished(u) /\ SameContent(d, u) /\ OneTable(d)
  BY DEF StillSays
<1>2. SameContent(n, u)
  BY <1>1, SameContentChained
<1> QED
  BY <1>1, <1>2

-----------------------------------------------------------------------------
(* SchemaUpgrades: the migrations up to the rebranding. *)

(* A migration runs, or raises and leaves the database alone. *)
LEMMA MigrationKeeps ==
  ASSUME SchemaInv, NEW from \in 0..3, NEW possible, NEW d, Migrate(from, possible, d),
         possible => Migrated(d, from + 1) /\ (unified # {} => StillSays(d, unified))
  PROVE  SchemaInv'
<1>1. /\ revision = from /\ unifying = "no" /\ UNCHANGED <<beforehand, unified>>
      /\ \/ possible /\ database' = d /\ revision' = from + 1 /\ unifying' = "no"
         \/ unifying' = "failed" /\ UNCHANGED <<database, revision>>
  BY DEF Migrate
<1>2. CASE unifying' = "failed" /\ UNCHANGED <<database, revision>>
  BY <1>1, <1>2 DEF SchemaInv, SchemaTypeOK
<1>3. CASE possible /\ database' = d /\ revision' = from + 1 /\ unifying' = "no"
  <2>1. revision' \in 0..5 /\ revision' < 5 /\ (revision >= 3 => revision' >= 3)
    BY <1>1, <1>3
  <2>2. Migrated(d, revision') /\ d \in Databases
    BY <1>3 DEF Migrated, Sound
  <2>3. StillSays(d, unified)
    BY <1>3 DEF StillSays
  <2>4. beforehand \in Databases /\ (unified # {} => revision >= 3)
    BY <1>1 DEF SchemaInv
  <2> QED
    BY <1>1, <1>3, <2>1, <2>2, <2>3, <2>4 DEF SchemaInv, SchemaTypeOK
<1> QED
  BY <1>1, <1>2, <1>3

(* What a migration finds. *)
LEMMA BeforeMigration ==
  ASSUME SchemaInv, NEW from \in 0..3, NEW possible, NEW d, Migrate(from, possible, d)
  PROVE  /\ Migrated(database, from) /\ StillSays(database, unified)
         /\ from < 3 => unified = {}
BY DEF SchemaInv, Migrate

LEMMA DedupeKeeps == ASSUME SchemaInv, DedupeSessions PROVE SchemaInv'
<1> DEFINE d == database
           Twin(s) == CHOOSE t \in Twins(d, s) : t # s
           Sum(s) == IF \E t \in Twins(d, s) : t # s
                     THEN s.submissions + Twin(s).submissions ELSE s.submissions
           Has(s) == \E t \in Twins(d, s) : t.profile
           WholeRow(s) == [s EXCEPT !.submissions = Sum(s), !.profile = Has(s)]
           possible == \A s \in d.sessions : Cardinality({t \in Twins(d, s) : t.profile}) <= 1
           all == {WholeRow(s) : s \in Kept(d)}
<1>1. PICK from \in 0..3 : from = 0
  OBVIOUS
<1>2. PICK n : n = [d EXCEPT !.sessions = all]
  OBVIOUS
<1>3. PICK can : can = possible
  OBVIOUS
<1>4. Migrate(from, can, n)
  BY <1>1, <1>2, <1>3 DEF DedupeSessions
<1>5. Migrated(d, from) /\ unified = {}
  BY <1>1, <1>4, BeforeMigration
<1>6. /\ d \in Databases /\ FitsSchema(d) /\ OwnVersions(d)
      /\ "simulations" \in d.tables /\ \A s \in d.sessions : Owner(s) \in Ids(d, "simulations")
  BY <1>1, <1>5 DEF Migrated, Sound, OfOldTrials
<1>7. \A s \in d.sessions : Sum(s) \in Nat /\ Has(s) \in BOOLEAN
  <2> SUFFICES ASSUME NEW s \in d.sessions PROVE Sum(s) \in Nat
    OBVIOUS
  <2>1. s \in SessionLinks /\ \A t \in Twins(d, s) : t \in SessionLinks
    BY <1>6, DatabaseParts DEF Twins
  <2>2. s.submissions \in Nat /\ \A t \in Twins(d, s) : t.submissions \in Nat
    BY <2>1 DEF SessionLinks
  <2>3. CASE \E t \in Twins(d, s) : t # s
    <3>1. Twin(s) \in Twins(d, s)
      BY <2>3
    <3> QED
      BY <2>2, <2>3, <3>1
  <2>4. CASE ~\E t \in Twins(d, s) : t # s
    BY <2>2, <2>4
  <2> QED
    BY <2>3, <2>4
<1> HIDE DEF Sum, Has, possible
<1>8. \A s \in d.sessions : /\ WholeRow(s) \in SessionLinks
                            /\ WholeRow(s).trial = s.trial /\ WholeRow(s).simulation = s.simulation
                            /\ WholeRow(s).version = s.version
  <2>1. \A s \in d.sessions : s \in SessionLinks
    BY <1>6, DatabaseParts
  <2> QED
    BY <1>7, <2>1 DEF SessionLinks
<1> HIDE DEF WholeRow
<1>9. all \in SUBSET SessionLinks
  BY <1>8 DEF Kept
<1>10. \A s \in all : \E t \in d.sessions :
        s.trial = t.trial /\ s.simulation = t.simulation /\ s.version = t.version
  BY <1>8 DEF Kept
<1> HIDE DEF all
<1>11. /\ n \in Databases /\ n.sessions = all /\ n.versions = d.versions /\ n.rows = d.rows /\ n.tables = d.tables
       /\ n.columns = d.columns /\ n.links = d.links /\ n.keys = d.keys
  BY <1>6, <1>9, <1>2 DEF Databases
<1>12. FitsSchema(n)
  <2>1. \A t \in ParentTables : TableFits(n, t)
    BY <1>6, <1>11 DEF FitsSchema, TableFits
  <2>2. ChildFits(d, "versions") /\ ChildFits(d, "sessions")
    BY <1>6 DEF FitsSchema, ChildTables
  <2>3. ChildFits(n, "versions")
    BY <1>11, <2>2 DEF ChildFits, Rows
  <2>4. ChildFits(n, "sessions")
    <3>1. \A s \in d.sessions, column \in ParentColumns \ d.links["sessions"] : s[column] = Null
      BY <2>2 DEF ChildFits, Rows
    <3>2. \A s \in all, column \in ParentColumns \ d.links["sessions"] : s[column] = Null
      BY <1>10, <3>1 DEF ParentColumns
    <3> QED
      BY <1>11, <2>2, <3>2 DEF ChildFits, Rows
  <2> QED
    BY <1>6, <1>11, <2>1, <2>3, <2>4 DEF FitsSchema, ChildTables
<1>13. OwnVersions(n)
  <2>1. Links(n, "versions") = Links(d, "versions")
    BY <1>11 DEF Links, Rows
  <2>2. \A s \in all : s.version # Null => <<s.version, Owner(s)>> \in Links(d, "versions")
    BY <1>6, <1>10 DEF OwnVersions, Owner
  <2> QED
    BY <1>6, <1>11, <2>1, <2>2 DEF OwnVersions
<1>14. OfOldTrials(n)
  BY <1>6, <1>10, <1>11 DEF OfOldTrials, Ids, Owner
<1>15. Migrated(n, from + 1)
  BY <1>1, <1>11, <1>12, <1>13, <1>14 DEF Migrated, Sound
<1> QED
  BY <1>4, <1>5, <1>15, MigrationKeeps

(* One parent table, of the two, when the database is not split. *)
LEMMA OneParent ==
  ASSUME NEW d \in Databases, d.tables # {}, ~Split(d)
  PROVE  ParentOf(d) \in ParentTables /\ d.tables = {ParentOf(d)}
<1>1. d.tables \subseteq ParentTables /\ d.tables # ParentTables
  BY DatabaseParts DEF Split
<1>2. ParentOf(d) \in d.tables
  BY DEF ParentOf
<1> QED
  BY <1>1, <1>2 DEF ParentTables

(* The one parent table, the versions and the sessions, with versions that *)
(* were missing.                                                           *)
WithVersions(n, d, t, versions, stored, sessions) ==
  n = [d EXCEPT !.versions = versions, !.rows[t] = stored, !.sessions = sessions]
SameTrial(r, row) ==
  /\ r \in ParentRows /\ r.id = row.id /\ r.body = row.body /\ r.over = row.over
  /\ r.recruiter = row.recruiter /\ r.partner = row.partner /\ r.aside = row.aside /\ r.extra = row.extra
SameSession(s, old) ==
  s \in SessionLinks /\ s.id = old.id /\ s.trial = old.trial /\ s.simulation = old.simulation

(* What they may be. *)
Completes(d, t, versions, stored, sessions) ==
  /\ versions \in SUBSET VersionLinks /\ \A v \in versions : v \in d.versions \/ v.simulation = Null
  /\ \A r \in stored : \E row \in d.rows[t] : SameTrial(r, row)
  /\ \A s \in sessions : \E old \in d.sessions : SameSession(s, old)

LEMMA VersionsWritten ==
  ASSUME NEW d \in Databases, FitsSchema(d), NEW t \in ParentTables, d.tables = {t},
         "trial" \in d.links["versions"],
         NEW versions, NEW stored, NEW sessions, Completes(d, t, versions, stored, sessions),
         NEW n, WithVersions(n, d, t, versions, stored, sessions)
  PROVE  /\ n \in Databases /\ FitsSchema(n)
         /\ n.tables = d.tables /\ n.columns = d.columns /\ n.links = d.links /\ n.keys = d.keys
         /\ n.versions = versions /\ n.sessions = sessions /\ n.rows[t] = stored
         /\ \A b \in ParentTables \ {t} : n.rows[b] = {}
<1>1. /\ versions \in SUBSET VersionLinks /\ \A v \in versions : v \in d.versions \/ v.simulation = Null
      /\ \A r \in stored : \E row \in d.rows[t] : SameTrial(r, row)
      /\ \A s \in sessions : \E old \in d.sessions : SameSession(s, old)
  BY DEF Completes
<1>2. stored \in SUBSET ParentRows /\ sessions \in SUBSET SessionLinks
  BY <1>1 DEF SameTrial, SameSession
<1>3. PICK r \in [ParentTables -> SUBSET ParentRows] : r = [d.rows EXCEPT ![t] = stored]
  BY <1>2 DEF Databases
<1>4. n = [d EXCEPT !.versions = versions, !.rows = r, !.sessions = sessions]
  BY <1>3 DEF WithVersions
<1>5. /\ n \in Databases
      /\ n.tables = d.tables /\ n.columns = d.columns /\ n.links = d.links /\ n.keys = d.keys
      /\ n.versions = versions /\ n.sessions = sessions /\ n.rows = r
  BY <1>1, <1>2, <1>4 DEF Databases
<1>6. r[t] = stored /\ \A b \in ParentTables \ {t} : r[b] = d.rows[b]
  BY <1>3 DEF Databases
<1>7. \A b \in ParentTables : TableFits(d, b)
  BY DEF FitsSchema
<1>8. \A b \in ParentTables \ {t} : n.rows[b] = {}
  BY <1>5, <1>6, <1>7 DEF TableFits
<1>9. TableFits(n, t)
  <2>1. TableFits(d, t)
    BY <1>7
  <2>2. \A x \in stored, column \in TrialColumns \ d.columns[t] : x[column] = Null
    BY <1>1, <2>1 DEF TableFits, SameTrial, TrialColumns
  <2> QED
    BY <1>5, <1>6, <2>1, <2>2 DEF TableFits
<1>10. \A b \in ParentTables : TableFits(n, b)
  BY <1>5, <1>7, <1>8, <1>9 DEF TableFits
<1>11. ChildFits(d, "versions") /\ ChildFits(d, "sessions")
  BY DEF FitsSchema, ChildTables
<1>12. ChildFits(n, "versions")
  <2>1. \A v \in versions, column \in ParentColumns \ d.links["versions"] : v[column] = Null
    BY <1>1, <1>11 DEF ChildFits, ParentColumns, Rows
  <2> QED
    BY <1>5, <1>11, <2>1 DEF ChildFits, Rows
<1>13. ChildFits(n, "sessions")
  <2>1. \A s \in d.sessions, column \in ParentColumns \ d.links["sessions"] : s[column] = Null
    BY <1>11 DEF ChildFits, Rows
  <2>2. \A s \in sessions, column \in ParentColumns \ d.links["sessions"] : s[column] = Null
    BY <1>1, <2>1 DEF ParentColumns, SameSession
  <2> QED
    BY <1>5, <1>11, <2>2 DEF ChildFits, Rows
<1>14. FitsSchema(n)
  BY <1>5, <1>10, <1>12, <1>13 DEF FitsSchema, ChildTables
<1> QED
  BY <1>5, <1>6, <1>8, <1>14

(* And each of them has its own version. *)
LEMMA VersionsOwned ==
  ASSUME NEW n, NEW t \in ParentTables, \A b \in ParentTables \ {t} : n.rows[b] = {},
         \A row \in n.rows[t] : row.active # Null => <<row.active, row.id>> \in Links(n, "versions"),
         \A s \in n.sessions : s.version # Null => <<s.version, Owner(s)>> \in Links(n, "versions")
  PROVE  OwnVersions(n)
BY DEF OwnVersions

LEMMA CreateKeeps == ASSUME SchemaInv, CreateVersions PROVE SchemaInv'
<1>1. PICK from \in 0..3 : from = 1
  OBVIOUS
<1>2. PICK d : d = database
  OBVIOUS
<1>3. PICK possible : possible = (~Split(d) /\ d.links["versions"] = {})
  OBVIOUS
<1>4. PICK c : c = Created(d)
  OBVIOUS
<1>5. PICK n : n = Backfilled(c)
  OBVIOUS
<1>6. Migrate(from, possible, n)
  BY <1>1, <1>2, <1>3, <1>4, <1>5 DEF CreateVersions
<1>7. Migrated(d, from) /\ unified = {}
  BY <1>1, <1>2, <1>6, BeforeMigration
<1>8. /\ d \in Databases /\ FitsSchema(d)
      /\ "simulations" \in d.tables /\ \A s \in d.sessions : Owner(s) \in Ids(d, "simulations")
  BY <1>1, <1>7 DEF Migrated, Sound, OfOldTrials
<1>9. ASSUME possible PROVE Migrated(n, from + 1)
  <2>1. ParentOf(d) = "simulations" /\ d.tables = {"simulations"}
    BY <1>3, <1>8, <1>9, OneParent
  <2>2. PICK t \in ParentTables : t = "simulations"
    BY DEF ParentTables
  <2>3. /\ c \in Databases /\ FitsSchema(c) /\ c.tables = {t} /\ c.rows = d.rows /\ c.sessions = d.sessions
        /\ c.links["versions"] = {"trial"}
    <3>1. "versions" \in ChildTables /\ "sessions" \in ChildTables
      BY DEF ChildTables
    <3>2. {[name |-> "other", column |-> "trial", to |-> ParentOf(d)]} \in SUBSET ForeignKeys
      BY <2>1 DEF ForeignKeys, ParentColumns, ParentTables
    <3>3. PICK l \in [ChildTables -> SUBSET ParentColumns] : l = [d.links EXCEPT !["versions"] = {"trial"}]
      BY <1>8, <3>1 DEF Databases, ParentColumns
    <3>4. PICK k \in [ChildTables -> SUBSET ForeignKeys] :
            k = [d.keys EXCEPT !["versions"] = {[name |-> "other", column |-> "trial", to |-> ParentOf(d)]}]
      BY <1>8, <3>1, <3>2 DEF Databases
    <3>5. c = [d EXCEPT !.links = l, !.keys = k]
      BY <1>4, <3>3, <3>4 DEF Created
    <3>6. /\ c \in Databases /\ c.tables = d.tables /\ c.rows = d.rows /\ c.columns = d.columns
          /\ c.sessions = d.sessions /\ c.versions = d.versions /\ c.links = l /\ c.keys = k
      BY <1>8, <3>5 DEF Databases
    <3>7. /\ l["versions"] = {"trial"} /\ l["sessions"] = d.links["sessions"]
          /\ k["sessions"] = d.keys["sessions"] /\ \A key \in k["versions"] : key.column = "trial"
      BY <1>8, <3>1, <3>3, <3>4 DEF Databases
    <3>8. \A b \in ParentTables : TableFits(c, b)
      BY <1>8, <3>6 DEF FitsSchema, TableFits
    <3>9. ChildFits(d, "versions") /\ ChildFits(d, "sessions")
      BY <1>8, <3>1 DEF FitsSchema
    <3>10. ChildFits(c, "versions")
      BY <1>3, <1>9, <3>6, <3>7, <3>9 DEF ChildFits, Rows
    <3>11. ChildFits(c, "sessions")
      BY <3>6, <3>7, <3>9 DEF ChildFits, Rows
    <3>12. FitsSchema(c)
      BY <1>8, <3>6, <3>7, <3>8, <3>10, <3>11 DEF FitsSchema, ChildTables
    <3> QED
      BY <2>1, <2>2, <3>6, <3>7, <3>12
  <2>4. ParentOf(c) = t
    BY <2>3 DEF ParentOf
  <2> DEFINE versions == {NewVersion(id) : id \in Ids(c, t)}
             new == {[row EXCEPT !.active = 10 + row.id] : row \in c.rows[t]}
             pinned == {[s EXCEPT !.version = 10 + Owner(s)] : s \in c.sessions}
  <2>5. /\ versions \in SUBSET VersionLinks
        /\ \A v \in versions : v.simulation = Null
        /\ \A id \in Ids(c, t) : \E v \in versions : v.id = 10 + id /\ Owner(v) = id
    <3>1. \A id \in Nat \ {Null} :
            /\ NewVersion(id) \in VersionLinks /\ NewVersion(id).simulation = Null
            /\ NewVersion(id).id = 10 + id /\ Owner(NewVersion(id)) = id
      BY DEF NewVersion, VersionLinks, Null, Owner, Coalesce
    <3>2. Ids(c, t) \subseteq Nat \ {Null}
      BY <2>3, DatabaseParts
    <3>3. versions \in SUBSET VersionLinks /\ \A v \in versions : v.simulation = Null
      BY <3>1, <3>2
    <3>4. ASSUME NEW id \in Ids(c, t) PROVE \E v \in versions : v.id = 10 + id /\ Owner(v) = id
      <4>1. NewVersion(id) \in versions
        OBVIOUS
      <4> HIDE DEF versions
      <4> QED
        BY <3>1, <3>2, <4>1
    <3> QED
      BY <3>3, <3>4
  <2>6. /\ \A r \in new : /\ \E row \in c.rows[t] : SameTrial(r, row)
                          /\ r.active = 10 + r.id /\ r.id \in Ids(c, t)
        /\ \A row \in c.rows[t] : \E r \in new : r.id = row.id
    <3>1. c.rows[t] \subseteq ParentRows
      BY <2>3, DatabaseParts
    <3> DEFINE M(row) == [row EXCEPT !.active = 10 + row.id]
    <3>2. \A row \in ParentRows : SameTrial(M(row), row) /\ M(row).active = 10 + row.id /\ M(row).id = row.id
      BY DEF ParentRows, SameTrial
    <3>3. \A row \in c.rows[t] : row.id \in Ids(c, t)
      BY DEF Ids
    <3>4. new = {M(row) : row \in c.rows[t]}
      OBVIOUS
    <3> HIDE DEF M, new
    <3>5. ASSUME NEW r \in new
          PROVE  (\E row \in c.rows[t] : SameTrial(r, row)) /\ r.active = 10 + r.id /\ r.id \in Ids(c, t)
      <4>1. PICK row \in c.rows[t] : r = M(row)
        BY <3>4
      <4> QED
        BY <3>1, <3>2, <3>3, <4>1
    <3>6. ASSUME NEW row \in c.rows[t] PROVE \E r \in new : r.id = row.id
      BY <3>1, <3>2, <3>4
    <3> QED
      BY <3>5, <3>6
  <2>7. \A s \in pinned : \E old \in c.sessions :
          SameSession(s, old) /\ s.version = 10 + Owner(s) /\ Owner(s) = Owner(old)
    <3>1. c.sessions \subseteq SessionLinks
      BY <2>3, DatabaseParts
    <3> DEFINE M(s) == [s EXCEPT !.version = 10 + Owner(s)]
    <3>2. \A old \in SessionLinks : SameSession(M(old), old) /\ M(old).version = 10 + Owner(old)
      <4>1. \A old \in SessionLinks : Owner(old) \in Nat
        BY DEF SessionLinks, Owner, Coalesce
      <4> QED
        BY <4>1 DEF SessionLinks, SameSession
    <3>3. \A s, old : SameSession(s, old) => Owner(s) = Owner(old)
      BY DEF SameSession, Owner
    <3>4. pinned = {M(s) : s \in c.sessions}
      OBVIOUS
    <3> HIDE DEF M, pinned
    <3> SUFFICES ASSUME NEW s \in pinned
                 PROVE  \E old \in c.sessions :
                          SameSession(s, old) /\ s.version = 10 + Owner(s) /\ Owner(s) = Owner(old)
      OBVIOUS
    <3>5. PICK old \in c.sessions : s = M(old)
      BY <3>4
    <3>6. SameSession(s, old) /\ s.version = 10 + Owner(old)
      BY <3>1, <3>2, <3>5
    <3> QED
      BY <3>3, <3>6
  <2>8. WithVersions(n, c, t, versions, new, pinned)
    <3>1. n = [c EXCEPT !.versions = versions,
                        !.rows[t] = {[row EXCEPT !.active = 10 + row.id] : row \in @},
                        !.sessions = {[s EXCEPT !.version = 10 + Owner(s)] : s \in @}]
      BY <1>5, <2>4 DEF Backfilled
    <3> HIDE DEF versions
    <3> QED
      BY <2>3, <3>1 DEF Databases, WithVersions
  <2> HIDE DEF versions, new, pinned
  <2>9. /\ n \in Databases /\ FitsSchema(n)
        /\ n.tables = c.tables /\ n.columns = c.columns /\ n.links = c.links /\ n.keys = c.keys
        /\ n.versions = versions /\ n.sessions = pinned /\ n.rows[t] = new
        /\ \A b \in ParentTables \ {t} : n.rows[b] = {}
    <3>1. Completes(c, t, versions, new, pinned)
      BY <2>5, <2>6, <2>7 DEF Completes
    <3>2. "trial" \in c.links["versions"]
      BY <2>3
    <3> QED
      BY <2>3, <2>8, <3>1, <3>2, VersionsWritten
  <2>10. \A s \in pinned : Owner(s) \in Ids(c, t) /\ s.version = 10 + Owner(s)
    BY <1>8, <2>2, <2>3, <2>7 DEF Ids
  <2>11. \A id \in Ids(c, t) : <<10 + id, id>> \in Links(n, "versions")
    BY <2>5, <2>9 DEF Links, Rows
  <2>12. OwnVersions(n)
    BY <2>6, <2>9, <2>10, <2>11, VersionsOwned
  <2>13. OfOldTrials(n)
    <3>1. \A id \in Ids(c, t) : id \in Ids(n, t)
      BY <2>6, <2>9 DEF Ids
    <3> QED
      BY <2>2, <2>3, <2>9, <2>10, <3>1 DEF OfOldTrials
  <2> QED
    BY <1>1, <2>3, <2>9, <2>12, <2>13 DEF Migrated, Sound
<1> QED
  BY <1>6, <1>7, <1>9, MigrationKeeps

(* Each trial has a version of index 1 among these, and those that are     *)
(* added are stored as newer code does.                                    *)
HaveFirsts(d, t, all) ==
  /\ all \in SUBSET VersionLinks /\ d.versions \subseteq all
  /\ \A v \in all : v \in d.versions \/ v.simulation = Null
  /\ \A id \in Ids(d, t) : \E v \in all : v.first /\ v.trial = id

(* They have, once the missing ones are there. *)
LEMMA FirstsThere ==
  ASSUME NEW d \in Databases, NEW t \in ParentTables,
         NEW missing, missing = {id \in Ids(d, t) : Firsts(d, id) = {}},
         NEW all, all = d.versions \cup {NewVersion(id) : id \in missing}
  PROVE  HaveFirsts(d, t, all)
<1>1. Ids(d, t) \subseteq Nat \ {Null} /\ d.versions \subseteq VersionLinks
  BY DatabaseParts
<1>2. \A id \in Nat \ {Null} : /\ NewVersion(id) \in VersionLinks /\ NewVersion(id).simulation = Null
                               /\ NewVersion(id).first /\ NewVersion(id).trial = id
  BY DEF NewVersion, VersionLinks, Null
<1>3. all \in SUBSET VersionLinks /\ \A v \in all : v \in d.versions \/ v.simulation = Null
  BY <1>1, <1>2
<1>4. ASSUME NEW id \in Ids(d, t) PROVE \E v \in all : v.first /\ v.trial = id
  <2>1. CASE Firsts(d, id) = {}
    BY <1>1, <1>2, <2>1
  <2>2. CASE Firsts(d, id) # {}
    BY <2>2 DEF Firsts
  <2> QED
    BY <2>1, <2>2
<1> QED
  BY <1>3, <1>4 DEF HaveFirsts

(* The one that is chosen is the trial's own. *)
FirstAmong(all, id) == (CHOOSE v \in all : v.first /\ v.trial = id).id
LEMMA FirstIsOwn ==
  ASSUME NEW d \in Databases, NEW t \in ParentTables, NEW all, HaveFirsts(d, t, all), NEW id \in Ids(d, t)
  PROVE  /\ FirstAmong(all, id) \in Nat \ {Null}
         /\ <<FirstAmong(all, id), id>> \in {<<v.id, Owner(v)>> : v \in all}
<1>1. PICK v : v = CHOOSE x \in all : x.first /\ x.trial = id
  OBVIOUS
<1>2. v \in all /\ v.trial = id
  BY <1>1 DEF HaveFirsts
<1>3. id # Null /\ v \in VersionLinks
  BY <1>2, DatabaseParts DEF HaveFirsts
<1>4. FirstAmong(all, id) = v.id
  BY <1>1 DEF FirstAmong
<1>5. v.id \in Nat \ {Null} /\ Owner(v) = id
  BY <1>2, <1>3 DEF VersionLinks, Owner, Coalesce
<1> QED
  BY <1>2, <1>4, <1>5

LEMMA ReconcileKeeps == ASSUME SchemaInv, ReconcileSchema PROVE SchemaInv'
<1>1. PICK from \in 0..3 : from = 2
  OBVIOUS
<1>2. PICK d : d = database
  OBVIOUS
<1>3. PICK possible : possible = ~Split(d)
  OBVIOUS
<1>4. PICK n : n = Completed(d)
  OBVIOUS
<1>5. Migrate(from, possible, n)
  BY <1>1, <1>2, <1>3, <1>4 DEF ReconcileSchema
<1>6. Migrated(d, from) /\ unified = {}
  BY <1>1, <1>2, <1>5, BeforeMigration
<1>7. /\ d \in Databases /\ FitsSchema(d) /\ OwnVersions(d) /\ "trial" \in d.links["versions"]
      /\ "simulations" \in d.tables /\ \A s \in d.sessions : Owner(s) \in Ids(d, "simulations")
  BY <1>1, <1>6 DEF Migrated, Sound, OfOldTrials
<1>8. ASSUME possible PROVE Migrated(n, from + 1)
  <2>1. PICK t \in ParentTables : t = "simulations"
    BY DEF ParentTables
  <2>2. ParentOf(d) = t /\ d.tables = {t}
    BY <1>3, <1>7, <1>8, <2>1, OneParent
  <2>3. PICK missing : missing = {id \in Ids(d, t) : Firsts(d, id) = {}}
    OBVIOUS
  <2>4. PICK versions : versions = d.versions \cup {NewVersion(id) : id \in missing}
    OBVIOUS
  <2>5. HaveFirsts(d, t, versions)
    BY <1>7, <2>3, <2>4, FirstsThere
  <2> DEFINE M(row) == [row EXCEPT !.active = Coalesce(row.active, FirstAmong(versions, row.id))]
             new == {M(row) : row \in d.rows[t]}
             Active(id) == (CHOOSE row \in new : row.id = id).active
             P(s) == [s EXCEPT !.version = Coalesce(s.version, Active(Owner(s)))]
             pinned == {P(s) : s \in d.sessions}
             owned == {<<v.id, Owner(v)>> : v \in versions}
  <2>6. WithVersions(n, d, t, versions, new, pinned)
    <3>1. n = [d EXCEPT !.versions = versions, !.rows[t] = new, !.sessions = {P(s) : s \in @}]
      BY <1>4, <2>2, <2>3, <2>4 DEF Completed, FirstAmong
    <3> HIDE DEF new, P
    <3> QED
      BY <1>7, <3>1 DEF Databases, WithVersions
  <2>7. \A x \in Links(d, "versions") : x \in owned
    BY <2>5 DEF Links, Rows, HaveFirsts
  <2> HIDE DEF owned
  <2>8. ASSUME NEW row \in d.rows[t]
        PROVE  SameTrial(M(row), row) /\ <<M(row).active, M(row).id>> \in owned
    <3>1. row \in ParentRows /\ row.id \in Ids(d, t)
      BY <1>7, DatabaseParts DEF Ids
    <3>2. PICK first : first = FirstAmong(versions, row.id)
      OBVIOUS
    <3>3. first \in Nat /\ <<first, row.id>> \in owned
      BY <1>7, <2>5, <3>1, <3>2, FirstIsOwn DEF owned
    <3>4. row.active \in Nat /\ (row.active # Null => <<row.active, row.id>> \in owned)
      BY <1>7, <2>7, <3>1 DEF OwnVersions, ParentRows
    <3>5. PICK a : a = Coalesce(row.active, first)
      OBVIOUS
    <3>6. a \in Nat /\ <<a, row.id>> \in owned
      BY <3>3, <3>4, <3>5 DEF Coalesce
    <3>7. M(row) = [row EXCEPT !.active = a]
      BY <3>2, <3>5
    <3>8. SameTrial(M(row), row) /\ M(row).active = a /\ M(row).id = row.id
      BY <3>1, <3>6, <3>7 DEF SameTrial, ParentRows
    <3> QED
      BY <3>6, <3>8
  <2> HIDE DEF M
  <2>9. /\ \A r \in new : \E row \in d.rows[t] : SameTrial(r, row)
        /\ \A r \in new : <<r.active, r.id>> \in owned /\ r \in ParentRows
        /\ \A id \in Ids(d, t) : \E r \in new : r.id = id
    <3>1. \A id \in Ids(d, t) : \E row \in d.rows[t] : row.id = id
      BY DEF Ids
    <3>2. new = {M(row) : row \in d.rows[t]}
      OBVIOUS
    <3> HIDE DEF new
    <3>3. ASSUME NEW r \in new
          PROVE  (\E row \in d.rows[t] : SameTrial(r, row)) /\ <<r.active, r.id>> \in owned /\ r \in ParentRows
      <4>1. PICK row \in d.rows[t] : r = M(row)
        BY <3>2
      <4>2. SameTrial(r, row) /\ <<r.active, r.id>> \in owned
        BY <2>8, <4>1
      <4> QED
        BY <4>2 DEF SameTrial
    <3>4. ASSUME NEW id \in Ids(d, t) PROVE \E r \in new : r.id = id
      <4>1. PICK row \in d.rows[t] : row.id = id
        BY <3>1
      <4>2. M(row) \in new
        BY <3>2
      <4>3. M(row).id = id
        BY <2>8, <4>1 DEF SameTrial
      <4> QED
        BY <4>2, <4>3
    <3> QED
      BY <3>3, <3>4
  <2> HIDE DEF new
  <2>10. \A id \in Ids(d, t) : Active(id) \in Nat /\ <<Active(id), id>> \in owned
    <3> SUFFICES ASSUME NEW id \in Ids(d, t) PROVE Active(id) \in Nat /\ <<Active(id), id>> \in owned
      OBVIOUS
    <3>1. PICK r : r = CHOOSE row \in new : row.id = id
      OBVIOUS
    <3>2. r \in new /\ r.id = id
      BY <2>9, <3>1
    <3> QED
      BY <2>9, <3>1, <3>2 DEF ParentRows
  <2> HIDE DEF Active
  <2>11. ASSUME NEW s \in d.sessions
         PROVE  SameSession(P(s), s) /\ <<P(s).version, Owner(P(s))>> \in owned
    <3>1. s \in SessionLinks /\ Owner(s) \in Ids(d, t)
      BY <1>7, <2>1, DatabaseParts
    <3>2. PICK active : active = Active(Owner(s))
      OBVIOUS
    <3>3. active \in Nat /\ <<active, Owner(s)>> \in owned
      BY <2>10, <3>1, <3>2
    <3>4. s.version \in Nat /\ (s.version # Null => <<s.version, Owner(s)>> \in owned)
      BY <1>7, <2>7, <3>1 DEF OwnVersions, SessionLinks
    <3>5. PICK a : a = Coalesce(s.version, active)
      OBVIOUS
    <3>6. a \in Nat /\ <<a, Owner(s)>> \in owned
      BY <3>3, <3>4, <3>5 DEF Coalesce
    <3>7. P(s) = [s EXCEPT !.version = a]
      BY <3>2, <3>5
    <3>8. SameSession(P(s), s) /\ P(s).version = a
      BY <3>1, <3>6, <3>7 DEF SameSession, SessionLinks
    <3>9. Owner(P(s)) = Owner(s)
      BY <3>8 DEF SameSession, Owner
    <3> QED
      BY <3>6, <3>8, <3>9
  <2> HIDE DEF P
  <2>12. /\ \A s \in pinned : \E old \in d.sessions : SameSession(s, old)
         /\ \A s \in pinned : <<s.version, Owner(s)>> \in owned
    <3>1. pinned = {P(s) : s \in d.sessions}
      OBVIOUS
    <3> HIDE DEF pinned
    <3> SUFFICES ASSUME NEW s \in pinned
                 PROVE  (\E old \in d.sessions : SameSession(s, old)) /\ <<s.version, Owner(s)>> \in owned
      OBVIOUS
    <3>2. PICK old \in d.sessions : s = P(old)
      BY <3>1
    <3> QED
      BY <2>11, <3>2
  <2> HIDE DEF pinned
  <2>13. /\ n \in Databases /\ FitsSchema(n)
         /\ n.tables = d.tables /\ n.columns = d.columns /\ n.links = d.links /\ n.keys = d.keys
         /\ n.versions = versions /\ n.sessions = pinned /\ n.rows[t] = new
         /\ \A b \in ParentTables \ {t} : n.rows[b] = {}
    <3>1. Completes(d, t, versions, new, pinned)
      BY <2>5, <2>9, <2>12 DEF Completes, HaveFirsts
    <3>2. d \in Databases /\ FitsSchema(d) /\ d.tables = {t} /\ "trial" \in d.links["versions"]
      BY <1>7, <2>2
    <3> QED
      BY <2>6, <3>1, <3>2, VersionsWritten
  <2>14. Links(n, "versions") = owned
    BY <2>13 DEF Links, Rows, owned
  <2>15. OwnVersions(n)
    BY <2>9, <2>12, <2>13, <2>14, VersionsOwned
  <2> QED
    BY <1>1, <1>7, <2>13, <2>15 DEF Migrated, Sound
<1> QED
  BY <1>5, <1>6, <1>8, MigrationKeeps

LEMMA RebrandKeeps == ASSUME SchemaInv, RebrandSchema PROVE SchemaInv'
<1>1. PICK from \in 0..3 : from = 3
  OBVIOUS
<1>2. PICK possible : possible = TRUE
  OBVIOUS
<1>3. PICK d : d = database
  OBVIOUS
<1>4. PICK old \in ParentTables : old = "simulations"
  BY DEF ParentTables
<1>5. PICK new \in ParentTables : new = "trials"
  BY DEF ParentTables
<1>6. PICK m : m = IF d.tables = {"simulations"} THEN MoveParent(d, "simulations", "trials") ELSE d
  OBVIOUS
<1>7. PICK r : r = RenameColumn(m, "trials", "recruiter", "partner")
  OBVIOUS
<1>8. PICK c \in ChildTables : c = "sessions"
  BY DEF ChildTables
<1>9. PICK n : n = RenameLink(r, c, "simulation", "trial")
  OBVIOUS
<1>10. Migrate(from, possible, n)
  BY <1>1, <1>2, <1>3, <1>6, <1>7, <1>8, <1>9 DEF RebrandSchema, Rebranded
<1>11. Migrated(d, from) /\ StillSays(d, unified)
  BY <1>3, <1>10, BeforeMigration
<1>12. Sound(d) /\ d \in Databases /\ FitsSchema(d) /\ d.links["versions"] # {}
  BY <1>1, <1>11 DEF Migrated, Sound
<1>13. /\ m \in Databases /\ FitsSchema(m) /\ SameContent(m, d) /\ m.links = d.links
       /\ OneTable(d) => OneTable(m)
  <2>1. CASE d.tables = {old}
    <3>1. m = MoveParent(d, old, new) /\ old # new
      BY <1>4, <1>5, <1>6, <2>1
    <3>2. /\ m \in Databases /\ FitsSchema(m) /\ SameContent(m, d) /\ ParentsOf(m, d)
          /\ m.tables = {new}
      BY <1>12, <2>1, <3>1, ParentMoved
    <3> QED
      BY <3>2 DEF OneTable, ParentsOf
  <2>2. CASE d.tables # {old}
    BY <1>4, <1>6, <1>12, <2>2 DEF SameContent
  <2> QED
    BY <2>1, <2>2
<1>14. /\ r \in Databases /\ FitsSchema(r) /\ SameContent(r, m) /\ ParentsOf(r, m)
       /\ r.tables = m.tables
  BY <1>7, <1>13, ColumnRenamed
<1>15. n \in Databases /\ FitsSchema(n) /\ SameContent(n, r) /\ ChildOf(n, r, c)
  BY <1>9, <1>14, LinkRenamed
<1>16. SameContent(n, d)
  BY <1>13, <1>14, <1>15, SameContentChained
<1>17. Sound(n)
  BY <1>12, <1>15, <1>16, SoundAgain
<1>18. n.links["versions"] = d.links["versions"] /\ n.tables = m.tables
  BY <1>8, <1>13, <1>14, <1>15 DEF ChildOf, ParentsOf, ChildTables
<1>19. StillSays(n, unified)
  <2>1. OneTable(d) => OneTable(n)
    BY <1>13, <1>18 DEF OneTable
  <2> QED
    BY <1>11, <1>16, <2>1, StillSaid
<1>20. Migrated(n, from + 1)
  BY <1>1, <1>12, <1>17, <1>18 DEF Migrated
<1> QED
  BY <1>10, <1>19, <1>20, MigrationKeeps

-----------------------------------------------------------------------------
(* SchemaUpgrades: the unification. *)

(* A step of it is taken, or everything is put back. *)
LEMMA UnifyKeeps ==
  ASSUME SchemaInv, NEW at, NEW possible, NEW d,
         NEW step \in {"children", "uniques", "keys", "drop", "backfill"},
         at # "no" /\ at # "failed", Unify(at, possible, d, step),
         possible => Sound(d) /\ d.links["versions"] # {} /\ AtStep(d, beforehand, step) /\ StillSays(d, unified)
  PROVE  SchemaInv'
<1>1. /\ unifying = at /\ UNCHANGED <<revision, beforehand, unified>>
      /\ \/ possible /\ database' = d /\ unifying' = step
         \/ database' = beforehand /\ unifying' = "failed"
  BY DEF Unify
<1>2. revision = 4 /\ beforehand \in Databases
  BY <1>1 DEF SchemaInv
<1>3. CASE database' = beforehand /\ unifying' = "failed"
  BY <1>1, <1>2, <1>3 DEF SchemaInv, SchemaTypeOK
<1>4. CASE possible /\ database' = d /\ unifying' = step
  <2>1. Migrated(d, 4) /\ d \in Databases
    BY <1>4 DEF Migrated, Sound
  <2> QED
    BY <1>1, <1>2, <1>4, <2>1 DEF SchemaInv, SchemaTypeOK
<1> QED
  BY <1>1, <1>3, <1>4

(* What a step finds. *)
LEMMA BeforeStep ==
  ASSUME SchemaInv, NEW at, NEW possible, NEW d, NEW step,
         at # "no" /\ at # "failed", Unify(at, possible, d, step)
  PROVE  /\ Sound(database) /\ database \in Databases /\ FitsSchema(database) /\ OwnVersions(database)
         /\ database.links["versions"] # {} /\ database.links["sessions"] # {}
         /\ beforehand \in Databases
         /\ AtStep(database, beforehand, at) /\ StillSays(database, unified)
<1>1. unifying = at
  BY DEF Unify
<1>2. /\ Migrated(database, 4) /\ beforehand \in Databases
      /\ AtStep(database, beforehand, at) /\ StillSays(database, unified)
  BY <1>1 DEF SchemaInv
<1> QED
  BY <1>2 DEF Migrated, Sound, FitsSchema

LEMMA UnificationBegins == ASSUME SchemaInv, BeginUnification PROVE SchemaInv'
<1>1. /\ revision = 4 /\ unifying = "no" /\ unifying' = "parents" /\ beforehand' = database
      /\ UNCHANGED <<database, revision, unified>>
  BY DEF BeginUnification
<1>2. Migrated(database, 4) /\ database \in Databases
  BY <1>1 DEF SchemaInv, Migrated, Sound
<1>3. AtStep(database, database, "parents")
  BY DEF AtStep, KeptSoFar
<1> QED
  BY <1>1, <1>2, <1>3 DEF SchemaInv, SchemaTypeOK

(* What was kept is kept where the same is said. *)
LEMMA KeptOn ==
  ASSUME NEW n \in Databases, NEW d \in Databases, SameContent(n, d), NEW before, KeptSoFar(before, d)
  PROVE  KeptSoFar(before, n)
BY SaysTheSame DEF KeptSoFar

(* The old table is there beside a canonical new one, or is not there. *)
LEMMA OldTableGone ==
  ASSUME NEW d, FitsSchema(d), "simulations" \notin d.tables
  PROVE  d.rows["simulations"] = {} /\ AllMoved(d)
<1>1. TableFits(d, "simulations")
  BY DEF FitsSchema, ParentTables
<1> QED
  BY <1>1 DEF TableFits, AllMoved

(* Both tables have rows, and they do not diverge. *)
LEMMA BothHaveAll ==
  ASSUME NEW d \in Databases, FitsSchema(d), NewColumns(d), Split(d), ~Diverges(d),
         d.rows["trials"] # {}
  PROVE  AllMoved(d)
<1> SUFFICES ASSUME NEW row \in d.rows["simulations"]
             PROVE  \E kept \in d.rows["trials"] : Facts(kept) = Facts(row)
  BY DEF AllMoved
<1>1. Ids(d, "simulations") = Ids(d, "trials")
  BY DEF Diverges
<1>2. row.id \in Ids(d, "trials")
  BY <1>1 DEF Ids
<1>3. PICK kept \in d.rows["trials"] : kept.id = row.id
  BY <1>2 DEF Ids
<1>4. "partner" \in d.columns["trials"] /\ "recruiter" \notin d.columns["trials"]
  BY DEF NewColumns
<1>5. TableFits(d, "simulations") /\ TableFits(d, "trials") /\ "simulations" \in d.tables
  BY DEF FitsSchema, Split, ParentTables
<1>6. d.columns["simulations"] \cap {"recruiter", "partner"} # {} /\ kept.recruiter = Null
  BY <1>4, <1>5 DEF TableFits, TrialColumns
<1>7. /\ <<row.body, row.active, row.over>> = <<kept.body, kept.active, kept.over>>
      /\ Coalesce(row.partner, row.recruiter) = kept.partner
  BY <1>3, <1>4, <1>6 DEF Diverges
<1>8. Coalesce(kept.partner, kept.recruiter) = kept.partner
  BY <1>6 DEF Coalesce
<1>9. row.body = kept.body /\ row.over = kept.over
  BY <1>7
<1> QED
  BY <1>3, <1>7, <1>8, <1>9 DEF Facts

(* The version of index 1 that is derived for a trial is its own. *)
LEMMA DerivedIsOwn ==
  ASSUME NEW d \in Databases, NEW row \in d.rows["simulations"], NeedsVersion(row), Derivable(d),
         NEW first, first = (CHOOSE v \in FirstOf(d, row.id) : TRUE)
  PROVE  first \in Nat /\ <<first, row.id>> \in Links(d, "versions")
<1>1. Cardinality(FirstOf(d, row.id)) = 1 /\ \A v \in d.versions : ~Conflict(v.trial, v.simulation)
  BY DEF Derivable
<1>2. FirstOf(d, row.id) # {}
  <2>1. Cardinality({}) = 0
    BY FS_EmptySet
  <2> QED
    BY <1>1, <2>1
<1>3. first \in FirstOf(d, row.id)
  BY <1>2
<1>4. PICK v \in d.versions : first = v.id /\ (row.id = v.trial \/ row.id = v.simulation)
  BY <1>3 DEF FirstOf
<1>5. v \in VersionLinks /\ row \in ParentRows
  BY DatabaseParts DEF ParentTables
<1>6. row.id # Null /\ v.id \in Nat
  BY <1>5 DEF ParentRows, VersionLinks
<1>7. ~Conflict(v.trial, v.simulation)
  BY <1>1
<1>8. Owner(v) = row.id
  BY <1>4, <1>6, <1>7 DEF Conflict, Owner, Coalesce
<1>9. v \in Rows(d, "versions")
  BY DEF Rows
<1> QED
  BY <1>4, <1>6, <1>8, <1>9 DEF Links

(* An empty new table has all the trials once they are merged into it. *)
LEMMA MergedIsAll ==
  ASSUME NEW d \in Databases, FitsSchema(d), OwnVersions(d), NewColumns(d), Derivable(d),
         ~UnknownData(d), d.rows["trials"] = {}, NEW n, n = Merged(d)
  PROVE  /\ n \in Databases /\ FitsSchema(n) /\ OwnVersions(n) /\ NewColumns(n) /\ AllMoved(n)
         /\ n.links = d.links /\ KeptSoFar(d, n)
<1> DEFINE First(row) == CHOOSE v \in FirstOf(d, row.id) : TRUE
           Active(row) == IF NeedsVersion(row) THEN First(row) ELSE row.active
           M(row) == [row EXCEPT !.partner = Coalesce(row.partner, row.recruiter), !.recruiter = Null,
                                 !.active = Active(row)]
<1>1. PICK new : new = {M(row) : row \in d.rows["simulations"]}
  OBVIOUS
<1>2. PICK cols : cols = d.columns["trials"]
  OBVIOUS
<1>3. "trials" \in d.tables /\ "partner" \in cols /\ "recruiter" \notin cols
  BY <1>2 DEF NewColumns
<1>4. cols \in SUBSET TrialColumns
  BY <1>2, DatabaseParts DEF ParentTables
<1>5. WithTrials(n, d, new, cols)
  <2>1. n = [d EXCEPT !.rows["trials"] = new]
    BY <1>1 DEF Merged
  <2>2. [d EXCEPT !.rows["trials"] = new, !.columns["trials"] = d.columns["trials"]]
          = [d EXCEPT !.rows["trials"] = new]
    BY DEF Databases, ParentTables
  <2> QED
    BY <1>2, <2>1, <2>2 DEF WithTrials
<1>6. ASSUME NEW row \in d.rows["simulations"]
      PROVE  /\ Active(row) \in Nat
             /\ Active(row) # Null => <<Active(row), row.id>> \in Links(d, "versions")
  <2>1. row \in ParentRows
    BY DatabaseParts DEF ParentTables
  <2>2. CASE NeedsVersion(row)
    BY <2>2, DerivedIsOwn
  <2>3. CASE ~NeedsVersion(row)
    <3>1. row.active # Null => <<row.active, row.id>> \in Links(d, "versions")
      BY DEF OwnVersions, ParentTables
    <3> QED
      BY <2>1, <2>3, <3>1 DEF ParentRows
  <2> QED
    BY <2>2, <2>3
<1> HIDE DEF Active
<1>7. ASSUME NEW row \in d.rows["simulations"]
      PROVE  /\ M(row) \in ParentRows /\ M(row).recruiter = Null
             /\ M(row).active = Active(row) /\ M(row).id = row.id
             /\ Facts(M(row)) = Facts(row)
             /\ M(row).aside = row.aside /\ M(row).extra = row.extra
  <2>1. row \in ParentRows
    BY DatabaseParts DEF ParentTables
  <2>2. PICK user \in Nat : user = Coalesce(row.partner, row.recruiter)
    BY <2>1 DEF ParentRows, Coalesce
  <2>3. M(row) = [row EXCEPT !.partner = user, !.recruiter = Null, !.active = Active(row)]
    BY <2>2
  <2>4. Null \in Nat
    BY DEF Null
  <2>5. /\ M(row) \in ParentRows /\ M(row).recruiter = Null /\ M(row).partner = user
        /\ M(row).active = Active(row) /\ M(row).id = row.id
        /\ M(row).body = row.body /\ M(row).over = row.over
        /\ M(row).aside = row.aside /\ M(row).extra = row.extra
    BY <1>6, <2>1, <2>3, <2>4 DEF ParentRows
  <2> HIDE DEF M
  <2>6. Coalesce(M(row).partner, M(row).recruiter) = user
    BY <2>5 DEF Coalesce
  <2>7. Facts(M(row)) = <<row.id, row.body, user, row.over>>
    BY <2>5, <2>6 DEF Facts
  <2> QED
    BY <2>2, <2>5, <2>7 DEF Facts
<1> HIDE DEF M
<1>8. new \in SUBSET ParentRows
  BY <1>1, <1>7
<1>9. /\ cols \cap {"recruiter", "partner"} # {}
      /\ \A row \in new : RowFits(row, cols)
  <2> SUFFICES ASSUME NEW old \in d.rows["simulations"], NEW column \in TrialColumns \ cols
               PROVE  M(old)[column] = Null
    BY <1>1, <1>3 DEF RowFits
  <2>1. column = "recruiter" \/ column \in {"aside", "extra"} \ cols
    BY <1>3 DEF TrialColumns
  <2>2. CanonicalColumns(d) = cols
    BY <1>2, <1>3 DEF CanonicalColumns
  <2>3. column # "recruiter" => old[column] = Null
    BY <2>1, <2>2 DEF UnknownData
  <2> QED
    BY <1>7, <2>1, <2>3
<1>10. /\ n \in Databases /\ FitsSchema(n) /\ ParentsOf(n, d) /\ n.tables = d.tables
       /\ n.rows["trials"] = new /\ n.columns["trials"] = cols
       /\ n.rows["simulations"] = d.rows["simulations"]
  <2>1. d \in Databases /\ FitsSchema(d) /\ "trials" \in d.tables
    BY <1>3
  <2>2. /\ n \in Databases /\ ParentsOf(n, d) /\ n.tables = d.tables
        /\ n.rows["trials"] = new /\ n.columns["trials"] = cols
        /\ n.rows["simulations"] = d.rows["simulations"]
        /\ /\ cols \cap {"recruiter", "partner"} # {}
           /\ \A row \in new : RowFits(row, cols)
           => FitsSchema(n)
    BY <1>4, <1>5, <1>8, <2>1, TrialsWritten
  <2> QED
    BY <1>9, <2>2
<1>11. NewColumns(n)
  BY <1>3, <1>10 DEF NewColumns
<1>12. AllMoved(n)
  <2> SUFFICES ASSUME NEW row \in d.rows["simulations"]
               PROVE  \E kept \in new : Facts(kept) = Facts(row)
    BY <1>10 DEF AllMoved
  <2>1. M(row) \in new
    BY <1>1
  <2> QED
    BY <1>7, <2>1
<1>13. AllFacts(d) = AllFacts(n)
  <2>1. ASSUME NEW row \in new PROVE Facts(row) \in {Facts(old) : old \in d.rows["simulations"]}
    <3>1. PICK old \in d.rows["simulations"] : row = M(old)
      BY <1>1
    <3> QED
      BY <1>7, <3>1
  <2>2. AllFacts(d) = {Facts(old) : old \in d.rows["simulations"]}
    BY DEF AllFacts
  <2>3. AllFacts(n) = {Facts(row) : row \in d.rows["simulations"] \cup new}
    BY <1>10 DEF AllFacts
  <2> QED
    BY <2>1, <2>2, <2>3
<1>16. AllWhole(d) = AllWhole(n)
  <2>1. Standing(d) = d.rows["simulations"]
    BY AllStand
  <2>2. \A old \in d.rows["simulations"] : old.id \in Ids(n, "trials")
    <3> SUFFICES ASSUME NEW old \in d.rows["simulations"] PROVE old.id \in Ids(n, "trials")
      OBVIOUS
    <3>1. M(old) \in n.rows["trials"] /\ M(old).id = old.id
      BY <1>1, <1>7, <1>10
    <3> QED
      BY <3>1 DEF Ids
  <2>3. Standing(n) = new
    BY <1>10, <2>2 DEF Standing
  <2>4. \A old \in d.rows["simulations"] : WholeFacts(M(old)) = WholeFacts(old)
    BY <1>7 DEF WholeFacts
  <2>5. {WholeFacts(row) : row \in new} = {WholeFacts(old) : old \in d.rows["simulations"]}
    BY <1>1, <2>4
  <2> QED
    BY <2>1, <2>3, <2>5 DEF AllWhole
<1>14. \A c \in ChildTables : Links(n, c) = Links(d, c)
  BY <1>10 DEF ParentsOf, Links, Rows
<1>15. OwnVersions(n)
  <2>1. ASSUME NEW row \in new, row.active # Null PROVE <<row.active, row.id>> \in Links(d, "versions")
    <3>1. PICK old \in d.rows["simulations"] : row = M(old)
      BY <1>1
    <3> QED
      BY <1>6, <1>7, <2>1, <3>1
  <2>2. \A row \in d.rows["simulations"] : row.active # Null => <<row.active, row.id>> \in Links(d, "versions")
    BY DEF OwnVersions, ParentTables
  <2>3. \A s \in d.sessions : s.version # Null => <<s.version, Owner(s)>> \in Links(d, "versions")
    BY DEF OwnVersions
  <2>4. n.sessions = d.sessions /\ Links(n, "versions") = Links(d, "versions")
    BY <1>10, <1>14 DEF ParentsOf, ChildTables
  <2> QED
    BY <1>10, <2>1, <2>2, <2>3, <2>4 DEF OwnVersions, ParentTables
<1> QED
  BY <1>10, <1>11, <1>12, <1>13, <1>14, <1>15, <1>16 DEF ParentsOf, KeptSoFar

LEMMA KeptChained ==
  ASSUME NEW a, NEW b, NEW c, KeptSoFar(a, b), KeptSoFar(b, c) PROVE KeptSoFar(a, c)
BY DEF KeptSoFar

LEMMA ParentsKeep == ASSUME SchemaInv, UnifyParents PROVE SchemaInv'
<1>1. PICK at : at = "parents"
  OBVIOUS
<1>2. PICK step \in {"children", "uniques", "keys", "drop", "backfill"} : step = "children"
  OBVIOUS
<1>3. PICK d : d = database
  OBVIOUS
<1>4. PICK p : p = ParentCanonical(d)
  OBVIOUS
<1>5. PICK m : m = MoveParent(p, "simulations", "trials")
  OBVIOUS
<1>6. PICK can, n :
        /\ Unify(at, can, n, step)
        /\ \/ p.tables = {"trials"} /\ n = p
           \/ /\ Split(p) /\ can = (~ParentConflict(d) /\ ~MappingUnsafe(p) /\ ~Diverges(p)
                   /\ ((p.rows["trials"] = {} /\ p.rows["simulations"] # {}) => Derivable(p)))
              /\ n = IF p.rows["trials"] = {} /\ p.rows["simulations"] # {} THEN Merged(p) ELSE p
           \/ /\ p.tables # {"trials"} /\ ~Split(p)
              /\ can => ~UnknownData(p)
              /\ n = [ParentCanonical(m) EXCEPT !.columns["trials"] = @ \ {"extra"}]
  <2>1. CASE p.tables = {"trials"}
    BY <1>1, <1>2, <1>3, <1>4, <2>1 DEF UnifyParents
  <2>2. CASE Split(p)
    <3>1. p.tables # {"trials"}
      BY <2>2 DEF Split, ParentTables
    <3> QED
      BY <1>1, <1>2, <1>3, <1>4, <2>2, <3>1 DEF UnifyParents
  <2>3. CASE p.tables # {"trials"} /\ ~Split(p)
    <3>1. PICK can : can = (~UnknownData(p) /\ ~ParentConflict(m))
      OBVIOUS
    <3>2. Unify(at, can, [ParentCanonical(m) EXCEPT !.columns["trials"] = @ \ {"extra"}], step)
      BY <1>1, <1>2, <1>3, <1>4, <1>5, <2>3, <3>1 DEF UnifyParents
    <3> QED
      BY <2>3, <3>1, <3>2
  <2> QED
    BY <2>1, <2>2, <2>3
<1>7. /\ Sound(d) /\ d \in Databases /\ FitsSchema(d) /\ d.links["versions"] # {}
      /\ AtStep(d, beforehand, at) /\ StillSays(d, unified)
  BY <1>1, <1>3, <1>6, BeforeStep
<1>8. /\ p \in Databases /\ FitsSchema(p) /\ SameContent(p, d) /\ ParentsOf(p, d)
      /\ p.tables = d.tables
      /\ "trials" \in d.tables => NewColumns(p)
      /\ "trials" \notin d.tables => p = d
  BY <1>4, <1>7, ParentMadeCanonical
<1>9. Sound(p) /\ p.links["versions"] # {} /\ KeptSoFar(beforehand, p)
  BY <1>7, <1>8, SoundAgain, KeptOn DEF AtStep, ParentsOf
<1>10. StillSays(p, unified)
  <2>1. OneTable(d) => OneTable(p)
    BY <1>8 DEF OneTable
  <2> QED
    BY <1>7, <1>8, <2>1, StillSaid
<1>11. ASSUME NEW x \in Databases, NewColumns(x), AllMoved(x), KeptSoFar(beforehand, x)
       PROVE  AtStep(x, beforehand, step)
  BY <1>2, <1>11 DEF AtStep
<1>12. CASE p.tables = {"trials"} /\ n = p
  <2>1. NewColumns(p)
    BY <1>8, <1>12
  <2>2. AllMoved(p)
    BY <1>8, <1>12, OldTableGone
  <2> QED
    BY <1>1, <1>6, <1>8, <1>9, <1>10, <1>11, <1>12, <2>1, <2>2, UnifyKeeps
<1>13. CASE /\ Split(p) /\ can = (~ParentConflict(d) /\ ~MappingUnsafe(p) /\ ~Diverges(p)
                 /\ ((p.rows["trials"] = {} /\ p.rows["simulations"] # {}) => Derivable(p)))
            /\ n = IF p.rows["trials"] = {} /\ p.rows["simulations"] # {} THEN Merged(p) ELSE p
  <2>1. unified = {} /\ NewColumns(p)
    <3>1. ~OneTable(p) /\ "trials" \in p.tables
      BY <1>13 DEF OneTable, Split, ParentTables
    <3> QED
      BY <1>8, <1>10, <3>1 DEF StillSays
  <2>2. StillSays(n, unified)
    BY <2>1 DEF StillSays
  <2>3. ASSUME can PROVE Sound(n) /\ n.links["versions"] # {} /\ AtStep(n, beforehand, step)
    <3>1. CASE p.rows["trials"] = {} /\ p.rows["simulations"] # {}
      <4>1. n = Merged(p) /\ Derivable(p) /\ OwnVersions(p) /\ ~UnknownData(p)
        BY <1>9, <1>13, <2>3, <3>1 DEF Sound, MappingUnsafe
      <4>2. /\ n \in Databases /\ FitsSchema(n) /\ OwnVersions(n) /\ NewColumns(n) /\ AllMoved(n)
            /\ n.links = p.links /\ KeptSoFar(p, n)
        BY <1>8, <2>1, <3>1, <4>1, MergedIsAll
      <4>3. KeptSoFar(beforehand, n)
        BY <1>9, <4>2, KeptChained
      <4> QED
        BY <1>9, <1>11, <4>2, <4>3 DEF Sound
    <3>2. CASE ~(p.rows["trials"] = {} /\ p.rows["simulations"] # {})
      <4>1. n = p /\ ~Diverges(p)
        BY <1>13, <2>3, <3>2
      <4>2. CASE p.rows["simulations"] = {}
        <5>1. AllMoved(p)
          BY <4>2 DEF AllMoved
        <5> QED
          BY <1>8, <1>9, <1>11, <2>1, <4>1, <5>1
      <4>3. CASE p.rows["simulations"] # {}
        <5>1. AllMoved(p)
          BY <1>8, <1>13, <2>1, <3>2, <4>1, <4>3, BothHaveAll
        <5> QED
          BY <1>8, <1>9, <1>11, <2>1, <4>1, <5>1
      <4> QED
        BY <4>2, <4>3
    <3> QED
      BY <3>1, <3>2
  <2> QED
    BY <1>1, <1>6, <2>2, <2>3, UnifyKeeps
<1>14. CASE /\ p.tables # {"trials"} /\ ~Split(p)
            /\ can => ~UnknownData(p)
            /\ n = [ParentCanonical(m) EXCEPT !.columns["trials"] = @ \ {"extra"}]
  <2>1. PICK old \in ParentTables : old = "simulations"
    BY DEF ParentTables
  <2>2. PICK new \in ParentTables : new = "trials"
    BY DEF ParentTables
  <2>3. p.tables = {old}
    <3>1. p.tables \subseteq ParentTables /\ p.tables # {}
      BY <1>8, DatabaseParts DEF FitsSchema
    <3> QED
      BY <1>14, <2>1, <3>1 DEF Split, ParentTables
  <2>4. m = MoveParent(p, old, new) /\ old # new
    BY <1>5, <2>1, <2>2
  <2>5. /\ m \in Databases /\ FitsSchema(m) /\ SameContent(m, p) /\ ParentsOf(m, p)
        /\ m.tables = {new}
    BY <1>8, <2>3, <2>4, ParentMoved
  <2>6. PICK q : q = ParentCanonical(m)
    OBVIOUS
  <2>7. /\ q \in Databases /\ FitsSchema(q) /\ SameContent(q, m) /\ ParentsOf(q, m)
        /\ q.tables = m.tables /\ NewColumns(q)
    BY <2>2, <2>5, <2>6, ParentMadeCanonical
  <2>8. PICK stored \in SUBSET ParentRows : stored = q.rows["trials"]
    BY <2>7, DatabaseParts DEF ParentTables
  <2>9. PICK cols \in SUBSET TrialColumns : cols = q.columns["trials"] \ {"extra"}
    BY <2>7, DatabaseParts DEF ParentTables
  <2>10. WithTrials(n, q, stored, cols)
    <3>1. n = [q EXCEPT !.columns["trials"] = cols]
      BY <1>14, <2>6, <2>9
    <3>2. [q EXCEPT !.rows["trials"] = q.rows["trials"], !.columns["trials"] = cols]
            = [q EXCEPT !.columns["trials"] = cols]
      BY <2>7 DEF Databases, ParentTables
    <3> QED
      BY <2>8, <3>1, <3>2 DEF WithTrials
  <2>11. "trials" \in q.tables /\ "partner" \in cols /\ "recruiter" \notin cols
    BY <2>7, <2>9 DEF NewColumns
  <2>12. cols \cap {"recruiter", "partner"} # {}
    BY <2>11
  <2>13. ASSUME can PROVE \A row \in stored : RowFits(row, cols)
    <3> SUFFICES ASSUME NEW row \in stored, NEW column \in TrialColumns \ cols PROVE row[column] = Null
      BY DEF RowFits
    <3>1. TableFits(q, "trials")
      BY <2>7 DEF FitsSchema, ParentTables
    <3>2. CASE column # "extra"
      BY <2>8, <2>9, <3>1, <3>2 DEF TableFits
    <3>3. CASE column = "extra"
      <4>1. SameContent(q, p)
        BY <2>5, <2>7, SameContentChained
      <4>2. row \in q.rows["simulations"] \cup q.rows["trials"]
        BY <2>8
      <4>3. PICK kept \in p.rows["simulations"] \cup p.rows["trials"] : NewParent(kept) = NewParent(row)
        BY <4>1, <4>2, SameRows
      <4>4. row \in ParentRows /\ kept \in ParentRows
        BY <1>8, <2>8, DatabaseParts DEF ParentTables
      <4>5. row.extra = kept.extra
        BY <4>3, <4>4, ParentSays
      <4>6. "trials" \notin p.tables /\ p.rows["trials"] = {}
        BY <1>8, <2>1, <2>2, <2>3, <2>4 DEF FitsSchema, TableFits
      <4>7. kept.extra = Null
        BY <1>14, <2>13, <4>3, <4>6 DEF UnknownData, CanonicalColumns
      <4> QED
        BY <3>3, <4>5, <4>7
    <3> QED
      BY <3>2, <3>3
  <2>14. /\ n \in Databases /\ ParentsOf(n, q) /\ n.tables = q.tables /\ n.columns["trials"] = cols
         /\ can => FitsSchema(n)
         /\ SameContent(n, q)
    <3>1. q \in Databases /\ FitsSchema(q) /\ "trials" \in q.tables
      BY <2>7, <2>11
    <3>2. /\ n \in Databases /\ ParentsOf(n, q) /\ n.tables = q.tables /\ n.columns["trials"] = cols
          /\ /\ cols \cap {"recruiter", "partner"} # {}
             /\ \A row \in stored : RowFits(row, cols)
             => FitsSchema(n)
          /\ /\ {NewParent(row) : row \in stored} = {NewParent(row) : row \in q.rows["trials"]}
             /\ ("aside" \in cols) = ("aside" \in q.columns["trials"])
             => SameContent(n, q)
      BY <2>10, <3>1, TrialsWritten
    <3>3. ("aside" \in cols) = ("aside" \in q.columns["trials"])
      BY <2>9
    <3> QED
      BY <2>8, <2>12, <2>13, <3>2, <3>3
  <2>15. SameContent(n, p)
    BY <2>5, <2>7, <2>14, SameContentChained
  <2>16. KeptSoFar(beforehand, n) /\ n.links["versions"] # {}
    BY <1>8, <1>9, <2>5, <2>7, <2>14, <2>15, KeptOn DEF ParentsOf
  <2>17. NewColumns(n)
    BY <2>11, <2>14 DEF NewColumns
  <2>18. n.tables = {new}
    BY <2>5, <2>7, <2>14
  <2>19. ASSUME can PROVE Sound(n) /\ AllMoved(n)
    <3>1. FitsSchema(n)
      BY <2>14, <2>19
    <3>2. "simulations" \notin n.tables
      BY <2>2, <2>18
    <3> QED
      BY <1>9, <2>14, <2>15, <3>1, <3>2, SoundAgain, OldTableGone
  <2>20. StillSays(n, unified)
    <3>1. OneTable(p) => OneTable(n)
      BY <2>18 DEF OneTable
    <3> QED
      BY <1>10, <2>15, <3>1, StillSaid
  <2> QED
    BY <1>1, <1>6, <1>11, <2>14, <2>16, <2>17, <2>19, <2>20, UnifyKeeps
<1> QED
  BY <1>6, <1>12, <1>13, <1>14

LEMMA ChildrenKeep == ASSUME SchemaInv, UnifyChildren PROVE SchemaInv'
<1>1. PICK at : at = "children"
  OBVIOUS
<1>2. PICK step \in {"children", "uniques", "keys", "drop", "backfill"} : step = "uniques"
  OBVIOUS
<1>3. PICK d : d = database
  OBVIOUS
<1>4. PICK v \in ChildTables : v = "versions"
  BY DEF ChildTables
<1>5. PICK s \in ChildTables : s = "sessions"
  BY DEF ChildTables
<1>6. PICK a : a = ChildCanonical(d, v)
  OBVIOUS
<1>7. PICK b : b = WithoutOldKeys(a, v)
  OBVIOUS
<1>8. PICK c : c = ChildCanonical(b, s)
  OBVIOUS
<1>9. PICK n : n = WithoutOldKeys(c, s)
  OBVIOUS
<1>10. PICK can : Unify(at, can, n, step)
  BY <1>1, <1>2, <1>3, <1>4, <1>5, <1>6, <1>7, <1>8, <1>9 DEF UnifyChildren
<1>11. /\ Sound(d) /\ d \in Databases /\ FitsSchema(d) /\ d.links[v] # {} /\ d.links[s] # {}
       /\ AtStep(d, beforehand, at) /\ StillSays(d, unified)
  BY <1>1, <1>3, <1>4, <1>5, <1>10, BeforeStep
<1>12. /\ a \in Databases /\ FitsSchema(a) /\ SameContent(a, d) /\ ChildOf(a, d, v)
       /\ a.links[v] = {"trial"}
  BY <1>6, <1>11, ChildMadeCanonical
<1>13. /\ b \in Databases /\ FitsSchema(b) /\ SameContent(b, a) /\ ChildOf(b, a, v)
       /\ b.links = a.links
  BY <1>7, <1>12, OldKeysGone
<1>14. s # v /\ \A x \in ChildTables : x = s \/ x = v
  BY <1>4, <1>5 DEF ChildTables
<1>15. b.links[s] # {}
  BY <1>11, <1>12, <1>13, <1>14 DEF ChildOf
<1>16. /\ c \in Databases /\ FitsSchema(c) /\ SameContent(c, b) /\ ChildOf(c, b, s)
       /\ c.links[s] = {"trial"}
  BY <1>8, <1>13, <1>15, ChildMadeCanonical
<1>17. /\ n \in Databases /\ FitsSchema(n) /\ SameContent(n, c) /\ ChildOf(n, c, s)
       /\ n.links = c.links
  BY <1>9, <1>16, OldKeysGone
<1>18. /\ n.tables = d.tables /\ n.rows = d.rows /\ n.columns = d.columns
       /\ n.links[v] = {"trial"} /\ n.links[s] = {"trial"}
  BY <1>12, <1>13, <1>14, <1>16, <1>17 DEF ChildOf
<1>19. SameContent(n, d)
  <2>1. SameContent(b, d)
    BY <1>12, <1>13, SameContentChained
  <2>2. SameContent(c, d)
    BY <1>16, <2>1, SameContentChained
  <2> QED
    BY <1>17, <2>2, SameContentChained
<1>20. Sound(n) /\ n.links["versions"] # {}
  BY <1>4, <1>11, <1>17, <1>18, <1>19, SoundAgain
<1>21. StillSays(n, unified)
  BY <1>11, <1>18, <1>19, StillSaid DEF OneTable
<1>22. AtStep(n, beforehand, step)
  <2>1. NewColumns(d) /\ AllMoved(d) /\ KeptSoFar(beforehand, d)
    BY <1>1, <1>11 DEF AtStep
  <2>2. KeptSoFar(beforehand, n)
    BY <1>11, <1>17, <1>19, <2>1, KeptOn
  <2>3. NewColumns(n) /\ AllMoved(n) /\ NewLinks(n)
    BY <1>14, <1>18, <2>1 DEF NewColumns, AllMoved, NewLinks
  <2> QED
    BY <1>2, <2>2, <2>3 DEF AtStep
<1> QED
  BY <1>1, <1>10, <1>20, <1>21, <1>22, UnifyKeeps

LEMMA UniquesKeep == ASSUME SchemaInv, UnifyUniques PROVE SchemaInv'
<1>1. PICK at : at = "uniques"
  OBVIOUS
<1>2. PICK step \in {"children", "uniques", "keys", "drop", "backfill"} : step = "keys"
  OBVIOUS
<1>3. PICK d : d = database
  OBVIOUS
<1>4. PICK can : Unify(at, can, d, step)
  BY <1>1, <1>2, <1>3 DEF UnifyUniques
<1>5. /\ Sound(d) /\ d.links["versions"] # {}
      /\ AtStep(d, beforehand, at) /\ StillSays(d, unified)
  BY <1>1, <1>3, <1>4, BeforeStep
<1>6. AtStep(d, beforehand, step)
  BY <1>1, <1>2, <1>5 DEF AtStep
<1> QED
  BY <1>1, <1>4, <1>5, <1>6, UnifyKeeps

LEMMA KeysKeep == ASSUME SchemaInv, UnifyKeys PROVE SchemaInv'
<1>1. PICK at : at = "keys"
  OBVIOUS
<1>2. PICK step \in {"children", "uniques", "keys", "drop", "backfill"} : step = "drop"
  OBVIOUS
<1>3. PICK d : d = database
  OBVIOUS
<1>4. PICK v \in ChildTables : v = "versions"
  BY DEF ChildTables
<1>5. PICK s \in ChildTables : s = "sessions"
  BY DEF ChildTables
<1>6. PICK column : column = "trial"
  OBVIOUS
<1>7. PICK name \in {"old", "new"} : name = "new"
  OBVIOUS
<1>8. PICK parent \in ParentTables : parent = "trials"
  BY DEF ParentTables
<1>9. PICK a : a = WithKey(d, v, column, name, parent)
  OBVIOUS
<1>10. PICK n : n = WithKey(a, s, column, name, parent)
  OBVIOUS
<1>11. PICK can : Unify(at, can, n, step) /\ (can => ~Dangling(d, "trial", "trials"))
  <2>1. PICK can : can = (/\ ~Dangling(database, "trial", "trials")
                          /\ \A row \in database.rows["trials"] :
                               row.active # Null => \E w \in database.versions : w.id = row.active)
    OBVIOUS
  <2> QED
    BY <1>1, <1>2, <1>3, <1>4, <1>5, <1>6, <1>7, <1>8, <1>9, <1>10, <2>1 DEF UnifyKeys
<1>12. /\ Sound(d) /\ d \in Databases /\ FitsSchema(d)
       /\ AtStep(d, beforehand, at) /\ StillSays(d, unified)
  BY <1>1, <1>3, <1>11, BeforeStep
<1>13. NewColumns(d) /\ AllMoved(d) /\ KeptSoFar(beforehand, d) /\ NewLinks(d)
  BY <1>1, <1>12 DEF AtStep
<1>14. column \in d.links[v]
  BY <1>6, <1>13 DEF NewLinks
<1>15. /\ a \in Databases /\ FitsSchema(a) /\ SameContent(a, d) /\ ChildOf(a, d, v)
       /\ a.links = d.links /\ Rows(a, v) = Rows(d, v)
       /\ a.keys[v] = {key \in d.keys[v] : key.name # name /\ <<key.column, key.to>> # <<column, parent>>}
                        \cup {[name |-> name, column |-> column, to |-> parent]}
  BY <1>9, <1>12, <1>14, KeyPut
<1>16. column \in a.links[s]
  BY <1>6, <1>13, <1>15 DEF NewLinks
<1>17. /\ n \in Databases /\ FitsSchema(n) /\ SameContent(n, a) /\ ChildOf(n, a, s)
       /\ n.links = a.links /\ Rows(n, s) = Rows(a, s)
       /\ n.keys[s] = {key \in a.keys[s] : key.name # name /\ <<key.column, key.to>> # <<column, parent>>}
                        \cup {[name |-> name, column |-> column, to |-> parent]}
  BY <1>10, <1>15, <1>16, KeyPut
<1>18. s # v /\ \A x \in ChildTables : x = s \/ x = v
  BY <1>4, <1>5 DEF ChildTables
<1>19. /\ n.tables = d.tables /\ n.rows = d.rows /\ n.columns = d.columns /\ n.links = d.links
       /\ Rows(n, s) = Rows(d, s) /\ n.keys[v] = a.keys[v] /\ a.keys[s] = d.keys[s]
  BY <1>15, <1>17, <1>18 DEF ChildOf
<1>20. SameContent(n, d)
  BY <1>15, <1>17, SameContentChained
<1>21. Sound(n) /\ n.links["versions"] # {}
  BY <1>4, <1>12, <1>14, <1>17, <1>19, <1>20, SoundAgain
<1>22. StillSays(n, unified)
  BY <1>12, <1>19, <1>20, StillSaid DEF OneTable
<1>23. NewColumns(n) /\ AllMoved(n) /\ NewLinks(n) /\ KeptSoFar(beforehand, n)
  <2>1. KeptSoFar(beforehand, n)
    BY <1>12, <1>13, <1>17, <1>20, KeptOn
  <2> QED
    BY <1>13, <1>19, <2>1 DEF NewColumns, AllMoved, NewLinks
<1>24. KeyedToTrials(n)
  <2>1. ASSUME NEW x \in ChildTables, NEW old, \A key \in old : key.column = "trial",
               n.keys[x] = {key \in old : key.name # name /\ <<key.column, key.to>> # <<column, parent>>}
                             \cup {[name |-> name, column |-> column, to |-> parent]}
        PROVE  {key \in n.keys[x] : key.to = "trials"} = {NewKey}
    <3>1. [name |-> name, column |-> column, to |-> parent] = NewKey /\ NewKey.to = "trials"
      BY <1>6, <1>7, <1>8 DEF NewKey
    <3>2. ASSUME NEW key \in n.keys[x], key.to = "trials" PROVE key = NewKey
      <4>1. CASE key \in old /\ key.name # name /\ <<key.column, key.to>> # <<column, parent>>
        BY <1>6, <1>8, <2>1, <3>2, <4>1
      <4>2. CASE key = [name |-> name, column |-> column, to |-> parent]
        BY <3>1, <4>2
      <4> QED
        BY <2>1, <4>1, <4>2
    <3>3. NewKey \in n.keys[x]
      BY <2>1, <3>1
    <3> QED
      BY <3>1, <3>2, <3>3
  <2>2. \A x \in ChildTables : \A key \in d.keys[x] : key.column = "trial"
    BY <1>12, <1>13 DEF FitsSchema, ChildFits, NewLinks
  <2>3. {key \in n.keys[v] : key.to = "trials"} = {NewKey}
    BY ZenonT(60), <1>15, <1>19, <2>1, <2>2
  <2>4. {key \in n.keys[s] : key.to = "trials"} = {NewKey}
    BY ZenonT(60), <1>17, <1>19, <2>1, <2>2
  <2> QED
    BY <1>18, <2>3, <2>4 DEF KeyedToTrials
<1>25. ASSUME can PROVE OfNewTrials(n)
  <2>1. \A row \in Rows(d, s) : row.trial # Null => row.trial \in Ids(d, "trials")
    BY <1>11, <1>25 DEF Dangling
  <2>2. n.sessions = Rows(d, s) /\ Ids(n, "trials") = Ids(d, "trials")
    BY <1>5, <1>19 DEF Rows, Ids
  <2> QED
    BY <2>1, <2>2 DEF OfNewTrials
<1>26. can => AtStep(n, beforehand, step)
  BY <1>2, <1>23, <1>24, <1>25 DEF AtStep
<1> QED
  BY <1>1, <1>11, <1>21, <1>22, <1>26, UnifyKeeps

LEMMA DropKeeps == ASSUME SchemaInv, DropLegacy PROVE SchemaInv'
<1>1. PICK at : at = "drop"
  OBVIOUS
<1>2. PICK step \in {"children", "uniques", "keys", "drop", "backfill"} : step = "backfill"
  OBVIOUS
<1>3. PICK d : d = database
  OBVIOUS
<1>4. PICK can : can = (\A child \in ChildTables : \A key \in d.keys[child] : key.to = "trials")
  OBVIOUS
<1>5. PICK n : n = [d EXCEPT !.tables = {"trials"}, !.rows["simulations"] = {}, !.columns["simulations"] = {}]
  OBVIOUS
<1>6. Unify(at, can, n, step)
  BY <1>1, <1>2, <1>3, <1>4, <1>5 DEF DropLegacy
<1>7. /\ Sound(d) /\ d \in Databases /\ FitsSchema(d) /\ OwnVersions(d) /\ d.links["versions"] # {}
      /\ AtStep(d, beforehand, at) /\ StillSays(d, unified)
  BY <1>1, <1>3, <1>6, BeforeStep
<1>8. /\ NewColumns(d) /\ AllMoved(d) /\ KeptSoFar(beforehand, d) /\ NewLinks(d)
      /\ OfNewTrials(d) /\ KeyedToTrials(d)
  BY <1>1, <1>7 DEF AtStep
<1>9. PICK t \in ParentTables : t = "simulations"
  BY DEF ParentTables
<1>10. PICK stored : stored = [d.rows EXCEPT ![t] = {}]
  OBVIOUS
<1>11. PICK columns : columns = [d.columns EXCEPT ![t] = {}]
  OBVIOUS
<1>12. PICK tables \in SUBSET ParentTables : tables = {"trials"}
  BY DEF ParentTables
<1>13. /\ stored \in [ParentTables -> SUBSET ParentRows]
       /\ columns \in [ParentTables -> SUBSET TrialColumns]
       /\ stored[t] = {} /\ columns[t] = {}
       /\ \A b \in ParentTables \ {t} : stored[b] = d.rows[b] /\ columns[b] = d.columns[b]
  BY <1>7, <1>10, <1>11 DEF Databases
<1>14. WithTables(n, d, tables, stored, columns)
  BY <1>5, <1>9, <1>10, <1>11, <1>12 DEF WithTables
<1>15. /\ n \in Databases /\ ParentsOf(n, d)
       /\ n.tables = tables /\ n.rows = stored /\ n.columns = columns /\ n.keys = d.keys
  BY <1>7, <1>13, <1>14, TablesWritten
<1>16. /\ n.rows["simulations"] = {} /\ n.columns["simulations"] = {}
       /\ n.rows["trials"] = d.rows["trials"] /\ n.columns["trials"] = d.columns["trials"]
       /\ n.tables = {"trials"}
  BY <1>9, <1>12, <1>13, <1>15 DEF ParentTables
<1>17. TableFits(d, "trials") /\ "trials" \in d.tables
  BY <1>7, <1>8 DEF FitsSchema, ParentTables, NewColumns
<1>18. \A b \in ParentTables : TableFits(n, b)
  <2>1. TableFits(n, "trials")
    BY <1>16, <1>17 DEF TableFits
  <2>2. TableFits(n, "simulations")
    BY <1>16 DEF TableFits
  <2> QED
    BY <2>1, <2>2 DEF ParentTables
<1>19. /\ FitsSchema(n)
       /\ \A c \in ChildTables : ChildContent(n, c) = ChildContent(d, c) /\ Links(n, c) = Links(d, c)
  BY <1>7, <1>15, <1>16, <1>18, ParentFits
<1>20. OwnVersions(n)
  <2>1. n.sessions = d.sessions /\ Links(n, "versions") = Links(d, "versions")
    BY <1>15, <1>19 DEF ParentsOf, ChildTables
  <2>2. \A b \in ParentTables : n.rows[b] \subseteq d.rows[b]
    BY <1>16 DEF ParentTables
  <2> QED
    BY <1>7, <2>1, <2>2 DEF OwnVersions
<1>21. KeptSoFar(beforehand, n)
  <2>1. AllFacts(n) = AllFacts(d)
    BY <1>8, <1>16 DEF AllFacts, AllMoved
  <2>2. AllWhole(n) = AllWhole(d)
    <3>1. \A row \in d.rows["simulations"] : row.id \in Ids(d, "trials")
      BY <1>8 DEF AllMoved, Facts, Ids
    <3>2. Standing(d) = d.rows["trials"]
      BY <3>1 DEF Standing
    <3>3. Standing(n) = d.rows["trials"]
      BY <1>16 DEF Standing
    <3> QED
      BY <3>2, <3>3 DEF AllWhole
  <2> QED
    BY <1>8, <1>19, <2>1, <2>2 DEF KeptSoFar
<1>22. NewColumns(n) /\ AllMoved(n) /\ NewLinks(n) /\ OfNewTrials(n) /\ KeyedToTrials(n)
  BY <1>8, <1>15, <1>16
     DEF NewColumns, AllMoved, NewLinks, OfNewTrials, KeyedToTrials, ParentsOf, Ids
<1>23. ASSUME can PROVE NewKeys(n)
  BY <1>4, <1>8, <1>15, <1>23 DEF NewKeys, KeyedToTrials
<1>24. can => AtStep(n, beforehand, step)
  BY <1>2, <1>16, <1>21, <1>22, <1>23 DEF AtStep
<1>25. StillSays(n, unified)
  <2>1. CASE unified = {}
    BY <2>1 DEF StillSays
  <2>2. CASE unified # {}
    <3>1. OneTable(d)
      BY <1>7, <2>2 DEF StillSays
    <3>2. "simulations" \notin d.tables
      BY <1>17, <3>1 DEF OneTable, ParentTables
    <3>3. d.rows["simulations"] = {}
      BY <1>7, <3>2, OldTableGone
    <3>4. ParentContent(n) = ParentContent(d)
      BY <1>16, <3>3 DEF ParentContent
    <3>7. StandingContent(n) = StandingContent(d)
      BY <1>16, <3>3, <3>4, AllStand
    <3>8. d.columns["simulations"] = {}
      BY <1>7, <3>2 DEF FitsSchema, TableFits, ParentTables
    <3>9. HasAside(n) = HasAside(d)
      BY <1>16, <3>8 DEF HasAside
    <3>5. SameContent(n, d)
      BY <1>19, <3>4, <3>7, <3>9 DEF SameContent
    <3>6. OneTable(n)
      BY <1>16 DEF OneTable, ParentTables
    <3> QED
      BY <1>7, <3>5, <3>6, StillSaid
  <2> QED
    BY <2>1, <2>2
<1>26. Sound(n) /\ n.links["versions"] # {}
  BY <1>7, <1>15, <1>19, <1>20 DEF Sound, ParentsOf
<1> QED
  BY <1>1, <1>6, <1>24, <1>25, <1>26, UnifyKeeps

(* In a database of newer code alone the rows are what it says. *)
LEMMA Plain ==
  ASSUME NEW d \in Databases, FitsSchema(d), d.tables = {"trials"}, NewColumns(d), NewLinks(d)
  PROVE  /\ ParentContent(d) = d.rows["trials"] /\ d.rows["simulations"] = {}
         /\ d.columns["simulations"] = {}
         /\ ChildContent(d, "versions") = d.versions /\ ChildContent(d, "sessions") = d.sessions
<1>1. TableFits(d, "trials") /\ TableFits(d, "simulations")
  BY DEF FitsSchema, ParentTables
<1>2. d.rows["simulations"] = {} /\ d.columns["simulations"] = {}
  BY <1>1 DEF TableFits
<1>3. ASSUME NEW row \in d.rows["trials"] PROVE NewParent(row) = row
  <2>1. row \in ParentRows
    BY DatabaseParts DEF ParentTables
  <2>2. row.recruiter = Null
    BY <1>1 DEF TableFits, NewColumns, TrialColumns
  <2>3. Coalesce(row.partner, row.recruiter) = row.partner
    BY <2>2 DEF Coalesce
  <2> QED
    BY <2>1, <2>2, <2>3 DEF NewParent, ParentRows
<1>4. ChildFits(d, "versions") /\ ChildFits(d, "sessions")
  BY DEF FitsSchema, ChildTables
<1>5. /\ \A v \in d.versions : v.simulation = Null
      /\ \A s \in d.sessions : s.simulation = Null
  BY <1>4 DEF ChildFits, NewLinks, ChildTables, ParentColumns, Rows
<1>6. ASSUME NEW v \in d.versions PROVE NewChild(v) = v
  <2>1. v \in VersionLinks
    BY DatabaseParts
  <2>2. Owner(v) = v.trial /\ v.simulation = Null
    BY <1>5 DEF Owner, Coalesce
  <2> QED
    BY <2>1, <2>2 DEF NewChild, VersionLinks
<1>7. ASSUME NEW s \in d.sessions PROVE NewChild(s) = s
  <2>1. s \in SessionLinks
    BY DatabaseParts
  <2>2. Owner(s) = s.trial /\ s.simulation = Null
    BY <1>5 DEF Owner, Coalesce
  <2> QED
    BY <2>1, <2>2 DEF NewChild, SessionLinks
<1>8. ParentContent(d) = d.rows["trials"]
  BY <1>2, <1>3 DEF ParentContent
<1>9. ChildContent(d, "versions") = d.versions
  BY <1>6 DEF ChildContent, Rows
<1>10. ChildContent(d, "sessions") = d.sessions
  BY <1>7 DEF ChildContent, Rows
<1> QED
  BY <1>2, <1>8, <1>9, <1>10

(* A database is its fields. *)
LEMMA OtherColumns ==
  ASSUME NEW T, NEW R, NEW C, NEW L, NEW V, NEW S, NEW K,
         NEW d \in [tables : T, rows : R, columns : C, links : L, versions : V, sessions : S, keys : K],
         NEW cols
  PROVE  [d EXCEPT !.columns = cols] =
           [tables |-> d.tables, rows |-> d.rows, columns |-> cols, links |-> d.links,
            versions |-> d.versions, sessions |-> d.sessions, keys |-> d.keys]
OBVIOUS

(* Two finished unifications that say the same are the same, but for a     *)
(* column newer code has not.                                              *)
LEMMA FinishedSame ==
  ASSUME NEW u, NEW d, Finished(u), Finished(d), SameContent(d, u)
  PROVE  Known(d) = Known(u)
<1>1. /\ u \in Databases /\ FitsSchema(u) /\ u.tables = {"trials"} /\ NewColumns(u) /\ NewLinks(u) /\ NewKeys(u)
      /\ d \in Databases /\ FitsSchema(d) /\ d.tables = {"trials"} /\ NewColumns(d) /\ NewLinks(d) /\ NewKeys(d)
  BY DEF Finished, Sound
<1>2. /\ ParentContent(d) = d.rows["trials"] /\ d.rows["simulations"] = {}
      /\ d.columns["simulations"] = {}
      /\ ChildContent(d, "versions") = d.versions /\ ChildContent(d, "sessions") = d.sessions
  BY <1>1, Plain
<1>3. /\ ParentContent(u) = u.rows["trials"] /\ u.rows["simulations"] = {}
      /\ u.columns["simulations"] = {}
      /\ ChildContent(u, "versions") = u.versions /\ ChildContent(u, "sessions") = u.sessions
  BY <1>1, Plain
<1>4. d.rows["trials"] = u.rows["trials"] /\ d.versions = u.versions /\ d.sessions = u.sessions
  BY <1>2, <1>3 DEF SameContent, ChildTables
<1>5. d.rows = u.rows
  BY <1>1, <1>2, <1>3, <1>4 DEF Databases, ParentTables
<1>6. d.links = u.links /\ d.keys = u.keys
  <2>1. \A c \in ChildTables : d.links[c] = u.links[c] /\ d.keys[c] = u.keys[c]
    BY <1>1 DEF NewLinks, NewKeys
  <2>2. /\ d.links \in [ChildTables -> SUBSET ParentColumns] /\ u.links \in [ChildTables -> SUBSET ParentColumns]
        /\ d.keys \in [ChildTables -> SUBSET ForeignKeys] /\ u.keys \in [ChildTables -> SUBSET ForeignKeys]
    BY <1>1 DEF Databases
  <2> HIDE DEF ChildTables
  <2> QED
    BY <2>1, <2>2
<1>7. d.columns["trials"] \ {"extra"} = u.columns["trials"] \ {"extra"}
  <2>1. /\ d.columns["trials"] \subseteq TrialColumns
        /\ u.columns["trials"] \subseteq TrialColumns
    BY <1>1, DatabaseParts DEF ParentTables
  <2>2. ("aside" \in d.columns["trials"]) = ("aside" \in u.columns["trials"])
    BY <1>2, <1>3 DEF SameContent, HasAside
  <2> QED
    BY <1>1, <2>1, <2>2 DEF NewColumns, TrialColumns
<1>8. [d.columns EXCEPT !["trials"] = d.columns["trials"] \ {"extra"}]
        = [u.columns EXCEPT !["trials"] = u.columns["trials"] \ {"extra"}]
  BY <1>1, <1>2, <1>3, <1>7 DEF Databases, ParentTables
<1>9. PICK cols : cols = [d.columns EXCEPT !["trials"] = d.columns["trials"] \ {"extra"}]
  OBVIOUS
<1>10. Known(d) = [d EXCEPT !.columns = cols]
  BY <1>1, <1>9 DEF Known, Databases
<1>11. Known(u) = [u EXCEPT !.columns = cols]
  BY <1>1, <1>8, <1>9 DEF Known, Databases
<1>12. [d EXCEPT !.columns = cols] =
         [tables |-> d.tables, rows |-> d.rows, columns |-> cols, links |-> d.links,
          versions |-> d.versions, sessions |-> d.sessions, keys |-> d.keys]
  <2>1. d \in Databases
    BY <1>1
  <2> QED
    BY <2>1, OtherColumns DEF Databases
<1>13. [u EXCEPT !.columns = cols] =
         [tables |-> u.tables, rows |-> u.rows, columns |-> cols, links |-> u.links,
          versions |-> u.versions, sessions |-> u.sessions, keys |-> u.keys]
  <2>1. u \in Databases
    BY <1>1
  <2> QED
    BY <2>1, OtherColumns DEF Databases
<1> QED
  BY <1>1, <1>4, <1>5, <1>6, <1>10, <1>11, <1>12, <1>13

(* What the last step writes. *)
RelinkedTrial(row, all) == [row EXCEPT !.active = Coalesce(row.active, FirstAmong(all, row.id))]
RelinkedSession(s, all) ==
  IF s.trial = Null THEN s ELSE [s EXCEPT !.version = Coalesce(s.version, FirstAmong(all, s.trial))]

LEMMA TrialRelinked ==
  ASSUME NEW d \in Databases, OwnVersions(d), NEW t \in ParentTables, NEW all, HaveFirsts(d, t, all),
         NEW row \in d.rows[t], NEW r, r = RelinkedTrial(row, all)
  PROVE  /\ SameTrial(r, row) /\ r.active # Null
         /\ <<r.active, r.id>> \in {<<v.id, Owner(v)>> : v \in all}
         /\ row.active # Null => r = row
<1>1. PICK owned : owned = {<<v.id, Owner(v)>> : v \in all}
  OBVIOUS
<1>2. row \in ParentRows /\ row.id \in Ids(d, t)
  BY DatabaseParts DEF Ids
<1>3. PICK first : first = FirstAmong(all, row.id)
  OBVIOUS
<1>4. first \in Nat /\ first # Null /\ <<first, row.id>> \in owned
  BY <1>1, <1>2, <1>3, FirstIsOwn
<1>5. \A x \in Links(d, "versions") : x \in owned
  BY <1>1 DEF Links, Rows, HaveFirsts
<1>6. row.active \in Nat /\ (row.active # Null => <<row.active, row.id>> \in owned)
  BY <1>2, <1>5 DEF OwnVersions, ParentRows
<1>7. PICK a : a = Coalesce(row.active, first)
  OBVIOUS
<1>8. a \in Nat /\ a # Null /\ <<a, row.id>> \in owned /\ (row.active # Null => a = row.active)
  BY <1>4, <1>6, <1>7 DEF Coalesce
<1>9. r = [row EXCEPT !.active = a]
  BY <1>3, <1>7 DEF RelinkedTrial
<1>10. SameTrial(r, row) /\ r.active = a /\ r.id = row.id /\ (a = row.active => r = row)
  BY <1>2, <1>8, <1>9 DEF SameTrial, ParentRows
<1> QED
  BY <1>1, <1>8, <1>10

LEMMA SessionRelinked ==
  ASSUME NEW d \in Databases, OwnVersions(d), NEW t \in ParentTables, NEW all, HaveFirsts(d, t, all),
         NEW row \in d.sessions, row.trial # Null => row.trial \in Ids(d, t),
         NEW s, s = RelinkedSession(row, all)
  PROVE  /\ SameSession(s, row) /\ Owner(s) = Owner(row)
         /\ s.trial # Null => s.version # Null
         /\ s.version # Null => <<s.version, Owner(s)>> \in {<<v.id, Owner(v)>> : v \in all}
         /\ (row.trial # Null => row.version # Null) => s = row
<1>1. PICK owned : owned = {<<v.id, Owner(v)>> : v \in all}
  OBVIOUS
<1>2. row \in SessionLinks
  BY DatabaseParts
<1>3. \A x \in Links(d, "versions") : x \in owned
  BY <1>1 DEF Links, Rows, HaveFirsts
<1>4. row.version \in Nat /\ (row.version # Null => <<row.version, Owner(row)>> \in owned)
  BY <1>2, <1>3 DEF OwnVersions, SessionLinks
<1>5. CASE row.trial = Null
  <2>1. s = row
    BY <1>5 DEF RelinkedSession
  <2> QED
    BY <1>1, <1>2, <1>4, <1>5, <2>1 DEF SameSession
<1>6. CASE row.trial # Null
  <2>1. PICK first : first = FirstAmong(all, row.trial)
    OBVIOUS
  <2>2. first \in Nat /\ first # Null /\ <<first, row.trial>> \in owned
    BY <1>1, <1>6, <2>1, FirstIsOwn
  <2>3. Owner(row) = row.trial
    BY <1>6 DEF Owner, Coalesce
  <2>4. PICK a : a = Coalesce(row.version, first)
    OBVIOUS
  <2>5. a \in Nat /\ a # Null /\ <<a, row.trial>> \in owned /\ (row.version # Null => a = row.version)
    BY <1>4, <2>2, <2>3, <2>4 DEF Coalesce
  <2>6. s = [row EXCEPT !.version = a]
    BY <1>6, <2>1, <2>4 DEF RelinkedSession
  <2>7. SameSession(s, row) /\ s.version = a /\ (a = row.version => s = row)
    BY <1>2, <2>5, <2>6 DEF SameSession, SessionLinks
  <2>8. Owner(s) = Owner(row)
    BY <2>7 DEF SameSession, Owner
  <2> QED
    BY <1>1, <1>6, <2>3, <2>5, <2>7, <2>8
<1> QED
  BY <1>5, <1>6

LEMMA FinishKeeps == ASSUME SchemaInv, FinishUnification PROVE SchemaInv'
<1>1. PICK d : d = database
  OBVIOUS
<1>2. PICK t \in ParentTables : t = "trials"
  BY DEF ParentTables
<1>3. /\ unifying = "backfill" /\ revision = 4 /\ beforehand \in Databases
      /\ Sound(d) /\ d \in Databases /\ FitsSchema(d) /\ OwnVersions(d)
      /\ AtStep(d, beforehand, "backfill") /\ StillSays(d, unified)
  BY <1>1 DEF FinishUnification, SchemaInv, Migrated, Sound
<1>4. /\ KeptSoFar(beforehand, d) /\ NewColumns(d) /\ NewLinks(d) /\ OfNewTrials(d)
      /\ d.tables = {"trials"} /\ NewKeys(d)
  BY <1>3 DEF AtStep
<1>5. PICK missing : missing = {id \in Ids(d, t) : Firsts(d, id) = {}}
  OBVIOUS
<1>6. PICK versions : versions = d.versions \cup {NewVersion(id) : id \in missing}
  OBVIOUS
<1>7. HaveFirsts(d, t, versions)
  BY <1>3, <1>5, <1>6, FirstsThere
<1>8. PICK stored : stored = {RelinkedTrial(row, versions) : row \in d.rows[t]}
  OBVIOUS
<1>9. PICK sessions : sessions = {RelinkedSession(s, versions) : s \in d.sessions}
  OBVIOUS
<1>10. PICK n : n = Relinked(d)
  OBVIOUS
<1>11. WithVersions(n, d, t, versions, stored, sessions)
  <2>1. \A c \in ChildTables : d.links[c] # {}
    BY <1>4 DEF NewLinks
  <2>2. n = [d EXCEPT !.versions = versions,
                      !.rows[t] = {[row EXCEPT !.active = Coalesce(row.active, FirstAmong(versions, row.id))] : row \in @},
                      !.sessions = {IF s.trial = Null THEN s
                                    ELSE [s EXCEPT !.version = Coalesce(s.version, FirstAmong(versions, s.trial))]
                                    : s \in @}]
    BY <1>2, <1>5, <1>6, <1>10, <2>1 DEF Relinked, FirstAmong
  <2>3. n = [d EXCEPT !.versions = versions, !.rows[t] = {RelinkedTrial(row, versions) : row \in @},
                      !.sessions = {RelinkedSession(s, versions) : s \in @}]
    BY <2>2 DEF RelinkedTrial, RelinkedSession
  <2> QED
    BY <1>3, <1>8, <1>9, <2>3 DEF Databases, WithVersions
<1>12. PICK owned : owned = {<<v.id, Owner(v)>> : v \in versions}
  OBVIOUS
<1>13. ASSUME NEW row \in d.rows[t]
       PROVE  LET r == RelinkedTrial(row, versions) IN
                /\ SameTrial(r, row) /\ r.active # Null /\ <<r.active, r.id>> \in owned
                /\ row.active # Null => r = row
  BY <1>3, <1>7, <1>12, TrialRelinked
<1>14. ASSUME NEW old \in d.sessions
       PROVE  LET s == RelinkedSession(old, versions) IN
                /\ SameSession(s, old) /\ Owner(s) = Owner(old)
                /\ s.trial # Null => s.version # Null
                /\ s.version # Null => <<s.version, Owner(s)>> \in owned
                /\ (old.trial # Null => old.version # Null) => s = old
  <2>1. old.trial # Null => old.trial \in Ids(d, t)
    BY <1>2, <1>4 DEF OfNewTrials
  <2> QED
    BY <1>3, <1>7, <1>12, <2>1, SessionRelinked
<1>15. ASSUME NEW r \in stored
       PROVE  /\ \E row \in d.rows[t] : SameTrial(r, row)
              /\ r.active # Null /\ <<r.active, r.id>> \in owned
  <2>1. PICK row \in d.rows[t] : r = RelinkedTrial(row, versions)
    BY <1>8
  <2> QED
    BY <1>13, <2>1
<1>16. ASSUME NEW s \in sessions
       PROVE  /\ \E old \in d.sessions : SameSession(s, old)
              /\ s.trial # Null => s.version # Null
              /\ s.version # Null => <<s.version, Owner(s)>> \in owned
  <2>1. PICK old \in d.sessions : s = RelinkedSession(old, versions)
    BY <1>9
  <2> QED
    BY <1>14, <2>1
<1>17. /\ n \in Databases /\ FitsSchema(n)
       /\ n.tables = d.tables /\ n.columns = d.columns /\ n.links = d.links /\ n.keys = d.keys
       /\ n.versions = versions /\ n.sessions = sessions /\ n.rows[t] = stored
       /\ \A b \in ParentTables \ {t} : n.rows[b] = {}
  <2>1. Completes(d, t, versions, stored, sessions)
    BY <1>7, <1>15, <1>16 DEF Completes, HaveFirsts
  <2>2. d.tables = {t} /\ "trial" \in d.links["versions"]
    BY <1>2, <1>4 DEF NewLinks, ChildTables
  <2> QED
    BY <1>3, <1>11, <2>1, <2>2, VersionsWritten
<1>18. Links(n, "versions") = owned
  BY <1>12, <1>17 DEF Links, Rows
<1>19. OwnVersions(n)
  <2>1. \A row \in n.rows[t] : row.active # Null => <<row.active, row.id>> \in Links(n, "versions")
    BY <1>15, <1>17, <1>18
  <2>2. \A s \in n.sessions : s.version # Null => <<s.version, Owner(s)>> \in Links(n, "versions")
    BY <1>16, <1>17, <1>18
  <2> QED
    BY <1>17, <2>1, <2>2, VersionsOwned
<1>20. Finished(n)
  <2>1. ASSUME NEW r \in stored PROVE Firsts(n, r.id) # {}
    <3>1. PICK row \in d.rows[t] : SameTrial(r, row)
      BY <1>15
    <3>2. r.id \in Ids(d, t)
      BY <3>1 DEF Ids, SameTrial
    <3>3. PICK v \in versions : v.first /\ v.trial = r.id
      BY <1>7, <3>2 DEF HaveFirsts
    <3> QED
      BY <1>17, <3>3 DEF Firsts
  <2>2. NewColumns(n) /\ NewLinks(n) /\ NewKeys(n)
    BY <1>4, <1>17 DEF NewColumns, NewLinks, NewKeys
  <2> QED
    BY <1>2, <1>4, <1>15, <1>16, <1>17, <1>19, <2>1, <2>2 DEF Finished, Sound
<1>21. n.rows["simulations"] = {} /\ d.rows["simulations"] = {}
  <2>1. "simulations" \notin d.tables
    BY <1>4
  <2> QED
    BY <1>2, <1>3, <1>17, <2>1, OldTableGone DEF ParentTables
<1>22. KeptSoFar(beforehand, n)
  <2>1. \A row \in d.rows[t] : Facts(RelinkedTrial(row, versions)) = Facts(row)
    BY <1>13 DEF SameTrial, Facts
  <2>2. {Facts(r) : r \in stored} = {Facts(row) : row \in d.rows[t]}
    BY <1>8, <2>1
  <2>3. AllFacts(n) = {Facts(r) : r \in stored} /\ AllFacts(d) = {Facts(row) : row \in d.rows[t]}
    BY <1>2, <1>17, <1>21 DEF AllFacts
  <2>4. Links(d, "versions") \subseteq Links(n, "versions")
    BY <1>6, <1>17 DEF Links, Rows
  <2>5. Links(d, "sessions") \subseteq Links(n, "sessions")
    <3> SUFFICES ASSUME NEW old \in d.sessions PROVE <<old.id, Owner(old)>> \in Links(n, "sessions")
      BY DEF Links, Rows
    <3>1. PICK s : s = RelinkedSession(old, versions)
      OBVIOUS
    <3>2. s \in n.sessions /\ s.id = old.id /\ Owner(s) = Owner(old)
      BY <1>9, <1>14, <1>17, <3>1 DEF SameSession
    <3> QED
      BY <3>2 DEF Links, Rows
  <2>6. AllWhole(n) = AllWhole(d)
    <3>1. Standing(n) = stored /\ Standing(d) = d.rows[t]
      BY <1>2, <1>17, <1>21, AllStand
    <3>2. \A row \in d.rows[t] : WholeFacts(RelinkedTrial(row, versions)) = WholeFacts(row)
      BY <1>13, <2>1 DEF SameTrial, WholeFacts
    <3>3. {WholeFacts(r) : r \in stored} = {WholeFacts(row) : row \in d.rows[t]}
      BY <1>8, <3>2
    <3> QED
      BY <3>1, <3>3 DEF AllWhole
  <2> QED
    BY <1>4, <2>2, <2>3, <2>4, <2>5, <2>6 DEF KeptSoFar, ChildTables
<1>23. ASSUME NEW u, Finished(u), SameContent(d, u) PROVE SameContent(n, d)
  <2>1. u \in Databases /\ FitsSchema(u) /\ u.tables = {"trials"} /\ NewColumns(u) /\ NewLinks(u)
    BY <1>23 DEF Finished, Sound
  <2>2. ParentContent(u) = u.rows["trials"]
        /\ ChildContent(u, "versions") = u.versions /\ ChildContent(u, "sessions") = u.sessions
    BY <2>1, Plain
  <2>3. ParentContent(d) = d.rows["trials"]
        /\ ChildContent(d, "versions") = d.versions /\ ChildContent(d, "sessions") = d.sessions
    BY <1>3, <1>4, Plain
  <2>4. d.rows[t] = u.rows[t] /\ d.versions = u.versions /\ d.sessions = u.sessions
    BY <1>2, <1>23, <2>2, <2>3 DEF SameContent, ChildTables
  <2>5. /\ \A row \in d.rows[t] : row.active # Null /\ Firsts(d, row.id) # {}
        /\ \A s \in d.sessions : s.trial # Null => s.version # Null
    BY <1>2, <1>23, <2>4 DEF Finished, Firsts
  <2>6. versions = d.versions
    <3>1. \A id \in Ids(d, t) : Firsts(d, id) # {}
      BY <2>5 DEF Ids
    <3>2. missing = {}
      BY <1>5, <3>1
    <3> QED
      BY <1>6, <3>2
  <2>7. stored = d.rows[t]
    <3>1. \A row \in d.rows[t] : RelinkedTrial(row, versions) = row
      BY <1>13, <2>5
    <3> QED
      BY <1>8, <3>1
  <2>8. sessions = d.sessions
    <3>1. \A s \in d.sessions : RelinkedSession(s, versions) = s
      BY <1>14, <2>5
    <3> QED
      BY <1>9, <3>1
  <2>9. ParentContent(n) = ParentContent(d)
    BY <1>2, <1>17, <1>21, <2>7 DEF ParentContent
  <2>10. \A c \in ChildTables : ChildContent(n, c) = ChildContent(d, c)
    BY <1>17, <2>6, <2>8 DEF ChildContent, Rows
  <2>11. StandingContent(n) = StandingContent(d)
    BY <1>21, <2>9, AllStand
  <2>12. HasAside(n) = HasAside(d)
    BY <1>17 DEF HasAside
  <2> QED
    BY <2>9, <2>10, <2>11, <2>12 DEF SameContent
<1>24. /\ database' = n /\ unifying' = "no" /\ revision' = 5 /\ beforehand' = beforehand
       /\ unified' = IF unified = {} THEN {n} ELSE unified
  BY <1>1, <1>10 DEF FinishUnification
<1>25. StillSays(n, unified') /\ unified' # {}
  <2>1. OneTable(n)
    BY <1>2, <1>4, <1>17 DEF OneTable
  <2>2. CASE unified = {}
    <3>1. unified' = {n} /\ SameContent(n, n)
      BY <1>24, <2>2 DEF SameContent
    <3> QED
      BY <1>20, <2>1, <3>1 DEF StillSays
  <2>3. CASE unified # {}
    <3>1. PICK u \in unified : unified = {u} /\ Finished(u) /\ SameContent(d, u)
      BY <1>3, <2>3 DEF StillSays
    <3>2. SameContent(n, u)
      BY <1>23, <3>1, SameContentChained
    <3>3. unified' = unified
      BY <1>24, <2>3
    <3> QED
      BY <2>1, <3>1, <3>2, <3>3 DEF StillSays
  <2> QED
    BY <2>2, <2>3
<1>26. Migrated(n, 5)
  BY <1>4, <1>17, <1>20 DEF Migrated, Finished, NewLinks, ChildTables
<1>27. SchemaTypeOK'
  BY <1>17, <1>24 DEF SchemaTypeOK
<1> QED
  BY <1>3, <1>20, <1>22, <1>24, <1>25, <1>26, <1>27 DEF SchemaInv

(* A child that goes back to the old column, and to the old table.         *)
LEMMA ChildMadeLegacy ==
  ASSUME NEW d \in Databases, FitsSchema(d), NEW c \in ChildTables, d.links[c] = {"trial"},
         NEW n, n = ChildLegacy(d, c)
  PROVE  /\ n \in Databases /\ FitsSchema(n) /\ SameContent(n, d) /\ ChildOf(n, d, c)
         /\ n.links[c] # {}
<1>1. PICK from : from = "trial"
  OBVIOUS
<1>2. PICK to : to = "simulation"
  OBVIOUS
<1>3. PICK m : m = RenameLink(d, c, from, to)
  OBVIOUS
<1>4. /\ m \in Databases /\ FitsSchema(m) /\ SameContent(m, d) /\ ChildOf(m, d, c)
      /\ d.links[c] = {from} => m.links[c] = {to}
  BY <1>1, <1>2, <1>3, LinkRenamed
<1>5. to \in m.links[c]
  BY <1>1, <1>4
<1>6. PICK name \in {"old", "new"} : name = "old"
  OBVIOUS
<1>7. PICK parent \in ParentTables : parent = "simulations"
  BY DEF ParentTables
<1>8. n = WithKey(m, c, to, name, parent)
  BY <1>1, <1>2, <1>3, <1>6, <1>7 DEF ChildLegacy
<1>9. /\ n \in Databases /\ FitsSchema(n) /\ SameContent(n, m) /\ ChildOf(n, m, c)
      /\ n.links = m.links
  BY <1>4, <1>5, <1>8, KeyPut
<1>10. SameContent(n, d) /\ ChildOf(n, d, c)
  BY <1>4, <1>9, SameContentChained DEF ChildOf
<1> QED
  BY <1>5, <1>9, <1>10

LEMMA DowngradeKeeps == ASSUME SchemaInv, DowngradeUnification PROVE SchemaInv'
<1>1. PICK d : d = database
  OBVIOUS
<1>2. PICK old \in ParentTables : old = "simulations"
  BY DEF ParentTables
<1>3. PICK new \in ParentTables : new = "trials"
  BY DEF ParentTables
<1>4. PICK v \in ChildTables : v = "versions"
  BY DEF ChildTables
<1>5. PICK s \in ChildTables : s = "sessions"
  BY DEF ChildTables
<1>6. PICK m : m = MoveParent(d, new, old)
  OBVIOUS
<1>7. PICK a : a = ChildLegacy(m, v)
  OBVIOUS
<1>8. PICK n : n = ChildLegacy(a, s)
  OBVIOUS
<1>9. /\ revision = 5 /\ unifying = "no" /\ database' = n /\ revision' = 4 /\ unifying' = "no"
      /\ UNCHANGED <<beforehand, unified>>
  BY <1>1, <1>2, <1>3, <1>4, <1>5, <1>6, <1>7, <1>8 DEF DowngradeUnification
<1>10. Finished(d) /\ StillSays(d, unified) /\ beforehand \in Databases
  BY <1>1, <1>9 DEF SchemaInv
<1>11. Sound(d) /\ d \in Databases /\ FitsSchema(d) /\ d.tables = {new} /\ NewLinks(d) /\ new # old
  BY <1>2, <1>3, <1>10 DEF Finished, Sound
<1>12. /\ m \in Databases /\ FitsSchema(m) /\ SameContent(m, d) /\ ParentsOf(m, d)
       /\ m.tables = {old}
  BY <1>6, <1>11, ParentMoved
<1>13. m.links[v] = {"trial"} /\ m.links[s] = {"trial"}
  BY <1>11, <1>12 DEF NewLinks, ParentsOf
<1>14. /\ a \in Databases /\ FitsSchema(a) /\ SameContent(a, m) /\ ChildOf(a, m, v)
       /\ a.links[v] # {}
  BY <1>7, <1>12, <1>13, ChildMadeLegacy
<1>15. s # v
  BY <1>4, <1>5
<1>16. a.links[s] = {"trial"}
  BY <1>13, <1>14, <1>15 DEF ChildOf
<1>17. n \in Databases /\ FitsSchema(n) /\ SameContent(n, a) /\ ChildOf(n, a, s)
  BY <1>8, <1>14, <1>16, ChildMadeLegacy
<1>18. n.tables = {old} /\ n.links[v] # {}
  BY <1>12, <1>14, <1>15, <1>17 DEF ChildOf
<1>19. SameContent(n, d)
  <2>1. SameContent(a, d)
    BY <1>12, <1>14, SameContentChained
  <2> QED
    BY <1>17, <2>1, SameContentChained
<1>20. Migrated(n, 4)
  BY <1>4, <1>11, <1>17, <1>18, <1>19, SoundAgain DEF Migrated
<1>21. StillSays(n, unified)
  BY <1>10, <1>18, <1>19, StillSaid DEF OneTable
<1>22. SchemaTypeOK'
  BY <1>9, <1>17 DEF SchemaTypeOK
<1> QED
  BY <1>9, <1>10, <1>20, <1>21, <1>22 DEF SchemaInv

LEMMA UnbrandKeeps == ASSUME SchemaInv, DowngradeRebranding PROVE SchemaInv'
<1>1. PICK d : d = database
  OBVIOUS
<1>2. PICK old \in ParentTables : old = "simulations"
  BY DEF ParentTables
<1>3. PICK new \in ParentTables : new = "trials"
  BY DEF ParentTables
<1>4. PICK s \in ChildTables : s = "sessions"
  BY DEF ChildTables
<1>5. PICK l : l = RenameLink(d, s, "trial", "simulation")
  OBVIOUS
<1>6. PICK r : r = RenameColumn(l, "trials", "partner", "recruiter")
  OBVIOUS
<1>7. PICK n : n = IF d.tables = {new} THEN MoveParent(r, new, old) ELSE r
  OBVIOUS
<1>8. /\ revision = 4 /\ unifying = "no" /\ database' = n /\ revision' = 3 /\ unifying' = "no"
      /\ UNCHANGED <<beforehand, unified>>
  BY <1>1, <1>2, <1>3, <1>4, <1>5, <1>6, <1>7 DEF DowngradeRebranding, Unbranded
<1>9. Migrated(d, 4) /\ StillSays(d, unified) /\ beforehand \in Databases
  BY <1>1, <1>8 DEF SchemaInv
<1>10. Sound(d) /\ d \in Databases /\ FitsSchema(d) /\ d.links["versions"] # {} /\ new # old
  BY <1>2, <1>3, <1>9 DEF Migrated, Sound
<1>11. l \in Databases /\ FitsSchema(l) /\ SameContent(l, d) /\ ChildOf(l, d, s)
  BY <1>5, <1>10, LinkRenamed
<1>12. /\ r \in Databases /\ FitsSchema(r) /\ SameContent(r, l) /\ ParentsOf(r, l)
       /\ r.tables = l.tables
  BY <1>6, <1>11, ColumnRenamed
<1>13. /\ n \in Databases /\ FitsSchema(n) /\ SameContent(n, r) /\ n.links = r.links
       /\ OneTable(r) => OneTable(n)
  <2>1. CASE d.tables = {new}
    <3>1. n = MoveParent(r, new, old) /\ r.tables = {new}
      BY <1>7, <1>11, <1>12, <2>1 DEF ChildOf
    <3>2. /\ n \in Databases /\ FitsSchema(n) /\ SameContent(n, r) /\ ParentsOf(n, r)
          /\ n.tables = {old}
      BY <1>10, <1>12, <3>1, ParentMoved
    <3> QED
      BY <3>2 DEF OneTable, ParentsOf
  <2>2. CASE d.tables # {new}
    BY <1>7, <1>12, <2>2 DEF SameContent
  <2> QED
    BY <2>1, <2>2
<1>14. n.links["versions"] # {}
  BY <1>4, <1>10, <1>11, <1>12, <1>13 DEF ChildOf, ParentsOf, ChildTables
<1>15. SameContent(n, d)
  <2>1. SameContent(r, d)
    BY <1>11, <1>12, SameContentChained
  <2> QED
    BY <1>13, <2>1, SameContentChained
<1>16. Migrated(n, 3)
  BY <1>10, <1>13, <1>14, <1>15, SoundAgain DEF Migrated
<1>17. StillSays(n, unified)
  <2>1. OneTable(d) => OneTable(n)
    BY <1>11, <1>12, <1>13 DEF OneTable, ChildOf
  <2> QED
    BY <1>9, <1>15, <2>1, StillSaid
<1>18. SchemaTypeOK'
  BY <1>8, <1>13 DEF SchemaTypeOK
<1> QED
  BY <1>8, <1>9, <1>16, <1>17, <1>18 DEF SchemaInv

-----------------------------------------------------------------------------
(* SchemaUpgrades: newer code around the migrations. *)

LEMMA CreateAllKeeps == ASSUME SchemaInv, CreateAll PROVE SchemaInv'
<1>1. PICK d : d = database
  OBVIOUS
<1>2. /\ revision < 5 /\ unifying = "no" /\ unified = {} /\ "trials" \notin d.tables
      /\ UNCHANGED <<revision, unifying, beforehand, unified>>
  BY <1>1 DEF CreateAll
<1>3. PICK joined : joined = IF d.links["versions"] = {} THEN {"trial"} ELSE d.links["versions"]
  OBVIOUS
<1>4. PICK keys : keys = IF d.links["versions"] = {}
                         THEN {[name |-> "new", column |-> "trial", to |-> "trials"]} ELSE d.keys["versions"]
  OBVIOUS
<1>5. /\ Migrated(d, revision) /\ d \in Databases /\ FitsSchema(d) /\ OwnVersions(d)
      /\ beforehand \in Databases /\ revision \in 0..5
  BY <1>1, <1>2 DEF SchemaInv, SchemaTypeOK, Migrated, Sound
<1>6. joined \in SUBSET ParentColumns /\ keys \in SUBSET ForeignKeys
  <2>1. d.links["versions"] \subseteq ParentColumns /\ d.keys["versions"] \subseteq ForeignKeys
    BY <1>5, DatabaseParts DEF ChildTables
  <2>2. [name |-> "new", column |-> "trial", to |-> "trials"] \in ForeignKeys /\ "trial" \in ParentColumns
    BY DEF ForeignKeys, ParentColumns, ParentTables
  <2> QED
    BY <1>3, <1>4, <2>1, <2>2
<1>7. PICK cols \in [ParentTables -> SUBSET TrialColumns] :
        cols = [d.columns EXCEPT !["trials"] = {"partner", "aside"}]
  BY <1>5 DEF Databases, TrialColumns
<1>8. PICK links \in [ChildTables -> SUBSET ParentColumns] : links = [d.links EXCEPT !["versions"] = joined]
  BY <1>5, <1>6 DEF Databases
<1>9. PICK allKeys \in [ChildTables -> SUBSET ForeignKeys] : allKeys = [d.keys EXCEPT !["versions"] = keys]
  BY <1>5, <1>6 DEF Databases
<1>10. PICK n : n = [d EXCEPT !.tables = ParentTables, !.columns = cols, !.links = links, !.keys = allKeys]
  OBVIOUS
<1>11. database' = n
  BY <1>1, <1>3, <1>4, <1>5, <1>7, <1>8, <1>9, <1>10 DEF CreateAll, Databases
<1>12. /\ n \in Databases /\ n.tables = ParentTables /\ n.columns = cols /\ n.links = links /\ n.keys = allKeys
       /\ n.rows = d.rows /\ n.versions = d.versions /\ n.sessions = d.sessions
  BY <1>5, <1>10 DEF Databases
<1>13. /\ cols["trials"] = {"partner", "aside"} /\ cols["simulations"] = d.columns["simulations"]
       /\ links["versions"] = joined /\ links["sessions"] = d.links["sessions"]
       /\ allKeys["versions"] = keys /\ allKeys["sessions"] = d.keys["sessions"]
  BY <1>5, <1>7, <1>8, <1>9 DEF Databases, ParentTables, ChildTables
<1>14. d.tables = {"simulations"} /\ d.rows["trials"] = {}
  <2>1. d.tables \subseteq ParentTables /\ d.tables # {} /\ TableFits(d, "trials")
    BY <1>5, DatabaseParts DEF FitsSchema, ParentTables
  <2> QED
    BY <1>2, <2>1 DEF TableFits, ParentTables
<1>15. FitsSchema(n)
  <2>1. TableFits(d, "simulations")
    BY <1>5 DEF FitsSchema, ParentTables
  <2>2. TableFits(n, "simulations") /\ TableFits(n, "trials")
    BY <1>12, <1>13, <1>14, <2>1 DEF TableFits, ParentTables
  <2>3. ChildFits(d, "versions") /\ ChildFits(d, "sessions")
    BY <1>5 DEF FitsSchema, ChildTables
  <2>4. ChildFits(n, "versions")
    <3>1. CASE d.links["versions"] = {}
      BY <1>3, <1>4, <1>12, <1>13, <2>3, <3>1 DEF ChildFits, Rows
    <3>2. CASE d.links["versions"] # {}
      BY <1>3, <1>4, <1>12, <1>13, <2>3, <3>2 DEF ChildFits, Rows
    <3> QED
      BY <3>1, <3>2
  <2>5. ChildFits(n, "sessions")
    BY <1>12, <1>13, <2>3 DEF ChildFits, Rows
  <2>6. n.tables # {} /\ n.links["sessions"] # {}
    BY <1>5, <1>12, <1>13 DEF FitsSchema, ParentTables
  <2> QED
    BY <2>2, <2>4, <2>5, <2>6 DEF FitsSchema, ParentTables, ChildTables
<1>16. OwnVersions(n)
  <2>1. Links(n, "versions") = Links(d, "versions")
    BY <1>12 DEF Links, Rows
  <2> QED
    BY <1>5, <1>12, <2>1 DEF OwnVersions
<1>17. Migrated(n, revision)
  <2>1. OfOldTrials(d) => OfOldTrials(n)
    BY <1>12 DEF OfOldTrials, Ids, ParentTables
  <2>2. /\ "trial" \in d.links["versions"] => "trial" \in n.links["versions"]
        /\ n.links["versions"] # {}
    BY <1>3, <1>12, <1>13
  <2> QED
    BY <1>5, <1>12, <1>15, <1>16, <2>1, <2>2 DEF Migrated, Sound
<1>18. StillSays(n, unified)
  BY <1>2 DEF StillSays
<1>19. SchemaTypeOK'
  BY <1>2, <1>11, <1>12 DEF SchemaInv, SchemaTypeOK
<1> QED
  BY <1>2, <1>5, <1>11, <1>17, <1>18, <1>19 DEF SchemaInv

LEMMA DraftKeeps == ASSUME SchemaInv, WriteDraft PROVE SchemaInv'
<1>1. PICK d : d = database
  OBVIOUS
<1>2. PICK row : row = [id |-> 1, body |-> 1, recruiter |-> Null, partner |-> Null, aside |-> 1,
                        extra |-> Null, active |-> Null, over |-> FALSE]
  OBVIOUS
<1>3. PICK n : n = [d EXCEPT !.rows["trials"] = {row}]
  OBVIOUS
<1>4. /\ Split(d) /\ unifying = "no" /\ unified = {} /\ database' = n
      /\ {"partner", "aside"} \subseteq d.columns["trials"]
      /\ UNCHANGED <<revision, unifying, beforehand, unified>>
  BY <1>1, <1>2, <1>3 DEF WriteDraft
<1>5. /\ Migrated(d, revision) /\ d \in Databases /\ FitsSchema(d) /\ OwnVersions(d)
      /\ beforehand \in Databases /\ revision # 5
  BY <1>1, <1>4 DEF SchemaInv, Migrated, Sound
<1>6. row \in ParentRows /\ row.recruiter = Null /\ row.extra = Null /\ row.active = Null
  BY <1>2 DEF ParentRows, Null
<1>7. PICK new \in SUBSET ParentRows : new = {row}
  BY <1>6
<1>8. PICK cols \in SUBSET TrialColumns : cols = d.columns["trials"]
  BY <1>5, DatabaseParts DEF ParentTables
<1>9. WithTrials(n, d, new, cols)
  <2>1. [d EXCEPT !.rows["trials"] = new, !.columns["trials"] = d.columns["trials"]]
          = [d EXCEPT !.rows["trials"] = new]
    BY <1>5 DEF Databases, ParentTables
  <2> QED
    BY <1>3, <1>7, <1>8, <2>1 DEF WithTrials
<1>10. "trials" \in d.tables
  BY <1>4 DEF Split, ParentTables
<1>11. /\ cols \cap {"recruiter", "partner"} # {}
       /\ \A x \in new : RowFits(x, cols)
  <2>1. TrialColumns \ cols \subseteq {"recruiter", "extra"}
    BY <1>4, <1>8 DEF TrialColumns
  <2> QED
    BY <1>4, <1>6, <1>7, <1>8, <2>1 DEF RowFits
<1>12. /\ n \in Databases /\ FitsSchema(n) /\ ParentsOf(n, d) /\ n.tables = d.tables
       /\ n.rows["trials"] = new /\ n.rows["simulations"] = d.rows["simulations"]
  <2>1. d \in Databases /\ FitsSchema(d)
    BY <1>5
  <2>2. /\ n \in Databases /\ ParentsOf(n, d) /\ n.tables = d.tables
        /\ n.rows["trials"] = new /\ n.rows["simulations"] = d.rows["simulations"]
        /\ /\ cols \cap {"recruiter", "partner"} # {}
           /\ \A x \in new : RowFits(x, cols)
           => FitsSchema(n)
    BY <1>9, <1>10, <2>1, TrialsWritten
  <2> QED
    BY <1>11, <2>2
<1>13. OwnVersions(n)
  <2>1. Links(n, "versions") = Links(d, "versions") /\ n.sessions = d.sessions
    BY <1>12 DEF Links, Rows, ParentsOf
  <2> QED
    BY <1>5, <1>6, <1>7, <1>12, <2>1 DEF OwnVersions, ParentTables
<1>14. Migrated(n, revision)
  <2>1. OfOldTrials(d) => OfOldTrials(n)
    BY <1>12 DEF OfOldTrials, Ids, ParentsOf
  <2> QED
    BY <1>5, <1>12, <1>13, <2>1 DEF Migrated, Sound, ParentsOf
<1>15. StillSays(n, unified)
  BY <1>4 DEF StillSays
<1>16. SchemaTypeOK'
  BY <1>4, <1>12 DEF SchemaInv, SchemaTypeOK
<1> QED
  BY <1>4, <1>5, <1>14, <1>15, <1>16 DEF SchemaInv

-----------------------------------------------------------------------------
(* SchemaUpgrades: the theorems. *)

LEMMA SchemaStepKeeps == ASSUME SchemaInv, [SchemaNext]_schemaVars PROVE SchemaInv'
<1>1. CASE UNCHANGED schemaVars
  BY <1>1 DEF schemaVars, SchemaInv, SchemaTypeOK
<1>2. CASE DedupeSessions \/ CreateVersions \/ ReconcileSchema \/ RebrandSchema
  BY <1>2, DedupeKeeps, CreateKeeps, ReconcileKeeps, RebrandKeeps
<1>3. CASE BeginUnification \/ UnifyParents \/ UnifyChildren \/ UnifyUniques \/ UnifyKeys
  BY <1>3, UnificationBegins, ParentsKeep, ChildrenKeep, UniquesKeep, KeysKeep
<1>4. CASE DropLegacy \/ FinishUnification \/ DowngradeUnification \/ DowngradeRebranding
  BY <1>4, DropKeeps, FinishKeeps, DowngradeKeeps, UnbrandKeeps
<1>5. CASE CreateAll \/ WriteDraft
  BY <1>5, CreateAllKeeps, DraftKeeps
<1> QED
  BY <1>1, <1>2, <1>3, <1>4, <1>5 DEF SchemaNext

LEMMA KeptByUnification == ASSUME SchemaInv PROVE UnificationKeepsAll
<1> SUFFICES ASSUME revision = 5 PROVE UnificationKeepsAll
  BY DEF UnificationKeepsAll, UnificationLosesNothing, UpgradeIsRepeatable
<1>1. /\ Finished(database) /\ KeptSoFar(beforehand, database) /\ unified # {}
      /\ StillSays(database, unified)
  BY DEF SchemaInv
<1>2. UnificationLosesNothing
  <2>1. PICK d : d = database
    OBVIOUS
  <2>2. /\ {Facts(row) : row \in d.rows["trials"]} = AllFacts(d)
        /\ {WholeFacts(row) : row \in d.rows["trials"]} = AllWhole(d)
        /\ \A c \in ChildTables : {key \in d.keys[c] : key.column = "trial"} = {NewKey}
        /\ \A row \in d.rows["trials"] : \E v \in d.versions : v.id = row.active /\ v.trial = row.id
        /\ \A s \in d.sessions : s.trial # Null =>
             \E v \in d.versions : v.id = s.version /\ v.trial = s.trial
    BY <1>1, <2>1, FinishedLosesNothing
  <2> QED
    BY <1>1, <2>1, <2>2 DEF UnificationLosesNothing, KeptSoFar, NewKey
<1>3. UpgradeIsRepeatable
  <2>1. PICK u \in unified : unified = {u} /\ Finished(u) /\ SameContent(database, u)
    BY <1>1 DEF StillSays
  <2>2. Known(database) = Known(u)
    BY <1>1, <2>1, FinishedSame
  <2> QED
    BY <2>1, <2>2 DEF UpgradeIsRepeatable
<1> QED
  BY <1>2, <1>3 DEF UnificationKeepsAll

(* Every migration leaves a sound database, every step of the unification  *)
(* keeps what was there when it began, and what a finished one says is     *)
(* still said when it is undone.                                           *)
THEOREM SchemaInvariance == SchemaSpec => []SchemaInv
<1>1. SchemaInit => SchemaInv
  BY SchemaInitInv
<1>2. SchemaInv /\ [SchemaNext]_schemaVars => SchemaInv'
  BY SchemaStepKeeps
<1> QED
  BY <1>1, <1>2, PTL DEF SchemaSpec

-----------------------------------------------------------------------------
(* The composition of what surrounds the candidate's work. *)

OfficeInv ==
  SchemaInv /\ ReportInv /\ MailInv /\ HealthInv /\ ReadinessInv /\ DemoInv /\ MediaInv

LEMMA OfficeSteps ==
  [OfficeNext]_officeVars =>
    /\ [SchemaNext]_schemaVars /\ [ReportNext]_reportVars /\ [MailNext]_mailVars
    /\ [HealthNext]_healthVars /\ [ReadinessNext]_readinessVars /\ [DemoNext]_demoVars
    /\ [MediaNext]_mediaVars
BY DEF OfficeNext, Schema, Reports, Mail, Health, Readiness, Demo, Media, officeVars

LEMMA OfficeBegins ==
  OfficeInit =>
    /\ SchemaInit /\ ReportInit /\ MailInit /\ HealthInit /\ ReadinessInit /\ DemoInit
    /\ MediaInit
BY DEF OfficeInit

(* The seven components beside each other are each what they are alone.    *)
THEOREM OfficeServicesImplement ==
  OfficeSpec => /\ SchemaSpec /\ ReportSpec /\ MailSpec /\ HealthSpec /\ ReadinessSpec
                /\ DemoSpec /\ MediaSpec
BY OfficeBegins, OfficeSteps, PTL
   DEF OfficeSpec, SchemaSpec, ReportSpec, MailSpec, HealthSpec, ReadinessSpec, DemoSpec, MediaSpec

(* What is proved of each component holds of all of them together.         *)
THEOREM OfficeInvariance == OfficeSpec => []OfficeInv
<1>1. OfficeInit => OfficeInv
  BY OfficeBegins, SchemaInitInv, ReportInitInv, MailInitInv, HealthInitInv, ReadinessInitInv, DemoInitInv,
     MediaInitInv DEF OfficeInv
<1>2. OfficeInv /\ [OfficeNext]_officeVars => OfficeInv'
  BY OfficeSteps, SchemaStepKeeps, ReportStepKeeps, MailStepKeeps, HealthStepKeeps, ReadinessStep, DemoStepKeeps,
     MediaStepKeeps DEF OfficeInv
<1> QED
  BY <1>1, <1>2, PTL DEF OfficeSpec

(* The variables of all seven components keep their types, for any         *)
(* databases that are given, candidates, workers, processes and uploads.   *)
THEOREM OfficeTypeCorrect == OfficeSpec => []OfficeTypeOK
<1>1. OfficeInv => OfficeTypeOK
  BY ReportInvIsFair, MailInvBounds, DemoInvTypes
     DEF OfficeInv, OfficeTypeOK, SchemaInv, HealthInv, ReadinessInv, MediaInv
<1> QED
  BY <1>1, OfficeInvariance, PTL

(* The unification loses no trial, version or session, nor a row of the    *)
(* table it keeps; what it lets go of is a row of the old table that says  *)
(* the same in the columns it compares.  Done again after any downgrades   *)
(* it leaves the same database, for any databases it may find.             *)
THEOREM NothingIsLost == OfficeSpec => []UnificationKeepsAll
<1>1. OfficeInv => UnificationKeepsAll
  BY KeptByUnification DEF OfficeInv
<1> QED
  BY <1>1, OfficeInvariance, PTL

(* Evaluations that read the same state of a version have one rubric, a    *)
(* report is reviewed on the days of the page its candidate saw when both  *)
(* are of one edition, and accounts for each day once, for any number of   *)
(* candidates, work, toggles, models, and generations that are run again.  *)
THEOREM ReportsAreAlwaysFair == OfficeSpec => []ReportsAreFair
<1>1. OfficeInv => ReportsAreFair
  BY ReportInvIsFair DEF OfficeInv, ReportsAreFair
<1> QED
  BY <1>1, OfficeInvariance, PTL

(* What is recorded as sent was delivered, and each further copy of a mail *)
(* has a failure that hid one, or a claim of its job while a worker was    *)
(* still at it, for any number of workers, tries, faults and overlaps.     *)
THEOREM MailsTellTruth == OfficeSpec => []MailsAreTrue
<1>1. OfficeInv => MailsAreTrue
  BY MailInvIsTrue DEF OfficeInv, MailsAreTrue
<1> QED
  BY <1>1, OfficeInvariance, PTL

(* A worker that looks ready is there or died without a word, one that     *)
(* lost its heartbeat takes no more work, and a service that says it is    *)
(* ready can be built, for any processes, instances and settings.          *)
THEOREM ReadinessTellsTruth == OfficeSpec => []ReadyMeansWorking
<1>1. OfficeInv => ReadyMeansWorking
  BY HealthInvIsTrue, ReadinessInvWorks DEF OfficeInv, ReadyMeansWorking
<1> QED
  BY <1>1, OfficeInvariance, PTL

(* Committed demo data is one whole dataset, or none is left, for any      *)
(* candidates, seeds and failures.                                         *)
THEOREM DemoStaysWhole == OfficeSpec => []DemoIsWholeOrGone
<1>1. OfficeInv => DemoIsWholeOrGone
  BY DemoInvIsWhole DEF OfficeInv
<1> QED
  BY <1>1, OfficeInvariance, PTL

(* Uploads are taken in time, accepted only while the storage holds what   *)
(* was declared, and never played once purged, for any number of uploads,  *)
(* processes and faults.                                                   *)
THEOREM MediaStaysAsSaid == OfficeSpec => MediaIsKeptAsSaid
<1>1. MediaSpec => MediaIsKeptAsSaid
  BY MediaAccepted, MediaUploadsEnd, MediaNeverPlaysPurged DEF MediaIsKeptAsSaid
<1> QED
  BY <1>1, OfficeServicesImplement, PTL
=============================================================================
