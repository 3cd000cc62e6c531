------------------------------ MODULE Settings ------------------------------
(***************************************************************************)
(* Sampling settings and the sampling decision as pure operators:          *)
(* internal/oboe/settings.go, tracing_mode.go, trigger_trace.go,           *)
(* sample_decision.go and the bodies of SampleRequest and UpdateSetting in *)
(* internal/oboe/oboe.go, with the mapping to an OpenTelemetry decision in *)
(* internal/sampler/sampler.go.                                            *)
(*                                                                         *)
(* A settingFlag bit mask is the set of the names of its bits, so & is     *)
(* \cap, | is \cup and &^ is \ .                                           *)
(***************************************************************************)
EXTENDS Bucket

CONSTANTS
    MaxSampleRate,    \* config.MaxSampleRate, the rate that means "always"
    NoToken           \* the empty TriggerToken

ASSUME MaxSampleRateAssumption == MaxSampleRate \in Nat \ {0}

FlagNames == {"OVERRIDE", "SAMPLE_START", "SAMPLE_THROUGH",
              "SAMPLE_THROUGH_ALWAYS", "TRIGGER_TRACE"}

\* flagStringToBin: the words between the commas; a word that names no flag is
\* skipped.
flagStringToBin(words) == words \cap FlagNames

adjustSampleRate(rate) ==
    IF rate < 0 THEN 0 ELSE IF rate > MaxSampleRate THEN MaxSampleRate ELSE rate

Enabled(flags) == flags \cap {"SAMPLE_START", "SAMPLE_THROUGH_ALWAYS"} # {}

TriggerTraceEnabled(flags) == "TRIGGER_TRACE" \in flags

\* TracingMode.toFlags
toFlags(mode) ==
    IF mode = "enabled"
    THEN {"SAMPLE_START", "SAMPLE_THROUGH_ALWAYS", "TRIGGER_TRACE"}
    ELSE {}

hasOverrideFlag(s) == "OVERRIDE" \in s.originalFlags

-----------------------------------------------------------------------------
(* Building settings from what the collector sent and the local config.    *)

BucketKinds == {"default", "relaxed", "strict"}

\* A plausible slip: local flags are added to the remote ones.
MergeLocalSettingUnion(s, cfg) ==
    IF cfg.samplingConfigured
    THEN [s EXCEPT !.flags = s.flags \cup toFlags(cfg.tracingMode)]
    ELSE s

\* MergeLocalSetting: with OVERRIDE the lower rate and the common flags, without
\* it the local values; then the local trigger-trace switch.
MergeLocalSetting(s, cfg) ==
    LET local  == toFlags(cfg.tracingMode)
        lowers == s.value > cfg.sampleRate
        merged ==
          CASE cfg.samplingConfigured /\ hasOverrideFlag(s) ->
                 [s EXCEPT !.value  = IF lowers THEN cfg.sampleRate ELSE @,
                           !.source = IF lowers THEN "File" ELSE @,
                           !.flags  = @ \cap local]
            [] cfg.samplingConfigured /\ ~ hasOverrideFlag(s) ->
                 [s EXCEPT !.value  = cfg.sampleRate,
                           !.source = "File",
                           !.flags  = local]
            [] OTHER -> s
    IN  [merged EXCEPT !.flags = IF cfg.triggerTrace THEN @ ELSE @ \ {"TRIGGER_TRACE"}]

\* newOboeSettings and the assignments of UpdateSetting up to the Store.  arg is
\* the SettingsUpdateArgs, with rate and capacity per bucket kind.
newSettings(arg, cfg, now) ==
    MergeLocalSetting(
        [timestamp     |-> now,
         ttl           |-> arg.ttl,
         source        |-> "Default",
         flags         |-> flagStringToBin(arg.flags),
         originalFlags |-> flagStringToBin(arg.flags),
         value         |-> adjustSampleRate(arg.value),
         token         |-> arg.token,
         buckets       |-> [k \in BucketKinds |->
                              setRateCap(NewBucket, arg.rate[k], arg.capacity[k])]],
        cfg)

\* checkSettingsTimeout: e.Before(time.Now()).
Expired(s, now) == s.timestamp + s.ttl < now

-----------------------------------------------------------------------------
(* The decision for one request.                                           *)

TtModes == {"NotPresent", "Invalid", "Relaxed", "Strict"}
TtRequested(tt) == tt # "NotPresent"
TtEnabled(tt) == tt \in {"Relaxed", "Strict"}

\* getTtMode of the sampler.
getTtMode(triggerTrace, sigState) ==
    IF ~ triggerTrace THEN "NotPresent"
    ELSE CASE sigState = "Valid"   -> "Relaxed"
           [] sigState = "Invalid" -> "Invalid"
           [] OTHER                -> "Strict"

\* The bucket SampleRequest counts against and getTokenBucketSetting reports.
BucketFor(tt) ==
    CASE tt = "Relaxed" -> "relaxed" [] tt = "Strict" -> "strict" [] OTHER -> "default"

\* The flags after mergeURLSetting.  urlMode is "none" for an empty url and
\* "unknown" for one no filter matches.  Rate is kept; source is FlagSource.
mergeURLSetting(s, urlMode) ==
    IF urlMode \in {"none", "unknown"} THEN s.flags
    ELSE IF hasOverrideFlag(s) THEN toFlags(urlMode) \cap s.originalFlags
    ELSE toFlags(urlMode)

FlagSource(s, urlMode) == IF urlMode \in {"none", "unknown"} THEN s.source ELSE "File"

\* rand.RandIntn(maxSamplingRate) yields any dice in 0 .. MaxSampleRate - 1.
Dice == 0 .. MaxSampleRate - 1
shouldSample(rate, dice) == rate = MaxSampleRate \/ dice =< rate

\* A request as SampleRequest sees it: swState is "none" (no valid sw entry, so
\* not continued), "sampled" or "unsampled".
Continued(swState) == swState # "none"

TriggerPath(tt, swState) == TtRequested(tt) /\ ~ Continued(swState)

\* The argument sampled that SampleRequest passes to bucket.count.
WantsTrace(s, flags, tt, swState, dice) ==
    CASE TriggerPath(tt, swState) -> tt # "Invalid" /\ TriggerTraceEnabled(flags)
      [] ~ TriggerPath(tt, swState) /\ swState = "none" ->
            "SAMPLE_START" \in flags /\ shouldSample(s.value, dice)
      [] swState = "sampled" ->
            \/ "SAMPLE_THROUGH_ALWAYS" \in flags
            \/ "SAMPLE_THROUGH" \in flags /\ shouldSample(s.value, dice)
      [] swState = "unsampled" -> FALSE

\* A plausible slip: continued traces are limited and new ones are not.
LimitContinued(swState) == Continued(swState)

\* bucket.count is told to take a token: always on the trigger path, and for a
\* new request whose dice came up; never for a continued one.
RateLimits(swState) == ~ Continued(swState)

\* A plausible slip: the answer does not wait for the bucket.
TriggerResponseEarly(flags, tt, ret) ==
    IF TriggerTraceEnabled(flags) /\ TtEnabled(tt) THEN "ok" ELSE "trigger-tracing-disabled"

\* The response of the trigger path, given whether count returned true.
TriggerResponse(flags, tt, ret) ==
    CASE TriggerTraceEnabled(flags) /\ TtEnabled(tt) ->
            IF ret THEN "ok" ELSE "rate-exceeded"
      [] tt = "Invalid" -> ""
      [] OTHER -> IF Enabled(flags) THEN "trigger-tracing-disabled" ELSE "tracing-disabled"

Unset == -1

\* The SampleDecision that SampleRequest returns once count has returned ret.
\* On the trigger path the literal lists rate before capacity, against the
\* order of the fields of SampleDecision.
SampleDecision(s, urlMode, tt, swState, ret) ==
    LET flags   == mergeURLSetting(s, urlMode)
        through == swState = "sampled" /\ "SAMPLE_THROUGH_ALWAYS" \in flags
        b       == s.buckets[BucketFor(tt)]
        default == s.buckets["default"]
    IN  IF TriggerPath(tt, swState)
        THEN [trace |-> ret, rate |-> Unset, source |-> "Unset", enabled |-> Enabled(flags),
              rsp |-> TriggerResponse(flags, tt, ret),
              bucketCap |-> b.ratePerSec, bucketRate |-> b.capacity]
        ELSE [trace |-> ret,
              rate   |-> IF through THEN Unset ELSE s.value,
              source |-> IF through THEN "Unset" ELSE FlagSource(s, urlMode),
              enabled |-> Enabled(flags),
              rsp |-> IF TtRequested(tt) THEN "ignored" ELSE "not-requested",
              bucketCap  |-> IF through THEN Unset ELSE default.capacity,
              bucketRate |-> IF through THEN Unset ELSE default.ratePerSec]

\* SampleRequest without settings.
NoSettingsDecision ==
    [trace |-> FALSE, rate |-> 0, source |-> "None", enabled |-> FALSE,
     rsp |-> "settings-not-available", bucketCap |-> 0, bucketRate |-> 0]

\* The OpenTelemetry decision of ShouldSample.
SamplingResult(d) ==
    IF ~ d.enabled THEN "Drop" ELSE IF d.trace THEN "RecordAndSample" ELSE "RecordOnly"
=============================================================================
