------------------------------- MODULE Config -------------------------------
(***************************************************************************)
(* The agent's configuration (internal/config): Config.Load takes every    *)
(* field from its default, the YAML file, the environment and the options, *)
(* in that order, then repairs or rejects what it got.  NewConfig runs it  *)
(* on a fresh object when the package is initialised; config.Load runs it  *)
(* again on the same object.                                               *)
(*                                                                         *)
(* Fields that the code treats alike have one representative: Precision    *)
(* stands for the numbers and flags that nothing validates, Proxy for such *)
(* strings, TokenBucketCap for TokenBucketRate.                            *)
(* The nested structs are pointers, and a null in the file makes them Nil. *)
(*                                                                         *)
(* Load holds the write lock from its first to its last step, so that the  *)
(* getters see the object only when loading = "done".                      *)
(***************************************************************************)
EXTENDS Integers, Sequences, FiniteSets

CONSTANTS
    Files,         \* configuration files: [kind, sets, bad]
    Envs,          \* environments: functions from some fields to values
    Options,       \* what the options given to Load set
    Nil,           \* a nil pointer
    Unparsable     \* a text that stringToValue cannot convert

VARIABLES
    fields,        \* the fields of Config that are not structs
    sampling,      \* *SamplingConfig
    reporter,      \* *ReporterOptions, for its EventFlushInterval
    loading,       \* the step of Load
    lambda,        \* HasLambdaEnv
    file, env, opts  \* what this Load has read so far

configVars == <<fields, sampling, reporter, loading, lambda, file, env, opts>>
sources == <<file, env, opts>>

-----------------------------------------------------------------------------
(* Values.  A collector address has a host and perhaps a port; a service   *)
(* key has a token, perhaps a delimiter, and a name.                       *)

Empty == ""                     \* Go's empty string
NoPort == 0
Addr(h, p) == [host |-> h, port |-> p]
Key(t, n) == [token |-> t, name |-> n]
NoKey == Key(Empty, <<>>)
MaxSampleRate == 1000000
MinSampleRate == 0
MaxTokenBucketCapacity == 8
MaxEc2MetadataTimeout == 3000

\* A name is the sequence of its parts between colons; without the delimiter
\* there is none.
HasDelimiter(k) == k.name # <<>>

\* The fields and their defaults.
Default == [
    Collector |-> Addr("apm.collector", 443), SettingsURL |-> Empty, ServiceKey |-> NoKey,
    Proxy |-> Empty, Precision |-> 2, TransactionSettings |-> <<>>, Enabled |-> TRUE,
    Ec2MetadataTimeout |-> 1000, DebugLevel |-> "warn", TokenBucketCap |-> 8,
    TransactionName |-> Empty]

DefaultSampling == [TracingMode |-> "enabled", tracingModeConfigured |-> FALSE,
                    SampleRate |-> MaxSampleRate, sampleRateConfigured |-> FALSE]

DefaultReporter == 2

\* newConfig: Go's zero values.
Zero == [
    Collector |-> Addr(Empty, NoPort), SettingsURL |-> Empty, ServiceKey |-> NoKey,
    Proxy |-> Empty, Precision |-> 0, TransactionSettings |-> <<>>, Enabled |-> FALSE,
    Ec2MetadataTimeout |-> 0, DebugLevel |-> Empty, TokenBucketCap |-> 0, TransactionName |-> Empty]

\* Fields with an env tag: SettingsURL and TransactionSettings have none.
EnvFields == (DOMAIN Default \ {"SettingsURL", "TransactionSettings"})
                \cup {"TracingMode", "SampleRate", "EventFlushInterval"}

-----------------------------------------------------------------------------
(* Validators.                                                             *)

\* net.SplitHostPort fails on a host with colons outside brackets; a missing
\* port is accepted.
IsValidHost(a) == a.host \notin {"too:many:colons", Empty}

\* Token of 64 or 71 characters, name of 1 to 255 characters, colons included.
IsValidServiceKey(k) ==
    /\ k.token = "token64"
    /\ HasDelimiter(k)
    /\ k.name # <<Empty>> /\ "too long" \notin {k.name[i] : i \in DOMAIN k.name}

\* The name in lower case, its spaces replaced and other characters removed.
CleanPart(p) == CASE p = "My Svc" -> "my-svc" [] p = "%%" -> Empty [] OTHER -> p

ToServiceKey(k) == [k EXCEPT !.name = [i \in DOMAIN @ |-> CleanPart(@[i])]]

IsValidTracingMode(m) == m \in {"enabled", "disabled"}
IsValidSampleRate(r) == r \in MinSampleRate..MaxSampleRate
IsValidTokenBucketCap(x) == x \in 0..MaxTokenBucketCapacity
IsValidEc2MetadataTimeout(t) == t \in 0..MaxEc2MetadataTimeout

\* log.ToLogLevel recognises the names of the levels.
IsValidDebugLevel(l) == l \in {"debug", "info", "warn", "error"}

NormalizeTracingMode(m) == CASE m = "always" -> "enabled" [] m = "never" -> "disabled"
                             [] OTHER -> m

\* TransactionFilter.UnmarshalYAML: a URL filter, enabled or disabled, with a
\* regular expression or extensions but not both.
ValidFilter(f) == /\ f.type = "url"
                  /\ IsValidTracingMode(f.tracing)
                  /\ f.regex # f.extensions

-----------------------------------------------------------------------------
(* SamplingConfig: each value has a flag that says it was set.             *)

SetTracingMode(s, m) ==
    [s EXCEPT !.TracingMode = NormalizeTracingMode(m), !.tracingModeConfigured = TRUE]

\* A plausible slip: the rate is assigned without its flag.
SetSampleRateUnflagged(s, r) == [s EXCEPT !.SampleRate = r]

SetSampleRate(s, r) == [s EXCEPT !.SampleRate = r, !.sampleRateConfigured = TRUE]

ResetTracingMode(s) ==
    [s EXCEPT !.TracingMode = DefaultSampling.TracingMode, !.tracingModeConfigured = FALSE]

ResetSampleRate(s) ==
    [s EXCEPT !.SampleRate = DefaultSampling.SampleRate, !.sampleRateConfigured = FALSE]

\* SamplingConfig.UnmarshalYAML: starts from the defaults; a rate of -1, and a
\* mode called Invalid, mean not given.
UnmarshalSampling(y) ==
    LET s == IF "TracingMode" \in DOMAIN y /\ y.TracingMode # "Invalid"
             THEN SetTracingMode(DefaultSampling, y.TracingMode) ELSE DefaultSampling
    IN  IF "SampleRate" \in DOMAIN y /\ y.SampleRate # -1
        THEN SetSampleRate(s, y.SampleRate) ELSE s

\* SamplingConfig.validate
ValidateSampling(s) ==
    LET t == IF IsValidTracingMode(s.TracingMode) THEN s ELSE ResetTracingMode(s)
    IN  IF IsValidSampleRate(t.SampleRate) THEN t ELSE ResetSampleRate(t)

\* The variables that stringToValue can convert; the others are ignored.
Readable(e) == {x \in DOMAIN e \cap EnvFields : e[x] # Unparsable}

\* What a source gives in the fields S has the type of the field.
Typed(f, S) == /\ "Collector" \in S => f.Collector = Addr(f.Collector.host, f.Collector.port)
               /\ "Enabled" \in S => f.Enabled \in BOOLEAN

\* A file that is not read sets nothing; options exist for two fields only.
ASSUME SourcesAssumption ==
    /\ \A f \in Files : /\ f.kind # "yaml" => f.sets = <<>>
                        /\ Typed(f.sets, DOMAIN f.sets)
    /\ \A e \in Envs : Typed(e, Readable(e))
    /\ \A o \in Options : Typed(o, DOMAIN o) /\ DOMAIN o \subseteq {"Collector", "ServiceKey"}

\* A nil pointer is not a struct.
ValidSamplings == [TracingMode : {"enabled", "disabled"}, tracingModeConfigured : BOOLEAN,
                   SampleRate : MinSampleRate..MaxSampleRate, sampleRateConfigured : BOOLEAN]

ASSUME NilAssumption ==
    /\ Nil \notin ValidSamplings
    /\ \A f \in Files : ("Sampling" \in DOMAIN f.sets /\ f.sets.Sampling # Nil) =>
                          UnmarshalSampling(f.sets.Sampling) # Nil

-----------------------------------------------------------------------------
(* Load.                                                                   *)

\* initStruct leaves a nil pointer alone: there is no struct to initialise.
initStruct(p, default) == IF p = Nil THEN Nil ELSE default

\* A plausible slip: the transaction filters, a slice, are not reset.
ResetForgetsFilters(enabled) ==
    /\ fields' = [Default EXCEPT !.Enabled = enabled,
                                 !.TransactionSettings = fields.TransactionSettings]
    /\ sampling' = initStruct(sampling, DefaultSampling)
    /\ reporter' = initStruct(reporter, DefaultReporter)

Reset(enabled) ==
    /\ fields' = [Default EXCEPT !.Enabled = enabled]
    /\ sampling' = initStruct(sampling, DefaultSampling)
    /\ reporter' = initStruct(reporter, DefaultReporter)

resetThenDisable == Reset(FALSE) /\ loading' = "done"

NoFile == [kind |-> "none", sets |-> <<>>, bad |-> FALSE]

\* Load starts on a fresh object (NewConfig), or on the one there is.
BeginLoad ==
    /\ loading \in {"start", "done"}
    /\ Reset(Default.Enabled)
    /\ loading' = "file"
    /\ file' = NoFile /\ env' = <<>> /\ opts' = <<>>
    /\ UNCHANGED lambda

\* The scalar fields after the assignments in f.
Assign(c, f) == [x \in DOMAIN c |-> IF x \in DOMAIN f THEN f[x] ELSE c[x]]

FiltersOK(f) == "TransactionSettings" \in DOMAIN f.sets =>
                  \A i \in DOMAIN f.sets.TransactionSettings : ValidFilter(f.sets.TransactionSettings[i])

\* loadConfigFile: the file may be unusable (too large, unreadable, another
\* extension); yaml.Unmarshal works in place and what it did before an error
\* stays; only after a success are the nil pointers put back.
LoadConfigFile(f) ==
    LET s == IF "Sampling" \notin DOMAIN f.sets THEN sampling
             ELSE IF f.sets.Sampling = Nil THEN Nil ELSE UnmarshalSampling(f.sets.Sampling)
        r == IF "Reporter" \in DOMAIN f.sets THEN f.sets.Reporter ELSE reporter
    IN  /\ loading = "file"
        /\ file' = f
        /\ UNCHANGED <<lambda, env, opts>>
        /\ \/ /\ f.kind = "none"
              /\ loading' = "envs"
              /\ UNCHANGED <<fields, sampling, reporter>>
           \/ /\ f.kind = "unusable"
              /\ resetThenDisable
           \/ /\ f.kind = "yaml"
              /\ f.bad \/ ~ FiltersOK(f)
              /\ fields' = [Default EXCEPT !.Enabled = FALSE]
              /\ sampling' = initStruct(s, DefaultSampling)
              /\ reporter' = initStruct(r, DefaultReporter)
              /\ loading' = "done"
           \/ /\ f.kind = "yaml"
              /\ ~ f.bad /\ FiltersOK(f)
              /\ fields' = Assign(fields, f.sets)
              /\ sampling' = IF s = Nil THEN sampling ELSE s
              /\ reporter' = IF r = Nil THEN reporter ELSE r
              /\ loading' = "envs"

\* loadEnvsInternal: field by field, through the setter where there is one; the
\* fields of a nil struct are not visited.
LoadEnvs(e) ==
    LET t == IF sampling = Nil \/ "TracingMode" \notin Readable(e) THEN sampling
             ELSE SetTracingMode(sampling, e.TracingMode)
    IN  /\ loading = "envs"
        /\ env' = e
        /\ fields' = Assign(fields, [x \in Readable(e) |-> e[x]])
        /\ sampling' = IF t = Nil \/ "SampleRate" \notin Readable(e) THEN t
                       ELSE SetSampleRate(t, e.SampleRate)
        /\ reporter' = IF reporter = Nil \/ "EventFlushInterval" \notin Readable(e) THEN reporter
                       ELSE e.EventFlushInterval
        /\ loading' = "options"
        /\ UNCHANGED <<lambda, file, opts>>

\* WithCollector and WithServiceKey; then the test of Enabled.
ApplyOptions(o) ==
    /\ loading = "options"
    /\ opts' = o
    /\ IF fields.Enabled
       THEN /\ fields' = Assign(fields, o)
            /\ loading' = "validate"
            /\ UNCHANGED <<sampling, reporter>>
       ELSE resetThenDisable
    /\ UNCHANGED <<lambda, file, env>>

\* What validate makes of the fields: a value out of range goes back to its
\* default, or, for the token bucket, to the nearest bound.
Repaired(c) ==
    [c EXCEPT !.Collector = IF IsValidHost(@) THEN @ ELSE Default.Collector,
              !.Ec2MetadataTimeout = IF IsValidEc2MetadataTimeout(@) THEN @ ELSE Default.Ec2MetadataTimeout,
              !.TransactionName = IF lambda THEN @ ELSE Default.TransactionName,
              !.ServiceKey = IF lambda \/ @ = NoKey THEN @ ELSE ToServiceKey(@),
              !.DebugLevel = IF IsValidDebugLevel(@) THEN @ ELSE Default.DebugLevel,
              !.TokenBucketCap = IF IsValidTokenBucketCap(@) THEN @
                                 ELSE IF @ < 0 THEN 0 ELSE MaxTokenBucketCapacity]

\* Outside Lambda a service key that is set must be valid.
KeyAccepted(k) == lambda \/ k = NoKey \/ IsValidServiceKey(ToServiceKey(k))

\* A plausible slip: the sampling options are not validated.
ValidateWithoutSampling ==
    /\ loading = "validate"
    /\ IF KeyAccepted(fields.ServiceKey)
       THEN /\ fields' = Repaired(fields)
            /\ loading' = "done"
            /\ UNCHANGED <<sampling, reporter>>
       ELSE resetThenDisable
    /\ UNCHANGED <<lambda, sources>>

\* validate; Sampling.validate dereferences the pointer.
Validate ==
    /\ loading = "validate"
    /\ IF KeyAccepted(fields.ServiceKey)
       THEN IF sampling = Nil
            THEN loading' = "panic" /\ UNCHANGED <<fields, sampling, reporter>>
            ELSE /\ fields' = Repaired(fields)
                 /\ sampling' = ValidateSampling(sampling)
                 /\ loading' = "done"
                 /\ UNCHANGED reporter
       ELSE resetThenDisable
    /\ UNCHANGED <<lambda, sources>>

ConfigInit ==
    /\ fields = Zero
    /\ sampling = [DefaultSampling EXCEPT !.TracingMode = Empty, !.SampleRate = 0]
    /\ reporter = 0
    /\ loading = "start"
    /\ lambda \in BOOLEAN
    /\ file = NoFile /\ env = <<>> /\ opts = <<>>

ConfigNext ==
    \/ BeginLoad
    \/ \E f \in Files : LoadConfigFile(f)
    \/ \E e \in Envs : LoadEnvs(e)
    \/ \E o \in Options : ApplyOptions(o)
    \/ Validate

ConfigSpec == ConfigInit /\ [][ConfigNext]_configVars

-----------------------------------------------------------------------------
(* The getters that compute something.                                     *)

\* GetCollector adds the port; it panics on an address IsValidHost refuses.
GetCollector == [fields.Collector EXCEPT !.port = IF @ = NoPort THEN 443 ELSE @]

\* GetSettingsURL cuts at the last colon: the port, or, without one, inside an
\* IPv6 address.
SettingsHost(a) == IF a.port = NoPort /\ a.host = "[v6]" THEN "[v" ELSE a.host
GetSettingsURL == IF fields.SettingsURL # Empty THEN fields.SettingsURL ELSE SettingsHost(fields.Collector)

-----------------------------------------------------------------------------
(* Properties.                                                             *)

Loaded == loading = "done"

\* What Load leaves enabled is usable: GetCollector does not panic, and the
\* settings come from the host it names (unless that is an IPv6 address written
\* without a port), the ranges hold, outside Lambda there is no transaction name
\* and the key, if any, is valid, and the sampling options are in range.
LoadedIsValid ==
    Loaded /\ fields.Enabled =>
        /\ IsValidHost(fields.Collector)
        /\ (fields.SettingsURL = Empty /\ fields.Collector # Addr("[v6]", NoPort)) =>
             GetSettingsURL = GetCollector.host
        /\ IsValidEc2MetadataTimeout(fields.Ec2MetadataTimeout)
        /\ IsValidDebugLevel(fields.DebugLevel)
        /\ IsValidTokenBucketCap(fields.TokenBucketCap)
        /\ ~ lambda => /\ fields.TransactionName = Empty
                       /\ fields.ServiceKey = NoKey \/ IsValidServiceKey(fields.ServiceKey)
        /\ sampling # Nil
        /\ IsValidTracingMode(sampling.TracingMode) /\ IsValidSampleRate(sampling.SampleRate)

\* The flags that make oboe prefer the local sampling options say the truth: a
\* value without its flag is the default, whatever was reset on the way, and a
\* flag was set by a source of the last Load.
FlagsTruthful ==
    Loaded /\ sampling # Nil =>
        /\ ~ sampling.tracingModeConfigured => sampling.TracingMode = DefaultSampling.TracingMode
        /\ ~ sampling.sampleRateConfigured => sampling.SampleRate = DefaultSampling.SampleRate
        /\ sampling.tracingModeConfigured =>
             fields.Enabled /\ ("TracingMode" \in Readable(env) \/ "Sampling" \in DOMAIN file.sets)
        /\ sampling.sampleRateConfigured =>
             fields.Enabled /\ ("SampleRate" \in Readable(env) \/ "Sampling" \in DOMAIN file.sets)

\* What the sources of this Load say of each field: the options before the
\* environment, the environment before the file, the file before the default.
Said == [x \in DOMAIN Default |->
    IF x \in DOMAIN opts THEN opts[x]
    ELSE IF x \in Readable(env) THEN env[x]
    ELSE IF x \in DOMAIN file.sets THEN file.sets[x]
    ELSE Default[x]]

\* The same of the sampling options; a mode or a rate that nobody gives is one that
\* is not valid.
FileSampling ==
    IF "Sampling" \in DOMAIN file.sets /\ file.sets.Sampling # Nil THEN file.sets.Sampling ELSE <<>>
SaidMode == NormalizeTracingMode(
    IF "TracingMode" \in Readable(env) THEN env.TracingMode
    ELSE IF "TracingMode" \in DOMAIN FileSampling THEN FileSampling.TracingMode
    ELSE "Invalid")
SaidRate ==
    IF "SampleRate" \in Readable(env) THEN env.SampleRate
    ELSE IF "SampleRate" \in DOMAIN FileSampling THEN FileSampling.SampleRate
    ELSE -1
SaidSampling ==
    [TracingMode |-> IF IsValidTracingMode(SaidMode) THEN SaidMode ELSE DefaultSampling.TracingMode,
     tracingModeConfigured |-> IsValidTracingMode(SaidMode),
     SampleRate |-> IF IsValidSampleRate(SaidRate) THEN SaidRate ELSE DefaultSampling.SampleRate,
     sampleRateConfigured |-> IsValidSampleRate(SaidRate)]

\* And of the reporter.
SaidReporter ==
    IF "EventFlushInterval" \in Readable(env) THEN env.EventFlushInterval
    ELSE IF "Reporter" \in DOMAIN file.sets /\ file.sets.Reporter # Nil THEN file.sets.Reporter
    ELSE DefaultReporter

\* What the sources of the last Load say decides every value: each field, those of
\* the nested structs and their flags included, is what the strongest source says,
\* repaired, or, when the agent is disabled, its default.  One thing is left out: a
\* nested struct that a file sets to null before its error stays nil, also for the
\* next Load, since loadYaml returns before it puts the pointer back and initStruct
\* passes over nil ones, although NewConfig (config.go:330) promises default values.
LoadIsPure ==
    Loaded =>
        /\ fields = IF fields.Enabled THEN Repaired(Said)
                    ELSE [Default EXCEPT !.Enabled = FALSE]
        /\ sampling # Nil =>
             sampling = IF fields.Enabled THEN SaidSampling ELSE DefaultSampling
        /\ reporter # Nil =>
             reporter = IF fields.Enabled THEN SaidReporter ELSE DefaultReporter

=============================================================================
