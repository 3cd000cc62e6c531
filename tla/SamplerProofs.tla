---------------------------- MODULE SamplerProofs ---------------------------
(***************************************************************************)
(* Proofs about Sampler: any number of requests, any sequence of settings  *)
(* updates and expiries, any configuration, any rates and capacities.      *)
(*                                                                         *)
(* The properties speak of finished requests.  SampleInv carries what is   *)
(* known of a request from its arrival to its decision, over settings      *)
(* objects that other goroutines replace, expire and drain meanwhile.  It  *)
(* rests on one fact about the store: the pointer is nil or points to the  *)
(* newest object.  BudgetInv accounts for the tokens of every generation.  *)
(***************************************************************************)
EXTENDS Sampler, TLAPS, SequenceTheorems

-----------------------------------------------------------------------------
(* The invariant of the settings store.                                    *)

Tokens == {arg.token : arg \in UpdateArgs}
Objects ==
    [timestamp : Nat, ttl : Int, source : {"Default", "File"}, flags : SUBSET FlagNames,
     originalFlags : SUBSET FlagNames, value : Int, token : Tokens, buckets : [BucketKinds -> Buckets]]

\* What a settings object owes the local configuration and the OVERRIDE flag.
Obeys(s, cfg) ==
    /\ (cfg.samplingConfigured /\ cfg.tracingMode = "disabled") => s.flags = {}
    /\ ~ cfg.triggerTrace => "TRIGGER_TRACE" \notin s.flags
    /\ hasOverrideFlag(s) => s.flags \subseteq s.originalFlags

\* The pointer is nil or points to the newest object.
StoreInv ==
    /\ now \in Nat /\ config \in LocalConfigs
    /\ heap \in Seq(Objects)
    /\ settings \in {Nil, Len(heap)}
    /\ pending \in Objects \cup {NoSettings}
    /\ \A g \in 1..Len(heap) : Obeys(heap[g], config)
    /\ pending # NoSettings => Obeys(pending, config)

-----------------------------------------------------------------------------
(* The invariant of a request.                                             *)

Entries == Parents \ {"localSampled", "localUnsampled"}

\* What is known of a request once its signature has been checked, if it has one.
Signed(q) ==
    /\ q.parent \in Entries /\ q.opts \in Options
    /\ q.born \in 0..Len(heap) /\ q.authGen \in 0..Len(heap)
    /\ q.sigState \in {"None", "Valid", "Invalid"}
    /\ q.sigState = "None" <=> q.opts.key = NoSig
    /\ q.sigState = "Valid" =>
         /\ q.opts.tsInScope /\ q.authGen # Nil /\ q.born =< q.authGen
         /\ q.opts.key = heap[q.authGen].token

\* The request holds settings at least as new as those it has met before.
Current(q) == q.gen \in 1..Len(heap) /\ q.born =< q.gen /\ q.authGen =< q.gen

\* What a decision says, in terms of the settings it was drawn from.
Outcome(q) ==
    LET flags == heap[q.gen].flags
        t     == q.response.triggerTrace
    IN  /\ q.took # "nothing" =>
             /\ q.gen # Nil /\ q.parent = "none" /\ TtMode(q) # "Invalid" /\ q.took = BucketFor(TtMode(q))
             /\ IF q.took = "default" THEN "SAMPLE_START" \in flags ELSE "TRIGGER_TRACE" \in flags
        /\ Sampled(q) =>
             /\ q.gen # Nil /\ flags # {}
             /\ q.parent = "none" => q.took # "nothing"
        /\ t = "ok" <=> q.took \in {"relaxed", "strict"}
        /\ t = "rate-exceeded" => q.opts.triggerTrace /\ ~ Sampled(q)
        /\ t = "settings-not-available" => q.gen = Nil
        /\ t = "ignored" => q.parent # "none"

RequestInv(r) ==
    LET q == req[r]
    IN  \/ q = Idle
        \/ q.pc = "local"
        \/ /\ q \in [pc : {"auth"}, parent : Entries, opts : Options, sigState : {"None"},
                     authMsg : {""}, authGen : {Nil}, born : 0..Len(heap)]
           /\ q.opts.key # NoSig
        \/ q.pc = "load" /\ Signed(q)
        \/ q.pc = "count" /\ Signed(q) /\ Current(q)
        \/ q.pc = "done" /\ Signed(q) /\ (q.gen = Nil \/ Current(q)) /\ Outcome(q)

SampleInv == StoreInv /\ DOMAIN req = Requests /\ \A r \in Requests : RequestInv(r)

-----------------------------------------------------------------------------
(* The invariant of the buckets.                                           *)

\* A bucket created at ts, of which g tokens were taken, at time t: what was taken
\* and what is left is covered by the capacity and the refill up to last, and
\* before its first refill it is empty.
Paid(b, ts, g, t) ==
    /\ b.last =< t /\ b.available =< b.capacity
    /\ b.last < ts => g = 0 /\ b.available = 0
    /\ ts =< b.last => g * Token + b.available =< b.capacity + b.ratePerSec * (b.last - ts)

BudgetInv ==
    /\ granted \in [(1 .. MaxGen) \X BucketKinds -> Nat]
    /\ Len(heap) =< MaxGen /\ (pending # NoSettings => Len(heap) < MaxGen)
    /\ \A g \in 1..MaxGen, k \in BucketKinds :
         IF g =< Len(heap)
         THEN heap[g].timestamp =< now /\ Paid(heap[g].buckets[k], heap[g].timestamp, granted[<<g, k>>], now)
         ELSE granted[<<g, k>>] = 0
    /\ pending # NoSettings =>
         /\ pending.timestamp =< now
         /\ \A k \in BucketKinds : Paid(pending.buckets[k], pending.timestamp, 0, now)

-----------------------------------------------------------------------------
(* Settings objects.                                                       *)

\* The rate is brought into the legal range.
LEMMA RateIsInt == ASSUME NEW v \in Int PROVE adjustSampleRate(v) \in Int
  BY MaxSampleRateAssumption DEF adjustSampleRate

\* A bucket of a new settings object is empty and has never been refilled.
LEMMA FreshBucket ==
    ASSUME NEW r \in Nat, NEW c \in Nat
    PROVE  setRateCap(NewBucket, r, c)
             = [ratePerSec |-> r, capacity |-> c, available |-> 0, last |-> 0]
<1>1. setRateCap(NewBucket, r, c)
        = [NewBucket EXCEPT !.ratePerSec = r, !.capacity = c, !.available = 0]
  BY DEF setRateCap, NewBucket, MinOf
<1> QED BY <1>1 DEF NewBucket, ZeroTime

\* What MergeLocalSetting may change, and what the result owes the configuration.
LEMMA MergeFacts ==
    ASSUME NEW s \in Objects, NEW cfg, cfg.sampleRate \in Int, s.flags = s.originalFlags
    PROVE  /\ MergeLocalSetting(s, cfg) \in Objects
           /\ MergeLocalSetting(s, cfg).timestamp = s.timestamp
           /\ MergeLocalSetting(s, cfg).buckets = s.buckets
           /\ Obeys(MergeLocalSetting(s, cfg), cfg)
<1> DEFINE local  == toFlags(cfg.tracingMode)
           lowers == s.value > cfg.sampleRate
           merged ==
             CASE cfg.samplingConfigured /\ hasOverrideFlag(s) ->
                    [s EXCEPT !.value  = IF lowers THEN cfg.sampleRate ELSE @,
                              !.source = IF lowers THEN "File" ELSE @,
                              !.flags  = @ \cap local]
               [] cfg.samplingConfigured /\ ~ hasOverrideFlag(s) ->
                    [s EXCEPT !.value  = cfg.sampleRate,
                              !.source = "File",
                              !.flags  = local]
               [] OTHER -> s
<1>1. local \subseteq FlagNames /\ (cfg.tracingMode = "disabled" => local = {})
  BY DEF toFlags, FlagNames
<1> HIDE DEF local
<1>2. /\ merged \in Objects /\ merged.timestamp = s.timestamp /\ merged.buckets = s.buckets
      /\ merged.originalFlags = s.originalFlags
      /\ (cfg.samplingConfigured /\ cfg.tracingMode = "disabled") => merged.flags = {}
      /\ hasOverrideFlag(s) => merged.flags \subseteq s.originalFlags
  <2>1. CASE cfg.samplingConfigured /\ hasOverrideFlag(s)
    BY <1>1, <2>1 DEF Objects
  <2>2. CASE cfg.samplingConfigured /\ ~ hasOverrideFlag(s)
    BY <1>1, <2>2 DEF Objects
  <2>3. CASE ~ cfg.samplingConfigured
    BY <2>3 DEF Objects
  <2> QED BY <2>1, <2>2, <2>3
<1> DEFINE m == MergeLocalSetting(s, cfg)
<1>3. m = [merged EXCEPT !.flags = IF cfg.triggerTrace THEN @ ELSE @ \ {"TRIGGER_TRACE"}]
  BY DEF MergeLocalSetting, local
<1> HIDE DEF merged, m
<1>4. /\ m \in Objects /\ m.timestamp = s.timestamp /\ m.buckets = s.buckets
      /\ m.originalFlags = s.originalFlags /\ m.flags \subseteq merged.flags
      /\ ~ cfg.triggerTrace => "TRIGGER_TRACE" \notin m.flags
  BY <1>2, <1>3 DEF Objects
<1>5. Obeys(m, cfg)
  BY <1>2, <1>4 DEF Obeys, hasOverrideFlag
<1> QED BY <1>4, <1>5 DEF m

\* What UpdateSetting builds: an object that obeys the configuration, stamped
\* with the clock, with empty buckets.
LEMMA NewSettingsFacts ==
    ASSUME NEW arg \in UpdateArgs, NEW cfg \in LocalConfigs, NEW t \in Nat
    PROVE  /\ newSettings(arg, cfg, t) \in Objects
           /\ newSettings(arg, cfg, t).timestamp = t
           /\ \A k \in BucketKinds :
                newSettings(arg, cfg, t).buckets[k].available = 0 /\ newSettings(arg, cfg, t).buckets[k].last = 0
           /\ Obeys(newSettings(arg, cfg, t), cfg)
<1> DEFINE bs == [k \in BucketKinds |-> setRateCap(NewBucket, arg.rate[k], arg.capacity[k])]
           fl == flagStringToBin(arg.flags)
           va == adjustSampleRate(arg.value)
           s  == [timestamp |-> t, ttl |-> arg.ttl, source |-> "Default", flags |-> fl,
                  originalFlags |-> fl, value |-> va, token |-> arg.token, buckets |-> bs]
<1>1. bs \in [BucketKinds -> Buckets] /\ \A k \in BucketKinds : bs[k].available = 0 /\ bs[k].last = 0
  <2> SUFFICES ASSUME NEW k \in BucketKinds
               PROVE  bs[k] \in Buckets /\ bs[k].available = 0 /\ bs[k].last = 0
    OBVIOUS
  <2>1. arg.rate[k] \in Nat /\ arg.capacity[k] \in Nat
    BY ArgsAssumption
  <2>2. bs[k] = [ratePerSec |-> arg.rate[k], capacity |-> arg.capacity[k], available |-> 0, last |-> 0]
    BY <2>1, FreshBucket
  <2> QED BY <2>1, <2>2 DEF Buckets
<1>2. fl \subseteq FlagNames
  BY DEF flagStringToBin
<1>3. va \in Int
  BY ArgsAssumption, RateIsInt
<1>4. arg.token \in Tokens /\ arg.ttl \in Int
  BY ArgsAssumption DEF Tokens
<1>5. newSettings(arg, cfg, t) = MergeLocalSetting(s, cfg)
  BY DEF newSettings
<1> HIDE DEF bs, fl, va
<1>6. s \in Objects /\ s.flags = s.originalFlags /\ s.timestamp = t /\ s.buckets = bs
  BY <1>1, <1>2, <1>3, <1>4 DEF Objects
<1> HIDE DEF s
<1>7. cfg.sampleRate \in Int
  BY ArgsAssumption
<1> QED BY <1>1, <1>5, <1>6, <1>7, MergeFacts

-----------------------------------------------------------------------------
(* One decision.                                                           *)

\* A header that asks for a trigger trace is a header.
LEMMA OptionFacts ==
    ASSUME NEW o \in Options
    PROVE  /\ o.present \in BOOLEAN /\ o.triggerTrace \in BOOLEAN /\ o.tsInScope \in BOOLEAN
           /\ o.triggerTrace => o.present
<1>1. o \in AllOptions
  BY InputsAssumption
<1> QED BY <1>1, Zenon DEF AllOptions

\* Of the parents that reach a decision, only the missing one starts a trace.
LEMMA EntryFacts ==
    ASSUME NEW p \in Entries
    PROVE  /\ p \notin {"localSampled", "localUnsampled"}
           /\ p = "none" <=> SwState(p) = "none"
           /\ SwState(p) \in {"none", "sampled", "unsampled"}
  BY InputsAssumption DEF Entries, AllParents, SwState

\* What a decision says, given the answer of the bucket.
LEMMA DecisionFacts ==
    ASSUME NEW s, NEW tt, NEW sw, NEW ret \in BOOLEAN
    PROVE  /\ SamplingResult(SampleDecision(s, "none", tt, sw, ret)) = "RecordAndSample"
                => ret /\ Enabled(s.flags)
           /\ SampleDecision(s, "none", tt, sw, ret).rsp
                = IF TriggerPath(tt, sw) THEN TriggerResponse(s.flags, tt, ret)
                  ELSE IF TtRequested(tt) THEN "ignored" ELSE "not-requested"
<1> DEFINE d == SampleDecision(s, "none", tt, sw, ret)
<1>1. /\ d.trace = ret /\ d.enabled = Enabled(s.flags)
      /\ d.rsp = IF TriggerPath(tt, sw) THEN TriggerResponse(s.flags, tt, ret)
                 ELSE IF TtRequested(tt) THEN "ignored" ELSE "not-requested"
  <2>1. mergeURLSetting(s, "none") = s.flags
    BY DEF mergeURLSetting
  <2>2. CASE TriggerPath(tt, sw)
    BY <2>1, <2>2 DEF SampleDecision
  <2>3. CASE ~ TriggerPath(tt, sw)
    BY <2>1, <2>3 DEF SampleDecision
  <2> QED BY <2>2, <2>3
<1> HIDE DEF d
<1>2. SamplingResult(d) = "RecordAndSample" => d.enabled /\ d.trace
  BY DEF SamplingResult
<1> QED BY <1>1, <1>2 DEF d

\* The bucket is asked only for a new trace, and what the decision says follows
\* from whether it was asked and what it answered.
LEMMA OutcomeFacts ==
    ASSUME NEW q, q.parent \in Entries, q.opts \in Options,
           q.sigState \in {"None", "Valid", "Invalid"},
           NEW s, NEW dice, NEW can \in BOOLEAN
    PROVE  LET tt    == TtMode(q)
               sw    == SwState(q.parent)
               wants == WantsTrace(s, mergeURLSetting(s, "none"), tt, sw, dice)
               asks  == wants /\ RateLimits(sw)
               ok    == wants /\ (asks => can)
               d     == SampleDecision(s, "none", tt, sw, ok)
               took  == IF asks /\ ok THEN BucketFor(tt) ELSE "nothing"
               res   == SamplingResult(d)
               t     == Response(q, d.rsp).triggerTrace
           IN  /\ took # "nothing" =>
                    /\ q.parent = "none" /\ tt # "Invalid" /\ took = BucketFor(tt)
                    /\ IF took = "default" THEN "SAMPLE_START" \in s.flags
                                           ELSE "TRIGGER_TRACE" \in s.flags
               /\ res = "RecordAndSample" =>
                    s.flags # {} /\ (q.parent = "none" => took # "nothing")
               /\ t = "ok" <=> took \in {"relaxed", "strict"}
               /\ t = "rate-exceeded" => q.opts.triggerTrace /\ res # "RecordAndSample"
               /\ t # "settings-not-available"
               /\ t = "ignored" => q.parent # "none"
<1> DEFINE tt == TtMode(q)
           sw == SwState(q.parent)
           wants == WantsTrace(s, mergeURLSetting(s, "none"), tt, sw, dice)
           asks  == wants /\ RateLimits(sw)
           ok    == wants /\ (asks => can)
           d     == SampleDecision(s, "none", tt, sw, ok)
           took == IF asks /\ ok THEN BucketFor(tt) ELSE "nothing"
           res  == SamplingResult(d)
           t    == Response(q, d.rsp).triggerTrace
<1>1. /\ tt \in TtModes
      /\ tt # "NotPresent" <=> q.opts.triggerTrace
      /\ tt = "Invalid" => q.sigState = "Invalid"
      /\ tt \in {"Relaxed", "Strict"} => q.sigState # "Invalid"
  BY OptionFacts DEF TtMode, getTtMode, TtModes
<1>2. /\ q.parent = "none" <=> sw = "none"
      /\ sw \in {"none", "sampled", "unsampled"}
  BY EntryFacts
<1>3. t = IF ~ q.opts.present \/ q.sigState = "Invalid" THEN "" ELSE d.rsp
  BY DEF Response
<1>4. q.opts.triggerTrace => q.opts.present
  BY OptionFacts
<1>5. ok \in BOOLEAN
  OBVIOUS
<1>6. /\ res = "RecordAndSample" => ok /\ Enabled(s.flags)
      /\ d.rsp = IF TriggerPath(tt, sw) THEN TriggerResponse(s.flags, tt, ok)
                 ELSE IF TtRequested(tt) THEN "ignored" ELSE "not-requested"
  BY <1>5, DecisionFacts
<1>7. mergeURLSetting(s, "none") = s.flags
  BY DEF mergeURLSetting
<1>8. wants <=> CASE tt # "NotPresent" /\ sw = "none" -> tt # "Invalid" /\ "TRIGGER_TRACE" \in s.flags
                  [] tt = "NotPresent" /\ sw = "none" -> "SAMPLE_START" \in s.flags /\ shouldSample(s.value, dice)
                  [] sw = "sampled" -> \/ "SAMPLE_THROUGH_ALWAYS" \in s.flags
                                       \/ "SAMPLE_THROUGH" \in s.flags /\ shouldSample(s.value, dice)
                  [] sw = "unsampled" -> FALSE
  BY <1>2, <1>7 DEF WantsTrace, TriggerPath, TtRequested, Continued, TriggerTraceEnabled
<1>9. asks <=> wants /\ sw = "none"
  BY DEF RateLimits, Continued
<1>10. ok <=> wants /\ (asks => can)
  OBVIOUS
<1> HIDE DEF tt, sw, wants, asks, ok, d, res, t
<1>11. Enabled(s.flags) => s.flags # {}
  BY DEF Enabled
<1>12. took # "nothing" =>
         /\ q.parent = "none" /\ tt # "Invalid" /\ took = BucketFor(tt)
         /\ IF took = "default" THEN "SAMPLE_START" \in s.flags ELSE "TRIGGER_TRACE" \in s.flags
  BY <1>1, <1>2, <1>8, <1>9 DEF BucketFor, TtModes
<1>13. res = "RecordAndSample" => s.flags # {} /\ (q.parent = "none" => took # "nothing")
  BY <1>1, <1>2, <1>6, <1>9, <1>10, <1>11 DEF BucketFor, TtModes
<1>14. CASE tt # "NotPresent" /\ sw = "none"
  <2>1. d.rsp = CASE "TRIGGER_TRACE" \in s.flags /\ tt \in {"Relaxed", "Strict"} ->
                       IF ok THEN "ok" ELSE "rate-exceeded"
                  [] tt = "Invalid" -> ""
                  [] OTHER -> IF Enabled(s.flags) THEN "trigger-tracing-disabled" ELSE "tracing-disabled"
    BY <1>6, <1>14 DEF TriggerPath, TtRequested, Continued, TriggerResponse, TriggerTraceEnabled, TtEnabled
  <2>2. took \in {"relaxed", "strict"} <=> ok
    BY <1>1, <1>8, <1>9, <1>10, <1>14 DEF BucketFor, TtModes
  <2>3. ok => "TRIGGER_TRACE" \in s.flags /\ tt \in {"Relaxed", "Strict"}
    BY <1>1, <1>8, <1>10, <1>14 DEF TtModes
  <2> HIDE DEF took
  <2>4. /\ t = "ok" <=> ok
        /\ t = "rate-exceeded" => ~ ok
        /\ t # "settings-not-available" /\ t # "ignored"
    <3>1. CASE t = ""
      BY <3>1, <2>1, <2>3, <1>1, <1>3, <1>4, <1>14
    <3>2. CASE t # ""
      <4>1. t = d.rsp /\ d.rsp # ""
        BY <3>2, <1>3
      <4> QED BY <4>1, <2>1, <2>3
    <3> QED BY <3>1, <3>2
  <2> QED BY <2>2, <2>4, <1>1, <1>6, <1>12, <1>13, <1>14 DEF took, res, t, tt, sw, wants, asks, ok, d
<1>15. CASE ~ (tt # "NotPresent" /\ sw = "none")
  <2>1. d.rsp = IF tt # "NotPresent" THEN "ignored" ELSE "not-requested"
    BY <1>6, <1>15 DEF TriggerPath, TtRequested, Continued
  <2>2. took \notin {"relaxed", "strict"}
    BY <1>9, <1>15 DEF BucketFor
  <2>3. t \in {"", "ignored", "not-requested"} /\ (t = "ignored" => q.parent # "none")
    BY <2>1, <1>2, <1>3, <1>15
  <2> HIDE DEF took
  <2> QED BY <2>2, <2>3, <1>12, <1>13 DEF took, res, t, tt, sw, wants, asks, ok, d
<1> QED BY <1>14, <1>15

-----------------------------------------------------------------------------
(* The store and the requests.                                             *)

\* Objects are appended and their buckets drained, but what a request relies on
\* in an object it holds, the key and the flags, never changes.
HeapKept ==
    /\ Len(heap) \in Nat /\ Len(heap') \in Nat /\ Len(heap) =< Len(heap')
    /\ \A g \in 1..Len(heap) : heap'[g].token = heap[g].token /\ heap'[g].flags = heap[g].flags

\* A request is not disturbed by what others do.
LEMMA RequestKept ==
    ASSUME NEW r \in Requests, RequestInv(r), req'[r] = req[r], HeapKept
    PROVE  RequestInv(r)'
<1> DEFINE q == req[r]
<1>1. q = Idle => RequestInv(r)'
  BY DEF RequestInv
<1>2. q.pc = "local" => RequestInv(r)'
  BY DEF RequestInv
<1>3. Signed(q) => Signed(q)'
  <2> SUFFICES ASSUME Signed(q) PROVE Signed(q)'
    OBVIOUS
  <2>1. q' = q /\ 0..Len(heap) \subseteq 0..Len(heap')
    BY DEF HeapKept
  <2>2. q.authGen \in 0..Len(heap) /\ q.born \in 0..Len(heap)
    BY DEF Signed
  <2>3. q.authGen # Nil => heap'[q.authGen].token = heap[q.authGen].token
    BY <2>2 DEF HeapKept, Nil
  <2> HIDE DEF q
  <2> QED BY <2>1, <2>2, <2>3, Zenon DEF Signed
<1>4. Current(q) => Current(q)'
  BY DEF Current, HeapKept
<1>5. Outcome(q) /\ (q.gen = Nil \/ Current(q)) => Outcome(q)'
  BY DEF Outcome, Current, HeapKept, TtMode, Sampled
<1>6. ASSUME q \in [pc : {"auth"}, parent : Entries, opts : Options, sigState : {"None"},
                    authMsg : {""}, authGen : {Nil}, born : 0..Len(heap)],
             q.opts.key # NoSig
      PROVE  RequestInv(r)'
  <2>1. q \in [pc : {"auth"}, parent : Entries, opts : Options, sigState : {"None"},
               authMsg : {""}, authGen : {Nil}, born : 0..Len(heap')]
    <3>1. 0..Len(heap) \subseteq 0..Len(heap')
      BY DEF HeapKept
    <3> QED BY <1>6, <3>1, Zenon
  <2> QED BY <2>1, <1>6 DEF RequestInv
<1>7. q.pc = "load" /\ Signed(q) => RequestInv(r)'
  BY <1>3 DEF RequestInv
<1>8. q.pc = "count" /\ Signed(q) /\ Current(q) => RequestInv(r)'
  BY <1>3, <1>4 DEF RequestInv
<1>9. q.pc = "done" /\ Signed(q) /\ (q.gen = Nil \/ Current(q)) /\ Outcome(q) => RequestInv(r)'
  BY <1>3, <1>4, <1>5 DEF RequestInv
<1> QED BY <1>1, <1>2, <1>6, <1>7, <1>8, <1>9 DEF RequestInv

\* The store's invariant at the start.
LEMMA SampleInit == Init => SampleInv
<1> SUFFICES ASSUME Init PROVE SampleInv
  OBVIOUS
<1>1. StoreInv
  BY ClockAssumption DEF Init, OboeInit, StoreInv
<1>2. DOMAIN req = Requests /\ \A r \in Requests : RequestInv(r)
  BY DEF Init, SamplerInit, RequestInv
<1> QED BY <1>1, <1>2 DEF SampleInv

\* The store keeps its invariant, and its objects, under its own steps.
LEMMA StoreStep ==
    ASSUME StoreInv, OboeNext
    PROVE  StoreInv' /\ HeapKept
<1>1. Len(heap) \in Nat /\ heap \in Seq(Objects) /\ now \in Nat /\ config \in LocalConfigs
  BY DEF StoreInv
<1>2. ASSUME NEW arg \in UpdateArgs, BuildSetting(arg) PROVE StoreInv' /\ HeapKept
  <2>1. pending' \in Objects /\ Obeys(pending', config)
    BY <1>1, <1>2, NewSettingsFacts DEF BuildSetting
  <2>2. UNCHANGED <<now, config, settings, heap, ttlSeen>>
    BY <1>2 DEF BuildSetting
  <2>3. StoreInv'
    BY <2>1, <2>2 DEF StoreInv, Obeys, hasOverrideFlag
  <2> QED BY <2>2, <2>3, <1>1 DEF HeapKept
<1>3. ASSUME StoreSetting PROVE StoreInv' /\ HeapKept
  <2>1. /\ pending \in Objects /\ Obeys(pending, config) /\ heap' = Append(heap, pending)
        /\ settings' = Len(heap') /\ pending' = NoSettings /\ now' = now /\ config' = config
    BY <1>3 DEF StoreSetting, StoreInv
  <2>2. /\ heap' \in Seq(Objects) /\ Len(heap') = Len(heap) + 1
        /\ heap'[Len(heap) + 1] = pending
        /\ \A g \in 1..Len(heap) : heap'[g] = heap[g]
    BY <1>1, <2>1
  <2>3. \A g \in 1..Len(heap') : Obeys(heap'[g], config)
    <3> SUFFICES ASSUME NEW g \in 1..Len(heap') PROVE Obeys(heap'[g], config)
      OBVIOUS
    <3>1. g \in 1..Len(heap) \/ g = Len(heap) + 1
      BY <2>2, <1>1
    <3> QED BY <3>1, <2>1, <2>2 DEF StoreInv
  <2>4. StoreInv'
    BY <2>1, <2>2, <2>3, <1>1 DEF StoreInv, Obeys, hasOverrideFlag
  <2> QED BY <2>2, <2>4, <1>1 DEF HeapKept
<1>4. ASSUME TtlLoad \/ TtlJudge \/ Tick PROVE StoreInv' /\ HeapKept
  <2>1. /\ heap' = heap /\ config' = config /\ pending' = pending
        /\ now' \in Nat /\ settings' \in {Nil, settings}
    BY <1>1, <1>4 DEF TtlLoad, TtlJudge, Tick
  <2>2. StoreInv'
    BY <2>1 DEF StoreInv, Obeys, hasOverrideFlag
  <2> QED BY <2>1, <2>2, <1>1 DEF HeapKept
<1> QED BY <1>2, <1>3, <1>4 DEF OboeNext

\* A step that leaves the store alone.
LEMMA StoreKept ==
    ASSUME StoreInv, UNCHANGED oboeVars PROVE StoreInv' /\ HeapKept
<1>1. Len(heap) \in Nat
  BY DEF StoreInv
<1> QED BY <1>1 DEF oboeVars, StoreInv, Obeys, hasOverrideFlag, HeapKept

\* A request arrives.
LEMMA ArriveStep ==
    ASSUME StoreInv, NEW r \in Requests, DOMAIN req = Requests, Arrive(r)
    PROVE  RequestInv(r)'
<1>1. Len(heap) \in Nat
  BY DEF StoreInv
<1>2. ASSUME NEW parent \in Parents, LocalParent(r, parent) PROVE RequestInv(r)'
  <2>1. req'[r].pc = "local"
    BY <1>2 DEF LocalParent
  <2> QED BY <2>1 DEF RequestInv
<1>3. ASSUME NEW parent \in Parents, NEW opts \in Options, RootOrRemote(r, parent, opts)
      PROVE  RequestInv(r)'
  <2> DEFINE q == [pc |-> IF opts.key = NoSig THEN "load" ELSE "auth",
                   parent |-> parent, opts |-> opts,
                   sigState |-> "None", authMsg |-> "", authGen |-> Nil, born |-> Len(heap)]
  <2>1. req'[r] = q /\ parent \in Entries /\ heap' = heap
    BY <1>3 DEF RootOrRemote, Entries, oboeVars
  <2>2. CASE opts.key = NoSig
    <3>1. /\ q.pc = "load" /\ q.parent = parent /\ q.opts = opts /\ q.sigState = "None"
          /\ q.authGen = 0 /\ q.born = Len(heap)
      BY <2>2 DEF Nil
    <3> HIDE DEF q
    <3>2. Signed(req[r])'
      BY <2>1, <2>2, <3>1, <1>1 DEF Signed
    <3> QED BY <2>1, <3>1, <3>2 DEF RequestInv
  <2>3. CASE opts.key # NoSig
    <3>1. q = [pc |-> "auth", parent |-> parent, opts |-> opts,
               sigState |-> "None", authMsg |-> "", authGen |-> Nil, born |-> Len(heap)]
      BY <2>3
    <3> HIDE DEF q
    <3>2. q \in [pc : {"auth"}, parent : Entries, opts : Options, sigState : {"None"},
                 authMsg : {""}, authGen : {Nil}, born : 0..Len(heap)]
      <4>1. Len(heap) \in 0..Len(heap)
        BY <1>1
      <4>2. parent \in Entries /\ opts \in Options
        BY <2>1
      <4> QED BY <4>1, <4>2, <3>1
    <3>3. q.opts.key # NoSig
      BY <2>3, <3>1
    <3> QED BY <2>1, <3>2, <3>3 DEF RequestInv
  <2> QED BY <2>2, <2>3
<1> QED BY <1>2, <1>3 DEF Arrive

\* The signature is checked against the key of the settings in force now, which
\* are no older than those in force when the request arrived.
LEMMA AuthenticateStep ==
    ASSUME StoreInv, NEW r \in Requests, DOMAIN req = Requests, RequestInv(r), Authenticate(r)
    PROVE  RequestInv(r)'
<1> DEFINE q == req[r]
           msg == AuthMsg(q.opts)
<1>1. /\ Len(heap) \in Nat /\ settings \in 0..Len(heap)
      /\ settings # Nil => settings = Len(heap)
  BY DEF StoreInv, Nil
<1>2. /\ q.parent \in Entries /\ q.opts \in Options /\ q.born \in 0..Len(heap)
      /\ q.opts.key # NoSig
      /\ q \in [pc : {"auth"}, parent : Entries, opts : Options, sigState : {"None"},
                authMsg : {""}, authGen : {Nil}, born : 0..Len(heap)]
  <2>1. q.pc = "auth"
    BY DEF Authenticate
  <2>2. q # Idle
    BY <2>1 DEF Idle
  <2>3. /\ q \in [pc : {"auth"}, parent : Entries, opts : Options, sigState : {"None"},
                  authMsg : {""}, authGen : {Nil}, born : 0..Len(heap)]
        /\ q.opts.key # NoSig
    BY <2>1, <2>2 DEF RequestInv
  <2> HIDE DEF q
  <2> QED BY <2>3
<1>3. heap' = heap /\ settings' = settings
  BY DEF Authenticate, oboeVars
<1>4. msg = "ok" => q.opts.tsInScope /\ settings # Nil /\ q.opts.key = heap[settings].token
  BY OptionFacts, <1>2 DEF AuthMsg
<1> HIDE DEF msg
<1>5. req'[r] = [q EXCEPT !.pc = "load", !.sigState = IF msg = "ok" THEN "Valid" ELSE "Invalid",
                          !.authMsg = msg, !.authGen = settings]
  BY DEF Authenticate, msg
<1>6. /\ req'[r].pc = "load" /\ req'[r].parent = q.parent /\ req'[r].opts = q.opts
      /\ req'[r].born = q.born /\ req'[r].authGen = settings
      /\ req'[r].sigState = IF msg = "ok" THEN "Valid" ELSE "Invalid"
  BY <1>2, <1>5
<1>7. settings # Nil => q.born =< settings
  <2>1. q.born \in 0..Len(heap)
    BY <1>2
  <2> HIDE DEF q
  <2> QED BY <1>1, <2>1
<1>8. Signed(req[r])'
  BY <1>1, <1>2, <1>3, <1>4, <1>6, <1>7 DEF Signed
<1> QED BY <1>6, <1>8 DEF RequestInv

\* SampleRequest loads the settings, or answers that there are none.
LEMMA LoadStep ==
    ASSUME StoreInv, NEW r \in Requests, DOMAIN req = Requests, RequestInv(r), LoadSetting(r)
    PROVE  RequestInv(r)'
<1> DEFINE q == req[r]
<1>1. /\ Len(heap) \in Nat /\ settings \in 0..Len(heap)
      /\ settings # Nil => settings = Len(heap)
  BY DEF StoreInv, Nil
<1>2. Signed(q)
  <2>1. q.pc = "load"
    BY DEF LoadSetting
  <2>2. q # Idle
    BY <2>1 DEF Idle
  <2> QED BY <2>1, <2>2 DEF RequestInv
<1>3. heap' = heap
  BY DEF LoadSetting, oboeVars
<1>4. ASSUME NEW p, p.parent = q.parent, p.opts = q.opts, p.sigState = q.sigState,
             p.authGen = q.authGen, p.born = q.born, req'[r] = p
      PROVE  Signed(req[r])'
  BY <1>2, <1>3, <1>4, Zenon DEF Signed
<1>5. CASE settings # Nil
  <2>1. req'[r] = [pc |-> "count", gen |-> settings, parent |-> q.parent, opts |-> q.opts,
                   sigState |-> q.sigState, authMsg |-> q.authMsg, authGen |-> q.authGen,
                   born |-> q.born]
    BY <1>5 DEF LoadSetting
  <2> HIDE DEF q
  <2>2. req'[r].pc = "count" /\ Signed(req[r])'
    BY <2>1, <1>4
  <2>3. q.born \in 0..Len(heap) /\ q.authGen \in 0..Len(heap)
    BY <1>2 DEF Signed
  <2>4. Current(req[r])'
    BY <1>1, <1>3, <1>5, <2>1, <2>3 DEF Current, Nil
  <2> QED BY <2>2, <2>4 DEF RequestInv
<1>6. CASE settings = Nil
  <2>1. req'[r] = Decided(q, Nil, NoSettingsDecision, "nothing")
    BY <1>6 DEF LoadSetting
  <2> DEFINE p == Decided(q, Nil, NoSettingsDecision, "nothing")
  <2>2. /\ p.pc = "done" /\ p.gen = Nil /\ p.took = "nothing"
        /\ p.parent = q.parent /\ p.opts = q.opts /\ p.sigState = q.sigState
        /\ p.authGen = q.authGen /\ p.born = q.born
        /\ p.result = SamplingResult(NoSettingsDecision)
        /\ p.response = Response(q, NoSettingsDecision.rsp)
    BY DEF Decided
  <2>3. p.result = "Drop"
    BY <2>2 DEF SamplingResult, NoSettingsDecision
  <2>4. p.response.triggerTrace \in {"", "settings-not-available"}
    <3>1. NoSettingsDecision.rsp = "settings-not-available"
      BY DEF NoSettingsDecision
    <3>2. Response(q, "settings-not-available").triggerTrace \in {"", "settings-not-available"}
      BY DEF Response
    <3> QED BY <3>1, <3>2, <2>2
  <2> HIDE DEF p
  <2>5. Outcome(req[r])'
    BY <2>1, <2>2, <2>3, <2>4 DEF Outcome, Sampled, p
  <2>6. Signed(req[r])'
    BY <1>4, <2>1, <2>2 DEF p
  <2> QED BY <2>1, <2>2, <2>5, <2>6 DEF RequestInv, p
<1> QED BY <1>5, <1>6

-----------------------------------------------------------------------------
(* One consume.                                                            *)

\* A product of naturals is a natural (a rate times a time).
LEMMA ProductNat == \A r \in Nat, a \in Nat : r * a \in Nat
  OBVIOUS

\* More time refills at least as much.
LEMMA ProductMono ==
    ASSUME NEW r \in Nat, NEW a \in Nat, NEW c \in Nat, a =< c
    PROVE  r * a =< r * c
<1>1. PICK d \in Nat : c = a + d
  <2>1. c - a \in Nat /\ c = a + (c - a)
    OBVIOUS
  <2> QED BY <2>1
<1>2. r * c = r * a + r * d
  BY <1>1
<1>3. r * d \in Nat /\ r * a \in Nat
  BY ProductNat
<1> QED BY <1>2, <1>3

\* Refill over adjacent intervals adds up.
LEMMA ProductSum ==
    ASSUME NEW r \in Nat, NEW s \in Nat, NEW l \in Nat, NEW t \in Nat, s =< l, l =< t
    PROVE  r * (t - s) = r * (l - s) + r * (t - l)
  OBVIOUS

\* update refills for at most the time since the last check, up to the capacity,
\* whatever the clock says.
LEMMA UpdateFacts ==
    ASSUME NEW b \in Buckets, NEW t \in Nat
    PROVE  LET u == update(b, t)
           IN  /\ u \in Buckets /\ u.ratePerSec = b.ratePerSec /\ u.capacity = b.capacity
               /\ b.available >= b.capacity => u = b
               /\ b.available < b.capacity =>
                    /\ u.last = t /\ u.available =< b.capacity
                    /\ b.last =< t => u.available =< b.available + b.ratePerSec * (t - b.last)
<1> DEFINE delta == Sub(t, b.last)
           gain  == b.ratePerSec * delta
           u     == update(b, t)
<1>0. b.last \in Nat /\ b.ratePerSec \in Nat /\ b.capacity \in Nat /\ b.available \in Nat
  BY DEF Buckets
<1>1. delta \in Int /\ delta =< t - b.last
  BY <1>0, MaxDurationAssumption DEF Sub
<1>2. CASE b.available >= b.capacity
  <2>1. u = b
    BY <1>0, <1>2 DEF update
  <2> QED BY <2>1, <1>0, <1>2
<1>3. CASE b.available < b.capacity /\ delta =< 0
  <2>1. u = [b EXCEPT !.last = t]
    BY <1>3 DEF update
  <2>2. b.last =< t => b.ratePerSec * (t - b.last) \in Nat
    BY <1>0, ProductNat
  <2> HIDE DEF u, delta
  <2>3. /\ u \in Buckets /\ u.ratePerSec = b.ratePerSec /\ u.capacity = b.capacity
        /\ u.last = t /\ u.available = b.available
    BY <2>1 DEF Buckets
  <2> QED BY <2>2, <2>3, <1>0, <1>3 DEF u
<1>4. CASE b.available < b.capacity /\ delta > 0
  <2> DEFINE a == MinOf(b.capacity, b.available + gain)
  <2>1. u = [b EXCEPT !.last = t, !.available = a]
    BY <1>1, <1>4 DEF update
  <2>2. delta \in Nat
    BY <1>1, <1>4
  <2>3. gain \in Nat
    BY <1>0, <2>2, ProductNat
  <2>4. a \in Nat /\ a =< b.capacity /\ a =< b.available + gain
    BY <1>0, <2>3 DEF MinOf
  <2> HIDE DEF u, a
  <2>5. /\ u \in Buckets /\ u.ratePerSec = b.ratePerSec /\ u.capacity = b.capacity
        /\ u.last = t /\ u.available = a
    BY <2>1, <2>4 DEF Buckets
  <2>6. b.last =< t => gain =< b.ratePerSec * (t - b.last)
    <3> HIDE DEF delta
    <3> QED BY <1>0, <1>1, <2>2, ProductMono
  <2>7. b.last =< t => b.ratePerSec * (t - b.last) \in Nat
    BY <1>0, ProductNat
  <2> HIDE DEF gain, delta
  <2>8. b.last =< t => a =< b.available + b.ratePerSec * (t - b.last)
    BY <2>3, <2>4, <2>6, <2>7, <1>0
  <2> QED BY <2>4, <2>5, <2>8, <1>0, <1>4 DEF u
<1> QED BY <1>0, <1>1, <1>2, <1>3, <1>4

\* consume takes a token exactly when it may, and keeps the books.
LEMMA ConsumeFacts ==
    ASSUME NEW b \in Buckets, NEW t \in Nat
    PROVE  /\ consume(b, t) \in Buckets
           /\ consume(b, t).ratePerSec = b.ratePerSec
           /\ consume(b, t).capacity = b.capacity
           /\ CanConsume(b, t) \in BOOLEAN
           /\ \A ts \in Nat, g \in Nat :
                ts =< t /\ Paid(b, ts, g, t) =>
                    Paid(consume(b, t), ts, IF CanConsume(b, t) THEN g + 1 ELSE g, t)
<1> DEFINE u == update(b, t)
           c == consume(b, t)
<1>1. /\ u \in Buckets /\ u.ratePerSec = b.ratePerSec /\ u.capacity = b.capacity
      /\ b.available >= b.capacity => u = b
      /\ b.available < b.capacity =>
           /\ u.last = t /\ u.available =< b.capacity
           /\ b.last =< t => u.available =< b.available + b.ratePerSec * (t - b.last)
  BY UpdateFacts
<1>2. /\ u.available \in Nat /\ u.last \in Nat
      /\ b.last \in Nat /\ b.ratePerSec \in Nat /\ b.capacity \in Nat /\ b.available \in Nat
  BY <1>1 DEF Buckets
<1>3. c = IF CanConsume(b, t) THEN [u EXCEPT !.available = u.available - Token] ELSE u
  BY DEF consume, CanConsume
<1>4. CanConsume(b, t) <=> u.available >= Token
  BY DEF CanConsume
<1>5. CanConsume(b, t) \in BOOLEAN
  BY DEF CanConsume
<1> HIDE DEF u, c
<1>6. /\ c \in Buckets /\ c.ratePerSec = b.ratePerSec /\ c.capacity = b.capacity
      /\ c.last = u.last
      /\ c.available = IF CanConsume(b, t) THEN u.available - Token ELSE u.available
  <2>1. CASE CanConsume(b, t)
    <3>1. u.available - Token \in Nat
      BY <2>1, <1>2, <1>4, TokenAssumption
    <3> QED BY <2>1, <3>1, <1>1, <1>3 DEF Buckets
  <2>2. CASE ~ CanConsume(b, t)
    BY <2>2, <1>1, <1>3
  <2> QED BY <2>1, <2>2
<1>7. ASSUME NEW ts \in Nat, NEW g \in Nat, ts =< t, Paid(b, ts, g, t)
      PROVE  Paid(c, ts, IF CanConsume(b, t) THEN g + 1 ELSE g, t)
  <2> DEFINE h == IF CanConsume(b, t) THEN g + 1 ELSE g
             r == b.ratePerSec
  <2>1. /\ b.last =< t /\ b.available =< b.capacity
        /\ b.last < ts => g = 0 /\ b.available = 0
        /\ ts =< b.last => g * Token + b.available =< b.capacity + r * (b.last - ts)
    BY <1>7 DEF Paid
  <2>2. (g + 1) * Token = g * Token + Token /\ g * Token \in Nat
    BY <1>7, TokenAssumption
  <2>3. h * Token + c.available = g * Token + u.available
    <3>1. CASE CanConsume(b, t)
      BY <3>1, <2>2, <1>2, <1>6, TokenAssumption
    <3>2. CASE ~ CanConsume(b, t)
      BY <3>2, <1>6
    <3> QED BY <3>1, <3>2
  <2>4. c.available \in Nat /\ c.available =< u.available
    BY <1>2, <1>6, TokenAssumption DEF Buckets
  <2>5. CASE b.available >= b.capacity
    <3>1. u.last = b.last /\ u.available = b.available
      BY <2>5, <1>1
    <3>2. b.last < ts => ~ CanConsume(b, t)
      BY <2>1, <2>5, <3>1, <1>2, <1>4, TokenAssumption
    <3>3. b.last < ts => h = 0 /\ c.available = 0
      BY <2>1, <3>1, <3>2, <1>6
    <3> HIDE DEF h, r
    <3> QED BY <2>1, <2>3, <2>4, <3>1, <3>3, <1>2, <1>6 DEF Paid, h, r
  <2>6. CASE b.available < b.capacity
    <3>1. u.last = t /\ u.available =< b.capacity /\ u.available =< b.available + r * (t - b.last)
      BY <2>1, <2>6, <1>1
    <3>2. g * Token + u.available =< b.capacity + r * (t - ts)
      <4>1. CASE b.last < ts
        <5>1. g * Token = 0
          BY <2>1, <4>1, TokenAssumption
        <5>2. r * (t - ts) \in Nat
          BY <1>2, <1>7, ProductNat
        <5> HIDE DEF r
        <5> QED BY <5>1, <5>2, <3>1, <1>2
      <4>2. CASE ts =< b.last
        <5>1. r * (t - ts) = r * (b.last - ts) + r * (t - b.last)
          BY <2>1, <4>2, <1>2, <1>7, ProductSum
        <5>2. r * (b.last - ts) \in Nat /\ r * (t - b.last) \in Nat
          BY <2>1, <4>2, <1>2, <1>7, ProductNat
        <5> HIDE DEF r
        <5> QED BY <5>1, <5>2, <2>1, <2>2, <3>1, <4>2, <1>2
      <4> QED BY <4>1, <4>2, <1>2, <1>7
    <3>3. c.available =< c.capacity /\ c.last = t
      BY <2>4, <3>1, <1>2, <1>6
    <3>4. h * Token + c.available =< c.capacity + c.ratePerSec * (c.last - ts)
      BY <2>3, <3>1, <3>2, <1>6
    <3> HIDE DEF h
    <3> QED BY <3>3, <3>4, <1>7 DEF Paid, h
  <2> QED BY <2>5, <2>6, <1>2
<1> QED BY <1>5, <1>6, <1>7 DEF c

-----------------------------------------------------------------------------
(* Counting and deciding.                                                  *)

\* What CountAndDecide does to the object it draws from: nothing but the bucket.
LEMMA CountHeap ==
    ASSUME StoreInv, NEW g \in 1..Len(heap), NEW k \in BucketKinds, NEW nb \in Buckets,
           heap' = [heap EXCEPT ![g].buckets[k] = nb]
    PROVE  /\ heap' \in Seq(Objects) /\ Len(heap') = Len(heap)
           /\ \A i \in 1..Len(heap) :
                /\ heap'[i].token = heap[i].token /\ heap'[i].flags = heap[i].flags
                /\ heap'[i].originalFlags = heap[i].originalFlags
                /\ heap'[i].timestamp = heap[i].timestamp
           /\ \A j \in BucketKinds :
                heap'[g].buckets[j] = IF j = k THEN nb ELSE heap[g].buckets[j]
           /\ \A i \in 1..Len(heap) : i # g => heap'[i] = heap[i]
<1> DEFINE o == [heap[g] EXCEPT !.buckets = [heap[g].buckets EXCEPT ![k] = nb]]
<1>1. heap[g] \in Objects /\ heap \in Seq(Objects) /\ Len(heap) \in Nat
  BY DEF StoreInv
<1>2. heap[g].buckets \in [BucketKinds -> Buckets]
  BY <1>1 DEF Objects
<1>3. o \in Objects
  BY <1>1, <1>2 DEF Objects
<1>4. /\ o.token = heap[g].token /\ o.flags = heap[g].flags
      /\ o.originalFlags = heap[g].originalFlags /\ o.timestamp = heap[g].timestamp
      /\ \A j \in BucketKinds : o.buckets[j] = IF j = k THEN nb ELSE heap[g].buckets[j]
  BY <1>1, <1>2 DEF Objects
<1>5. heap' = [heap EXCEPT ![g] = o]
  OBVIOUS
<1> HIDE DEF o
<1>6. /\ heap' \in Seq(Objects) /\ Len(heap') = Len(heap)
      /\ \A i \in 1..Len(heap) : heap'[i] = IF i = g THEN o ELSE heap[i]
  <2>1. /\ [heap EXCEPT ![g] = o] \in Seq(Objects) /\ Len([heap EXCEPT ![g] = o]) = Len(heap)
        /\ \A i \in 1..Len(heap) : [heap EXCEPT ![g] = o][i] = IF i = g THEN o ELSE heap[i]
    BY <1>1, <1>3, ExceptSeq
  <2> QED BY <2>1, <1>5, Zenon
<1>7. \A i \in 1..Len(heap) : i # g => heap'[i] = heap[i]
  BY <1>6
<1>8. heap'[g] = o
  BY <1>6
<1> QED BY <1>4, <1>6, <1>7, <1>8

\* The bucket a request counts against is one of the three.
LEMMA KindFacts == \A tt : BucketFor(tt) \in BucketKinds
  BY DEF BucketFor, BucketKinds

\* A request that is about to count has passed the signature check and holds
\* current settings.
LEMMA CountReady ==
    ASSUME NEW r \in Requests, RequestInv(r), req[r].pc = "count"
    PROVE  Signed(req[r]) /\ Current(req[r])
<1>1. req[r] # Idle
  BY DEF Idle
<1> QED BY <1>1 DEF RequestInv

\* The store after a count, and the request with its decision.
LEMMA CountStep ==
    ASSUME StoreInv, NEW r \in Requests, DOMAIN req = Requests, RequestInv(r),
           NEW dice \in Dice, CountAndDecide(r, dice)
    PROVE  StoreInv' /\ HeapKept /\ RequestInv(r)'
<1> DEFINE q     == req[r]
           s     == heap[q.gen]
           tt    == TtMode(q)
           sw    == SwState(q.parent)
           kind  == BucketFor(tt)
           b     == s.buckets[kind]
           wants == WantsTrace(s, mergeURLSetting(s, "none"), tt, sw, dice)
           asks  == wants /\ RateLimits(sw)
           ok    == wants /\ (asks => CanConsume(b, now))
           nb    == IF asks THEN consume(b, now) ELSE b
           d     == SampleDecision(s, "none", tt, sw, ok)
           took  == IF asks /\ ok THEN kind ELSE "nothing"
           p     == Decided(q, q.gen, d, took)
<1>1. q.pc = "count"
  BY DEF CountAndDecide
<1>2. Signed(q) /\ Current(q)
  BY <1>1, CountReady
<1>3. /\ heap' = [heap EXCEPT ![q.gen].buckets[kind] = nb]
      /\ req' = [req EXCEPT ![r] = p]
      /\ UNCHANGED <<now, config, settings, pending, ttlSeen>>
  BY DEF CountAndDecide
<1>4. kind \in BucketKinds
  BY KindFacts
<1>5. q.gen \in 1..Len(heap) /\ Len(heap) \in Nat /\ heap \in Seq(Objects) /\ now \in Nat
  BY <1>2 DEF Current, StoreInv
<1>6. b \in Buckets /\ CanConsume(b, now) \in BOOLEAN
  <2>1. heap[q.gen] \in Objects
    BY <1>5
  <2>2. b \in Buckets
    BY <1>4, <2>1 DEF Objects
  <2> QED BY <2>2, <1>5, ConsumeFacts
<1>7. nb \in Buckets
  BY <1>5, <1>6, ConsumeFacts
<1> HIDE DEF nb
<1>8. /\ heap' \in Seq(Objects) /\ Len(heap') = Len(heap)
      /\ \A i \in 1..Len(heap) :
           /\ heap'[i].token = heap[i].token /\ heap'[i].flags = heap[i].flags
           /\ heap'[i].originalFlags = heap[i].originalFlags
  <2> HIDE DEF kind
  <2>1. heap' = [heap EXCEPT ![q.gen].buckets[kind] = nb]
    BY <1>3
  <2> HIDE DEF q
  <2> QED BY <2>1, <1>4, <1>5, <1>7, CountHeap
<1>9. StoreInv'
  <2>1. \A i \in 1..Len(heap) : Obeys(heap'[i], config)
    BY <1>8 DEF StoreInv, Obeys, hasOverrideFlag
  <2>2. pending # NoSettings => Obeys(pending, config)
    BY DEF StoreInv
  <2> QED BY <1>3, <1>8, <2>1, <2>2 DEF StoreInv, Obeys, hasOverrideFlag
<1>10. HeapKept
  BY <1>5, <1>8 DEF HeapKept
<1>11. req'[r] = p
  <2>1. req' = [req EXCEPT ![r] = p]
    BY <1>3
  <2> HIDE DEF p
  <2> QED BY <2>1
<1>12. /\ p.pc = "done" /\ p.gen = q.gen /\ p.took = took
       /\ p.parent = q.parent /\ p.opts = q.opts /\ p.sigState = q.sigState
       /\ p.authGen = q.authGen /\ p.born = q.born
       /\ p.result = SamplingResult(d) /\ p.response = Response(q, d.rsp)
  BY Zenon DEF Decided
<1>13. LET res == SamplingResult(d)
           t   == Response(q, d.rsp).triggerTrace
       IN  /\ took # "nothing" =>
                /\ q.parent = "none" /\ tt # "Invalid" /\ took = BucketFor(tt)
                /\ IF took = "default" THEN "SAMPLE_START" \in s.flags ELSE "TRIGGER_TRACE" \in s.flags
           /\ res = "RecordAndSample" =>
                s.flags # {} /\ (q.parent = "none" => took # "nothing")
           /\ t = "ok" <=> took \in {"relaxed", "strict"}
           /\ t = "rate-exceeded" => q.opts.triggerTrace /\ res # "RecordAndSample"
           /\ t # "settings-not-available"
           /\ t = "ignored" => q.parent # "none"
  <2>1. q.parent \in Entries /\ q.opts \in Options /\ q.sigState \in {"None", "Valid", "Invalid"}
    BY <1>2 DEF Signed
  <2>2. CanConsume(b, now) \in BOOLEAN
    BY <1>6
  <2> HIDE DEF q, s, b
  <2> QED BY <2>1, <2>2, OutcomeFacts, Zenon
<1>14. TtMode(p) = tt
  BY <1>12, Zenon DEF TtMode
<1> HIDE DEF p, d, took
<1>15. heap'[q.gen].flags = s.flags /\ q.gen # Nil
  BY <1>5, <1>8 DEF Nil
<1> HIDE DEF q, s, tt
<1>16. Outcome(req[r])'
  BY <1>11, <1>12, <1>13, <1>14, <1>15 DEF Outcome, Sampled, TtMode
<1>17. Signed(req[r])'
  <2>1. q.authGen \in 0..Len(heap) /\ (q.authGen # Nil => heap'[q.authGen].token = heap[q.authGen].token)
    BY <1>2, <1>5, <1>8 DEF Signed, Nil
  <2> QED BY <2>1, <1>2, <1>8, <1>11, <1>12, Zenon DEF Signed
<1>18. Current(req[r])'
  BY <1>2, <1>8, <1>11, <1>12, Zenon DEF Current
<1>19. RequestInv(r)'
  BY <1>11, <1>12, <1>16, <1>17, <1>18 DEF RequestInv
<1> QED BY <1>9, <1>10, <1>19

-----------------------------------------------------------------------------
(* SampleInv is inductive.                                                 *)

\* Every step of one request: the store, the request itself, and that it is the
\* only request that moves.
LEMMA RequestStep ==
    ASSUME StoreInv, NEW r \in Requests, DOMAIN req = Requests, RequestInv(r), RequestNext(r)
    PROVE  /\ StoreInv' /\ HeapKept /\ RequestInv(r)' /\ DOMAIN req' = Requests
           /\ \A o \in Requests : o # r => req'[o] = req[o]
<1>1. ASSUME Arrive(r)
      PROVE  /\ UNCHANGED oboeVars /\ DOMAIN req' = Requests
             /\ \A o \in Requests : o # r => req'[o] = req[o]
  <2>1. ASSUME NEW parent \in Parents, LocalParent(r, parent)
        PROVE  /\ UNCHANGED oboeVars /\ DOMAIN req' = Requests
               /\ \A o \in Requests : o # r => req'[o] = req[o]
    BY <2>1 DEF LocalParent
  <2>2. ASSUME NEW parent \in Parents, NEW opts \in Options, RootOrRemote(r, parent, opts)
        PROVE  /\ UNCHANGED oboeVars /\ DOMAIN req' = Requests
               /\ \A o \in Requests : o # r => req'[o] = req[o]
    BY <2>2 DEF RootOrRemote
  <2> QED BY <1>1, <2>1, <2>2 DEF Arrive
<1>2. CASE Arrive(r)
  BY <1>1, <1>2, ArriveStep, StoreKept
<1>3. CASE Authenticate(r)
  <2>1. /\ UNCHANGED oboeVars /\ DOMAIN req' = Requests
        /\ \A o \in Requests : o # r => req'[o] = req[o]
    BY <1>3 DEF Authenticate
  <2> QED BY <2>1, <1>3, AuthenticateStep, StoreKept
<1>4. CASE LoadSetting(r)
  <2>1. /\ UNCHANGED oboeVars /\ DOMAIN req' = Requests
        /\ \A o \in Requests : o # r => req'[o] = req[o]
    BY <1>4 DEF LoadSetting
  <2> QED BY <2>1, <1>4, LoadStep, StoreKept
<1>5. ASSUME NEW dice \in Dice, CountAndDecide(r, dice)
      PROVE  /\ StoreInv' /\ HeapKept /\ RequestInv(r)' /\ DOMAIN req' = Requests
             /\ \A o \in Requests : o # r => req'[o] = req[o]
  <2>1. DOMAIN req' = Requests /\ \A o \in Requests : o # r => req'[o] = req[o]
    BY <1>5 DEF CountAndDecide
  <2> QED BY <2>1, <1>5, CountStep
<1>6. CASE Finish(r)
  <2>1. /\ UNCHANGED oboeVars /\ DOMAIN req' = Requests /\ req'[r] = Idle
        /\ \A o \in Requests : o # r => req'[o] = req[o]
    BY <1>6 DEF Finish
  <2>2. RequestInv(r)'
    BY <2>1 DEF RequestInv
  <2> QED BY <2>1, <2>2, StoreKept
<1> QED BY <1>2, <1>3, <1>4, <1>5, <1>6 DEF RequestNext

\* Every step preserves SampleInv.
LEMMA SampleStep == SampleInv /\ [Next]_vars => SampleInv'
<1> SUFFICES ASSUME SampleInv, [Next]_vars PROVE SampleInv'
  OBVIOUS
<1>1. StoreInv /\ DOMAIN req = Requests /\ \A r \in Requests : RequestInv(r)
  BY DEF SampleInv
<1>2. CASE OboeNext /\ UNCHANGED samplerVars
  <2>1. StoreInv' /\ HeapKept /\ req' = req
    BY <1>1, <1>2, StoreStep DEF samplerVars
  <2>2. \A r \in Requests : RequestInv(r)'
    BY <1>1, <2>1, RequestKept
  <2> QED BY <1>1, <2>1, <2>2 DEF SampleInv
<1>3. ASSUME NEW r \in Requests, RequestNext(r) PROVE SampleInv'
  <2>1. /\ StoreInv' /\ HeapKept /\ RequestInv(r)' /\ DOMAIN req' = Requests
        /\ \A o \in Requests : o # r => req'[o] = req[o]
    BY <1>1, <1>3, RequestStep
  <2>2. \A o \in Requests : RequestInv(o)'
    BY <1>1, <2>1, RequestKept
  <2> QED BY <2>1, <2>2 DEF SampleInv
<1>4. CASE UNCHANGED vars
  <2>1. UNCHANGED oboeVars /\ req' = req
    BY <1>4 DEF vars, samplerVars
  <2>2. StoreInv' /\ HeapKept
    BY <1>1, <2>1, StoreKept
  <2>3. \A r \in Requests : RequestInv(r)'
    BY <1>1, <2>1, <2>2, RequestKept
  <2> QED BY <1>1, <2>1, <2>2, <2>3 DEF SampleInv
<1> QED BY <1>2, <1>3, <1>4 DEF Next

\* SampleInv holds throughout.
LEMMA AlwaysSampleInv == Spec => []SampleInv
<1> QED BY SampleInit, SampleStep, PTL DEF Spec

\* What SampleInv says of a finished request.
LEMMA DoneFacts ==
    ASSUME SampleInv, NEW r \in Done
    PROVE  /\ r \in Requests /\ StoreInv
           /\ Signed(req[r]) /\ (req[r].gen = Nil \/ Current(req[r])) /\ Outcome(req[r])
<1>1. r \in Requests /\ req[r].pc = "done"
  BY DEF Done
<1>2. req[r] # Idle
  BY <1>1 DEF Idle
<1>3. RequestInv(r)
  BY <1>1 DEF SampleInv
<1> QED BY <1>1, <1>2, <1>3 DEF SampleInv, RequestInv

-----------------------------------------------------------------------------
(* The theorems about decisions.                                           *)

\* However updates and expiries fall between the two loads of a request, its
\* decision uses settings no older than its key and its arrival.
THEOREM DecisionsAreCurrent == Spec => []DecisionNotStale
<1>1. SampleInv => DecisionNotStale
  BY DoneFacts DEF DecisionNotStale, Current
<1> QED BY <1>1, AlwaysSampleInv, PTL

\* A token of the relaxed bucket needs a fresh signature with a key that was in
\* force after the request arrived.
THEOREM RelaxedIsAuthenticated == Spec => []RelaxedNeedsKey
<1>1. SampleInv => RelaxedNeedsKey
  <2> SUFFICES ASSUME SampleInv, NEW r \in Done, req[r].took = "relaxed"
               PROVE  /\ req[r].opts.tsInScope
                      /\ req[r].authGen # Nil /\ req[r].born =< req[r].authGen
                      /\ req[r].opts.key = heap[req[r].authGen].token
    BY DEF RelaxedNeedsKey
  <2>1. Signed(req[r]) /\ Outcome(req[r])
    BY DoneFacts
  <2>2. BucketFor(TtMode(req[r])) = "relaxed"
    BY <2>1 DEF Outcome
  <2>3. TtMode(req[r]) = "Relaxed"
    BY <2>2 DEF BucketFor
  <2>4. req[r].sigState = "Valid"
    BY <2>3 DEF TtMode, getTtMode
  <2> QED BY <2>1, <2>4 DEF Signed
<1> QED BY <1>1, AlwaysSampleInv, PTL

\* Every trace started here has taken a token from the bucket that its
\* authentication entitles it to, and a continued one has taken none.
THEOREM NewTracesArePaid == Spec => []NewTracesPay
<1>1. SampleInv => NewTracesPay
  <2> SUFFICES ASSUME SampleInv, NEW r \in Done
               PROVE  LET q == req[r] IN
                        /\ (Sampled(q) /\ q.parent = "none") =>
                             q.took = IF ~ q.opts.triggerTrace THEN "default"
                                      ELSE IF q.opts.key = NoSig THEN "strict" ELSE "relaxed"
                        /\ q.parent # "none" => q.took = "nothing"
    BY DEF NewTracesPay
  <2> DEFINE q == req[r]
  <2>1. Signed(q) /\ Outcome(q)
    BY DoneFacts
  <2>2. /\ q.took # "nothing" =>
             q.parent = "none" /\ TtMode(q) # "Invalid" /\ q.took = BucketFor(TtMode(q))
        /\ Sampled(q) /\ q.parent = "none" => q.took # "nothing"
    BY <2>1 DEF Outcome
  <2>3. /\ q.opts \in Options /\ q.sigState \in {"None", "Valid", "Invalid"}
        /\ q.sigState = "None" <=> q.opts.key = NoSig
    BY <2>1 DEF Signed
  <2> HIDE DEF q
  <2>4. /\ TtMode(q) # "Invalid" =>
           BucketFor(TtMode(q)) = IF ~ q.opts.triggerTrace THEN "default"
                                  ELSE IF q.opts.key = NoSig THEN "strict" ELSE "relaxed"
    BY <2>3, OptionFacts DEF TtMode, getTtMode, BucketFor
  <2> QED BY <2>2, <2>4 DEF q
<1> QED BY <1>1, AlwaysSampleInv, PTL

\* What the client is told about its trigger trace is what happened.
THEOREM ResponsesAreTrue == Spec => []ResponseTruthful
<1>1. SampleInv => ResponseTruthful
  BY DoneFacts DEF ResponseTruthful, Outcome
<1> QED BY <1>1, AlwaysSampleInv, PTL

\* No sequence of settings makes an entry escape the local configuration or the
\* limits that OVERRIDE sets.
THEOREM ConfigIsHonoured == Spec => []LocalConfigHonoured
<1>1. SampleInv => LocalConfigHonoured
  <2> SUFFICES ASSUME SampleInv, NEW r \in Done
               PROVE  LET q == req[r] IN
                 /\ (config.samplingConfigured /\ config.tracingMode = "disabled") => ~ Sampled(q)
                 /\ ~ config.triggerTrace => q.took \notin {"relaxed", "strict"}
                 /\ (/\ q.gen # Nil /\ hasOverrideFlag(heap[q.gen])
                     /\ q.took = "default") => "SAMPLE_START" \in heap[q.gen].originalFlags
    BY DEF LocalConfigHonoured
  <2> DEFINE q == req[r]
             s == heap[q.gen]
  <2>1. StoreInv /\ Outcome(q) /\ (q.gen = Nil \/ Current(q))
    BY DoneFacts
  <2>2. /\ q.took # "nothing" =>
             /\ q.gen # Nil
             /\ IF q.took = "default" THEN "SAMPLE_START" \in s.flags ELSE "TRIGGER_TRACE" \in s.flags
        /\ Sampled(q) => q.gen # Nil /\ s.flags # {}
    BY <2>1 DEF Outcome
  <2>3. q.gen # Nil => Obeys(s, config)
    BY <2>1 DEF Current, StoreInv
  <2> HIDE DEF q, s
  <2> QED BY <2>2, <2>3 DEF Obeys, q, s
<1> QED BY <1>1, AlwaysSampleInv, PTL

-----------------------------------------------------------------------------
(* BudgetInv is inductive, given SampleInv.                                *)

\* The fields of a bucket in the store.
LEMMA BucketTyped ==
    ASSUME StoreInv, NEW g \in 1..Len(heap), NEW k \in BucketKinds
    PROVE  heap[g].buckets[k] \in Buckets /\ heap[g].timestamp \in Nat
<1>1. heap[g] \in Objects
  BY DEF StoreInv
<1> QED BY <1>1 DEF Objects

\* The books stay balanced while time passes.
LEMMA PaidLater ==
    ASSUME NEW b \in Buckets, NEW ts, NEW g, NEW t \in Nat, NEW u \in Nat, t =< u, Paid(b, ts, g, t)
    PROVE  Paid(b, ts, g, u)
  BY DEF Paid, Buckets

\* Nothing has been taken when nothing has been stored.
LEMMA BudgetInit == Init => BudgetInv
<1> SUFFICES ASSUME Init PROVE BudgetInv
  OBVIOUS
<1>1. heap = << >> /\ Len(heap) = 0 /\ pending = NoSettings
  BY DEF Init, OboeInit
<1>2. granted = [p \in (1 .. MaxGen) \X BucketKinds |-> 0]
  BY DEF Init, SamplerInit
<1>3. \A g \in 1..MaxGen, k \in BucketKinds : granted[<<g, k>>] = 0
  BY <1>2
<1>4. granted \in [(1 .. MaxGen) \X BucketKinds -> Nat]
  BY <1>2
<1> QED BY <1>1, <1>3, <1>4, MaxGenAssumption DEF BudgetInv

\* The store's own steps keep the books balanced: a new object starts with empty
\* buckets, and one that is stored has not been drawn from.
LEMMA BudgetStore ==
    ASSUME StoreInv, BudgetInv, OboeNext, granted' = granted
    PROVE  BudgetInv'
<1>1. /\ Len(heap) \in Nat /\ heap \in Seq(Objects) /\ now \in Nat /\ config \in LocalConfigs
      /\ MaxGen \in Nat
  BY MaxGenAssumption DEF StoreInv
<1>2. ASSUME NEW arg \in UpdateArgs, BuildSetting(arg) PROVE BudgetInv'
  <2> DEFINE s == newSettings(arg, config, now)
  <2>1. /\ pending' = s /\ Len(heap) < MaxGen
        /\ UNCHANGED <<now, config, settings, heap, ttlSeen>>
    BY <1>2 DEF BuildSetting
  <2>2. /\ s \in Objects /\ s.timestamp = now
        /\ \A k \in BucketKinds : s.buckets[k].available = 0 /\ s.buckets[k].last = 0
    BY <1>1, NewSettingsFacts
  <2> HIDE DEF s
  <2>3. \A k \in BucketKinds : Paid(s.buckets[k], now, 0, now)
    <3> SUFFICES ASSUME NEW k \in BucketKinds PROVE Paid(s.buckets[k], now, 0, now)
      OBVIOUS
    <3>1. s.buckets[k] \in Buckets
      BY <2>2 DEF Objects
    <3>2. s.buckets[k].capacity \in Nat /\ s.buckets[k].ratePerSec \in Nat
      BY <3>1 DEF Buckets
    <3>3. now =< 0 => now = 0 /\ s.buckets[k].ratePerSec * (0 - now) = 0
      BY <3>2, <1>1
    <3> QED BY <2>2, <3>2, <3>3, <1>1, TokenAssumption DEF Paid
  <2> QED BY <2>1, <2>2, <2>3, <1>1 DEF BudgetInv
<1>3. ASSUME StoreSetting PROVE BudgetInv'
  <2>1. /\ pending # NoSettings /\ heap' = Append(heap, pending)
        /\ pending' = NoSettings /\ now' = now
    BY <1>3 DEF StoreSetting
  <2>2. pending \in Objects
    BY <2>1 DEF StoreInv
  <2>3. /\ Len(heap') = Len(heap) + 1 /\ heap'[Len(heap) + 1] = pending
        /\ \A g \in 1..Len(heap) : heap'[g] = heap[g]
    BY <1>1, <2>1, <2>2
  <2>4. /\ Len(heap) < MaxGen /\ pending.timestamp =< now
        /\ \A k \in BucketKinds : Paid(pending.buckets[k], pending.timestamp, 0, now)
    BY <2>1 DEF BudgetInv
  <2> DEFINE n == Len(heap)
             h == heap'
  <2>5. \A g \in 1..MaxGen, k \in BucketKinds :
          IF g =< n + 1
          THEN h[g].timestamp =< now /\ Paid(h[g].buckets[k], h[g].timestamp, granted[<<g, k>>], now)
          ELSE granted[<<g, k>>] = 0
    <3> SUFFICES ASSUME NEW g \in 1..MaxGen, NEW k \in BucketKinds
                 PROVE  IF g =< n + 1
                        THEN h[g].timestamp =< now /\ Paid(h[g].buckets[k], h[g].timestamp, granted[<<g, k>>], now)
                        ELSE granted[<<g, k>>] = 0
      OBVIOUS
    <3>1. IF g =< n
          THEN heap[g].timestamp =< now /\ Paid(heap[g].buckets[k], heap[g].timestamp, granted[<<g, k>>], now)
          ELSE granted[<<g, k>>] = 0
      BY DEF BudgetInv
    <3>2. CASE g =< n
      BY <3>1, <3>2, <2>3, <1>1
    <3>3. CASE g = n + 1
      BY <3>1, <3>3, <2>3, <2>4, <1>1
    <3>4. CASE g > n + 1
      BY <3>1, <3>4, <1>1
    <3> QED BY <3>2, <3>3, <3>4, <1>1
  <2>6. n + 1 =< MaxGen
    BY <2>4, <1>1
  <2> HIDE DEF n
  <2> QED BY <2>1, <2>3, <2>5, <2>6 DEF BudgetInv, n
<1>4. ASSUME TtlLoad \/ TtlJudge \/ Tick PROVE BudgetInv'
  <2>1. /\ heap' = heap /\ pending' = pending
        /\ now' = now \/ now' = now + 1
    BY <1>1, <1>4 DEF TtlLoad, TtlJudge, Tick
  <2> DEFINE u == now'
  <2>2. u \in Nat /\ now =< u
    BY <2>1, <1>1
  <2> HIDE DEF u
  <2>3. \A g \in 1..MaxGen, k \in BucketKinds :
          IF g =< Len(heap)
          THEN heap[g].timestamp =< u /\ Paid(heap[g].buckets[k], heap[g].timestamp, granted[<<g, k>>], u)
          ELSE granted[<<g, k>>] = 0
    <3> SUFFICES ASSUME NEW g \in 1..MaxGen, NEW k \in BucketKinds, g =< Len(heap)
                 PROVE  heap[g].timestamp =< u
                        /\ Paid(heap[g].buckets[k], heap[g].timestamp, granted[<<g, k>>], u)
      BY DEF BudgetInv
    <3>1. heap[g].buckets[k] \in Buckets /\ heap[g].timestamp \in Nat
      BY <1>1, BucketTyped
    <3>2. heap[g].timestamp =< now /\ Paid(heap[g].buckets[k], heap[g].timestamp, granted[<<g, k>>], now)
      BY DEF BudgetInv
    <3> QED BY <3>1, <3>2, <2>2, <1>1, PaidLater
  <2>4. pending # NoSettings =>
          /\ pending.timestamp =< u
          /\ \A k \in BucketKinds : Paid(pending.buckets[k], pending.timestamp, 0, u)
    <3> SUFFICES ASSUME pending # NoSettings, NEW k \in BucketKinds
                 PROVE  pending.timestamp =< u /\ Paid(pending.buckets[k], pending.timestamp, 0, u)
      BY DEF BucketKinds
    <3>1. pending \in Objects
      BY DEF StoreInv
    <3>2. pending.buckets[k] \in Buckets /\ pending.timestamp \in Nat
      BY <3>1 DEF Objects
    <3>3. pending.timestamp =< now /\ Paid(pending.buckets[k], pending.timestamp, 0, now)
      BY DEF BudgetInv
    <3> QED BY <3>2, <3>3, <2>2, <1>1, PaidLater
  <2> QED BY <2>1, <2>3, <2>4 DEF BudgetInv, u
<1> QED BY <1>2, <1>3, <1>4 DEF OboeNext

\* A count draws at most one token, from the bucket of the generation the request
\* holds, in force or not, and enters it in the books of that generation.
LEMMA BudgetCount ==
    ASSUME StoreInv, BudgetInv, NEW r \in Requests, RequestInv(r),
           NEW dice \in Dice, CountAndDecide(r, dice)
    PROVE  BudgetInv'
<1> DEFINE q     == req[r]
           s     == heap[q.gen]
           tt    == TtMode(q)
           sw    == SwState(q.parent)
           kind  == BucketFor(tt)
           b     == s.buckets[kind]
           wants == WantsTrace(s, mergeURLSetting(s, "none"), tt, sw, dice)
           asks  == wants /\ RateLimits(sw)
           ok    == wants /\ (asks => CanConsume(b, now))
           nb    == IF asks THEN consume(b, now) ELSE b
           old   == granted[<<q.gen, kind>>]
           ng    == IF asks /\ ok THEN old + 1 ELSE old
<1>1. q.pc = "count"
  BY DEF CountAndDecide
<1>2. Current(q)
  BY <1>1, CountReady
<1>3. /\ heap' = [heap EXCEPT ![q.gen].buckets[kind] = nb]
      /\ granted' = [granted EXCEPT ![<<q.gen, kind>>] = ng]
      /\ now' = now /\ pending' = pending
  BY DEF CountAndDecide
<1>4. kind \in BucketKinds
  BY KindFacts
<1>5. /\ q.gen \in 1..Len(heap) /\ Len(heap) \in Nat /\ now \in Nat
      /\ Len(heap) =< MaxGen /\ MaxGen \in Nat
      /\ granted \in [(1 .. MaxGen) \X BucketKinds -> Nat]
  BY <1>2, MaxGenAssumption DEF Current, StoreInv, BudgetInv
<1>6. b \in Buckets /\ s.timestamp \in Nat
  BY <1>4, <1>5, BucketTyped
<1>7. q.gen \in 1..MaxGen /\ <<q.gen, kind>> \in (1 .. MaxGen) \X BucketKinds
  BY <1>4, <1>5
<1>8. old \in Nat
  BY <1>5, <1>7
<1>9. s.timestamp =< now /\ Paid(b, s.timestamp, old, now)
  <2>1. heap[q.gen].timestamp =< now
        /\ Paid(heap[q.gen].buckets[kind], heap[q.gen].timestamp, granted[<<q.gen, kind>>], now)
    BY <1>4, <1>5, <1>7 DEF BudgetInv
  <2> QED BY <2>1
<1>10. asks => (ok <=> CanConsume(b, now))
  OBVIOUS
<1>11. nb \in Buckets /\ ng \in Nat /\ Paid(nb, s.timestamp, ng, now)
  <2>1. CASE asks
    <3>1. nb = consume(b, now) /\ ng = IF CanConsume(b, now) THEN old + 1 ELSE old
      BY <2>1, <1>10
    <3> HIDE DEF nb, ng, old, b, s
    <3>2. consume(b, now) \in Buckets
      BY <1>5, <1>6, ConsumeFacts
    <3>3. Paid(consume(b, now), s.timestamp, IF CanConsume(b, now) THEN old + 1 ELSE old, now)
      BY <1>5, <1>6, <1>8, <1>9, ConsumeFacts
    <3>4. ng \in Nat
      BY <3>1, <1>8
    <3> QED BY <3>1, <3>2, <3>3, <3>4, Zenon
  <2>2. CASE ~ asks
    <3>1. nb = b /\ ng = old
      BY <2>2
    <3> QED BY <3>1, <1>6, <1>8, <1>9
  <2> QED BY <2>1, <2>2
<1> HIDE DEF nb, ng
<1>12. /\ Len(heap') = Len(heap)
       /\ \A i \in 1..Len(heap) : heap'[i].timestamp = heap[i].timestamp
       /\ \A j \in BucketKinds :
            heap'[q.gen].buckets[j] = IF j = kind THEN nb ELSE heap[q.gen].buckets[j]
       /\ \A i \in 1..Len(heap) : i # q.gen => heap'[i] = heap[i]
  <2>1. heap' = [heap EXCEPT ![q.gen].buckets[kind] = nb]
    BY <1>3
  <2>2. q.gen \in 1..Len(heap) /\ kind \in BucketKinds /\ nb \in Buckets
    BY <1>4, <1>5, <1>11
  <2> HIDE DEF q, kind
  <2> QED BY <2>1, <2>2, CountHeap
<1>13. /\ granted' \in [(1 .. MaxGen) \X BucketKinds -> Nat]
       /\ \A g \in 1..MaxGen, k \in BucketKinds :
            granted'[<<g, k>>] = IF g = q.gen /\ k = kind THEN ng ELSE granted[<<g, k>>]
  <2> HIDE DEF q, kind, old
  <2> QED BY <1>3, <1>5, <1>7, <1>11
<1>14. \A g \in 1..MaxGen, k \in BucketKinds :
         IF g =< Len(heap)
         THEN heap'[g].timestamp =< now /\ Paid(heap'[g].buckets[k], heap'[g].timestamp, granted'[<<g, k>>], now)
         ELSE granted'[<<g, k>>] = 0
  <2> SUFFICES ASSUME NEW g \in 1..MaxGen, NEW k \in BucketKinds
               PROVE  IF g =< Len(heap)
                      THEN heap'[g].timestamp =< now
                           /\ Paid(heap'[g].buckets[k], heap'[g].timestamp, granted'[<<g, k>>], now)
                      ELSE granted'[<<g, k>>] = 0
    OBVIOUS
  <2>1. IF g =< Len(heap)
        THEN heap[g].timestamp =< now /\ Paid(heap[g].buckets[k], heap[g].timestamp, granted[<<g, k>>], now)
        ELSE granted[<<g, k>>] = 0
    BY DEF BudgetInv
  <2> HIDE DEF kind, q
  <2>2. CASE g = q.gen /\ k = kind
    BY <2>2, <1>4, <1>5, <1>9, <1>11, <1>12, <1>13
  <2>3. CASE g # q.gen
    BY <2>1, <2>3, <1>5, <1>12, <1>13
  <2>4. CASE g = q.gen /\ k # kind
    BY <2>1, <2>4, <1>5, <1>12, <1>13
  <2> QED BY <2>2, <2>3, <2>4
<1> QED BY <1>3, <1>12, <1>13, <1>14 DEF BudgetInv

\* A step that touches neither objects nor books.
LEMMA BudgetKept ==
    ASSUME BudgetInv, UNCHANGED <<oboeVars, granted>> PROVE BudgetInv'
  BY DEF BudgetInv, Paid, oboeVars

\* Every step preserves BudgetInv.
LEMMA BudgetStep == SampleInv /\ BudgetInv /\ [Next]_vars => BudgetInv'
<1> SUFFICES ASSUME SampleInv, BudgetInv, [Next]_vars PROVE BudgetInv'
  OBVIOUS
<1>1. StoreInv /\ \A r \in Requests : RequestInv(r)
  BY DEF SampleInv
<1>2. CASE OboeNext /\ UNCHANGED samplerVars
  BY <1>1, <1>2, BudgetStore DEF samplerVars
<1>3. ASSUME NEW r \in Requests, RequestNext(r) PROVE BudgetInv'
  <2>1. ASSUME Arrive(r) \/ Authenticate(r) \/ LoadSetting(r) \/ Finish(r)
        PROVE  UNCHANGED <<oboeVars, granted>>
    <3>1. Arrive(r) => UNCHANGED <<oboeVars, granted>>
      BY Zenon DEF Arrive, LocalParent, RootOrRemote
    <3>2. Authenticate(r) => UNCHANGED <<oboeVars, granted>>
      BY DEF Authenticate
    <3>3. LoadSetting(r) => UNCHANGED <<oboeVars, granted>>
      BY Zenon DEF LoadSetting
    <3>4. Finish(r) => UNCHANGED <<oboeVars, granted>>
      BY DEF Finish
    <3> QED BY <2>1, <3>1, <3>2, <3>3, <3>4
  <2>2. ASSUME NEW dice \in Dice, CountAndDecide(r, dice) PROVE BudgetInv'
    BY <1>1, <2>2, BudgetCount
  <2> QED BY <1>3, <2>1, <2>2, BudgetKept DEF RequestNext
<1>4. CASE UNCHANGED vars
  BY <1>4, BudgetKept DEF vars, samplerVars
<1> QED BY <1>2, <1>3, <1>4 DEF Next

\* Rate limiting survives settings updates: each bucket of each generation,
\* replaced or expired ones included, grants at most its capacity plus its
\* refill since it was built.
THEOREM BudgetsHold == Spec => []TokenBudget
<1>1. SampleInv /\ BudgetInv => TokenBudget
  <2> SUFFICES ASSUME SampleInv, BudgetInv, NEW g \in 1..Len(heap), NEW k \in BucketKinds
               PROVE  granted[<<g, k>>] * Token =< heap[g].buckets[k].capacity
                        + heap[g].buckets[k].ratePerSec * (now - heap[g].timestamp)
    BY DEF TokenBudget
  <2> DEFINE b  == heap[g].buckets[k]
             ts == heap[g].timestamp
             n  == granted[<<g, k>>]
  <2>1. StoreInv /\ now \in Nat /\ Len(heap) \in Nat
    BY DEF SampleInv, StoreInv
  <2>2. g \in 1..MaxGen
    BY <2>1, MaxGenAssumption DEF BudgetInv
  <2>3. b \in Buckets /\ ts \in Nat
    BY <2>1, BucketTyped
  <2>4. ts =< now /\ Paid(b, ts, n, now)
    BY <2>1, <2>2 DEF BudgetInv
  <2>5. n \in Nat
    BY <2>2 DEF BudgetInv
  <2> HIDE DEF b, ts, n
  <2>6. b.capacity \in Nat /\ b.ratePerSec \in Nat /\ b.last \in Nat /\ b.available \in Nat
    BY <2>3 DEF Buckets
  <2>7. b.ratePerSec * (now - ts) \in Nat /\ n * Token \in Nat
    BY <2>1, <2>3, <2>4, <2>5, <2>6, TokenAssumption, ProductNat
  <2>8. n * Token =< b.capacity + b.ratePerSec * (now - ts)
    <3>1. CASE b.last < ts
      <4>1. n * Token = 0
        BY <2>4, <3>1, TokenAssumption DEF Paid
      <4> QED BY <4>1, <2>6, <2>7
    <3>2. CASE ts =< b.last
      <4>1. n * Token + b.available =< b.capacity + b.ratePerSec * (b.last - ts) /\ b.last =< now
        BY <2>4, <3>2 DEF Paid
      <4>2. b.last - ts \in Nat /\ now - ts \in Nat /\ b.last - ts =< now - ts
        BY <4>1, <3>2, <2>1, <2>3, <2>4, <2>6
      <4>3. b.ratePerSec * (b.last - ts) =< b.ratePerSec * (now - ts)
        BY <4>2, <2>6, ProductMono
      <4>4. b.ratePerSec * (b.last - ts) \in Nat
        BY <4>2, <2>6, ProductNat
      <4> QED BY <4>1, <4>3, <4>4, <2>6, <2>7
    <3> QED BY <3>1, <3>2, <2>3, <2>6
  <2> QED BY <2>8 DEF b, ts, n
<1> QED BY <1>1, SampleInit, SampleStep, BudgetInit, BudgetStep, PTL DEF Spec

-----------------------------------------------------------------------------
(* Every interval.                                                         *)

\* A consume, granted or refused, as the request sees it.
Consumed(b, c, n, m) ==
    c = consume(b, now) /\ m = IF CanConsume(b, now) THEN n + 1 ELSE n

\* Once stored, a bucket is changed by nothing but consume, whatever settings come
\* and go, and what consume grants is what is entered in its books.
LEMMA BucketStep ==
    ASSUME SampleInv, BudgetInv, [Next]_vars, NEW g \in 1..Len(heap), NEW k \in BucketKinds
    PROVE  /\ g \in 1..Len(heap') /\ now' \in Nat /\ now =< now'
           /\ \/ /\ heap'[g].buckets[k] = heap[g].buckets[k]
                 /\ granted'[<<g, k>>] = granted[<<g, k>>]
              \/ /\ Consumed(heap[g].buckets[k], heap'[g].buckets[k],
                             granted[<<g, k>>], granted'[<<g, k>>])
                 /\ now' = now
<1>1. /\ StoreInv /\ \A r \in Requests : RequestInv(r)
      /\ now \in Nat /\ heap \in Seq(Objects) /\ Len(heap) \in Nat
  BY DEF SampleInv, StoreInv
<1>2. CASE OboeNext /\ UNCHANGED samplerVars
  <2>1. granted' = granted
    BY <1>2 DEF samplerVars
  <2>2. CASE StoreSetting
    <3>1. pending \in Objects /\ heap' = Append(heap, pending) /\ now' = now
      BY <1>1, <2>2 DEF StoreSetting, StoreInv
    <3>2. g \in 1..Len(heap') /\ heap'[g] = heap[g]
      BY <1>1, <3>1
    <3> QED BY <1>1, <2>1, <3>1, <3>2
  <2>3. CASE heap' = heap /\ (now' = now \/ now' = now + 1)
    BY <1>1, <2>1, <2>3
  <2> QED BY <1>2, <2>2, <2>3 DEF OboeNext, BuildSetting, TtlLoad, TtlJudge, Tick
<1>3. ASSUME NEW r \in Requests, NEW dice \in Dice, CountAndDecide(r, dice)
      PROVE  /\ g \in 1..Len(heap') /\ now' = now
             /\ \/ /\ heap'[g].buckets[k] = heap[g].buckets[k]
                   /\ granted'[<<g, k>>] = granted[<<g, k>>]
                \/ Consumed(heap[g].buckets[k], heap'[g].buckets[k],
                            granted[<<g, k>>], granted'[<<g, k>>])
  <2> DEFINE q     == req[r]
             s     == heap[q.gen]
             tt    == TtMode(q)
             sw    == SwState(q.parent)
             kind  == BucketFor(tt)
             b     == s.buckets[kind]
             wants == WantsTrace(s, mergeURLSetting(s, "none"), tt, sw, dice)
             asks  == wants /\ RateLimits(sw)
             ok    == wants /\ (asks => CanConsume(b, now))
             nb    == IF asks THEN consume(b, now) ELSE b
             old   == granted[<<q.gen, kind>>]
             ng    == IF asks /\ ok THEN old + 1 ELSE old
  <2>1. Current(q) /\ kind \in BucketKinds
    BY <1>1, <1>3, CountReady, KindFacts DEF CountAndDecide
  <2>2. /\ heap' = [heap EXCEPT ![q.gen].buckets[kind] = nb]
        /\ granted' = [granted EXCEPT ![<<q.gen, kind>>] = ng] /\ now' = now
    BY <1>3 DEF CountAndDecide
  <2>3. q.gen \in 1..Len(heap) /\ b \in Buckets
    BY <1>1, <2>1, BucketTyped DEF Current
  <2>4. (nb = b /\ ng = old) \/ Consumed(b, nb, old, ng)
    BY DEF Consumed
  <2>5. nb \in Buckets
    BY <1>1, <2>3, ConsumeFacts
  <2>6. /\ granted \in [(1 .. MaxGen) \X BucketKinds -> Nat]
        /\ <<g, k>> \in (1 .. MaxGen) \X BucketKinds
    BY <1>1, MaxGenAssumption DEF BudgetInv
  <2> HIDE DEF nb, ng
  <2>7. /\ Len(heap') = Len(heap)
        /\ \A j \in BucketKinds :
             heap'[q.gen].buckets[j] = IF j = kind THEN nb ELSE heap[q.gen].buckets[j]
        /\ \A i \in 1..Len(heap) : i # q.gen => heap'[i] = heap[i]
    <3> HIDE DEF q, kind
    <3> QED BY <1>1, <2>1, <2>2, <2>3, <2>5, CountHeap
  <2>8. granted'[<<g, k>>] = IF g = q.gen /\ k = kind THEN ng ELSE granted[<<g, k>>]
    <3> HIDE DEF q, kind, old
    <3> QED BY <2>2, <2>6
  <2> HIDE DEF q, kind
  <2> QED BY <2>2, <2>4, <2>7, <2>8
<1>4. CASE UNCHANGED <<oboeVars, granted>>
  BY <1>1, <1>4 DEF oboeVars
<1>5. ASSUME NEW r \in Requests, Arrive(r) \/ Authenticate(r) \/ LoadSetting(r) \/ Finish(r)
      PROVE  UNCHANGED <<oboeVars, granted>>
  <2>1. Arrive(r) => UNCHANGED <<oboeVars, granted>>
    BY Zenon DEF Arrive, LocalParent, RootOrRemote
  <2>2. Authenticate(r) => UNCHANGED <<oboeVars, granted>>
    BY DEF Authenticate
  <2>3. LoadSetting(r) => UNCHANGED <<oboeVars, granted>>
    BY Zenon DEF LoadSetting
  <2>4. Finish(r) => UNCHANGED <<oboeVars, granted>>
    BY DEF Finish
  <2> QED BY <1>5, <2>1, <2>2, <2>3, <2>4
<1>6. CASE UNCHANGED vars
  BY <1>4, <1>6 DEF vars, samplerVars
<1> QED BY <1>1, <1>2, <1>3, <1>4, <1>5, <1>6 DEF Next, RequestNext

\* The type and the books of one bucket.
LEMMA OneBucket ==
    ASSUME SampleInv, BudgetInv, NEW g \in 1..Len(heap), NEW k \in BucketKinds
    PROVE  /\ heap[g].buckets[k] \in Buckets /\ granted[<<g, k>>] \in Nat /\ now \in Nat
           /\ heap[g].buckets[k].last =< now
           /\ heap[g].buckets[k].available =< heap[g].buckets[k].capacity
<1>1. StoreInv /\ Len(heap) \in Nat /\ now \in Nat
  BY DEF SampleInv, StoreInv
<1>2. g \in 1..MaxGen
  BY <1>1, MaxGenAssumption DEF BudgetInv
<1>3. heap[g].buckets[k] \in Buckets
  BY <1>1, BucketTyped
<1>4. Paid(heap[g].buckets[k], heap[g].timestamp, granted[<<g, k>>], now)
  BY <1>1, <1>2 DEF BudgetInv
<1>5. granted[<<g, k>>] \in Nat
  BY <1>2 DEF BudgetInv
<1> QED BY <1>1, <1>3, <1>4, <1>5 DEF Paid

\* update leaves last alone when the bucket is full, which would credit its time
\* again after the next consume; a full bucket cannot grant.
NotFull(b) == b.available >= b.capacity => b.capacity < Token

FullInv ==
    /\ \A g \in 1..Len(heap), k \in BucketKinds : NotFull(heap[g].buckets[k])
    /\ pending # NoSettings => \A k \in BucketKinds : NotFull(pending.buckets[k])

\* A consume that fills the bucket takes a token at once.
LEMMA ConsumeNotFull ==
    ASSUME NEW b \in Buckets, NEW t \in Nat, b.available =< b.capacity, NotFull(b)
    PROVE  NotFull(consume(b, t))
<1> DEFINE u == update(b, t)
<1>1. /\ u \in Buckets /\ u.capacity = b.capacity
      /\ b.available >= b.capacity => u = b
      /\ b.available < b.capacity => u.available =< b.capacity
  BY UpdateFacts
<1>2. /\ u.available \in Nat /\ u.capacity \in Nat /\ b.available \in Nat /\ b.capacity \in Nat
      /\ u.available =< u.capacity
  BY <1>1 DEF Buckets
<1>3. consume(b, t) = IF u.available >= Token THEN [u EXCEPT !.available = u.available - Token] ELSE u
  BY DEF consume
<1> HIDE DEF u
<1>4. CASE u.available >= Token
  <2>1. consume(b, t).available = u.available - Token /\ consume(b, t).capacity = u.capacity
    BY <1>1, <1>3, <1>4 DEF Buckets
  <2> QED BY <1>2, <2>1, TokenAssumption DEF NotFull
<1>5. CASE u.available < Token
  BY <1>2, <1>3, <1>5, TokenAssumption DEF NotFull
<1> QED BY <1>2, <1>4, <1>5, TokenAssumption

\* No bucket that can grant is ever full.
LEMMA FullStep == SampleInv /\ BudgetInv /\ FullInv /\ [Next]_vars => FullInv'
<1> SUFFICES ASSUME SampleInv, BudgetInv, FullInv, [Next]_vars PROVE FullInv'
  OBVIOUS
<1>1. StoreInv /\ now \in Nat /\ heap \in Seq(Objects) /\ Len(heap) \in Nat /\ config \in LocalConfigs
  BY DEF SampleInv, StoreInv
<1>2. ASSUME NEW g \in 1..Len(heap), NEW k \in BucketKinds
      PROVE  NotFull(heap'[g].buckets[k])
  <2> DEFINE b == heap[g].buckets[k]
  <2>1. b \in Buckets /\ NotFull(b)
    BY <1>1, BucketTyped DEF FullInv
  <2>2. b.available =< b.capacity
    BY OneBucket
  <2>3. heap'[g].buckets[k] \in {b, consume(b, now)}
    BY BucketStep DEF Consumed
  <2> HIDE DEF b
  <2> QED BY <1>1, <2>1, <2>2, <2>3, ConsumeNotFull
<1>3. CASE StoreSetting
  <2>1. /\ pending # NoSettings /\ pending \in Objects
        /\ heap' = Append(heap, pending) /\ pending' = NoSettings
    BY <1>1, <1>3 DEF StoreSetting, StoreInv
  <2>2. \A k \in BucketKinds : NotFull(pending.buckets[k])
    BY <2>1 DEF FullInv
  <2>3. Len(heap') = Len(heap) + 1 /\ heap'[Len(heap) + 1] = pending
    BY <1>1, <2>1
  <2>4. \A g \in 1..Len(heap'), k \in BucketKinds : NotFull(heap'[g].buckets[k])
    BY <1>1, <1>2, <2>2, <2>3
  <2> QED BY <2>1, <2>4 DEF FullInv
<1>4. ASSUME NEW arg \in UpdateArgs, BuildSetting(arg)
      PROVE  FullInv'
  <2> DEFINE s == newSettings(arg, config, now)
  <2>1. pending' = s /\ heap' = heap
    BY <1>4 DEF BuildSetting
  <2>2. s \in Objects /\ \A k \in BucketKinds : s.buckets[k].available = 0
    BY <1>1, NewSettingsFacts
  <2> HIDE DEF s
  <2>3. ASSUME NEW k \in BucketKinds PROVE NotFull(s.buckets[k])
    <3>1. s.buckets[k].capacity \in Nat
      BY <2>2 DEF Objects, Buckets
    <3> QED BY <2>2, <3>1, TokenAssumption DEF NotFull
  <2> QED BY <1>2, <2>1, <2>3 DEF FullInv
<1>5. CASE pending' = pending /\ Len(heap') = Len(heap)
  BY <1>2, <1>5 DEF FullInv, NotFull
<1>6. [Next]_vars => StoreSetting \/ (\E arg \in UpdateArgs : BuildSetting(arg))
                       \/ (pending' = pending /\ Len(heap') = Len(heap))
  <2>1. ASSUME NEW r \in Requests, RequestNext(r)
        PROVE  pending' = pending /\ Len(heap') = Len(heap)
    <3>1. CASE Arrive(r)
      BY <3>1, Zenon DEF Arrive, LocalParent, RootOrRemote, oboeVars
    <3>2. CASE LoadSetting(r)
      BY <3>2, Zenon DEF LoadSetting, oboeVars
    <3>3. ASSUME NEW dice \in Dice, CountAndDecide(r, dice)
          PROVE  pending' = pending /\ Len(heap') = Len(heap)
      BY <3>3, <1>1 DEF CountAndDecide
    <3> QED BY <2>1, <3>1, <3>2, <3>3 DEF RequestNext, Authenticate, Finish, oboeVars
  <2> QED BY <2>1 DEF Next, OboeNext, TtlLoad, TtlJudge, Tick, vars, oboeVars, samplerVars
<1> QED BY <1>3, <1>4, <1>5, <1>6

\* What has been taken since a moment t at which n tokens had been taken, and what
\* is left, is covered by the capacity and the refill from t to last.
Covered(b, n, m, t) ==
    /\ n =< m
    /\ b.last < t => m = n
    /\ t =< b.last => (m - n) * Token + b.available =< b.capacity + b.ratePerSec * (b.last - t)

\* consume keeps this for every moment that has passed.
LEMMA ConsumeCovered ==
    ASSUME NEW b \in Buckets, NEW x \in Nat, b.last =< x, b.available =< b.capacity, NotFull(b),
           NEW t \in Nat, t =< x, NEW n \in Nat, NEW m \in Nat, Covered(b, n, m, t)
    PROVE  Covered(consume(b, x), n, IF CanConsume(b, x) THEN m + 1 ELSE m, t)
<1> DEFINE u == update(b, x)
           c == consume(b, x)
           r == b.ratePerSec
           d == m - n
<1>1. /\ u \in Buckets /\ u.ratePerSec = r /\ u.capacity = b.capacity
      /\ b.available >= b.capacity => u = b
      /\ b.available < b.capacity =>
           u.last = x /\ u.available =< b.capacity /\ u.available =< b.available + r * (x - b.last)
  BY UpdateFacts
<1>2. /\ u.available \in Nat /\ u.last \in Nat /\ r \in Nat
      /\ b.last \in Nat /\ b.capacity \in Nat /\ b.available \in Nat
      /\ d \in Nat
  BY <1>1 DEF Buckets, Covered
<1>3. /\ c = IF CanConsume(b, x) THEN [u EXCEPT !.available = u.available - Token] ELSE u
      /\ CanConsume(b, x) <=> u.available >= Token
  BY DEF consume, CanConsume
<1> HIDE DEF u, c
<1>4. /\ c.ratePerSec = r /\ c.capacity = b.capacity /\ c.last = u.last
      /\ c.available = IF CanConsume(b, x) THEN u.available - Token ELSE u.available
  <2>1. CASE CanConsume(b, x)
    BY <2>1, <1>1, <1>3 DEF Buckets
  <2>2. CASE ~ CanConsume(b, x)
    BY <2>2, <1>1, <1>3
  <2> QED BY <2>1, <2>2
<1> DEFINE h == IF CanConsume(b, x) THEN m + 1 ELSE m
<1>5. (h - n) * Token + c.available = d * Token + u.available /\ n =< h
  <2>1. CASE CanConsume(b, x)
    <3>1. h - n = d + 1 /\ (d + 1) * Token = d * Token + Token /\ n =< h
      BY <2>1, <1>2, TokenAssumption DEF Covered
    <3>2. c.available = u.available - Token /\ d * Token \in Nat
      BY <2>1, <1>2, <1>4, TokenAssumption
    <3> HIDE DEF h, d
    <3> QED BY <3>1, <3>2, <1>2, TokenAssumption
  <2>2. CASE ~ CanConsume(b, x)
    BY <2>2, <1>4 DEF Covered
  <2> QED BY <2>1, <2>2
<1>6. CASE b.available >= b.capacity
  <2>1. u = b /\ ~ CanConsume(b, x)
    BY <1>1, <1>2, <1>3, <1>6, TokenAssumption DEF NotFull
  <2>2. c = b /\ h = m
    BY <1>3, <2>1
  <2> QED BY <2>2 DEF c, h
<1>7. CASE b.available < b.capacity
  <2>1. d * Token + u.available =< b.capacity + r * (x - t)
    <3>1. CASE b.last < t
      <4>1. d * Token = 0
        BY <3>1, TokenAssumption DEF Covered
      <4>2. r * (x - t) \in Nat
        BY <1>2, ProductNat
      <4> HIDE DEF r, d
      <4> QED BY <4>1, <4>2, <1>1, <1>2, <1>7
    <3>2. CASE t =< b.last
      <4>1. r * (x - t) = r * (b.last - t) + r * (x - b.last)
        BY <3>2, <1>2, ProductSum
      <4>2. r * (b.last - t) \in Nat /\ r * (x - b.last) \in Nat /\ d * Token \in Nat
        BY <3>2, <1>2, ProductNat, TokenAssumption
      <4>3. d * Token + b.available =< b.capacity + r * (b.last - t)
        BY <3>2 DEF Covered
      <4> HIDE DEF r, d
      <4> QED BY <4>1, <4>2, <4>3, <1>1, <1>2, <1>7
    <3> QED BY <3>1, <3>2, <1>2
  <2>2. c.last = x
    BY <1>1, <1>4, <1>7
  <2>3. (h - n) * Token + c.available =< c.capacity + c.ratePerSec * (c.last - t)
    BY <1>4, <1>5, <2>1, <2>2
  <2> HIDE DEF h
  <2> QED BY <1>5, <2>2, <2>3 DEF Covered, h, c
<1> QED BY <1>2, <1>6, <1>7

\* Bucket k of generation g has been covered since t.
CoveredSince(g, k, n, t) ==
    /\ g \in 1..Len(heap) /\ t =< now
    /\ Covered(heap[g].buckets[k], n, granted[<<g, k>>], t)

\* The bound on an interval that began at t with n tokens taken.
WithinBudget(g, k, n, t) ==
    (granted[<<g, k>>] - n) * Token =<
        heap[g].buckets[k].capacity + heap[g].buckets[k].ratePerSec * (now - t)

\* Rate limiting proper, in the composition: over every interval, from any moment
\* t on, a bucket of any generation grants at most its capacity and what its rate
\* produces in that interval, however many requests hold its settings, whether they
\* are in force, replaced or expired.
THEOREM EveryInterval ==
    ASSUME NEW g \in 1..MaxGen, NEW k \in BucketKinds, NEW n \in Nat, NEW t \in Nat
    PROVE  Spec => []((g \in 1..Len(heap) /\ granted[<<g, k>>] = n /\ now = t)
                        => []WithinBudget(g, k, n, t))
<1> DEFINE Inv == SampleInv /\ BudgetInv /\ FullInv
           From == g \in 1..Len(heap) /\ granted[<<g, k>>] = n /\ now = t
           Since == CoveredSince(g, k, n, t)
           Within == WithinBudget(g, k, n, t)
<1>1. Init => FullInv
  BY DEF Init, OboeInit, FullInv
<1>2. Inv /\ From => Since
  <2> SUFFICES ASSUME Inv, From PROVE Since
    OBVIOUS
  <2> DEFINE b == heap[g].buckets[k]
  <2>1. b \in Buckets /\ b.last =< now /\ b.available =< b.capacity /\ now \in Nat
    BY OneBucket
  <2>2. t =< b.last => b.last - t = 0
    BY <2>1 DEF Buckets
  <2>3. Covered(b, n, granted[<<g, k>>], t)
    <3> HIDE DEF b
    <3> QED BY <2>1, <2>2, TokenAssumption DEF Covered, Buckets
  <2> QED BY <2>1, <2>3 DEF CoveredSince
<1>3. Inv /\ Since /\ [Next]_vars => Since'
  <2> SUFFICES ASSUME Inv, Since, [Next]_vars PROVE Since'
    OBVIOUS
  <2> DEFINE b == heap[g].buckets[k]
             c == heap'[g].buckets[k]
             m == granted[<<g, k>>]
             h == granted'[<<g, k>>]
  <2>1. g \in 1..Len(heap) /\ t =< now /\ Covered(b, n, m, t)
    BY DEF CoveredSince
  <2>2. b \in Buckets /\ m \in Nat /\ now \in Nat /\ b.last =< now /\ b.available =< b.capacity
    BY <2>1, OneBucket
  <2>3. NotFull(b)
    BY <2>1 DEF FullInv
  <2>4. g \in 1..Len(heap') /\ now' \in Nat /\ now =< now'
        /\ ((c = b /\ h = m) \/ Consumed(b, c, m, h))
    BY <2>1, BucketStep
  <2> HIDE DEF b, c, m, h
  <2>5. Covered(c, n, h, t)
    <3>1. CASE c = b /\ h = m
      BY <2>1, <3>1
    <3>2. CASE Consumed(b, c, m, h)
      BY <2>1, <2>2, <2>3, <3>2, ConsumeCovered DEF Consumed
    <3> QED BY <2>4, <3>1, <3>2
  <2>6. t =< now'
    BY <2>1, <2>2, <2>4
  <2> QED BY <2>4, <2>5, <2>6 DEF CoveredSince, c, h
<1>4. Inv /\ Since => Within
  <2> SUFFICES ASSUME Inv, Since PROVE Within
    OBVIOUS
  <2> DEFINE b == heap[g].buckets[k]
             m == granted[<<g, k>>]
  <2>1. g \in 1..Len(heap) /\ t =< now /\ Covered(b, n, m, t)
    BY DEF CoveredSince
  <2>2. b \in Buckets /\ m \in Nat /\ now \in Nat /\ b.last =< now
    BY <2>1, OneBucket
  <2> HIDE DEF b, m
  <2>3. b.capacity \in Nat /\ b.ratePerSec \in Nat /\ b.last \in Nat /\ b.available \in Nat
    BY <2>2 DEF Buckets
  <2>4. b.ratePerSec * (now - t) \in Nat
    BY <2>1, <2>2, <2>3, ProductNat
  <2>5. (m - n) * Token =< b.capacity + b.ratePerSec * (now - t)
    <3>1. CASE b.last < t
      <4>1. m - n = 0
        BY <2>1, <2>2, <3>1 DEF Covered
      <4>2. (m - n) * Token = 0 * Token
        BY <4>1, Zenon
      <4>3. (m - n) * Token = 0
        BY <4>2, TokenAssumption
      <4> HIDE DEF b, m
      <4> QED BY <4>3, <2>3, <2>4
    <3>2. CASE t =< b.last
      <4>1. (m - n) * Token + b.available =< b.capacity + b.ratePerSec * (b.last - t)
        BY <2>1, <3>2 DEF Covered
      <4>2. b.ratePerSec * (b.last - t) =< b.ratePerSec * (now - t)
        <5>1. b.last - t \in Nat /\ now - t \in Nat /\ b.last - t =< now - t
          BY <2>1, <2>2, <2>3, <3>2
        <5> QED BY <5>1, <2>3, ProductMono, Zenon
      <4>3. b.ratePerSec * (b.last - t) \in Nat
        BY <2>3, <3>2, ProductNat
      <4>4. m - n \in Nat
        BY <2>1, <2>2 DEF Covered
      <4>5. Token \in Nat
        BY TokenAssumption
      <4>6. (m - n) * Token \in Nat
        BY <4>4, <4>5, ProductNat, Zenon
      <4> QED BY <4>1, <4>2, <4>3, <4>6, <2>3, <2>4
    <3> QED BY <3>1, <3>2, <2>3
  <2> QED BY <2>5 DEF WithinBudget, b, m
<1> HIDE DEF From, Since, Within
<1>5. Spec => [](From => []Within)
  BY <1>1, <1>2, <1>3, <1>4, AlwaysSampleInv, BudgetInit, BudgetStep, FullStep, SampleInit, SampleStep, PTL DEF Spec
<1> QED BY <1>5 DEF From, Within

\* While nothing is granted from t on, what the rate produces from t to last is in
\* the bucket, unless it is full.
Hoarded(b, n, m, t) ==
    (m = n /\ t =< b.last /\ b.available < b.capacity) => b.ratePerSec * (b.last - t) =< b.available

\* A consume that is refused has credited all that the rate has produced since t,
\* in as many fractions as there were refusals before it.
LEMMA RefusedHoards ==
    ASSUME NEW b \in Buckets, NEW x \in Nat, b.last =< x, b.available =< b.capacity, NotFull(b),
           b.capacity >= Token, ~ CanConsume(b, x),
           NEW t \in Nat, t =< x, x - t =< MaxDuration, NEW n, Hoarded(b, n, n, t)
    PROVE  /\ consume(b, x) = update(b, x) /\ update(b, x) \in Buckets
           /\ update(b, x).last = x /\ update(b, x).ratePerSec = b.ratePerSec
           /\ update(b, x).available \in Nat /\ update(b, x).available < Token
           /\ b.ratePerSec * (x - t) =< update(b, x).available
<1> DEFINE u     == update(b, x)
           r     == b.ratePerSec
           delta == Sub(x, b.last)
           gain  == r * delta
<1>1. /\ b.last \in Nat /\ r \in Nat /\ b.capacity \in Nat /\ b.available \in Nat
      /\ b.available < b.capacity
  BY TokenAssumption DEF Buckets, NotFull
<1>2. /\ delta \in Nat /\ delta =< x - b.last
      /\ x - t =< delta \/ delta = x - b.last
  BY <1>1, MaxDurationAssumption DEF Sub
<1>3. u \in Buckets /\ u.ratePerSec = r /\ u.last = x
  BY <1>1, UpdateFacts
<1>4. u.available \in Nat /\ u.available < Token
  BY <1>3, TokenAssumption DEF CanConsume, Buckets
<1>5. consume(b, x) = u
  BY <1>4, TokenAssumption DEF consume
<1>6. gain \in Nat
  BY <1>1, <1>2, ProductNat
<1>7. u.available = b.available + gain
  <2>1. CASE delta =< 0
    <3>1. u = [b EXCEPT !.last = x]
      BY <1>1, <2>1 DEF update
    <3>2. delta = 0
      BY <1>2, <2>1
    <3>3. gain = 0
      BY <1>1, <3>2
    <3> HIDE DEF gain
    <3> QED BY <1>1, <3>1, <3>3 DEF Buckets
  <2>2. CASE delta > 0
    <3>1. u = [b EXCEPT !.last = x, !.available = MinOf(b.capacity, b.available + gain)]
      BY <1>1, <1>2, <2>2 DEF update
    <3>2. u.available = MinOf(b.capacity, b.available + gain)
      <4> HIDE DEF gain
      <4> QED BY <3>1 DEF Buckets
    <3> HIDE DEF u, gain
    <3> QED BY <1>1, <1>4, <1>6, <3>2, TokenAssumption DEF MinOf
  <2> QED BY <1>2, <2>1, <2>2
<1>8. r * (x - t) =< u.available
  <2> HIDE DEF u, delta
  <2>1. CASE b.last < t
    <3>1. x - t \in Nat /\ x - t =< delta
      BY <2>1, <1>1, <1>2
    <3>2. r * (x - t) =< gain /\ r * (x - t) \in Nat
      BY <3>1, <1>1, <1>2, ProductMono, ProductNat
    <3> HIDE DEF gain, r
    <3> QED BY <3>2, <1>1, <1>6, <1>7
  <2>2. CASE t =< b.last
    <3>1. r * (b.last - t) =< b.available
      BY <2>2, <1>1 DEF Hoarded
    <3>2. x - b.last \in Nat /\ x - b.last =< delta
      BY <2>2, <1>1, <1>2
    <3>3. r * (x - b.last) =< gain
      BY <3>2, <1>1, <1>2, ProductMono
    <3>4. r * (x - t) = r * (b.last - t) + r * (x - b.last)
      BY <2>2, <1>1, ProductSum
    <3>5. r * (b.last - t) \in Nat /\ r * (x - b.last) \in Nat
      BY <2>2, <3>2, <1>1, ProductNat
    <3> HIDE DEF gain, r
    <3> QED BY <3>1, <3>3, <3>4, <3>5, <1>1, <1>6, <1>7
  <2> QED BY <2>1, <2>2, <1>1
<1> HIDE DEF u
<1> QED BY <1>3, <1>4, <1>5, <1>8 DEF u

\* An interval that is not too long was not too long before.
LEMMA Earlier ==
    ASSUME NEW a \in Nat, NEW x \in Nat, a =< x, NEW t \in Nat, NEW d \in Nat, x - t =< d
    PROVE  a - t =< d
  OBVIOUS

\* While nothing is granted from t on, bucket k of generation g hoards.
HoardedSince(g, k, n, t) ==
    /\ g \in 1..Len(heap) /\ t =< now /\ n =< granted[<<g, k>>]
    /\ (now - t =< MaxDuration /\ heap[g].buckets[k].capacity >= Token) =>
         Hoarded(heap[g].buckets[k], n, granted[<<g, k>>], t)

\* If n tokens are still all that was taken and the next consume would be refused,
\* the rate has not yet produced a token since t.
NotYetDue(g, k, n, t) ==
    (/\ granted[<<g, k>>] = n /\ now - t =< MaxDuration
     /\ heap[g].buckets[k].capacity >= Token /\ ~ CanConsume(heap[g].buckets[k], now))
        => heap[g].buckets[k].ratePerSec * (now - t) < Token

\* Nobody is starved by polling, in the composition: a bucket that can hold a token
\* and has granted none since a moment t grants the next one asked for as soon as
\* its rate has produced one since t, however often it refused in between and
\* however many requests share it.  (Of intervals up to the largest Duration.)
THEOREM EveryWaitEnds ==
    ASSUME NEW g \in 1..MaxGen, NEW k \in BucketKinds, NEW n \in Nat, NEW t \in Nat
    PROVE  Spec => []((g \in 1..Len(heap) /\ granted[<<g, k>>] = n /\ now = t)
                        => []NotYetDue(g, k, n, t))
<1> DEFINE Inv == SampleInv /\ BudgetInv /\ FullInv
           From == g \in 1..Len(heap) /\ granted[<<g, k>>] = n /\ now = t
           Since == HoardedSince(g, k, n, t)
           Due == NotYetDue(g, k, n, t)
<1>1. Init => FullInv
  BY DEF Init, OboeInit, FullInv
<1>2. Inv /\ From => Since
  <2> SUFFICES ASSUME Inv, From PROVE Since
    OBVIOUS
  <2> DEFINE b == heap[g].buckets[k]
  <2>1. b \in Buckets /\ b.last =< now /\ now \in Nat
    BY OneBucket
  <2>2. t =< b.last => b.last - t = 0
    BY <2>1 DEF Buckets
  <2>3. Hoarded(b, n, granted[<<g, k>>], t)
    <3> HIDE DEF b
    <3> QED BY <2>1, <2>2 DEF Hoarded, Buckets
  <2> QED BY <2>1, <2>3 DEF HoardedSince
<1>3. Inv /\ Since /\ [Next]_vars => Since'
  <2> SUFFICES ASSUME Inv, Since, [Next]_vars PROVE Since'
    OBVIOUS
  <2> DEFINE b == heap[g].buckets[k]
             c == heap'[g].buckets[k]
             m == granted[<<g, k>>]
             h == granted'[<<g, k>>]
  <2>1. /\ g \in 1..Len(heap) /\ t =< now /\ n =< m
        /\ (now - t =< MaxDuration /\ b.capacity >= Token) => Hoarded(b, n, m, t)
    BY DEF HoardedSince
  <2>2. /\ b \in Buckets /\ m \in Nat /\ now \in Nat /\ b.last =< now /\ b.available =< b.capacity
        /\ NotFull(b)
    BY <2>1, OneBucket DEF FullInv
  <2>3. /\ g \in 1..Len(heap') /\ now' \in Nat /\ now =< now'
        /\ (c = b /\ h = m) \/ (Consumed(b, c, m, h) /\ now' = now)
    BY <2>1, BucketStep
  <2> HIDE DEF b, c, m, h
  <2>4. t =< now' /\ n =< h
    BY <2>1, <2>2, <2>3 DEF Consumed
  <2>5. ASSUME now' - t =< MaxDuration, c.capacity >= Token
        PROVE  Hoarded(c, n, h, t)
    <3>1. now - t =< MaxDuration
      <4>1. now \in Nat /\ now' \in Nat /\ now =< now' /\ now' - t =< MaxDuration
        BY <2>2, <2>3, <2>5
      <4> QED BY <4>1, MaxDurationAssumption, Earlier
    <3>2. CASE c = b /\ h = m
      BY <2>1, <2>5, <3>1, <3>2
    <3>3. CASE Consumed(b, c, m, h) /\ CanConsume(b, now)
      BY <2>1, <2>2, <3>3 DEF Consumed, Hoarded
    <3>4. CASE Consumed(b, c, m, h) /\ ~ CanConsume(b, now) /\ h = n
      <4>1. m = n /\ c = consume(b, now) /\ c.capacity = b.capacity
        BY <2>2, <3>4, ConsumeFacts DEF Consumed
      <4>2. Hoarded(b, n, n, t)
        BY <2>1, <2>5, <3>1, <4>1
      <4>3. c.last = now /\ c.ratePerSec = b.ratePerSec /\ b.ratePerSec * (now - t) =< c.available
        BY <2>1, <2>2, <2>5, <3>1, <3>4, <4>1, <4>2, RefusedHoards
      <4> QED BY <4>3 DEF Hoarded
    <3>5. CASE h # n
      BY <3>5 DEF Hoarded
    <3> QED BY <2>3, <3>2, <3>3, <3>4, <3>5
  <2> QED BY <2>3, <2>4, <2>5 DEF HoardedSince, c, h
<1>4. Inv /\ Since => Due
  <2> SUFFICES ASSUME Inv, Since, granted[<<g, k>>] = n, now - t =< MaxDuration,
                      heap[g].buckets[k].capacity >= Token, ~ CanConsume(heap[g].buckets[k], now)
               PROVE  heap[g].buckets[k].ratePerSec * (now - t) < Token
    BY DEF NotYetDue
  <2> DEFINE b == heap[g].buckets[k]
  <2>1. g \in 1..Len(heap) /\ t =< now /\ Hoarded(b, n, n, t)
    BY DEF HoardedSince
  <2>2. b \in Buckets /\ now \in Nat /\ b.last =< now /\ b.available =< b.capacity /\ NotFull(b)
    BY <2>1, OneBucket DEF FullInv
  <2>3. b.capacity >= Token /\ ~ CanConsume(b, now)
    OBVIOUS
  <2> DEFINE u == update(b, now)
  <2> HIDE DEF b
  <2>4. u.available \in Nat /\ u.available < Token /\ b.ratePerSec * (now - t) =< u.available
    BY <2>1, <2>2, <2>3, RefusedHoards
  <2>5. b.ratePerSec * (now - t) \in Nat
    BY <2>1, <2>2, ProductNat DEF Buckets
  <2> HIDE DEF u
  <2>6. b.ratePerSec * (now - t) < Token
    BY <2>4, <2>5, TokenAssumption
  <2> QED BY <2>6 DEF b
<1> HIDE DEF From, Since, Due
<1>5. Spec => [](From => []Due)
  BY <1>1, <1>2, <1>3, <1>4, AlwaysSampleInv, BudgetInit, BudgetStep, FullStep, SampleInit, SampleStep, PTL DEF Spec
<1> QED BY <1>5 DEF From, Due
=============================================================================
