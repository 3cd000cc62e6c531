------------------------------- MODULE Sampler ------------------------------
(***************************************************************************)
(* Requests that ask for a sampling decision while the settings change     *)
(* under them: ShouldSample (internal/sampler/sampler.go), the signature   *)
(* check of X-Trace-Options (internal/xtrace/xtrace.go) and SampleRequest  *)
(* (internal/oboe/oboe.go).                                                *)
(*                                                                         *)
(* The settings pointer is loaded twice for one request, once for the key  *)
(* that checks the signature and once for the decision, and the bucket is  *)
(* a third shared object with its own lock.  Each of these is a step.      *)
(***************************************************************************)
EXTENDS Oboe, FiniteSets

CONSTANTS
    Requests,     \* request goroutines
    Parents,      \* kinds of parent span context, a subset of AllParents
    Options,      \* X-Trace-Options headers, a subset of AllOptions
    SignKeys      \* keys a client may sign with

ASSUME SignKeysAssumption == NoToken \notin SignKeys

VARIABLES
    req,        \* request goroutine -> its progress and its outcome
    granted     \* history: tokens taken from each bucket of each generation

samplerVars == <<req, granted>>
vars == <<oboeVars, samplerVars>>

\* A parent in the same process, a remote one with and without the sampled bit
\* in its sw tracestate entry, and none (or one without a valid sw entry).
AllParents == {"none", "remoteSampled", "remoteUnsampled", "localSampled", "localUnsampled"}

\* w3cfmt.GetSwTraceState
SwState(parent) ==
    CASE parent = "remoteSampled"   -> "sampled"
      [] parent = "remoteUnsampled" -> "unsampled"
      [] OTHER                      -> "none"

\* The X-Trace-Options headers: no header, or an options header with or without
\* trigger-trace, unsigned or signed with some key at a fresh or an old time.
NoSig == "unsigned"
AllOptions ==
    [present : {FALSE}, triggerTrace : {FALSE}, key : {NoSig} \cup SignKeys, tsInScope : {FALSE}]
    \cup [present : {TRUE}, triggerTrace : BOOLEAN, key : {NoSig}, tsInScope : {FALSE}]
    \cup [present : {TRUE}, triggerTrace : BOOLEAN, key : SignKeys, tsInScope : BOOLEAN]

ASSUME InputsAssumption == Parents \subseteq AllParents /\ Options \subseteq AllOptions

Idle == [pc |-> "idle"]

SamplerInit ==
    /\ req = [r \in Requests |-> Idle]
    /\ granted = [b \in (1 .. MaxGen) \X BucketKinds |-> 0]

Init == OboeInit /\ SamplerInit

-----------------------------------------------------------------------------

\* A local parent has decided already.
LocalParent(r, parent) ==
    /\ parent \in {"localSampled", "localUnsampled"}
    /\ req' = [req EXCEPT ![r] =
         [pc |-> "local", parent |-> parent,
          result |-> IF parent = "localSampled" THEN "RecordAndSample" ELSE "Drop"]]
    /\ UNCHANGED <<oboeVars, granted>>

\* GetXTraceOptions parses the headers; without a signature nothing is loaded.
\* born, the newest generation when the request came in, is history.
RootOrRemote(r, parent, opts) ==
    /\ parent \notin {"localSampled", "localUnsampled"}
    /\ req' = [req EXCEPT ![r] =
         [pc |-> IF opts.key = NoSig THEN "load" ELSE "auth",
          parent |-> parent, opts |-> opts,
          sigState |-> "None", authMsg |-> "", authGen |-> Nil, born |-> Len(heap)]]
    /\ UNCHANGED <<oboeVars, granted>>

Arrive(r) ==
    /\ req[r].pc = "idle"
    /\ \E parent \in Parents :
          \/ LocalParent(r, parent)
          \/ \E opts \in Options : RootOrRemote(r, parent, opts)

\* A plausible slip: a missing key is taken for a match.
AuthMsgNoKey(opts) ==
    IF ~ opts.tsInScope THEN "bad-timestamp"
    ELSE IF settings # Nil /\ opts.key # heap[settings].token /\ heap[settings].token # NoToken
         THEN "bad-signature" ELSE "ok"

\* validateXTraceOptionsSignature with GetTriggerTraceToken.
AuthMsg(opts) ==
    IF ~ opts.tsInScope THEN "bad-timestamp"
    ELSE IF settings = Nil \/ heap[settings].token = NoToken THEN "no-signature-key"
         ELSE IF opts.key # heap[settings].token THEN "bad-signature" ELSE "ok"

Authenticate(r) ==
    /\ req[r].pc = "auth"
    /\ LET msg == AuthMsg(req[r].opts)
       IN  req' = [req EXCEPT ![r].pc = "load",
                              ![r].sigState = IF msg = "ok" THEN "Valid" ELSE "Invalid",
                              ![r].authMsg = msg,
                              ![r].authGen = settings]
    /\ UNCHANGED <<oboeVars, granted>>

TtMode(q) == getTtMode(q.opts.triggerTrace, q.sigState)

\* hydrateTraceState: what the client is told, when it sent options at all.
Response(q, rsp) ==
    IF ~ q.opts.present THEN [auth |-> "", triggerTrace |-> ""]
    ELSE [auth |-> q.authMsg, triggerTrace |-> IF q.sigState = "Invalid" THEN "" ELSE rsp]

\* The request with its decision d, drawn from generation gen; took is the kind
\* of the bucket it took a token from, or "nothing".
Decided(q, gen, d, took) ==
    [pc |-> "done", parent |-> q.parent, opts |-> q.opts, sigState |-> q.sigState,
     authGen |-> q.authGen, born |-> q.born, gen |-> gen, decision |-> d,
     result |-> SamplingResult(d), response |-> Response(q, d.rsp), took |-> took]

\* A plausible slip: the first settings object ever seen is cached.
LoadSettingCached(r) ==
    /\ req[r].pc = "load" /\ heap # << >>
    /\ req' = [req EXCEPT ![r] =
         [pc |-> "count", gen |-> 1, parent |-> @.parent, opts |-> @.opts,
          sigState |-> @.sigState, authMsg |-> @.authMsg, authGen |-> @.authGen,
          born |-> @.born]]
    /\ UNCHANGED <<oboeVars, granted>>

\* SampleRequest loads the settings; without any it answers at once.
LoadSetting(r) ==
    /\ req[r].pc = "load"
    /\ \/ /\ settings = Nil
          /\ req' = [req EXCEPT ![r] = Decided(req[r], Nil, NoSettingsDecision, "nothing")]
       \/ /\ settings # Nil
          /\ req' = [req EXCEPT ![r] =
               [pc |-> "count", gen |-> settings, parent |-> @.parent, opts |-> @.opts,
                sigState |-> @.sigState, authMsg |-> @.authMsg, authGen |-> @.authGen,
                born |-> @.born]]
    /\ UNCHANGED <<oboeVars, granted>>

\* The rest of SampleRequest on the settings loaded before: the dice, count with
\* its consume under the bucket's lock, and the decision.  The url is empty.
CountAndDecide(r, dice) ==
    LET q     == req[r]
        s     == heap[q.gen]
        tt    == TtMode(q)
        sw    == SwState(q.parent)
        kind  == BucketFor(tt)
        b     == s.buckets[kind]
        wants == WantsTrace(s, mergeURLSetting(s, "none"), tt, sw, dice)
        asks  == wants /\ RateLimits(sw)
        ok    == wants /\ (asks => CanConsume(b, now))
    IN  /\ q.pc = "count"
        /\ heap' = [heap EXCEPT ![q.gen].buckets[kind] = IF asks THEN consume(b, now) ELSE b]
        /\ granted' = [granted EXCEPT ![<<q.gen, kind>>] = IF asks /\ ok THEN @ + 1 ELSE @]
        /\ req' = [req EXCEPT ![r] =
             Decided(q, q.gen, SampleDecision(s, "none", tt, sw, ok),
                     IF asks /\ ok THEN kind ELSE "nothing")]
        /\ UNCHANGED <<now, config, settings, pending, ttlSeen>>

\* The goroutine takes its next request.
Finish(r) ==
    /\ req[r].pc \in {"local", "done"}
    /\ req' = [req EXCEPT ![r] = Idle]
    /\ UNCHANGED <<oboeVars, granted>>

RequestNext(r) ==
    \/ Arrive(r)
    \/ Authenticate(r)
    \/ LoadSetting(r)
    \/ \E dice \in Dice : CountAndDecide(r, dice)
    \/ Finish(r)

Next == (OboeNext /\ UNCHANGED samplerVars) \/ \E r \in Requests : RequestNext(r)

Spec == Init /\ [][Next]_vars

-----------------------------------------------------------------------------

Done == {r \in Requests : req[r].pc = "done"}
Sampled(q) == q.result = "RecordAndSample"

\* Rate limiting survives settings updates: requests that still hold replaced
\* or expired settings go on drawing from the old buckets, and each generation
\* of each bucket stays within its capacity plus its refill since it was built.
TokenBudget ==
    \A g \in 1 .. Len(heap), k \in BucketKinds :
        granted[<<g, k>>] * Token =< heap[g].buckets[k].capacity
            + heap[g].buckets[k].ratePerSec * (now - heap[g].timestamp)

\* Every new trace is paid for with one token of the bucket its authentication
\* entitles it to, and a continued trace never spends one.
NewTracesPay ==
    \A r \in Done : LET q == req[r] IN
        /\ (Sampled(q) /\ q.parent = "none") =>
              q.took = IF ~ q.opts.triggerTrace THEN "default"
                       ELSE IF q.opts.key = NoSig THEN "strict" ELSE "relaxed"
        /\ q.parent # "none" => q.took = "nothing"

\* The decision uses settings at least as new as those in force when the request
\* arrived, and never settings older than the key its signature was checked
\* with, however updates and expiries fall between its loads.
DecisionNotStale ==
    \A r \in Done : LET q == req[r] IN
        q.gen # Nil => q.born =< q.gen /\ q.authGen =< q.gen

\* The relaxed bucket serves only requests signed, in time, with a key that was
\* in force after the request arrived: a rotated key is refused from then on.
RelaxedNeedsKey ==
    \A r \in Done : LET q == req[r] IN
        q.took = "relaxed" =>
            /\ q.opts.tsInScope
            /\ q.authGen # Nil /\ q.born =< q.authGen
            /\ q.opts.key = heap[q.authGen].token

\* The client is told "ok" exactly when a trigger-trace token was spent on its
\* request, "rate-exceeded" only when a new trigger trace went unsampled, and
\* "settings-not-available" only when nothing was loaded.
ResponseTruthful ==
    \A r \in Done : LET q == req[r]
                        t == q.response.triggerTrace IN
        /\ t = "ok" <=> q.took \in {"relaxed", "strict"}
        /\ t = "rate-exceeded" => q.opts.triggerTrace /\ ~ Sampled(q)
        /\ t = "settings-not-available" => q.gen = Nil
        /\ t = "ignored" => q.parent # "none"

\* Local configuration and OVERRIDE hold end to end: a process configured to
\* disable tracing never samples at an entry, a process with trigger trace off
\* spends no trigger-trace token, and under OVERRIDE a trace is started only if
\* the collector allows starting traces.
LocalConfigHonoured ==
    \A r \in Done : LET q == req[r] IN
        /\ (config.samplingConfigured /\ config.tracingMode = "disabled") => ~ Sampled(q)
        /\ ~ config.triggerTrace => q.took \notin {"relaxed", "strict"}
        /\ (/\ q.gen # Nil /\ hasOverrideFlag(heap[q.gen])
            /\ q.took = "default") => "SAMPLE_START" \in heap[q.gen].originalFlags

=============================================================================
