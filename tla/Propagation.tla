----------------------------- MODULE Propagation -----------------------------
(***************************************************************************)
(* One trace on its way through a chain of services.  Services that run    *)
(* this library extract, decide, answer and inject: internal/propagator/   *)
(* propagator.go, internal/swotel/tracestate.go, internal/w3cfmt/          *)
(* w3cfmt.go, ShouldSample and hydrateTraceState of internal/sampler/      *)
(* sampler.go, and the base handler of swohttp.  Between them are services *)
(* that only follow W3C trace context, and ones that drop parts of it.     *)
(*                                                                         *)
(* A trace state is the list of its members, left-most first.  Text is a   *)
(* sequence of words.  Whether a bucket has a token is left open here.     *)
(***************************************************************************)
EXTENDS Settings, Sequences, SequencesExt

CONSTANTS
    MaxMembers,    \* members a W3C trace state may have (32)
    Vendors,       \* keys of other vendors
    Policies,      \* settings a service may have; NoPolicy for none
    NoPolicy,
    MaxHops        \* bound on the services a trace visits

ASSUME BoundsAssumption == MaxMembers \in Nat \ {0} /\ MaxHops \in Nat
ASSUME VendorsAssumption == Vendors \cap {"sw", "xtrace_options_response"} = {}

VARIABLES
    stage,       \* "wire", or where the service of this library is: "started", "serving"
    hops,        \* services visited, also the source of span ids
    parent,      \* traceparent on the wire, or of the request being served
    tracestate,  \* tracestate on the wire
    opts,        \* the X-Trace-Options headers of the request
    span,        \* the current span of the service: its id, sampled bit and trace state
    response,    \* X-Trace-Options-Response of the service, << >> when not sent
    upstream,    \* history: what the nearest service of this library upstream has said
                 \* of its decision, "none" if its trace state has not come through
    policy,      \* history: the settings the decision was taken with
    took,        \* history: the decision took a token
    arrived      \* history: the trace state the request came with

vars == <<stage, hops, parent, tracestate, opts, span, response, upstream, policy, took, arrived>>

NoParent == [span |-> 0, sampled |-> FALSE]

\* Headers: options with and without trigger-trace, unsigned or signed, or no
\* options (a signature of nothing has no timestamp, so it is bad).
OptionHeaders ==
    [present : {FALSE}, triggerTrace : {FALSE}, signature : {"none", "bad"}]
    \cup [present : {TRUE}, triggerTrace : BOOLEAN, signature : {"none", "good", "bad"}]
NoHeaders == [present |-> FALSE, triggerTrace |-> FALSE, signature |-> "none"]

\* The signature of a request as a service with settings s judges it; without
\* settings there is no key.  (The reasons of a refusal are in module Sampler.)
SignatureState(h, s) ==
    CASE h.signature = "none" -> "None"
      [] h.signature = "good" /\ s # NoPolicy -> "Valid"
      [] OTHER -> "Invalid"

-----------------------------------------------------------------------------
(* swotel over OpenTelemetry's TraceState.                                 *)

SwKey == "sw"
xtraceOptRespKey == "xtrace_options_response"

SwMember(id, sampled) == [key |-> SwKey, span |-> id, sampled |-> sampled]
Other(v) == [key |-> v]

\* The position of a key, which a trace state has once at most.
Has(ts, key) == \E i \in DOMAIN ts : ts[i].key = key
Where(ts, key) == CHOOSE i \in DOMAIN ts : ts[i].key = key

\* TraceState.Get and TraceState.Delete.
Member(ts, key) == ts[Where(ts, key)]
Without(ts, key) == IF Has(ts, key) THEN RemoveAt(ts, Where(ts, key)) ELSE ts

\* TraceState.Insert: the member goes to the left end; a list that is too long
\* loses its right-most member.
Insert(ts, m) ==
    LET rest == Without(ts, m.key)
    IN  <<m>> \o (IF Len(rest) < MaxMembers THEN rest ELSE Front(rest))

\* A plausible slip: only commas are escaped.
EscapeCommas(text) == [i \in DOMAIN text |-> IF text[i] = "," THEN "...." ELSE text[i]]

\* SetInternalState replaces what a member's value may not contain ...
Escape(text) ==
    [i \in DOMAIN text |->
       CASE text[i] = "," -> "...." [] text[i] = "=" -> "####" [] OTHER -> text[i]]
\* ... and GetInternalState puts it back.
Unescape(text) ==
    [i \in DOMAIN text |->
       CASE text[i] = "...." -> "," [] text[i] = "####" -> "=" [] OTHER -> text[i]]

\* Insert refuses a value with a comma or an equals sign and changes nothing.
SetInternalState(ts, text) ==
    LET value == Escape(text)
    IN  IF ToSet(value) \cap {",", "="} # {} THEN ts
        ELSE Insert(ts, [key |-> xtraceOptRespKey, text |-> value])

GetInternalState(ts) ==
    IF Has(ts, xtraceOptRespKey) THEN Unescape(Member(ts, xtraceOptRespKey).text) ELSE << >>

\* A plausible slip: the sampled bit of traceparent, which any service rewrites.
SwStateOfParent(p, ts) ==
    IF p = NoParent \/ ~ Has(ts, SwKey) THEN "none"
    ELSE IF p.sampled THEN "sampled" ELSE "unsampled"

\* w3cfmt.GetSwTraceState of the remote parent.
GetSwTraceState(p, ts) ==
    IF p = NoParent \/ ~ Has(ts, SwKey) THEN "none"
    ELSE IF Member(ts, SwKey).sampled THEN "sampled" ELSE "unsampled"

-----------------------------------------------------------------------------
(* A service of this library.                                              *)

\* The response text of hydrateTraceState.
ResponseText(sig, rsp) ==
    LET trigger == <<"trigger-trace", "=", rsp>>
    IN  CASE sig = "None"    -> trigger
          [] sig = "Valid"   -> <<"auth", "=", "ok", ";">> \o trigger
          [] sig = "Invalid" -> <<"auth", "=", "refused">>

\* A plausible slip: a service starts the trace state anew.
hydrateFresh(p, ts, h, sig, rsp) ==
    IF h.present THEN SetInternalState(<< >>, ResponseText(sig, rsp)) ELSE << >>

hydrateTraceState(p, ts, h, sig, rsp) ==
    LET base == IF p = NoParent THEN << >> ELSE ts
    IN  IF h.present THEN SetInternalState(base, ResponseText(sig, rsp)) ELSE base

\* Extract and ShouldSample with settings s; ok says whether the bucket has a token
\* if one is asked for.  The new span context has the trace state of the result and
\* is sampled only if the result is RecordAndSample.
Receive(s, dice, ok) ==
    LET sig   == SignatureState(opts, s)
        tt    == getTtMode(opts.triggerTrace, sig)
        sw    == GetSwTraceState(parent, tracestate)
        wants == s # NoPolicy /\ WantsTrace(s, mergeURLSetting(s, "none"), tt, sw, dice)
        asks  == wants /\ RateLimits(sw)
        ret   == wants /\ (asks => ok)
        d     == IF s = NoPolicy THEN NoSettingsDecision
                 ELSE SampleDecision(s, "none", tt, sw, ret)
    IN  /\ stage = "wire" /\ hops < MaxHops
        /\ stage' = "started"
        /\ hops' = hops + 1
        /\ span' = [id |-> hops', sampled |-> SamplingResult(d) = "RecordAndSample",
                    tracestate |-> hydrateTraceState(parent, tracestate, opts, sig, d.rsp)]
        /\ policy' = s
        /\ took' = (asks /\ ret)
        /\ arrived' = tracestate
        /\ UNCHANGED <<parent, tracestate, opts, response, upstream>>

\* NewBaseHandler answers before it calls the application's handler.
Respond ==
    /\ stage = "started"
    /\ stage' = "serving"
    /\ response' = GetInternalState(span.tracestate)
    /\ UNCHANGED <<hops, parent, tracestate, opts, span, upstream, policy, took, arrived>>

\* The application starts a span below the current one: a local parent decides,
\* and the trace state is handed down.
StartChild ==
    /\ stage = "serving" /\ span.id = hops
    /\ span' = [span EXCEPT !.id = @ + MaxHops]
    /\ UNCHANGED <<stage, hops, parent, tracestate, opts, response, upstream, policy, took, arrived>>

\* SolarwindsPropagator.Inject, after TraceContext has written the span's trace
\* state to the carrier: set sw, then remove the response.
Inject(ts, id, sampled) ==
    Without(Insert(ts, SwMember(id, sampled)), xtraceOptRespKey)

\* The application calls the next service, inside the span.
Send(h) ==
    /\ stage = "serving"
    /\ stage' = "wire"
    /\ parent' = [span |-> span.id, sampled |-> span.sampled]
    /\ tracestate' = Inject(span.tracestate, span.id, span.sampled)
    /\ opts' = h
    /\ response' = << >>
    /\ upstream' = IF span.sampled THEN "sampled" ELSE "unsampled"
    /\ UNCHANGED <<hops, span, policy, took, arrived>>

\* It calls the next service outside any span.  TraceContext writes nothing, and
\* Inject returns at once if the carrier has no trace state either.
SendWithoutSpan(h) ==
    /\ stage = "serving"
    /\ stage' = "wire"
    /\ parent' = NoParent /\ tracestate' = << >> /\ upstream' = "none"
    /\ opts' = h
    /\ response' = << >>
    /\ UNCHANGED <<hops, span, policy, took, arrived>>

\* The same, for an application that copies the request's headers to its own:
\* Inject puts the zero span's sw, not sampled, into the trace state it finds.
SendCopied ==
    /\ stage = "serving" /\ tracestate # << >>
    /\ stage' = "wire"
    /\ tracestate' = Inject(tracestate, 0, FALSE)
    /\ upstream' = "unsampled"
    /\ response' = << >>
    /\ UNCHANGED <<hops, parent, opts, span, policy, took, arrived>>

-----------------------------------------------------------------------------
(* Other services.                                                         *)

Forwarded ==
    /\ stage = "wire" /\ hops < MaxHops
    /\ hops' = hops + 1
    /\ opts' \in {opts, NoHeaders}
    /\ UNCHANGED <<stage, span, response, policy, took, arrived>>

\* A W3C service: its own span, its own sampled bit, its own member or none,
\* which may push the sw member off the end.
ForwardOther(v, sampled) ==
    /\ Forwarded
    /\ parent' = [span |-> hops', sampled |-> sampled]
    /\ tracestate' \in {tracestate, Insert(tracestate, Other(v))}
    /\ upstream' = IF ~ Has(tracestate', SwKey) THEN "none" ELSE upstream

\* A proxy that keeps traceparent and loses tracestate, or loses both.
ForwardDropping ==
    /\ Forwarded
    /\ parent' \in {parent, NoParent}
    /\ tracestate' = << >> /\ upstream' = "none"

Init ==
    /\ stage = "wire" /\ hops = 0
    /\ parent = NoParent /\ tracestate = << >> /\ opts \in OptionHeaders
    /\ span = [id |-> 0, sampled |-> FALSE, tracestate |-> << >>]
    /\ response = << >> /\ upstream = "none" /\ policy = NoPolicy /\ took = FALSE
    /\ arrived = << >>

\* The trace is over and a client sends another request.
NewTrace ==
    /\ stage = "serving" \/ (stage = "wire" /\ hops = MaxHops)
    /\ stage' = "wire" /\ hops' = 0
    /\ parent' = NoParent /\ tracestate' = << >> /\ opts' \in OptionHeaders
    /\ span' = [id |-> 0, sampled |-> FALSE, tracestate |-> << >>]
    /\ response' = << >> /\ upstream' = "none" /\ policy' = NoPolicy /\ took' = FALSE
    /\ arrived' = << >>

Next ==
    \/ \E s \in Policies \cup {NoPolicy}, dice \in Dice, ok \in BOOLEAN : Receive(s, dice, ok)
    \/ Respond
    \/ StartChild
    \/ \E h \in OptionHeaders : Send(h)
    \/ \E h \in OptionHeaders : SendWithoutSpan(h)
    \/ SendCopied
    \/ \E v \in Vendors, sampled \in BOOLEAN : ForwardOther(v, sampled)
    \/ ForwardDropping
    \/ NewTrace

Spec == Init /\ [][Next]_vars

-----------------------------------------------------------------------------

MemberOK(m) ==
    /\ m.key \in Vendors \cup {SwKey, xtraceOptRespKey}
    /\ m.key = SwKey => m.span \in 0..(2 * MaxHops) /\ m.sampled \in BOOLEAN
TraceStateOK(ts) ==
    /\ Len(ts) =< MaxMembers
    /\ \A i \in 1..Len(ts) : MemberOK(ts[i])
    /\ \A i, j \in 1..Len(ts) : ts[i].key = ts[j].key => i = j

\* A trace is continued the way the library's last service upstream decided,
\* whatever the services between them put into traceparent: not sampled there,
\* not sampled here; sampled there and SAMPLE_THROUGH_ALWAYS here, sampled here.
\* Neither takes a token.
DecisionFollowsUpstream ==
    (stage # "wire" /\ upstream # "none") =>
        /\ ~ took
        /\ upstream = "unsampled" => ~ span.sampled
        /\ (/\ upstream = "sampled"
            /\ policy # NoPolicy /\ "SAMPLE_THROUGH_ALWAYS" \in policy.flags) => span.sampled

\* The response header reaches the client that asked, in the words it was built
\* with, and nobody else: a service answers exactly when its own request has
\* options, and says trigger-trace=ok exactly when it took a trigger-trace token.
ResponseIsOwn ==
    stage = "serving" =>
        /\ (response # << >>) <=> opts.present
        /\ IsSuffix(<<"trigger-trace", "=", "ok">>, response) <=> (took /\ opts.triggerTrace)

\* Other vendors' members pass through a service in their order: behind its own
\* sw member goes what has arrived, less an older sw.  If the list is full, the
\* right-most go, no more than two of them: one for the sw member and one for the
\* response that travels with the span.
VendorsSurvive ==
    (stage # "wire" /\ parent # NoParent) =>
        \E k \in 0..Len(arrived) :
            /\ k >= Len(arrived) - 2
            /\ Len(arrived) =< MaxMembers - 2 => k = Len(arrived)
            /\ Tail(Inject(span.tracestate, span.id, span.sampled))
                 = Without(SubSeq(arrived, 1, k), SwKey)
=============================================================================
