----------------------------- MODULE RateCounts -----------------------------
(***************************************************************************)
(* The request counters: internal/metrics/rate_counts.go, incremented one  *)
(* by one by tokenBucket.count (internal/oboe/token_bucket.go) in every    *)
(* request goroutine, and swapped to zero one by one by the metrics        *)
(* reader's callback (FlushRateCounts in internal/oboe/oboe.go).           *)
(*                                                                         *)
(* Neither side holds a lock: each increment and each swap is atomic, the  *)
(* sequences of them are not.                                              *)
(***************************************************************************)
EXTENDS Integers, Sequences

CONSTANTS
    Requests,    \* request goroutines
    MaxCalls     \* bound on the number of calls of count

ASSUME MaxCallsAssumption == MaxCalls \in Nat

VARIABLES
    counts,        \* rateCountsAggregator
    todo,          \* request goroutine -> the call it is in and its increments to come
    calls,         \* number of calls started, against MaxCalls
    flush,         \* FlushRateCounts: 0 idle, 1 .. 6 the next swap, 7 all swapped
    report,        \* the RateCounts value being built
    reported,      \* history: sum of all reports handed to the metrics SDK
    hasSettings,   \* oboe.settings is not nil
    outcomes       \* history: number of completed calls of each kind

vars == <<counts, todo, calls, flush, report, reported, hasSettings, outcomes>>

Fields == {"requested", "sampled", "limited", "traced", "through", "ttraced"}

\* The order of the swaps in FlushRateCounts.
SwapOrder == <<"requested", "sampled", "limited", "traced", "through", "ttraced">>

\* A call of count, by what it is for and how it ends.  The arguments follow from
\* it as SampleRequest passes them: hasMetadata for a continued trace,
\* isTriggerTrace on the trigger path, rateLimit for all but continued traces.
Calls == [kind : {"new", "trigger", "continued"}, ends : {"unsampled", "limited", "traced"}]
            \ {[kind |-> "continued", ends |-> "limited"]}
NoCall == [kind |-> "none", ends |-> "none"]

Zero == [f \in Fields |-> 0]

\* A plausible slip: a continued trace that is not sampled counts as through.
IncrementsThroughFirst(c) ==
    (IF c.kind = "continued" THEN <<"requested", "through">> ELSE <<"requested", "sampled">>)
    \o (CASE c.ends = "unsampled" -> << >>
          [] c.ends = "limited"   -> <<"limited">>
          [] c.ends = "traced"    -> IF c.kind = "trigger" THEN <<"ttraced", "traced">>
                                     ELSE <<"traced">>)

\* The increments of count, in program order.
Increments(c) ==
    (IF c.kind = "continued" THEN <<"requested">> ELSE <<"requested", "sampled">>)
    \o (CASE c.ends = "unsampled" -> << >>
          [] c.ends = "limited"   -> <<"limited">>
          [] c.ends = "traced"    ->
               (CASE c.kind = "continued" -> <<"through", "traced">>
                  [] c.kind = "trigger"   -> <<"ttraced", "traced">>
                  [] c.kind = "new"       -> <<"traced">>))

Init ==
    /\ counts = Zero
    /\ todo = [r \in Requests |-> [call |-> NoCall, left |-> << >>]]
    /\ calls = 0
    /\ flush = 0
    /\ report = Zero
    /\ reported = Zero
    /\ hasSettings = FALSE
    /\ outcomes = [c \in Calls |-> 0]

-----------------------------------------------------------------------------

InCall(r) == todo[r].call # NoCall

\* SampleRequest reaches count only when it has loaded settings.
StartCall(r, c) ==
    /\ ~ InCall(r)
    /\ hasSettings
    /\ calls < MaxCalls
    /\ calls' = calls + 1
    /\ todo' = [todo EXCEPT ![r] = [call |-> c, left |-> Increments(c)]]
    /\ UNCHANGED <<counts, flush, report, reported, hasSettings, outcomes>>

\* atomic.AddInt64 on the next counter of the call.
Increment(r) ==
    /\ todo[r].left # << >>
    /\ counts' = [counts EXCEPT ![Head(todo[r].left)] = @ + 1]
    /\ todo' = [todo EXCEPT ![r].left = Tail(@)]
    /\ UNCHANGED <<calls, flush, report, reported, hasSettings, outcomes>>

EndCall(r) ==
    /\ InCall(r)
    /\ todo[r].left = << >>
    /\ outcomes' = [outcomes EXCEPT ![todo[r].call] = @ + 1]
    /\ todo' = [todo EXCEPT ![r].call = NoCall]
    /\ UNCHANGED <<counts, calls, flush, report, reported, hasSettings>>

\* A plausible slip: nothing to report when no request came since the last flush.
\* What a straddling call counts after its request was swapped then stays behind.
StartFlushIfRequested ==
    /\ flush = 0
    /\ hasSettings
    /\ counts["requested"] > 0
    /\ flush' = 1
    /\ UNCHANGED <<counts, todo, calls, report, reported, hasSettings, outcomes>>

\* The reader's callback.  One reader collects at a time; without settings
\* FlushRateCounts returns nil and the counters are left as they are.
StartFlush ==
    /\ flush = 0
    /\ hasSettings
    /\ flush' = 1
    /\ UNCHANGED <<counts, todo, calls, report, reported, hasSettings, outcomes>>

\* A plausible slip: each value is loaded in one step and zeroed in the next.
SwapLate ==
    /\ flush \in 1 .. Len(SwapOrder)
    /\ report' = [report EXCEPT ![SwapOrder[flush]] = counts[SwapOrder[flush]]]
    /\ counts' = IF flush = 1 THEN counts ELSE [counts EXCEPT ![SwapOrder[flush - 1]] = 0]
    /\ flush' = flush + 1
    /\ UNCHANGED <<todo, calls, reported, hasSettings, outcomes>>

\* atomic.SwapInt64 of the next counter.
Swap ==
    /\ flush \in 1 .. Len(SwapOrder)
    /\ LET f == SwapOrder[flush]
       IN  /\ report' = [report EXCEPT ![f] = counts[f]]
           /\ counts' = [counts EXCEPT ![f] = 0]
    /\ flush' = flush + 1
    /\ UNCHANGED <<todo, calls, reported, hasSettings, outcomes>>

\* The callback observes the six gauges from the finished summary.
Observe ==
    /\ flush = Len(SwapOrder) + 1
    /\ reported' = [f \in Fields |-> reported[f] + report[f]]
    /\ report' = Zero
    /\ flush' = 0
    /\ UNCHANGED <<counts, todo, calls, hasSettings, outcomes>>

\* The updater stores settings, the TTL check clears them.
SettingsChange ==
    /\ hasSettings' = ~ hasSettings
    /\ UNCHANGED <<counts, todo, calls, flush, report, reported, outcomes>>

RequestStep(r) == (\E c \in Calls : StartCall(r, c)) \/ Increment(r) \/ EndCall(r)

Next ==
    \/ \E r \in Requests : RequestStep(r)
    \/ StartFlush \/ Swap \/ Observe
    \/ SettingsChange

Spec == Init /\ [][Next]_vars

\* Requests make progress, the reader collects again and again, and settings that
\* went away come back (SettingsReturn of module SettingsUpdater).
FairSpec ==
    /\ Spec
    /\ \A r \in Requests : WF_vars(Increment(r) \/ EndCall(r))
    /\ SF_vars(StartFlush) /\ WF_vars(Swap) /\ WF_vars(Observe)
    /\ WF_vars(SettingsChange)

-----------------------------------------------------------------------------

\* Counters are natural numbers and the flush is at one of its steps.
TypeOK ==
    /\ counts \in [Fields -> Nat] /\ report \in [Fields -> Nat] /\ reported \in [Fields -> Nat]
    /\ todo \in [Requests -> [call : Calls \cup {NoCall}, left : Seq(Fields)]]
    /\ calls \in 0 .. MaxCalls
    /\ flush \in 0 .. Len(SwapOrder) + 1
    /\ hasSettings \in BOOLEAN
    /\ outcomes \in [Calls -> Nat]

\* What was ever counted in a field, wherever it is now.
Total(f) == counts[f] + report[f] + reported[f]

\* A flush loses and repeats nothing, however its swaps interleave with the
\* increments: no step changes a field's total but by counting one more.
NothingLost == [][\A f \in Fields : Total(f)' \in {Total(f), Total(f) + 1}]_vars

\* Number of completed calls of a kind that ended so; of those that asked for a
\* new trace.
Completed(kind, ends) == outcomes[[kind |-> kind, ends |-> ends]]
Asked(ends) == Completed("new", ends) + Completed("trigger", ends)

\* What the collector takes the six totals for: requests, new requests, those out
\* of tokens, traced, continued and trigger traces.
Due(f) ==
    CASE f = "requested" -> Asked("unsampled") + Asked("limited") + Asked("traced")
                              + Completed("continued", "unsampled") + Completed("continued", "traced")
      [] f = "sampled"   -> Asked("unsampled") + Asked("limited") + Asked("traced")
      [] f = "limited"   -> Asked("limited")
      [] f = "traced"    -> Asked("traced") + Completed("continued", "traced")
      [] f = "through"   -> Completed("continued", "traced")
      [] f = "ttraced"   -> Completed("trigger", "traced")

\* When no call is under way, the totals are what the collector takes them for,
\* however the six increments and the six swaps have interleaved.
Ledger == (\A r \in Requests : ~ InCall(r)) => \A f \in Fields : Total(f) = Due(f)

\* Once no more requests come, everything counted has reached a report in the
\* end, expiries of the settings notwithstanding.
AllReported == <>[](\A f \in Fields : reported[f] = Total(f))
=============================================================================
