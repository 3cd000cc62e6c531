----------------------------- MODULE EntrySpans -----------------------------
(***************************************************************************)
(* Entry spans and transaction names: the manager of                       *)
(* internal/entryspans/entryspans.go, the span processor that feeds it     *)
(* (internal/processor/processor.go), the names it hands out               *)
(* (internal/txn/txn.go, RecordSpan in internal/metrics/otel.go) and       *)
(* SetTransactionName of swo/agent_api.go.                                 *)
(*                                                                         *)
(* The manager's methods run under one mutex; starting and ending a span,  *)
(* reading the name out of an entry and setting attributes do not.  How a  *)
(* name is derived is the subject of module TransactionNames; here it only *)
(* matters when: from what the span says of itself at its start and again  *)
(* at its end, and the application may change that in between (a router    *)
(* that sets http.route, SetName).                                         *)
(***************************************************************************)
EXTENDS Integers, Sequences, SequencesExt

CONSTANTS
    Spans,      \* entry spans: spans with no parent or a remote one
    Traces,     \* trace ids
    TraceOf,    \* the trace of each span
    Callers,    \* goroutines that call SetTransactionName
    Names,      \* names they set
    MaxSets     \* bound on the number of such calls

ASSUME TraceOfAssumption == TraceOf \in [Spans -> Traces]
ASSUME MaxSetsAssumption == MaxSets \in Nat
\* swo.SetTransactionName refuses a blank name.
ASSUME NamesAssumption == "" \notin Names

VARIABLES
    pc,         \* span -> where its OnStart, its life and its OnEnd have got to
    es,         \* span -> the entry its current() call returned, or None
    spans,      \* stdManager.spans: trace id -> list of entries, by span id
    txnName,    \* entry -> its field txnName, NoName when empty
    changed,    \* span -> the application has changed what its name is derived from
    attr,       \* span -> its transaction name attribute
    metric,     \* span -> the name its response-time metric was recorded under
    lock,       \* the caller inside setTransactionName, or None
    call,       \* caller -> the entry and the name it is setting
    sets,       \* number of calls so far, against MaxSets
    late        \* history: spans whose entry was written after they ended

vars == <<pc, es, spans, txnName, changed, attr, metric, lock, call, sets, late>>
spanVars == <<pc, es, changed, attr, metric>>
callVars == <<lock, call, sets, late>>

None == "none"

ASSUME NoneAssumption == None \notin Spans \cup Callers

\* A name with where it is from: nothing, a torn read, the span it was derived
\* for, or the trace it was set on.
NoName == [from |-> "nothing", name |-> ""]
Torn == [from |-> "torn", name |-> ""]
Derived(s, c) == [from |-> s, name |-> IF c THEN "derived later" ELSE "derived"]
Named(t, n) == [from |-> t, name |-> n]

Init ==
    /\ pc = [s \in Spans |-> "new"]
    /\ es = [s \in Spans |-> None]
    /\ spans = << >>
    /\ txnName = [s \in Spans |-> NoName]
    /\ changed = [s \in Spans |-> FALSE]
    /\ attr = [s \in Spans |-> NoName]
    /\ metric = [s \in Spans |-> NoName]
    /\ lock = None
    /\ call = [c \in Callers |-> [entry |-> None, name |-> NoName]]
    /\ sets = 0
    /\ late = {}

-----------------------------------------------------------------------------

\* A plausible slip: one stack for all traces.
CurrentOfAny(t) ==
    IF DOMAIN spans = {} THEN None ELSE Last(spans[CHOOSE u \in DOMAIN spans : TRUE])

\* currentUnsafe: the last entry of the trace's list.
Current(t) == IF t \in DOMAIN spans THEN Last(spans[t]) ELSE None

Writing(e) == \E c \in Callers : lock = c /\ call[c].entry = e

\* GetTransactionName reads txnName after current() has released the mutex.  A
\* read while setTransactionName writes the field is a data race: it may see the
\* old string, the new one, or the pointer of one with the length of the other.
NamesRead(e) ==
    {txnName[e]} \cup (IF Writing(e) THEN {call[lock].name, Torn} ELSE {})

\* txn.GetTransactionName: the custom name if there is one, else a derived one.
TransactionNames(s) ==
    IF es[s] = None THEN {Derived(s, changed[s])}
    ELSE {IF n = NoName THEN Derived(s, changed[s]) ELSE n : n \in NamesRead(es[s])}

\* OnStart looks the trace's current entry up ...
StartLookup(s) ==
    /\ pc[s] = "new" /\ lock = None
    /\ es' = [es EXCEPT ![s] = Current(TraceOf[s])]
    /\ pc' = [pc EXCEPT ![s] = "naming"]
    /\ UNCHANGED <<spans, txnName, changed, attr, metric, callVars>>

\* ... sets the default name ...
StartName(s) ==
    /\ pc[s] = "naming"
    /\ \E n \in TransactionNames(s) : attr' = [attr EXCEPT ![s] = n]
    /\ pc' = [pc EXCEPT ![s] = "named"]
    /\ UNCHANGED <<es, spans, txnName, changed, metric, callVars>>

\* ... and pushes the span; from here on the application has it.
Push(s) ==
    /\ pc[s] = "named" /\ lock = None
    /\ LET t    == TraceOf[s]
           list == IF t \in DOMAIN spans THEN spans[t] ELSE << >>
       IN  spans' = [u \in DOMAIN spans \cup {t} |-> IF u = t THEN Append(list, s) ELSE spans[u]]
    /\ pc' = [pc EXCEPT ![s] = "open"]
    /\ UNCHANGED <<es, txnName, changed, attr, metric, callVars>>

\* The application sets http.route, url.path or the span's name.
Change(s) ==
    /\ pc[s] = "open"
    /\ ~ changed[s]
    /\ changed' = [changed EXCEPT ![s] = TRUE]
    /\ UNCHANGED <<pc, es, spans, txnName, attr, metric, callVars>>

\* span.End: from now on SetAttributes does nothing.
End(s) ==
    /\ pc[s] = "open"
    /\ pc' = [pc EXCEPT ![s] = "ended"]
    /\ UNCHANGED <<es, spans, txnName, changed, attr, metric, callVars>>

\* OnEnd, RecordSpan: the trace's current entry is looked up ...
EndLookup(s) ==
    /\ pc[s] = "ended" /\ lock = None
    /\ es' = [es EXCEPT ![s] = Current(TraceOf[s])]
    /\ pc' = [pc EXCEPT ![s] = "recording"]
    /\ UNCHANGED <<spans, txnName, changed, attr, metric, callVars>>

\* A plausible slip: the name is derived again, the custom one forgotten.
RecordDerived(s) ==
    /\ pc[s] = "recording"
    /\ metric' = [metric EXCEPT ![s] = Derived(s, changed[s])]
    /\ pc' = [pc EXCEPT ![s] = "recorded"]
    /\ UNCHANGED <<es, spans, txnName, changed, attr, callVars>>

\* ... and the metric is recorded under its name.
Record(s) ==
    /\ pc[s] = "recording"
    /\ \E n \in TransactionNames(s) : metric' = [metric EXCEPT ![s] = n]
    /\ pc' = [pc EXCEPT ![s] = "recorded"]
    /\ UNCHANGED <<es, spans, txnName, changed, attr, callVars>>

\* A plausible slip: an empty list is left in the map.
DeleteKeepsKey(s) ==
    /\ pc[s] = "recorded" /\ lock = None
    /\ spans' = [spans EXCEPT ![TraceOf[s]] = SelectSeq(@, LAMBDA e : e # s)]
    /\ pc' = [pc EXCEPT ![s] = "closed"]
    /\ UNCHANGED <<es, txnName, changed, attr, metric, callVars>>

\* delete: the first entry of the span is taken out of its list, an empty list out
\* of the map.
Delete(s) ==
    /\ pc[s] = "recorded" /\ lock = None
    /\ LET t    == TraceOf[s]
           list == RemoveFirst(spans[t], s)
       IN  spans' = IF list = << >> THEN [u \in DOMAIN spans \ {t} |-> spans[u]]
                    ELSE [spans EXCEPT ![t] = list]
    /\ pc' = [pc EXCEPT ![s] = "closed"]
    /\ UNCHANGED <<es, txnName, changed, attr, metric, callVars>>

-----------------------------------------------------------------------------

\* setTransactionName takes the mutex, finds the trace's current entry and sets
\* the attribute on its span, without effect if that span has ended.  A trace
\* with no entry is an error and changes nothing.
SetAttribute(c, t, n) ==
    LET e == Current(t)
    IN  /\ lock = None /\ sets < MaxSets
        /\ e # None
        /\ lock' = c
        /\ call' = [call EXCEPT ![c] = [entry |-> e, name |-> Named(t, n)]]
        /\ sets' = sets + 1
        /\ attr' = [attr EXCEPT ![e] = IF pc[e] = "open" THEN Named(t, n) ELSE @]
        /\ UNCHANGED <<pc, es, spans, txnName, changed, metric, late>>

\* It writes the entry, releases the mutex and returns nil.
SetTxnName(c) ==
    LET e == call[c].entry
    IN  /\ lock = c
        /\ txnName' = [txnName EXCEPT ![e] = call[c].name]
        /\ late' = IF pc[e] = "open" THEN late ELSE late \cup {e}
        /\ lock' = None
        /\ UNCHANGED <<spanVars, spans, call, sets>>

SpanStep(s) ==
    \/ StartLookup(s) \/ StartName(s) \/ Push(s) \/ Change(s)
    \/ End(s) \/ EndLookup(s) \/ Record(s) \/ Delete(s)

CallerStep(c) == (\E t \in Traces, n \in Names : SetAttribute(c, t, n)) \/ SetTxnName(c)

\* All spans have ended and no call is under way: the only state in which there is
\* nothing to do, so that deadlock checking shows that nobody waits for ever on
\* the mutex.
Terminated ==
    /\ \A s \in Spans : pc[s] = "closed"
    /\ lock = None
    /\ UNCHANGED vars

Next ==
    \/ \E s \in Spans : SpanStep(s)
    \/ \E c \in Callers : CallerStep(c)
    \/ Terminated

Spec == Init /\ [][Next]_vars

-----------------------------------------------------------------------------

Pushed(s) == pc[s] \in {"open", "ended", "recording", "recorded"}

\* No entry leaks and none is lost: the map has a list for exactly the traces
\* with an open entry span, and each list holds exactly those spans, once, in
\* whatever order they were started and ended.  So Delete always finds its span.
ListsMatchOpenSpans ==
    /\ DOMAIN spans = {TraceOf[s] : s \in {u \in Spans : Pushed(u)}}
    /\ \A t \in DOMAIN spans :
         /\ ToSet(spans[t]) = {s \in Spans : Pushed(s) /\ TraceOf[s] = t}
         /\ IsInjective(spans[t])

\* Names stay within their trace: what a span is exported or counted under was
\* set on its own trace or derived from the span itself.
NamesStayInTrace ==
    \A s \in Spans : \A v \in {attr[s], metric[s]} :
        v \in {NoName, Torn, Derived(s, FALSE), Derived(s, TRUE)} \cup {Named(TraceOf[s], n) : n \in Names}

Alone(s) == \A u \in Spans : TraceOf[u] = TraceOf[s] => u = s

\* The metric and the exported span agree on the transaction, for the only entry
\* span of its trace, unless SetTransactionName ran into its end, or the span was
\* given no name and the application changed what the name is derived from: then
\* the span keeps the name derived at its start and the metric has the later one.
NamesAgree ==
    \A s \in Spans : (pc[s] = "closed" /\ Alone(s) /\ s \notin late) =>
        IF changed[s] /\ txnName[s] = NoName
        THEN attr[s] = Derived(s, FALSE) /\ metric[s] = Derived(s, TRUE)
        ELSE metric[s] = attr[s]

=============================================================================
