----------------------------- MODULE SpanProofs ------------------------------
(***************************************************************************)
(* Proofs about the spans of requests: the entry span manager, for any     *)
(* spans, traces, callers and names, and the handler in AWS Lambda, for    *)
(* any number of wrapping goroutines and of overlapping invocations.  Last *)
(* the watcher of Lambda's settings file, for any number of watchers.      *)
(***************************************************************************)
EXTENDS EntrySpans, Lambda, FileWatcher, TLAPS, SequenceTheorems, FiniteSetTheorems

-----------------------------------------------------------------------------
(* Lambda: the agent is started once.                                      *)

Creating == {"watcher", "metricExporter", "meter", "rates", "traceExporter", "registry", "sampler",
             "resource", "provider"}

StartTypes ==
    /\ once \in {"new", "running", "done"}
    /\ wrap \in [Wrappers -> {"new", "starting", "returned"}]
    /\ step \in {"idle", "ok", "failed"} \cup Creating
    /\ watchers \in Nat /\ flusher \in BOOLEAN

\* Whoever entered the Once is alone in StartLambda, nobody has returned before it
\* is done, and the tracer provider is global exactly from the last step on.
Starting ==
    /\ once = "new" => (\A w \in Wrappers : wrap[w] = "new") /\ watchers = 0 /\ ~ provider
    /\ once = "running" => /\ \A w \in Wrappers : wrap[w] # "returned"
                           /\ \A v, w \in Wrappers : wrap[v] = "starting" /\ wrap[w] = "starting" => v = w
                           /\ step # "idle" /\ (provider <=> step = "ok")
    /\ once = "done" => /\ \A w \in Wrappers : wrap[w] # "starting"
                        /\ tracer # "nil" /\ (flusher <=> tracer = "sdk")
    /\ step # "idle" => once = "running"
    /\ step = "watcher" => watchers = 0
    /\ watchers =< 1

StartInv == StartTypes /\ Starting

\* Nothing is started initially.
LEMMA StartInvInit == LambdaInit => StartInv
  <1> SUFFICES ASSUME LambdaInit PROVE StartInv
    OBVIOUS
  <1>1. StartTypes
    BY DEF LambdaInit, StartTypes
  <1>2. Starting
    BY DEF LambdaInit, Starting
  <1> QED BY <1>1, <1>2 DEF StartInv

\* The invariant of the start is inductive.
LEMMA StartInvNext == StartInv /\ [LambdaNext]_lambdaVars => StartInv'
  <1> SUFFICES ASSUME StartInv, [LambdaNext]_lambdaVars PROVE StartInv'
    OBVIOUS
  <1> USE DEF StartInv, StartTypes, Starting, Creating
  <1>1. ASSUME NEW w \in Wrappers, EnterOnce(w) PROVE StartInv'
    BY <1>1 DEF EnterOnce, calls
  <1>2. ASSUME NEW w \in Wrappers, LeaveOnce(w) PROVE StartInv'
    <2>1. once = "running"
      BY <1>2 DEF LeaveOnce
    <2>2. StartTypes'
      BY <1>2 DEF LeaveOnce, calls
    <2>3. Starting'
      BY <1>2, <2>1 DEF LeaveOnce, calls
    <2> QED BY <2>2, <2>3
  <1>3. ASSUME NEW w \in Wrappers, SkipOnce(w) PROVE StartInv'
    BY <1>3 DEF SkipOnce, calls, agent
  <1>4. CASE StartWatcher
    BY <1>4 DEF StartWatcher, StepTo, calls
  <1>5. CASE CreateOK
    BY <1>5 DEF CreateOK, StepTo, calls
  <1>6. CASE CreateFails
    BY <1>6 DEF CreateFails, StepTo, calls
  <1>7. CASE SetMeterProvider
    BY <1>7 DEF SetMeterProvider, StepTo, calls
  <1>8. CASE SetTracerProvider
    BY <1>8 DEF SetTracerProvider, StepTo, calls
  <1>9. CASE UNCHANGED <<once, wrap, agent, tracer, flusher>>
    BY <1>9 DEF agent
  <1>10. ASSUME NEW i \in Invocations, NEW o \in {"ok", "error", "panic"},
                \/ InvokeBegins(i) \/ InvokeBody(i, o) \/ SpanEnd(i)
                \/ FlushTaken(i) \/ FlushTimesOut(i) \/ NoFlush(i)
         PROVE  UNCHANGED <<once, wrap, agent, tracer, flusher>>
    BY <1>10 DEF InvokeBegins, InvokeBody, SpanEnd, FlushTaken, FlushTimesOut, NoFlush, GoesOn
  <1>11. CASE ReaderTicks \/ Exports \/ ExportFails
    BY <1>11 DEF ReaderTicks, Exports, ExportFails, ReaderDone, agent
  <1>12. CASE UNCHANGED lambdaVars
    BY <1>12 DEF lambdaVars, agent
  <1> HIDE DEF StartInv, StartTypes, Starting
  <1> QED BY <1>1, <1>2, <1>3, <1>4, <1>5, <1>6, <1>7, <1>8, <1>9, <1>10, <1>11, <1>12 DEF LambdaNext

\* The agent is started once and whole or not at all, for any number of goroutines
\* that wrap handlers and wherever StartLambda fails.
THEOREM StartedOnce == LambdaSpec => []StartedOnceAndWhole
  <1>1. StartInv => StartedOnceAndWhole
    BY DEF StartInv, StartTypes, Starting, StartedOnceAndWhole
  <1> QED BY <1>1, StartInvInit, StartInvNext, PTL DEF LambdaSpec

-----------------------------------------------------------------------------
(* Lambda: an invocation leaves nothing behind.                            *)

Places == {"new", "body", "end", "flush", "flushing", "returned", "panicked"}
InvRecords == [at : Places, cold : BOOLEAN, span : {"none", "nil", "noop", "sdk", "ended"},
               status : {"unset", "error"}, outcome : {"none", "ok", "error", "panic"},
               flush : {"none", "ok", "failed"}]

CallTypes ==
    /\ inv \in [Invocations -> InvRecords]
    /\ warmStart \in BOOLEAN
    /\ tracer \in {"nil", "noop", "sdk"}

\* The reader has collected nothing and serves nobody unless it is busy, and it
\* serves one invocation at most.
ReaderTypes ==
    /\ reader = [busy |-> reader.busy, asked |-> reader.asked, batch |-> reader.batch]
    /\ reader.asked \in {Nobody} \cup {{j} : j \in Invocations}
    /\ ~ reader.busy => reader = Waiting

\* The metrics of i have left the process, and not in an export that the flush of
\* i has asked for and that failed.
Gone(i) ==
    \/ i \in exported
    \/ \E asked \in {Nobody} \cup {{j} : j \in Invocations \ {i}} : LostBy(i, asked)

\* Where the metrics of i are while its flush waits for its turn, while it is served
\* and when it has succeeded; and a flush that is being served, or whose export has
\* lost something, waits for its answer or has failed.
Flushed(i) ==
    /\ (inv[i].at = "flush" /\ flusher) =>
         i \in pending \/ (i \in reader.batch /\ i \notin reader.asked) \/ Gone(i)
    /\ inv[i].at = "flushing" => i \in reader.asked /\ (i \in reader.batch \/ Gone(i))
    /\ inv[i].flush = "ok" => Gone(i)
    /\ i \in reader.asked => inv[i].at = "flushing" \/ inv[i].flush = "failed"
    /\ \A j \in Invocations : LostBy(j, {i}) => inv[i].flush = "failed"

\* An invocation: it only begins when the agent has been started, with a span of
\* the tracer of that moment, which stays the tracer; so its response time is
\* recorded when its span ends, if there is a flusher.
Invocation(i) ==
    /\ inv[i].at # "new" => once = "done"
    /\ inv[i].at \in {"new", "body"} => inv[i].status = "unset"
    /\ ~ Over(i) => inv[i].flush = "none"
    /\ inv[i].at \in {"body", "end"} => inv[i].span = tracer
    /\ inv[i].at \in {"end", "flush", "flushing", "returned", "panicked"} =>
         (inv[i].status = "error" <=> inv[i].outcome # "ok")
    /\ inv[i].at \in {"flush", "flushing", "returned", "panicked"} => inv[i].span = "ended"
    /\ Over(i) => (inv[i].at = "panicked" <=> inv[i].outcome = "panic")

CallInv == CallTypes /\ ReaderTypes /\ \A i \in Invocations : Invocation(i) /\ Flushed(i)

\* No invocation has begun initially.
LEMMA CallInvInit == LambdaInit => CallInv
  <1> SUFFICES ASSUME LambdaInit PROVE CallInv
    OBVIOUS
  <1>1. Idle \in InvRecords
    BY DEF Idle, InvRecords, Places
  <1>2. CallTypes
    BY <1>1 DEF LambdaInit, CallTypes
  <1>3. ReaderTypes
    BY DEF LambdaInit, ReaderTypes, Waiting
  <1>4. ASSUME NEW i \in Invocations PROVE Invocation(i) /\ Flushed(i)
    <2>1. Invocation(i)
      BY DEF LambdaInit, Idle, Invocation, Over
    <2>2. Flushed(i)
      BY DEF LambdaInit, Idle, Flushed, Waiting, Nobody, LostBy
    <2> QED BY <2>1, <2>2
  <1> QED BY <1>2, <1>3, <1>4 DEF CallInv

\* A step that changes no invocation, and once the agent is started neither its
\* tracer nor its flusher, leaves every invocation as it is.
LEMMA StartKeepsCalls ==
    ASSUME CallInv, UNCHANGED calls, tracer' \in {"nil", "noop", "sdk"},
           once = "done" => UNCHANGED <<once, tracer, flusher>>
    PROVE  CallInv'
  <1> USE DEF calls, metrics
  <1>1. CallTypes' /\ ReaderTypes'
    BY DEF CallInv, CallTypes, ReaderTypes
  <1>2. ASSUME NEW i \in Invocations PROVE Invocation(i)' /\ Flushed(i)'
    <2>1. CASE inv[i].at = "new"
      BY <2>1 DEF CallInv, Invocation, Flushed, Over, Gone, LostBy
    <2>2. CASE inv[i].at # "new"
      <3>1. UNCHANGED <<once, tracer, flusher>>
        BY <2>2 DEF CallInv, Invocation
      <3> QED BY <2>2, <3>1 DEF CallInv, Invocation, Flushed, Over, Gone, LostBy
    <2> QED BY <2>1, <2>2
  <1> QED BY <1>1, <1>2 DEF CallInv

\* A step of one invocation that at most records metrics leaves the others as they
\* are.
LEMMA OthersUndisturbed ==
    ASSUME CallInv, NEW i \in Invocations, NEW r \in InvRecords, GoesOn(i, r), warmStart' \in BOOLEAN,
           pending \subseteq pending', UNCHANGED <<reader, exported, lost>>,
           Invocation(i)', Flushed(i)'
    PROVE  CallInv'
  <1>1. CallTypes' /\ ReaderTypes'
    BY DEF CallInv, CallTypes, ReaderTypes, GoesOn
  <1>2. ASSUME NEW j \in Invocations, j # i PROVE Invocation(j)' /\ Flushed(j)'
    <2>1. inv'[j] = inv[j] /\ UNCHANGED <<once, tracer, flusher>>
      BY <1>2 DEF GoesOn, CallInv, CallTypes
    <2>2. Invocation(j) /\ Flushed(j)
      BY DEF CallInv
    <2>3. Invocation(j)'
      BY <2>1, <2>2 DEF Invocation, Over
    <2>4. Gone(j)' = Gone(j) /\ \A k \in Invocations : LostBy(k, {j})' = LostBy(k, {j})
      BY DEF Gone, LostBy
    <2>5. Flushed(j)'
      BY <2>1, <2>2, <2>4 DEF Flushed
    <2> QED BY <2>3, <2>5
  <1> QED BY <1>1, <1>2 DEF CallInv

\* Collecting takes what is recorded into the batch; whoever is not served by it
\* finds its metrics there, or gone as before.
LEMMA CollectingKeeps ==
    ASSUME CallInv, NEW asked \in SUBSET Invocations, Collects(asked), NEW j \in Invocations,
           j \notin asked, inv'[j] = inv[j], UNCHANGED <<once, tracer, flusher>>
    PROVE  Invocation(j)' /\ Flushed(j)'
  <1>1. Invocation(j) /\ Flushed(j)
    BY DEF CallInv
  <1>2. Invocation(j)'
    BY <1>1 DEF Invocation, Over
  <1>3. reader.asked = {} /\ reader.batch = {}
    BY DEF Collects, CallInv, ReaderTypes, Waiting, Nobody
  <1>4. reader'.asked = asked /\ reader'.batch = pending
    BY DEF Collects
  <1>5. Gone(j)' = Gone(j) /\ \A k \in Invocations : LostBy(k, {j})' = LostBy(k, {j})
    BY DEF Gone, LostBy, Collects
  <1>6. Flushed(j)'
    BY <1>1, <1>3, <1>4, <1>5 DEF Flushed
  <1> QED BY <1>2, <1>6

\* The answer makes an invocation that waits for it leave, and no other.
LEMMA AnswerFacts ==
    ASSUME CallInv, NEW f \in {"ok", "failed"}, Answer(f), NEW i \in Invocations
    PROVE  /\ inv' \in [Invocations -> InvRecords]
           /\ inv[i].at = "flushing" =>
                /\ Leave(i, f).span = inv[i].span /\ Leave(i, f).status = inv[i].status
                /\ Leave(i, f).outcome = inv[i].outcome /\ Leave(i, f).flush = f
                /\ Leave(i, f).at = IF inv[i].outcome = "panic" THEN "panicked" ELSE "returned"
                /\ inv'[i] = Leave(i, f)
           /\ inv[i].at # "flushing" => inv'[i] = inv[i]
  <1>1. ASSUME NEW j \in Invocations PROVE inv[j] \in InvRecords /\ Leave(j, f) \in InvRecords
    <2>1. inv[j] \in InvRecords
      BY DEF CallInv, CallTypes
    <2> QED BY <2>1 DEF InvRecords, Places, Leave
  <1>2. inv' \in [Invocations -> InvRecords]
    BY <1>1 DEF Answer
  <1>3. inv[i].at = "flushing" => inv'[i] = Leave(i, f)
    BY DEF Answer, CallInv, Flushed
  <1>4. inv[i].at # "flushing" => inv'[i] = inv[i]
    BY DEF Answer
  <1>5. inv[i] \in InvRecords
    BY <1>1
  <1>6. /\ Leave(i, f).span = inv[i].span /\ Leave(i, f).status = inv[i].status
        /\ Leave(i, f).outcome = inv[i].outcome /\ Leave(i, f).flush = f
        /\ Leave(i, f).at = IF inv[i].outcome = "panic" THEN "panicked" ELSE "returned"
    BY <1>5 DEF InvRecords, Leave
  <1> QED BY <1>2, <1>3, <1>4, <1>6

\* The end of an export, good or bad, keeps the invariant: whoever is answered well
\* has its metrics exported with this batch, or they were gone before.
LEMMA ExportKeeps ==
    ASSUME CallInv, NEW f \in {"ok", "failed"}, ReaderDone, Answer(f),
           f = "ok" => exported' = exported \cup reader.batch /\ UNCHANGED lost,
           f = "failed" => lost' = lost \cup (reader.batch \X {reader.asked}) /\ UNCHANGED exported
    PROVE  CallInv'
  <1>1. ASSUME NEW i \in Invocations PROVE Invocation(i)'
    <2>1. Invocation(i) /\ UNCHANGED <<once, tracer, flusher>>
      BY DEF CallInv, ReaderDone
    <2>2. CASE inv[i].at = "flushing"
      <3>1. /\ inv'[i].span = inv[i].span /\ inv'[i].status = inv[i].status
            /\ inv'[i].outcome = inv[i].outcome
            /\ inv'[i].at = IF inv[i].outcome = "panic" THEN "panicked" ELSE "returned"
        BY <2>2, AnswerFacts
      <3> QED BY <2>1, <2>2, <3>1 DEF Invocation, Over
    <2>3. CASE inv[i].at # "flushing"
      <3>1. inv'[i] = inv[i]
        BY <2>3, AnswerFacts
      <3> QED BY <2>1, <3>1 DEF Invocation, Over
    <2> QED BY <2>2, <2>3
  <1>2. reader.asked \in {{}} \cup {{j} : j \in Invocations} /\ reader'.asked = {} /\ reader'.batch = {}
    BY DEF CallInv, ReaderTypes, ReaderDone, Waiting, Nobody
  <1>3. exported \subseteq exported' /\ lost \subseteq lost'
    OBVIOUS
  <1>4. ASSUME NEW i \in Invocations PROVE Gone(i) => Gone(i)'
    BY <1>3 DEF Gone, LostBy
  <1>5. ASSUME NEW i \in Invocations, i \in reader.batch, i \notin reader.asked \/ f = "ok" PROVE Gone(i)'
    <2>1. CASE f = "ok"
      BY <1>5, <2>1 DEF Gone
    <2>2. CASE f = "failed" /\ i \notin reader.asked
      <3>1. reader.asked \in {{}} \cup {{j} : j \in Invocations \ {i}}
        BY <1>2, <2>2
      <3>2. <<i, reader.asked>> \in lost'
        BY <1>5, <2>2
      <3> QED BY <3>1, <3>2 DEF Gone, LostBy, Nobody
    <2> QED BY <1>5, <2>1, <2>2
  <1>6. ASSUME NEW i \in Invocations, i \in reader.asked PROVE f = "failed" => inv'[i].flush = "failed"
    <2>1. inv[i].at = "flushing" \/ inv[i].flush = "failed"
      BY <1>6 DEF CallInv, Flushed
    <2>2. inv[i].at = "flushing" => inv'[i].flush = f
      BY AnswerFacts
    <2>3. inv[i].at # "flushing" => inv'[i] = inv[i]
      BY AnswerFacts
    <2> QED BY <2>1, <2>2, <2>3
  <1>7. ASSUME NEW i \in Invocations, NEW j \in Invocations, LostBy(j, {i})'
        PROVE  inv'[i].flush = "failed"
    <2>1. CASE LostBy(j, {i})
      <3>1. inv[i].flush = "failed"
        BY <2>1 DEF CallInv, Flushed
      <3>2. inv[i].at # "flushing" => inv'[i] = inv[i]
        BY AnswerFacts
      <3>3. inv[i].at # "flushing"
        BY <3>1 DEF CallInv, CallTypes, Invocation, Over
      <3> QED BY <3>1, <3>2, <3>3
    <2>2. CASE ~ LostBy(j, {i})
      <3>1. f = "failed" /\ reader.asked = {i}
        BY <1>7, <2>2 DEF LostBy
      <3> QED BY <3>1, <1>6
    <2> QED BY <2>1, <2>2
  <1>8. ASSUME NEW i \in Invocations PROVE Flushed(i)'
    <2>1. Flushed(i) /\ UNCHANGED <<flusher, pending>>
      BY DEF CallInv, ReaderDone
    <2>2. \A j \in Invocations : LostBy(j, {i})' => inv'[i].flush = "failed"
      BY <1>7
    <2>3. CASE inv[i].at = "flushing"
      <3>1. inv'[i].at \in {"panicked", "returned"} /\ inv'[i].flush = f
        BY <2>3, AnswerFacts
      <3>2. f = "ok" => Gone(i)'
        BY <2>1, <2>3, <1>4, <1>5 DEF Flushed
      <3> QED BY <3>1, <3>2, <2>2, <1>2 DEF Flushed
    <2>4. CASE inv[i].at # "flushing"
      <3>1. inv'[i] = inv[i]
        BY <2>4, AnswerFacts
      <3>2. (inv[i].at = "flush" /\ flusher) => i \in pending \/ Gone(i)'
        BY <2>1, <1>4, <1>5 DEF Flushed
      <3>3. inv[i].flush = "ok" => Gone(i)'
        BY <2>1, <1>4 DEF Flushed
      <3> QED BY <3>1, <3>2, <3>3, <2>1, <2>2, <2>4, <1>2 DEF Flushed
    <2> QED BY <2>3, <2>4
  <1>9. CallTypes'
    <2>1. inv' \in [Invocations -> InvRecords]
      <3>1. CASE Invocations = {}
        BY <3>1 DEF Answer
      <3>2. ASSUME NEW i \in Invocations PROVE inv' \in [Invocations -> InvRecords]
        BY AnswerFacts
      <3> QED BY <3>1, <3>2
    <2> QED BY <2>1 DEF CallInv, CallTypes, ReaderDone
  <1>10. ReaderTypes'
    BY DEF ReaderDone, ReaderTypes, Waiting, Nobody
  <1> QED BY <1>1, <1>8, <1>9, <1>10 DEF CallInv

\* The invariant of the invocations is inductive.
LEMMA CallInvNext == StartInv /\ CallInv /\ [LambdaNext]_lambdaVars => CallInv'
  <1> SUFFICES ASSUME StartInv, CallInv, [LambdaNext]_lambdaVars PROVE CallInv'
    OBVIOUS
  <1>1. ASSUME NEW w \in Wrappers, EnterOnce(w) \/ LeaveOnce(w) \/ SkipOnce(w) PROVE CallInv'
    <2>1. once = "done" => UNCHANGED <<once, tracer, flusher>>
      BY <1>1 DEF EnterOnce, LeaveOnce, SkipOnce, StartInv, Starting
    <2>2. tracer' \in {"nil", "noop", "sdk"}
      BY <1>1 DEF EnterOnce, LeaveOnce, SkipOnce, CallInv, CallTypes
    <2>3. UNCHANGED calls
      BY <1>1 DEF EnterOnce, LeaveOnce, SkipOnce
    <2> QED BY <2>1, <2>2, <2>3, StartKeepsCalls
  <1>2. CASE StartWatcher \/ CreateOK \/ CreateFails \/ SetMeterProvider \/ SetTracerProvider
    <2>1. UNCHANGED <<once, tracer, flusher, calls>>
      BY <1>2 DEF StartWatcher, CreateOK, CreateFails, SetMeterProvider, SetTracerProvider, StepTo
    <2> QED BY <2>1, StartKeepsCalls DEF CallInv, CallTypes
  <1>3. ASSUME NEW i \in Invocations, InvokeBegins(i) PROVE CallInv'
    <2> DEFINE r == [inv[i] EXCEPT !.at = "body", !.cold = ~ warmStart, !.span = tracer]
    <2>1. inv[i] \in InvRecords /\ tracer \in {"nil", "noop", "sdk"} /\ warmStart \in BOOLEAN
      BY DEF CallInv, CallTypes
    <2>2. r \in InvRecords
      BY <2>1 DEF InvRecords, Places
    <2>3. once = "done"
      BY <1>3 DEF InvokeBegins, StartInv, StartTypes, Starting
    <2>4. inv'[i] = r /\ UNCHANGED <<once, tracer, flusher, metrics>>
      BY <1>3 DEF InvokeBegins, GoesOn, CallInv, CallTypes
    <2>5. r.at = "body" /\ r.span = tracer /\ r.status = inv[i].status /\ r.flush = inv[i].flush
      BY <2>1 DEF InvRecords
    <2>6. Invocation(i)'
      BY <1>3, <2>3, <2>4, <2>5 DEF Invocation, InvokeBegins, Over, CallInv
    <2>7. Flushed(i)'
      BY <1>3, <2>4, <2>5 DEF Flushed, InvokeBegins, CallInv, metrics, LostBy, Gone
    <2> QED BY <1>3, <2>2, <2>6, <2>7, OthersUndisturbed DEF InvokeBegins, metrics
  <1>4. ASSUME NEW i \in Invocations, NEW o \in {"ok", "error", "panic"}, InvokeBody(i, o) PROVE CallInv'
    <2> DEFINE r == [inv[i] EXCEPT !.at = "end", !.outcome = o,
                                   !.status = IF o = "ok" THEN @ ELSE "error"]
    <2>1. inv[i] \in InvRecords /\ inv[i].at = "body"
      BY <1>4 DEF CallInv, CallTypes, InvokeBody
    <2>2. r \in InvRecords
      BY <2>1 DEF InvRecords, Places
    <2>3. inv'[i] = r /\ UNCHANGED <<once, tracer, flusher, metrics, warmStart>>
      BY <1>4 DEF InvokeBody, GoesOn, CallInv, CallTypes
    <2>4. /\ r.at = "end" /\ r.outcome = o /\ r.span = inv[i].span /\ r.flush = inv[i].flush
          /\ r.status = IF o = "ok" THEN inv[i].status ELSE "error"
      BY <2>1 DEF InvRecords
    <2>5. Invocation(i)'
      BY <2>1, <2>3, <2>4 DEF Invocation, Over, CallInv
    <2>6. Flushed(i)'
      BY <2>1, <2>3, <2>4 DEF Flushed, CallInv, metrics, LostBy, Gone
    <2> QED BY <1>4, <2>2, <2>3, <2>5, <2>6, OthersUndisturbed DEF InvokeBody, CallInv, CallTypes, metrics
  <1>5. ASSUME NEW i \in Invocations, SpanEnd(i) PROVE CallInv'
    <2> DEFINE r == [inv[i] EXCEPT !.at = "flush", !.span = "ended"]
    <2>1. inv[i] \in InvRecords /\ inv[i].at = "end"
      BY <1>5 DEF CallInv, CallTypes, SpanEnd
    <2>2. r \in InvRecords
      BY <2>1 DEF InvRecords, Places
    <2>3. inv'[i] = r /\ UNCHANGED <<once, tracer, flusher, warmStart, reader, exported, lost>>
      BY <1>5 DEF SpanEnd, GoesOn, CallInv, CallTypes
    <2>4. /\ r.at = "flush" /\ r.span = "ended" /\ r.outcome = inv[i].outcome
          /\ r.status = inv[i].status /\ r.flush = inv[i].flush
      BY <2>1 DEF InvRecords
    <2>5. flusher => i \in pending'
      <3>1. once = "done" /\ inv[i].span = tracer
        BY <2>1 DEF CallInv, Invocation
      <3> QED BY <1>5, <3>1 DEF SpanEnd, StartInv, Starting
    <2>6. Invocation(i)'
      BY <2>1, <2>3, <2>4 DEF Invocation, Over, CallInv
    <2>7. Flushed(i)'
      BY <2>1, <2>3, <2>4, <2>5 DEF Flushed, CallInv, LostBy, Gone
    <2>8. pending \subseteq pending'
      BY <1>5 DEF SpanEnd
    <2> QED BY <1>5, <2>2, <2>3, <2>6, <2>7, <2>8, OthersUndisturbed DEF SpanEnd, CallInv, CallTypes
  <1>6. ASSUME NEW i \in Invocations, FlushTimesOut(i) \/ NoFlush(i) PROVE CallInv'
    <2>1. PICK f \in {"failed", "none"} :
            GoesOn(i, Leave(i, f)) /\ UNCHANGED <<warmStart, metrics>> /\ (f = "none" => ~ flusher)
      BY <1>6 DEF FlushTimesOut, NoFlush
    <2> DEFINE r == Leave(i, f)
    <2>2. inv[i] \in InvRecords /\ inv[i].at \in {"flush", "flushing"}
      BY <1>6 DEF CallInv, CallTypes, FlushTimesOut, NoFlush
    <2>3. r \in InvRecords
      BY <2>2 DEF InvRecords, Places, Leave
    <2>4. inv'[i] = r /\ UNCHANGED <<once, tracer, flusher, metrics>>
      BY <2>1 DEF GoesOn, CallInv, CallTypes
    <2>5. /\ r.at = IF inv[i].outcome = "panic" THEN "panicked" ELSE "returned"
          /\ r.span = inv[i].span /\ r.outcome = inv[i].outcome /\ r.status = inv[i].status /\ r.flush = f
      BY <2>2 DEF InvRecords, Leave
    <2> HIDE DEF r
    <2>6. Invocation(i)'
      BY <2>2, <2>4, <2>5 DEF Invocation, Over, CallInv
    <2>7. i \notin reader.asked \/ f = "failed"
      BY <1>6, <2>2, <2>1 DEF CallInv, Flushed, Invocation, Over, FlushTimesOut, NoFlush
    <2>8. \A j \in Invocations : LostBy(j, {i})' => f = "failed"
      BY <2>1, <2>2 DEF CallInv, Flushed, Invocation, Over, metrics, LostBy
    <2>9. Flushed(i)'
      BY <2>1, <2>2, <2>4, <2>5, <2>7, <2>8 DEF Flushed, metrics
    <2> QED BY <2>1, <2>3, <2>6, <2>9, OthersUndisturbed DEF CallInv, CallTypes, metrics, r
  <1>7. ASSUME NEW i \in Invocations, FlushTaken(i) PROVE CallInv'
    <2> DEFINE r == [inv[i] EXCEPT !.at = "flushing"]
    <2>1. inv[i] \in InvRecords /\ inv[i].at = "flush" /\ Collects({i}) /\ flusher
      BY <1>7 DEF CallInv, CallTypes, FlushTaken
    <2>2. r \in InvRecords
      BY <2>1 DEF InvRecords, Places
    <2>3. inv' = [inv EXCEPT ![i] = r] /\ UNCHANGED <<once, tracer, flusher>>
      BY <1>7 DEF FlushTaken, GoesOn
    <2>4. inv'[i] = r /\ \A j \in Invocations \ {i} : inv'[j] = inv[j]
      BY <2>3 DEF CallInv, CallTypes
    <2>5. /\ r.at = "flushing" /\ r.span = inv[i].span /\ r.outcome = inv[i].outcome
          /\ r.status = inv[i].status /\ r.flush = inv[i].flush
      BY <2>1 DEF InvRecords
    <2>6. CallTypes' /\ ReaderTypes'
      <3>1. CallTypes'
        BY <2>1, <2>2, <2>3 DEF CallInv, CallTypes, Collects
      <3>2. ReaderTypes'
        BY <2>1 DEF ReaderTypes, Collects
      <3> QED BY <3>1, <3>2
    <2> HIDE DEF r
    <2>7. Invocation(i)'
      BY <2>1, <2>3, <2>4, <2>5 DEF Invocation, Over, CallInv
    <2>8. i \in pending \/ Gone(i)
      BY <2>1 DEF CallInv, Flushed, Collects, ReaderTypes, Waiting
    <2>9. /\ reader'.asked = {i} /\ reader'.batch = pending /\ Gone(i)' = Gone(i)
          /\ \A j \in Invocations : LostBy(j, {i})' = LostBy(j, {i})
      BY <2>1 DEF Collects, Gone, LostBy
    <2>10. Flushed(i)'
      BY <2>1, <2>4, <2>5, <2>8, <2>9 DEF Flushed, CallInv
    <2>11. ASSUME NEW j \in Invocations, j # i PROVE Invocation(j)' /\ Flushed(j)'
      BY <2>1, <2>3, <2>4, <2>11, CollectingKeeps
    <2> QED BY <2>6, <2>7, <2>10, <2>11 DEF CallInv
  <1>8. CASE ReaderTicks
    <2>1. Collects({}) /\ UNCHANGED <<once, tracer, flusher, inv>>
      BY <1>8 DEF ReaderTicks, Nobody
    <2>2. CallTypes' /\ ReaderTypes'
      BY <2>1 DEF CallInv, CallTypes, ReaderTypes, Collects, Nobody
    <2>3. ASSUME NEW j \in Invocations PROVE Invocation(j)' /\ Flushed(j)'
      BY <2>1, CollectingKeeps
    <2> QED BY <2>2, <2>3 DEF CallInv
  <1>9. CASE Exports
    BY <1>9, ExportKeeps DEF Exports
  <1>10. CASE ExportFails
    BY <1>10, ExportKeeps DEF ExportFails
  <1>11. CASE UNCHANGED lambdaVars
    BY <1>11, StartKeepsCalls DEF lambdaVars, CallInv, CallTypes
  <1> QED BY <1>1, <1>2, <1>3, <1>4, <1>5, <1>6, <1>7, <1>8, <1>9, <1>10, <1>11 DEF LambdaNext

\* When an invocation is over, its span has ended with the right status and a panic
\* came out as a panic; a flush that succeeded leaves no metrics of its invocation
\* in the process, and every loss that a flush has caused is reported by that flush,
\* whatever the reader's ticker, timeouts and other invocations' flushes do.
THEOREM InvocationsComplete == LambdaSpec => []NothingLeftBehind
  <1>1. CallInv => NothingLeftBehind
    BY DEF CallInv, Invocation, Flushed, Gone, NothingLeftBehind, Over
  <1> QED BY <1>1, StartInvInit, StartInvNext, CallInvInit, CallInvNext, PTL DEF LambdaSpec

-----------------------------------------------------------------------------
(* Entry spans: the lists of the manager.                                  *)

Pcs == {"new", "naming", "named", "open", "ended", "recording", "recorded", "closed"}

\* Each list is non-empty and holds pushed spans of its own trace, each once.
Lists ==
    \A t \in DOMAIN spans :
        /\ spans[t] \in Seq(Spans) /\ spans[t] # << >>
        /\ IsInjective(spans[t])
        /\ \A i \in 1..Len(spans[t]) : Pushed(spans[t][i]) /\ TraceOf[spans[t][i]] = t

\* Every pushed span is in the list of its trace.
Listed ==
    \A s \in Spans : Pushed(s) =>
        TraceOf[s] \in DOMAIN spans /\ \E i \in 1..Len(spans[TraceOf[s]]) : spans[TraceOf[s]][i] = s

ListInv == pc \in [Spans -> Pcs] /\ Lists /\ Listed

\* Taking an entry that is in a list once out of it.
LEMMA RemoveOnce ==
    ASSUME NEW S, NEW list \in Seq(S), IsInjective(list), NEW i \in 1..Len(list)
    PROVE  /\ RemoveFirst(list, list[i]) \in Seq(S)
           /\ Len(RemoveFirst(list, list[i])) = Len(list) - 1
           /\ \A j \in 1..(Len(list) - 1) :
                RemoveFirst(list, list[i])[j] = IF j < i THEN list[j] ELSE list[j + 1]
  <1>1. {j \in 1..Len(list) : list[j] = list[i]} = {i}
    BY DEF IsInjective
  <1>2. Min({i}) = i
    BY DEF Min
  <1>3. SelectInSeq(list, LAMBDA v : v = list[i]) = i
    BY <1>1, <1>2 DEF SelectInSeq
  <1> DEFINE a == SubSeq(list, 1, i - 1)
             b == SubSeq(list, i + 1, Len(list))
             r == RemoveFirst(list, list[i])
  <1>4. r = a \o b
    BY <1>3 DEF RemoveFirst, RemoveAt
  <1>5. a \in Seq(S) /\ Len(a) = i - 1 /\ \A j \in 1..(i - 1) : a[j] = list[j]
    <2>1. \A j \in 1..(i - 1) : list[j] \in S
      BY ElementOfSeq
    <2> QED BY <2>1, SubSeqProperties
  <1>6. b \in Seq(S) /\ Len(b) = Len(list) - i /\ \A j \in 1..(Len(list) - i) : b[j] = list[i + j]
    <2>1. \A j \in (i + 1)..Len(list) : list[j] \in S
      BY ElementOfSeq
    <2> QED BY <2>1, SubSeqProperties
  <1> HIDE DEF a, b, r
  <1>7. /\ r \in Seq(S) /\ Len(r) = Len(a) + Len(b)
        /\ \A j \in 1..(Len(a) + Len(b)) : r[j] = IF j =< Len(a) THEN a[j] ELSE b[j - Len(a)]
    BY <1>4, <1>5, <1>6, ConcatProperties
  <1>8. Len(a) = i - 1 /\ Len(b) = Len(list) - i /\ Len(list) \in Nat
    BY <1>5, <1>6, LenProperties
  <1>9. ASSUME NEW j \in 1..(Len(list) - 1) PROVE r[j] = IF j < i THEN list[j] ELSE list[j + 1]
    <2>1. CASE j < i
      <3>1. r[j] = a[j] /\ j \in 1..(i - 1)
        BY <1>7, <1>8, <2>1
      <3> QED BY <1>5, <2>1, <3>1
    <2>2. CASE ~ (j < i)
      <3>1. r[j] = b[j - (i - 1)] /\ j - (i - 1) \in 1..(Len(list) - i)
        BY <1>7, <1>8, <2>2
      <3>2. b[j - (i - 1)] = list[i + (j - (i - 1))] /\ i + (j - (i - 1)) = j + 1
        BY <1>6, <3>1
      <3> QED BY <2>2, <3>1, <3>2
    <2> QED BY <2>1, <2>2
  <1>10. r \in Seq(S) /\ Len(r) = Len(list) - 1
    BY <1>7, <1>8
  <1> QED BY <1>9, <1>10 DEF r

\* No list exists initially.
LEMMA ListInvInit == Init => ListInv
  BY DEF Init, ListInv, Lists, Listed, Pcs, Pushed

\* A step that neither changes the lists nor pushes or closes a span.
LEMMA ListsKept ==
    ASSUME ListInv, UNCHANGED spans, pc' \in [Spans -> Pcs],
           \A s \in Spans : Pushed(s)' <=> Pushed(s)
    PROVE  ListInv'
  <1>1. \A t \in DOMAIN spans : \A i \in 1..Len(spans[t]) : spans[t][i] \in Spans
    BY ElementOfSeq DEF ListInv, Lists
  <1>2. Lists'
    BY <1>1 DEF ListInv, Lists
  <1>3. Listed'
    BY DEF ListInv, Listed
  <1> QED BY <1>2, <1>3 DEF ListInv

\* Pushing a span puts it at the end of its trace's list.
LEMMA PushKeepsLists ==
    ASSUME ListInv, NEW s \in Spans, Push(s)
    PROVE  ListInv'
  <1> DEFINE t == TraceOf[s]
             list == IF t \in DOMAIN spans THEN spans[t] ELSE << >>
             In(u) == pc'[u] \in {"open", "ended", "recording", "recorded"}
  <1>1. pc[s] = "named" /\ pc' = [pc EXCEPT ![s] = "open"] /\ pc \in [Spans -> Pcs]
    BY DEF Push, ListInv
  <1>2. /\ pc' \in [Spans -> Pcs] /\ ~ Pushed(s) /\ In(s)
        /\ \A u \in Spans : u # s => (In(u) <=> Pushed(u))
    BY <1>1 DEF Pcs, Pushed
  <1>3. /\ list \in Seq(Spans) /\ IsInjective(list)
        /\ \A i \in 1..Len(list) : list[i] \in Spans /\ Pushed(list[i]) /\ TraceOf[list[i]] = t
    BY ElementOfSeq, EmptySeq DEF ListInv, Lists, IsInjective
  <1>4. /\ DOMAIN spans' = DOMAIN spans \cup {t} /\ spans'[t] = Append(list, s)
        /\ \A u \in DOMAIN spans : u # t => spans'[u] = spans[u]
    BY DEF Push
  <1> HIDE DEF list, In
  <1>5. /\ Append(list, s) \in Seq(Spans) /\ Append(list, s) # << >>
        /\ Len(Append(list, s)) = Len(list) + 1
        /\ \A i \in 1..Len(list) : Append(list, s)[i] = list[i]
        /\ Append(list, s)[Len(list) + 1] = s
    BY <1>3, AppendProperties
  <1>6. /\ IsInjective(Append(list, s))
        /\ \A i \in 1..(Len(list) + 1) : In(Append(list, s)[i]) /\ TraceOf[Append(list, s)[i]] = t
    <2>1. DOMAIN Append(list, s) = 1..(Len(list) + 1) /\ DOMAIN list = 1..Len(list) /\ Len(list) \in Nat
      BY <1>3, <1>5, LenProperties
    <2>2. \A i \in 1..(Len(list) + 1) : i \in 1..Len(list) \/ i = Len(list) + 1
      BY <2>1
    <2>3. \A i \in 1..Len(list) : list[i] # s
      BY <1>2, <1>3
    <2>4. IsInjective(Append(list, s))
      BY <1>3, <1>5, <2>1, <2>2, <2>3 DEF IsInjective
    <2>5. ASSUME NEW i \in 1..(Len(list) + 1)
          PROVE  In(Append(list, s)[i]) /\ TraceOf[Append(list, s)[i]] = t
      <3>1. CASE i = Len(list) + 1
        BY <1>2, <1>5, <3>1
      <3>2. CASE i \in 1..Len(list)
        BY <1>2, <1>3, <1>5, <3>2
      <3> QED BY <2>2, <3>1, <3>2
    <2> QED BY <2>4, <2>5
  <1>7. Lists'
    <2>1. ASSUME NEW u \in DOMAIN spans', u # t
          PROVE  /\ spans'[u] \in Seq(Spans) /\ spans'[u] # << >> /\ IsInjective(spans'[u])
                 /\ \A i \in 1..Len(spans'[u]) : In(spans'[u][i]) /\ TraceOf[spans'[u][i]] = u
      <3>1. u \in DOMAIN spans /\ spans'[u] = spans[u]
        BY <1>4, <2>1
      <3>2. \A i \in 1..Len(spans[u]) : spans[u][i] \in Spans
        BY <3>1, ElementOfSeq DEF ListInv, Lists
      <3> QED BY <1>2, <3>1, <3>2 DEF ListInv, Lists
    <2>2. /\ spans'[t] \in Seq(Spans) /\ spans'[t] # << >> /\ IsInjective(spans'[t])
          /\ \A i \in 1..Len(spans'[t]) : In(spans'[t][i]) /\ TraceOf[spans'[t][i]] = t
      BY <1>4, <1>5, <1>6
    <2> QED BY <2>1, <2>2 DEF Lists, Pushed, In
  <1>8. Listed'
    <2> SUFFICES ASSUME NEW u \in Spans, In(u)
                 PROVE  TraceOf[u] \in DOMAIN spans' /\ \E i \in 1..Len(spans'[TraceOf[u]]) : spans'[TraceOf[u]][i] = u
      BY DEF Listed, Pushed, In
    <2>1. CASE u = s
      BY <1>3, <1>4, <1>5, <2>1, LenProperties
    <2>2. CASE u # s
      <3>1. TraceOf[u] \in DOMAIN spans /\ \E i \in 1..Len(spans[TraceOf[u]]) : spans[TraceOf[u]][i] = u
        BY <1>2, <2>2 DEF ListInv, Listed
      <3>2. CASE TraceOf[u] # t
        BY <1>4, <3>1, <3>2
      <3>3. CASE TraceOf[u] = t
        <4>1. list = spans[t]
          BY <3>1, <3>3 DEF list
        <4>2. PICK i \in 1..Len(list) : list[i] = u
          BY <3>1, <3>3, <4>1
        <4>3. i \in 1..(Len(list) + 1) /\ Append(list, s)[i] = u
          BY <1>3, <1>5, <4>2, LenProperties
        <4> QED BY <1>4, <1>5, <3>3, <4>3
      <3> QED BY <3>2, <3>3
    <2> QED BY <2>1, <2>2
  <1> QED BY <1>2, <1>7, <1>8 DEF ListInv

\* Deleting a span takes it out of its trace's list, and the list out of the map if
\* it was the only one.
LEMMA DeleteKeepsLists ==
    ASSUME ListInv, NEW s \in Spans, Delete(s)
    PROVE  ListInv'
  <1> DEFINE t == TraceOf[s]
             old == spans[t]
             list == RemoveFirst(old, s)
             In(u) == pc'[u] \in {"open", "ended", "recording", "recorded"}
  <1>1. pc[s] = "recorded" /\ pc' = [pc EXCEPT ![s] = "closed"] /\ pc \in [Spans -> Pcs]
    BY DEF Delete, ListInv
  <1>2. /\ pc' \in [Spans -> Pcs] /\ Pushed(s) /\ ~ In(s)
        /\ \A u \in Spans : u # s => (In(u) <=> Pushed(u))
    BY <1>1 DEF Pcs, Pushed
  <1>3. t \in DOMAIN spans /\ \E i \in 1..Len(old) : old[i] = s
    BY <1>2 DEF ListInv, Listed
  <1>4. PICK i \in 1..Len(old) : old[i] = s
    BY <1>3
  <1>5. /\ old \in Seq(Spans) /\ IsInjective(old) /\ Len(old) \in Nat /\ DOMAIN old = 1..Len(old)
        /\ \A j \in 1..Len(old) : old[j] \in Spans /\ Pushed(old[j]) /\ TraceOf[old[j]] = t
    <2>1. /\ old \in Seq(Spans) /\ IsInjective(old)
          /\ \A j \in 1..Len(old) : Pushed(old[j]) /\ TraceOf[old[j]] = t
      BY <1>3 DEF ListInv, Lists
    <2> HIDE DEF old, t
    <2>2. Len(old) \in Nat /\ DOMAIN old = 1..Len(old)
      BY <2>1, LenProperties
    <2>3. \A j \in 1..Len(old) : old[j] \in Spans
      BY <2>1, ElementOfSeq
    <2> QED BY <2>1, <2>2, <2>3
  <1>6. spans' = IF list = << >> THEN [u \in DOMAIN spans \ {t} |-> spans[u]]
                 ELSE [spans EXCEPT ![t] = list]
    BY Zenon DEF Delete
  <1> HIDE DEF old, In
  <1>7. /\ list \in Seq(Spans) /\ Len(list) = Len(old) - 1
        /\ \A j \in 1..(Len(old) - 1) : list[j] = IF j < i THEN old[j] ELSE old[j + 1]
    BY <1>4, <1>5, RemoveOnce, Zenon
  <1> HIDE DEF list
  <1>8. DOMAIN list = 1..(Len(old) - 1)
    BY <1>7, LenProperties
  <1>9. \A j \in 1..(Len(old) - 1) :
          \E k \in 1..Len(old) : k # i /\ list[j] = old[k] /\ (k = IF j < i THEN j ELSE j + 1)
    BY <1>4, <1>5, <1>7
  <1>10. /\ IsInjective(list)
         /\ \A j \in 1..Len(list) : list[j] \in Spans /\ In(list[j]) /\ TraceOf[list[j]] = t
    <2>1. ASSUME NEW j \in 1..Len(list)
          PROVE  list[j] \in Spans /\ In(list[j]) /\ TraceOf[list[j]] = t
      <3>1. PICK k \in 1..Len(old) : k # i /\ list[j] = old[k]
        BY <1>7, <1>9
      <3>2. old[k] # s
        BY <1>4, <1>5, <3>1 DEF IsInjective
      <3> QED BY <1>2, <1>5, <3>1, <3>2
    <2>2. ASSUME NEW j \in DOMAIN list, NEW m \in DOMAIN list, list[j] = list[m]
          PROVE  j = m
      <3>1. PICK k \in 1..Len(old) : list[j] = old[k] /\ (k = IF j < i THEN j ELSE j + 1)
        BY <1>8, <1>9
      <3>2. PICK l \in 1..Len(old) : list[m] = old[l] /\ (l = IF m < i THEN m ELSE m + 1)
        BY <1>8, <1>9
      <3>3. k = l
        BY <1>5, <2>2, <3>1, <3>2 DEF IsInjective
      <3> QED BY <1>5, <1>8, <3>1, <3>2, <3>3
    <2> QED BY <2>1, <2>2 DEF IsInjective
  <1>11. \A u \in DOMAIN spans : u # t => u \in DOMAIN spans' /\ spans'[u] = spans[u]
    BY <1>6
  <1>12. DOMAIN spans' \subseteq DOMAIN spans /\ (t \in DOMAIN spans' => list # << >> /\ spans'[t] = list)
    BY <1>3, <1>6
  <1>13. Lists'
    <2>1. ASSUME NEW u \in DOMAIN spans', u # t
          PROVE  /\ spans'[u] \in Seq(Spans) /\ spans'[u] # << >> /\ IsInjective(spans'[u])
                 /\ \A j \in 1..Len(spans'[u]) : In(spans'[u][j]) /\ TraceOf[spans'[u][j]] = u
      <3>1. u \in DOMAIN spans /\ spans'[u] = spans[u]
        BY <1>11, <1>12, <2>1
      <3>2. \A j \in 1..Len(spans[u]) : spans[u][j] \in Spans /\ spans[u][j] # s
        BY <2>1, <3>1, ElementOfSeq DEF ListInv, Lists
      <3> QED BY <1>2, <3>1, <3>2 DEF ListInv, Lists
    <2>2. t \in DOMAIN spans' =>
            /\ spans'[t] \in Seq(Spans) /\ spans'[t] # << >> /\ IsInjective(spans'[t])
            /\ \A j \in 1..Len(spans'[t]) : In(spans'[t][j]) /\ TraceOf[spans'[t][j]] = t
      BY <1>7, <1>10, <1>12
    <2> QED BY <2>1, <2>2 DEF Lists, Pushed, In
  <1>14. Listed'
    <2> SUFFICES ASSUME NEW u \in Spans, In(u)
                 PROVE  TraceOf[u] \in DOMAIN spans' /\ \E j \in 1..Len(spans'[TraceOf[u]]) : spans'[TraceOf[u]][j] = u
      BY DEF Listed, Pushed, In
    <2>1. u # s /\ TraceOf[u] \in DOMAIN spans /\ \E j \in 1..Len(spans[TraceOf[u]]) : spans[TraceOf[u]][j] = u
      BY <1>2 DEF ListInv, Listed
    <2>2. CASE TraceOf[u] # t
      BY <1>11, <2>1, <2>2
    <2>3. CASE TraceOf[u] = t
      <3>1. PICK k \in 1..Len(old) : old[k] = u
        BY <2>1, <2>3 DEF old
      <3>2. k # i
        BY <1>4, <2>1, <3>1
      <3>3. PICK j \in 1..(Len(old) - 1) : list[j] = old[k]
        <4>1. CASE k < i
          BY <1>5, <1>7, <4>1
        <4>2. CASE k > i
          <5>1. k - 1 \in 1..(Len(old) - 1) /\ ~ (k - 1 < i) /\ (k - 1) + 1 = k
            BY <1>5, <4>2
          <5> QED BY <1>7, <5>1
        <4> QED BY <1>5, <3>2, <4>1, <4>2
      <3>4. list # << >> /\ spans'[t] = list /\ t \in DOMAIN spans'
        <4>1. list # << >>
          BY <1>7, <1>5, <3>3, EmptySeq
        <4> QED BY <1>3, <1>6, <4>1
      <3> QED BY <1>7, <2>3, <3>1, <3>3, <3>4
    <2> QED BY <2>2, <2>3
  <1> QED BY <1>2, <1>13, <1>14 DEF ListInv

\* The invariant of the lists is inductive.
LEMMA ListInvNext == ListInv /\ [Next]_vars => ListInv'
  <1> SUFFICES ASSUME ListInv, [Next]_vars PROVE ListInv'
    OBVIOUS
  <1>1. ASSUME NEW s \in Spans,
               \/ StartLookup(s) \/ StartName(s) \/ Change(s) \/ End(s) \/ EndLookup(s) \/ Record(s)
        PROVE  ListInv'
    <2>1. pc \in [Spans -> Pcs]
      BY DEF ListInv
    <2>2. UNCHANGED spans /\ pc' \in [Spans -> Pcs]
      BY <1>1, <2>1 DEF StartLookup, StartName, Change, End, EndLookup, Record, Pcs
    <2>3. \A u \in Spans : Pushed(u)' <=> Pushed(u)
      BY <1>1, <2>1 DEF StartLookup, StartName, Change, End, EndLookup, Record, Pushed
    <2> QED BY <2>2, <2>3, ListsKept
  <1>2. ASSUME NEW s \in Spans, Push(s) PROVE ListInv'
    BY <1>2, PushKeepsLists
  <1>3. ASSUME NEW s \in Spans, Delete(s) PROVE ListInv'
    BY <1>3, DeleteKeepsLists
  <1>4. CASE UNCHANGED <<pc, spans>>
    BY <1>4, ListsKept DEF ListInv, Pushed
  <1> QED BY <1>1, <1>2, <1>3, <1>4
          DEF Next, SpanStep, CallerStep, SetAttribute, SetTxnName, Terminated, vars, spanVars

\* ListInv holds in every state of every behaviour.
LEMMA ListInvAlways == Spec => []ListInv
  BY ListInvInit, ListInvNext, PTL DEF Spec

\* No entry leaks and none is lost, for any number of entry spans of any traces that
\* start and end in any order, while names are set.
THEOREM NoEntryLeaks == Spec => []ListsMatchOpenSpans
  <1>1. ASSUME ListInv PROVE ListsMatchOpenSpans
    <2>1. ASSUME NEW t \in DOMAIN spans
          PROVE  /\ DOMAIN spans[t] = 1..Len(spans[t]) /\ Len(spans[t]) \in Nat \ {0}
                 /\ \A i \in 1..Len(spans[t]) : spans[t][i] \in Spans
      <3>1. spans[t] \in Seq(Spans) /\ spans[t] # << >>
        BY <1>1 DEF ListInv, Lists
      <3>2. Len(spans[t]) \in Nat \ {0}
        BY <3>1, EmptySeq
      <3> QED BY <3>1, <3>2, LenProperties, ElementOfSeq
    <2>2. ASSUME NEW t \in DOMAIN spans
          PROVE  ToSet(spans[t]) = {s \in Spans : Pushed(s) /\ TraceOf[s] = t} /\ IsInjective(spans[t])
      <3>1. /\ IsInjective(spans[t])
            /\ \A i \in 1..Len(spans[t]) : Pushed(spans[t][i]) /\ TraceOf[spans[t][i]] = t
            /\ \A s \in Spans : (Pushed(s) /\ TraceOf[s] = t) => \E i \in 1..Len(spans[t]) : spans[t][i] = s
        BY <1>1 DEF ListInv, Lists, Listed
      <3>2. ToSet(spans[t]) = {spans[t][i] : i \in 1..Len(spans[t])}
        BY <2>1 DEF ToSet
      <3> QED BY <2>1, <3>1, <3>2
    <2>3. DOMAIN spans = {TraceOf[s] : s \in {u \in Spans : Pushed(u)}}
      <3>1. ASSUME NEW t \in DOMAIN spans PROVE \E s \in Spans : Pushed(s) /\ TraceOf[s] = t
        <4>1. 1 \in 1..Len(spans[t])
          BY <2>1
        <4> QED BY <1>1, <2>1, <4>1 DEF ListInv, Lists
      <3> QED BY <1>1, <3>1 DEF ListInv, Listed
    <2> QED BY <2>2, <2>3 DEF ListsMatchOpenSpans
  <1> QED BY <1>1, ListInvAlways, PTL

-----------------------------------------------------------------------------
(* Entry spans: names stay in their trace.                                 *)

Own(s) == {Derived(s, FALSE), Derived(s, TRUE)}
Given(t) == {Named(t, n) : n \in Names}

\* A name travels from a call, through the entry, to a span of the same trace.
NameInv ==
    /\ es \in [Spans -> Spans \cup {None}] /\ changed \in [Spans -> BOOLEAN]
    /\ DOMAIN txnName = Spans /\ DOMAIN attr = Spans /\ DOMAIN metric = Spans
    /\ lock \in Callers \cup {None} /\ DOMAIN call = Callers
    /\ \A s \in Spans :
         /\ es[s] # None => TraceOf[es[s]] = TraceOf[s]
         /\ txnName[s] \in Given(TraceOf[s]) \cup {NoName}
         /\ attr[s] \in Own(s) \cup Given(TraceOf[s]) \cup {NoName, Torn}
         /\ metric[s] \in Own(s) \cup Given(TraceOf[s]) \cup {NoName, Torn}
    /\ lock # None => /\ call[lock].entry \in Spans
                      /\ call[lock].name \in Given(TraceOf[call[lock].entry])

\* The current entry of a trace is a pushed span of that trace.
LEMMA CurrentInTrace ==
    ASSUME ListInv, NEW t
    PROVE  Current(t) = None \/ (Current(t) \in Spans /\ Pushed(Current(t)) /\ TraceOf[Current(t)] = t)
  <1>1. CASE t \in DOMAIN spans
    <2>1. spans[t] \in Seq(Spans) /\ Len(spans[t]) \in Nat \ {0}
      BY <1>1, EmptySeq DEF ListInv, Lists
    <2>2. Len(spans[t]) \in 1..Len(spans[t])
      BY <2>1
    <2>3. spans[t][Len(spans[t])] \in Spans
      BY <2>1, <2>2, ElementOfSeq
    <2> QED BY <1>1, <2>2, <2>3 DEF ListInv, Lists, Current, Last
  <1>2. CASE t \notin DOMAIN spans
    BY <1>2 DEF Current
  <1> QED BY <1>1, <1>2

\* What GetTransactionName may return: a name derived from the span, one set on
\* its trace, or a torn one.
LEMMA NamesInTrace ==
    ASSUME NameInv, NEW s \in Spans
    PROVE  TransactionNames(s) \subseteq Own(s) \cup Given(TraceOf[s]) \cup {Torn}
  <1>1. Derived(s, changed[s]) \in Own(s)
    BY DEF NameInv, Own, Derived
  <1>2. CASE es[s] = None
    BY <1>1, <1>2 DEF TransactionNames
  <1>3. CASE es[s] # None
    <2>1. es[s] \in Spans /\ TraceOf[es[s]] = TraceOf[s]
      BY <1>3 DEF NameInv
    <2>2. txnName[es[s]] \in Given(TraceOf[s]) \cup {NoName}
      BY <2>1 DEF NameInv
    <2>3. Writing(es[s]) => call[lock].name \in Given(TraceOf[s])
      BY <2>1, NoneAssumption DEF NameInv, Writing
    <2>4. \A n \in NamesRead(es[s]) : n \in Given(TraceOf[s]) \cup {NoName, Torn}
      BY <2>2, <2>3 DEF NamesRead
    <2> QED BY <1>1, <1>3, <2>4 DEF TransactionNames
  <1> QED BY <1>2, <1>3

\* There are no names initially.
LEMMA NameInvInit == Init => NameInv
  <1> SUFFICES ASSUME Init PROVE NameInv
    OBVIOUS
  <1>1. changed \in [Spans -> BOOLEAN] /\ es \in [Spans -> Spans \cup {None}]
    BY DEF Init
  <1>2. \A s \in Spans : es[s] = None /\ txnName[s] = NoName /\ attr[s] = NoName /\ metric[s] = NoName
    BY DEF Init
  <1>3. DOMAIN txnName = Spans /\ DOMAIN attr = Spans /\ DOMAIN metric = Spans
    BY DEF Init
  <1>4. lock = None /\ DOMAIN call = Callers
    BY DEF Init
  <1> QED BY <1>1, <1>2, <1>3, <1>4 DEF NameInv

\* The invariant of the names is inductive.
LEMMA NameInvNext == ListInv /\ NameInv /\ [Next]_vars => NameInv'
  <1> SUFFICES ASSUME ListInv, NameInv, [Next]_vars PROVE NameInv'
    OBVIOUS
  <1>1. ASSUME NEW s \in Spans, StartLookup(s) \/ EndLookup(s) PROVE NameInv'
    <2>1. /\ es' = [es EXCEPT ![s] = Current(TraceOf[s])]
          /\ UNCHANGED <<spans, txnName, changed, attr, metric, callVars>>
      BY <1>1 DEF StartLookup, EndLookup
    <2>2. Current(TraceOf[s]) = None \/ (Current(TraceOf[s]) \in Spans /\ TraceOf[Current(TraceOf[s])] = TraceOf[s])
      BY CurrentInTrace
    <2>3. /\ es' \in [Spans -> Spans \cup {None}]
          /\ \A u \in Spans : es'[u] # None => TraceOf[es'[u]] = TraceOf[u]
      BY <2>1, <2>2 DEF NameInv
    <2> QED BY <2>1, <2>3 DEF NameInv, callVars
  <1>2. ASSUME NEW s \in Spans, StartName(s) PROVE NameInv'
    <2>1. PICK n \in TransactionNames(s) : attr' = [attr EXCEPT ![s] = n]
      BY <1>2 DEF StartName
    <2>2. /\ DOMAIN attr' = Spans
          /\ \A u \in Spans : attr'[u] \in Own(u) \cup Given(TraceOf[u]) \cup {NoName, Torn}
      BY <2>1, NamesInTrace DEF NameInv
    <2> QED BY <1>2, <2>2 DEF NameInv, StartName, callVars
  <1>3. ASSUME NEW s \in Spans, Record(s) PROVE NameInv'
    <2>1. PICK n \in TransactionNames(s) : metric' = [metric EXCEPT ![s] = n]
      BY <1>3 DEF Record
    <2>2. /\ DOMAIN metric' = Spans
          /\ \A u \in Spans : metric'[u] \in Own(u) \cup Given(TraceOf[u]) \cup {NoName, Torn}
      BY <2>1, NamesInTrace DEF NameInv
    <2> QED BY <1>3, <2>2 DEF NameInv, Record, callVars
  <1>4. ASSUME NEW s \in Spans, Push(s) \/ End(s) \/ Delete(s) PROVE NameInv'
    BY <1>4 DEF Push, End, Delete, NameInv, callVars
  <1>5. ASSUME NEW s \in Spans, Change(s) PROVE NameInv'
    BY <1>5 DEF Change, NameInv, callVars
  <1>6. ASSUME NEW c \in Callers, NEW t \in Traces, NEW n \in Names, SetAttribute(c, t, n) PROVE NameInv'
    <2> DEFINE e == Current(t)
    <2>1. e \in Spans /\ TraceOf[e] = t
      BY <1>6, CurrentInTrace DEF SetAttribute
    <2>2. /\ lock' = c /\ call' = [call EXCEPT ![c] = [entry |-> e, name |-> Named(t, n)]]
          /\ attr' = [attr EXCEPT ![e] = IF pc[e] = "open" THEN Named(t, n) ELSE @]
          /\ UNCHANGED <<es, txnName, changed, metric>>
      BY <1>6 DEF SetAttribute
    <2>3. Named(t, n) \in Given(t)
      BY DEF Given
    <2> HIDE DEF e
    <2>4. /\ DOMAIN attr' = Spans
          /\ \A u \in Spans : attr'[u] \in Own(u) \cup Given(TraceOf[u]) \cup {NoName, Torn}
      BY <2>1, <2>2, <2>3 DEF NameInv
    <2>5. /\ lock' \in Callers \cup {None} /\ DOMAIN call' = Callers
          /\ call'[lock'].entry = e /\ call'[lock'].name = Named(t, n)
      BY <2>2 DEF NameInv
    <2> QED BY <2>1, <2>2, <2>3, <2>4, <2>5 DEF NameInv
  <1>7. ASSUME NEW c \in Callers, SetTxnName(c) PROVE NameInv'
    <2> DEFINE e == call[c].entry
    <2>1. e \in Spans /\ call[c].name \in Given(TraceOf[e])
      BY <1>7, NoneAssumption DEF SetTxnName, NameInv
    <2>2. /\ txnName' = [txnName EXCEPT ![e] = call[c].name] /\ lock' = None
          /\ UNCHANGED <<es, changed, attr, metric, call>>
      BY <1>7 DEF SetTxnName, spanVars
    <2> HIDE DEF e
    <2>3. DOMAIN txnName' = Spans
      BY <2>2 DEF NameInv
    <2>4. \A u \in Spans : txnName'[u] \in Given(TraceOf[u]) \cup {NoName}
      BY <2>1, <2>2 DEF NameInv
    <2> QED BY <2>2, <2>3, <2>4 DEF NameInv
  <1>8. CASE UNCHANGED vars
    BY <1>8 DEF vars, NameInv
  <1> QED BY <1>1, <1>2, <1>3, <1>4, <1>5, <1>6, <1>7, <1>8
          DEF Next, SpanStep, CallerStep, Terminated

\* NameInv holds in every state of every behaviour.
LEMMA NameInvAlways == Spec => []NameInv
  BY ListInvInit, ListInvNext, NameInvInit, NameInvNext, PTL DEF Spec

\* What a span is exported or counted under was set on its own trace or derived
\* from the span itself, for any overlap of spans, traces and calls.
THEOREM NamesDoNotCross == Spec => []NamesStayInTrace
  <1>1. NameInv => NamesStayInTrace
    BY DEF NameInv, NamesStayInTrace, Own, Given
  <1> QED BY <1>1, NameInvAlways, PTL

-----------------------------------------------------------------------------
(* Entry spans: the metric and the exported span agree.                    *)

\* What the entry's name makes of a span.
NameOr(s, c) == IF txnName[s] = NoName THEN Derived(s, c) ELSE txnName[s]

\* The only entry span of its trace, as long as no call has written its entry after
\* its end.  A call under way when it ends, or begun later, makes it late when it
\* is over, and the span is not taken off the list before.
Agreeing(s) ==
    /\ pc[s] \in {"new", "naming", "named"} => txnName[s] = NoName /\ ~ changed[s] /\ ~ Writing(s)
    /\ pc[s] = "naming" => es[s] = None
    /\ pc[s] = "named" => attr[s] = Derived(s, FALSE)
    /\ (pc[s] = "open" /\ Writing(s)) => attr[s] = call[lock].name
    /\ (Pushed(s) \/ pc[s] = "closed") /\ ~ Writing(s) => attr[s] = NameOr(s, FALSE)
    /\ pc[s] = "recording" => es[s] = s
    /\ pc[s] \in {"recorded", "closed"} /\ ~ Writing(s) => metric[s] = NameOr(s, changed[s])
    /\ pc[s] = "closed" => ~ Writing(s)

AgreeInv == \A s \in Spans : Alone(s) /\ s \notin late => Agreeing(s)

\* A span that is alone in its trace is the current entry while it is pushed.
LEMMA AloneCurrent ==
    ASSUME ListInv, NEW s \in Spans, Alone(s)
    PROVE  Current(TraceOf[s]) = IF Pushed(s) THEN s ELSE None
  <1>1. Current(TraceOf[s]) = None \/ (Current(TraceOf[s]) = s /\ Pushed(s))
    BY CurrentInTrace DEF Alone
  <1>2. ASSUME Pushed(s) PROVE Current(TraceOf[s]) # None
    <2>1. TraceOf[s] \in DOMAIN spans
      BY <1>2 DEF ListInv, Listed
    <2>2. spans[TraceOf[s]] \in Seq(Spans) /\ Len(spans[TraceOf[s]]) \in Nat \ {0}
      BY <2>1, EmptySeq DEF ListInv, Lists
    <2>3. Current(TraceOf[s]) \in Spans
      BY <2>1, <2>2, ElementOfSeq DEF Current, Last
    <2> QED BY <2>3, NoneAssumption
  <1> QED BY <1>1, <1>2

\* A step that does not touch the span, its entry or a call on it.
LEMMA AgreeingKept ==
    ASSUME NEW s \in Spans, Agreeing(s),
           pc'[s] = pc[s], es'[s] = es[s], changed'[s] = changed[s], attr'[s] = attr[s],
           metric'[s] = metric[s], txnName'[s] = txnName[s], Writing(s)' <=> Writing(s),
           Writing(s) => call'[lock'] = call[lock]
    PROVE  Agreeing(s)'
  BY DEF Agreeing, NameOr, Pushed

\* No span has begun initially.
LEMMA AgreeInvInit == Init => AgreeInv
  <1> SUFFICES ASSUME Init, NEW s \in Spans PROVE Agreeing(s)
    BY DEF AgreeInv
  <1>1. pc[s] = "new" /\ txnName[s] = NoName /\ changed[s] = FALSE /\ lock = None
    BY DEF Init
  <1>2. ~ Writing(s)
    BY <1>1, NoneAssumption DEF Writing
  <1> QED BY <1>1, <1>2 DEF Agreeing, Pushed

\* The steps of the span itself.
LEMMA OwnStepAgrees ==
    ASSUME ListInv, NameInv, NEW s \in Spans, Alone(s), Agreeing(s), SpanStep(s)
    PROVE  Agreeing(s)'
  <1>1. pc \in [Spans -> Pcs]
    BY DEF ListInv
  <1>2. UNCHANGED <<txnName, lock, call>>
    BY DEF SpanStep, StartLookup, StartName, Push, Change, End, EndLookup, Record, Delete, callVars
  <1>3. Writing(s)' <=> Writing(s)
    BY <1>2 DEF Writing
  <1>4. \A c : NameOr(s, c)' = NameOr(s, c)
    BY <1>2 DEF NameOr
  <1> USE DEF Agreeing, Pushed
  <1>5. CASE StartLookup(s)
    <2>1. pc[s] = "new" /\ pc'[s] = "naming" /\ changed'[s] = changed[s]
      BY <1>1, <1>5 DEF StartLookup
    <2>2. es'[s] = None
      BY <1>5, <2>1, AloneCurrent DEF StartLookup, NameInv
    <2> QED BY <1>2, <1>3, <2>1, <2>2
  <1>6. CASE StartName(s)
    <2>1. pc[s] = "naming" /\ pc'[s] = "named" /\ changed'[s] = changed[s]
      BY <1>1, <1>6 DEF StartName
    <2>2. TransactionNames(s) = {Derived(s, FALSE)}
      BY <2>1 DEF TransactionNames, Derived
    <2>3. attr'[s] = Derived(s, FALSE)
      BY <1>6, <2>2 DEF StartName, NameInv
    <2> QED BY <1>2, <1>3, <2>1, <2>3
  <1>7. CASE Push(s)
    <2>1. pc[s] = "named" /\ pc'[s] = "open" /\ UNCHANGED <<es, changed, attr, metric>>
      BY <1>1, <1>7 DEF Push
    <2>2. NameOr(s, FALSE) = Derived(s, FALSE)
      BY <2>1 DEF NameOr
    <2> QED BY <1>2, <1>3, <1>4, <2>1, <2>2
  <1>8. CASE Change(s)
    <2>1. pc[s] = "open" /\ UNCHANGED <<pc, es, attr, metric>>
      BY <1>8 DEF Change
    <2> QED BY <1>2, <1>3, <1>4, <2>1
  <1>9. CASE End(s)
    <2>1. pc[s] = "open" /\ pc'[s] = "ended" /\ UNCHANGED <<es, changed, attr, metric>>
      BY <1>1, <1>9 DEF End
    <2> QED BY <1>2, <1>3, <1>4, <2>1
  <1>10. CASE EndLookup(s)
    <2>1. pc[s] = "ended" /\ pc'[s] = "recording" /\ UNCHANGED <<changed, attr, metric>>
      BY <1>1, <1>10 DEF EndLookup
    <2>2. es'[s] = s
      BY <1>10, <2>1, AloneCurrent DEF EndLookup, NameInv
    <2> QED BY <1>2, <1>3, <1>4, <2>1, <2>2
  <1>11. CASE Record(s)
    <2>1. pc[s] = "recording" /\ pc'[s] = "recorded" /\ UNCHANGED <<es, changed, attr>> /\ es[s] = s
      BY <1>1, <1>11 DEF Record
    <2>2. ASSUME ~ Writing(s) PROVE metric'[s] = NameOr(s, changed[s])
      <3>1. NamesRead(s) = {txnName[s]}
        BY <2>2 DEF NamesRead
      <3>2. TransactionNames(s) = {NameOr(s, changed[s])}
        BY <2>1, <3>1, NoneAssumption DEF TransactionNames, NameOr
      <3> QED BY <1>11, <3>2 DEF Record, NameInv
    <2>3. NameOr(s, changed[s])' = NameOr(s, changed[s])
      BY <1>2, <2>1 DEF NameOr
    <2> QED BY <1>2, <1>3, <1>4, <2>1, <2>2, <2>3
  <1>12. CASE Delete(s)
    <2>1. pc[s] = "recorded" /\ pc'[s] = "closed" /\ lock = None /\ UNCHANGED <<es, changed, attr, metric>>
      BY <1>1, <1>12 DEF Delete
    <2>2. ~ Writing(s)
      BY <2>1, NoneAssumption DEF Writing
    <2>3. NameOr(s, changed[s])' = NameOr(s, changed[s])
      BY <1>2, <2>1 DEF NameOr
    <2> QED BY <1>2, <1>3, <1>4, <2>1, <2>2, <2>3
  <1> QED BY <1>5, <1>6, <1>7, <1>8, <1>9, <1>10, <1>11, <1>12 DEF SpanStep

\* The steps of other spans do not touch the span.
LEMMA OtherStepAgrees ==
    ASSUME ListInv, NameInv, NEW s \in Spans, Agreeing(s), NEW u \in Spans, u # s, SpanStep(u)
    PROVE  Agreeing(s)'
  <1>1. UNCHANGED <<txnName, lock, call>>
    BY DEF SpanStep, StartLookup, StartName, Push, Change, End, EndLookup, Record, Delete, callVars
  <1>2. Writing(s)' <=> Writing(s)
    BY <1>1 DEF Writing
  <1>3. pc'[s] = pc[s]
    BY DEF ListInv, SpanStep, StartLookup, StartName, Push, Change, End, EndLookup, Record, Delete
  <1>4. es'[s] = es[s] /\ changed'[s] = changed[s]
    BY DEF NameInv, SpanStep, StartLookup, StartName, Push, Change, End, EndLookup, Record, Delete
  <1>5. attr'[s] = attr[s] /\ metric'[s] = metric[s]
    BY DEF NameInv, SpanStep, StartLookup, StartName, Push, Change, End, EndLookup, Record, Delete
  <1> QED BY <1>1, <1>2, <1>3, <1>4, <1>5, AgreeingKept

\* The steps of a call of SetTransactionName.
LEMMA CallAgrees ==
    ASSUME ListInv, NameInv, NEW s \in Spans, Agreeing(s), s \notin late',
           NEW c \in Callers, CallerStep(c)
    PROVE  Agreeing(s)'
  <1>1. ASSUME NEW t \in Traces, NEW n \in Names, SetAttribute(c, t, n) PROVE Agreeing(s)'
    <2> DEFINE e == Current(t)
    <2>1. e \in Spans /\ Pushed(e) /\ lock = None
      BY <1>1, CurrentInTrace DEF SetAttribute
    <2>2. /\ lock' = c /\ call' = [call EXCEPT ![c] = [entry |-> e, name |-> Named(t, n)]]
          /\ attr' = [attr EXCEPT ![e] = IF pc[e] = "open" THEN Named(t, n) ELSE @]
          /\ UNCHANGED <<pc, es, txnName, changed, metric>>
      BY <1>1 DEF SetAttribute
    <2> HIDE DEF e
    <2>3. call'[lock'] = [entry |-> e, name |-> Named(t, n)]
      BY <2>2 DEF NameInv
    <2>4. ~ Writing(s) /\ (Writing(s)' <=> e = s)
      BY <2>1, <2>2, <2>3, NoneAssumption DEF Writing
    <2>5. CASE e # s
      <3>1. attr'[s] = attr[s]
        BY <2>2, <2>5 DEF NameInv
      <3> QED BY <2>2, <2>4, <2>5, <3>1, AgreeingKept
    <2>6. CASE e = s
      <3>1. pc[s] = "open" => attr'[s] = Named(t, n)
        BY <2>2, <2>6 DEF NameInv
      <3>2. call'[lock'].name = Named(t, n) /\ Writing(s)'
        BY <2>3, <2>4, <2>6
      <3>3. pc'[s] = pc[s] /\ es'[s] = es[s] /\ pc[s] \in {"open", "ended", "recording", "recorded"}
        BY <2>1, <2>2, <2>6 DEF Pushed
      <3> QED BY <3>1, <3>2, <3>3 DEF Agreeing
    <2> QED BY <2>5, <2>6
  <1>2. CASE SetTxnName(c)
    <2> DEFINE e == call[c].entry
    <2>1. e \in Spans /\ call[c].name \in Given(TraceOf[e]) /\ lock = c
      BY <1>2, NoneAssumption DEF SetTxnName, NameInv
    <2>2. /\ txnName' = [txnName EXCEPT ![e] = call[c].name] /\ lock' = None
          /\ late' = IF pc[e] = "open" THEN late ELSE late \cup {e}
          /\ UNCHANGED <<pc, es, changed, attr, metric, call>>
      BY <1>2 DEF SetTxnName, spanVars
    <2> HIDE DEF e
    <2>3. ~ Writing(s)' /\ (Writing(s) <=> e = s)
      BY <2>1, <2>2, NoneAssumption DEF Writing, e
    <2>4. CASE e # s
      <3>1. txnName'[s] = txnName[s]
        BY <2>2, <2>4 DEF NameInv
      <3> QED BY <2>2, <2>3, <2>4, <3>1, AgreeingKept
    <2>5. CASE e = s
      <3>1. pc[s] = "open"
        BY <2>2, <2>5
      <3>2. attr[s] = call[c].name
        BY <2>1, <2>3, <2>5, <3>1 DEF Agreeing
      <3>3. txnName'[s] = call[c].name
        BY <2>2, <2>5 DEF NameInv
      <3>4. call[c].name # NoName
        <4>1. PICK n \in Names : call[c].name = Named(TraceOf[e], n)
          BY <2>1 DEF Given
        <4>2. Named(TraceOf[e], n).name = n /\ NoName.name = "" /\ n # ""
          BY NamesAssumption DEF Named, NoName
        <4> QED BY <4>1, <4>2
      <3>5. NameOr(s, FALSE)' = attr[s]
        BY <3>2, <3>3, <3>4 DEF NameOr
      <3> QED BY <2>2, <2>3, <3>1, <3>5 DEF Agreeing, Pushed
    <2> QED BY <2>4, <2>5
  <1> QED BY <1>1, <1>2 DEF CallerStep

\* The invariant of the agreement is inductive.
LEMMA AgreeInvNext == ListInv /\ NameInv /\ AgreeInv /\ [Next]_vars => AgreeInv'
  <1> SUFFICES ASSUME ListInv, NameInv, AgreeInv, [Next]_vars,
                      NEW s \in Spans, Alone(s), s \notin late'
               PROVE  Agreeing(s)'
    BY DEF AgreeInv, Alone
  <1>1. late \subseteq late'
    BY DEF Next, SpanStep, StartLookup, StartName, Push, Change, End, EndLookup, Record, Delete, callVars,
           CallerStep, SetAttribute, SetTxnName, Terminated, vars
  <1>2. Agreeing(s)
    BY <1>1 DEF AgreeInv
  <1>3. CASE SpanStep(s)
    BY <1>2, <1>3, OwnStepAgrees
  <1>4. ASSUME NEW u \in Spans, u # s, SpanStep(u) PROVE Agreeing(s)'
    BY <1>2, <1>4, OtherStepAgrees
  <1>5. ASSUME NEW c \in Callers, CallerStep(c) PROVE Agreeing(s)'
    BY <1>2, <1>5, CallAgrees
  <1>6. CASE UNCHANGED vars
    <2>1. UNCHANGED <<pc, es, changed, attr, metric, txnName, lock, call>> /\ (Writing(s)' <=> Writing(s))
      BY <1>6 DEF vars, Writing
    <2> QED BY <1>2, <2>1, AgreeingKept
  <1> QED BY <1>3, <1>4, <1>5, <1>6 DEF Next, Terminated

\* The response-time metric and the exported span of a request name the same
\* transaction, with the two exceptions NamesAgree spells out, for any number of
\* requests and of calls that name them.
THEOREM TransactionsAgree == Spec => []NamesAgree
  <1>1. ASSUME NameInv, AgreeInv PROVE NamesAgree
    <2> SUFFICES ASSUME NEW s \in Spans, pc[s] = "closed", Alone(s), s \notin late
                 PROVE  IF changed[s] /\ txnName[s] = NoName
                        THEN attr[s] = Derived(s, FALSE) /\ metric[s] = Derived(s, TRUE)
                        ELSE metric[s] = attr[s]
      BY DEF NamesAgree
    <2>1. attr[s] = NameOr(s, FALSE) /\ metric[s] = NameOr(s, changed[s])
      BY <1>1 DEF AgreeInv, Agreeing
    <2>2. changed[s] \in BOOLEAN
      BY <1>1 DEF NameInv
    <2>3. CASE txnName[s] # NoName
      BY <2>1, <2>3 DEF NameOr
    <2>4. CASE txnName[s] = NoName
      BY <2>1, <2>2, <2>4 DEF NameOr, Derived
    <2> QED BY <2>3, <2>4
  <1> QED BY <1>1, ListInvInit, ListInvNext, NameInvInit, NameInvNext, AgreeInvInit, AgreeInvNext, PTL DEF Spec

-----------------------------------------------------------------------------
(* The watcher of the settings file: its exits.                            *)

\* The watchers whose goroutine has ended, and those whose Stop has returned.
Ended   == {w \in Watchers : at[Loop(w)] = "done"}
Stopped == {w \in Watchers : stop[w] = "sent"}

\* What Stop and the goroutines it ends change; a goroutine runs only after its
\* Start has stopped waiting for the file.
ExitTypes ==
    /\ at \in [Actors -> {"new", "wait", "read", "update", "returned", "select", "done"}]
    /\ \A w \in Watchers : at[Caller(w)] \in {"new", "wait"} => at[Loop(w)] = "new"
    /\ stop \in [Watchers -> {"no", "sending", "sent"}]
    /\ exit \in {0, 1}

\* Every exit that was sent has ended one goroutine or waits in the channel.
ExitsCounted == exit + Cardinality(Ended) = Cardinality(Stopped)

\* All watchers share one channel and any goroutine takes any exit (Stop and the
\* select of Start in file_watcher.go).  Still no exit is lost and none ends two
\* goroutines: when the last Stop has returned, at most one goroutine is left, and
\* the exit it will take is in the channel; once it has ended the channel is empty,
\* so that nothing is left over for a watcher started later.
ExitsSuffice ==
    Stopped = Watchers => /\ \A v, w \in Watchers \ Ended : v = w
                          /\ Ended = Watchers <=> exit = 0

WatcherSafety == WatcherInit /\ [][WatcherNext]_watcherVars

\* The actors of different watchers, and of one watcher, are different.
LEMMA LoopFacts ==
    /\ \A w \in Watchers : Loop(w) \in Actors /\ Caller(w) \in Actors
    /\ \A v, w \in Watchers : Loop(v) # Caller(w) /\ (v # w => Loop(v) # Loop(w) /\ Caller(v) # Caller(w))
  BY DEF Loop, Caller, Actors

\* A step by which no goroutine ends and no exit is sent changes no count.
LEMMA SameCount ==
    ASSUME ExitsCounted, exit' = exit,
           \A w \in Watchers : at'[Loop(w)] = "done" <=> at[Loop(w)] = "done",
           \A w \in Watchers : stop'[w] = "sent" <=> stop[w] = "sent"
    PROVE  ExitsCounted'
<1>1. Ended' = Ended /\ Stopped' = Stopped
  BY DEF Ended, Stopped
<1> QED BY <1>1 DEF ExitsCounted

\* A goroutine in its select, or a Start that reads the file, ends nothing.
LEMMA ReadCount ==
    ASSUME ExitTypes, ExitsCounted, NEW a \in Actors, NEW back \in {"returned", "select"},
           at[a] \in {"read", "select", "update"}, exit' = exit, stop' = stop,
           at' \in {at, [at EXCEPT ![a] = back], [at EXCEPT ![a] = "update"]}
    PROVE  ExitTypes' /\ ExitsCounted'
<1>2. ExitTypes'
  BY LoopFacts DEF ExitTypes
<1>3. \A w \in Watchers : at'[Loop(w)] = "done" <=> at[Loop(w)] = "done"
  BY LoopFacts DEF ExitTypes
<1> QED BY <1>2, <1>3, SameCount

\* Every step keeps the counts.
LEMMA NextCount == ExitTypes /\ ExitsCounted /\ [WatcherNext]_watcherVars => ExitTypes' /\ ExitsCounted'
<1> SUFFICES ASSUME ExitTypes, ExitsCounted, [WatcherNext]_watcherVars
             PROVE  ExitTypes' /\ ExitsCounted'
  OBVIOUS
<1>0. /\ Ended \in SUBSET Watchers /\ Stopped \in SUBSET Watchers
      /\ IsFiniteSet(Ended) /\ IsFiniteSet(Stopped)
      /\ Cardinality(Ended) \in Nat /\ Cardinality(Stopped) \in Nat
  BY WatchersAssumption, FS_Subset, FS_CardinalityType DEF Ended, Stopped
<1>1. ASSUME NEW w \in Watchers, StartCall(w) \/ WaitEnds(w)
      PROVE  ExitTypes' /\ ExitsCounted'
  <2>1. /\ exit' = exit /\ stop' = stop /\ at[Loop(w)] = "new"
        /\ \/ at' = [at EXCEPT ![Caller(w)] = "wait"]
           \/ at' = [at EXCEPT ![Caller(w)] = "read", ![Loop(w)] = "select"]
    BY <1>1 DEF StartCall, WaitEnds, Goto, ExitTypes
  <2>2. ExitTypes'
    BY <2>1, LoopFacts DEF ExitTypes
  <2>3. \A v \in Watchers : at'[Loop(v)] = "done" <=> at[Loop(v)] = "done"
    BY <2>1, LoopFacts DEF ExitTypes
  <2> QED BY <2>1, <2>2, <2>3, SameCount
<1>2. ASSUME NEW w \in Watchers, CallerRead(w) \/ CallerUpdate(w)
      PROVE  ExitTypes' /\ ExitsCounted'
  <2>1. /\ exit' = exit /\ stop' = stop /\ at[Caller(w)] \in {"read", "update"}
        /\ at' \in {at, [at EXCEPT ![Caller(w)] = "returned"], [at EXCEPT ![Caller(w)] = "update"]}
    BY <1>2 DEF CallerRead, CallerUpdate, Read, Update, Goto
  <2> QED BY <2>1, LoopFacts, ReadCount
<1>3. ASSUME NEW w \in Watchers, LoopTick(w) \/ LoopUpdate(w)
      PROVE  ExitTypes' /\ ExitsCounted'
  <2>1. /\ exit' = exit /\ stop' = stop /\ at[Loop(w)] \in {"select", "update"}
        /\ at' \in {at, [at EXCEPT ![Loop(w)] = "select"], [at EXCEPT ![Loop(w)] = "update"]}
    BY <1>3 DEF LoopTick, LoopUpdate, Read, Update, Goto
  <2> QED BY <2>1, LoopFacts, ReadCount
<1>4. ASSUME NEW w \in Watchers, LoopExit(w)
      PROVE  ExitTypes' /\ ExitsCounted'
  <2>1. /\ exit = 1 /\ exit' = 0 /\ stop' = stop /\ at[Loop(w)] = "select"
        /\ at' = [at EXCEPT ![Loop(w)] = "done"]
    BY <1>4 DEF LoopExit, Goto, ExitTypes
  <2>2. ExitTypes'
    BY <2>1, LoopFacts DEF ExitTypes
  <2>3. w \notin Ended /\ Stopped' = Stopped
    BY <2>1 DEF Ended, Stopped
  <2>4. Ended' = Ended \cup {w}
    BY <2>1, LoopFacts DEF Ended, ExitTypes
  <2>5. Cardinality(Ended') = Cardinality(Ended) + 1
    BY <1>0, <2>3, <2>4, FS_AddElement
  <2> QED BY <1>0, <2>1, <2>2, <2>3, <2>5 DEF ExitsCounted
<1>5. ASSUME NEW w \in Watchers, StopCall(w)
      PROVE  ExitTypes' /\ ExitsCounted'
  <2>1. exit' = exit /\ at' = at /\ stop[w] = "no" /\ stop' = [stop EXCEPT ![w] = "sending"]
    BY <1>5 DEF StopCall
  <2>2. ExitTypes'
    BY <2>1 DEF ExitTypes
  <2>3. \A v \in Watchers : stop'[v] = "sent" <=> stop[v] = "sent"
    BY <2>1 DEF ExitTypes
  <2> QED BY <2>1, <2>2, <2>3, SameCount
<1>6. ASSUME NEW w \in Watchers, StopSend(w)
      PROVE  ExitTypes' /\ ExitsCounted'
  <2>1. exit = 0 /\ exit' = 1 /\ at' = at /\ stop[w] = "sending" /\ stop' = [stop EXCEPT ![w] = "sent"]
    BY <1>6 DEF StopSend, ExitTypes
  <2>2. ExitTypes'
    BY <2>1 DEF ExitTypes
  <2>3. w \notin Stopped /\ Ended' = Ended
    BY <2>1 DEF Ended, Stopped
  <2>4. Stopped' = Stopped \cup {w}
    BY <2>1 DEF Stopped, ExitTypes
  <2>5. Cardinality(Stopped') = Cardinality(Stopped) + 1
    BY <1>0, <2>3, <2>4, FS_AddElement
  <2> QED BY <1>0, <2>1, <2>2, <2>3, <2>5 DEF ExitsCounted
<1>7. ASSUME exit' = exit, at' = at, stop' = stop
      PROVE  ExitTypes' /\ ExitsCounted'
  BY <1>7, SameCount DEF ExitTypes
<1>8. ASSUME WriteSettings \/ (\E k \in Kinds \ {"valid"} : WriteOther(k)) \/ (\E w \in Watchers : Tick(w))
             \/ UNCHANGED watcherVars
      PROVE  exit' = exit /\ at' = at /\ stop' = stop
  BY <1>8 DEF WriteSettings, WriteOther, Tick, watcherVars
<1> QED BY <1>1, <1>2, <1>3, <1>4, <1>5, <1>6, <1>7, <1>8 DEF WatcherNext

\* The counts suffice.
LEMMA CountsSuffice == ExitTypes /\ ExitsCounted => ExitsSuffice
<1> SUFFICES ASSUME ExitTypes, ExitsCounted, Stopped = Watchers
             PROVE  /\ \A v, w \in Watchers \ Ended : v = w
                    /\ Ended = Watchers <=> exit = 0
  BY DEF ExitsSuffice
<1>1. /\ Ended \in SUBSET Watchers /\ IsFiniteSet(Ended) /\ IsFiniteSet(Watchers)
      /\ Cardinality(Ended) \in Nat /\ Cardinality(Watchers) \in Nat
  BY WatchersAssumption, FS_Subset, FS_CardinalityType DEF Ended
<1>2. exit + Cardinality(Ended) = Cardinality(Watchers) /\ exit \in {0, 1}
  BY DEF ExitsCounted, ExitTypes
<1>3. Ended = Watchers => exit = 0
  BY <1>1, <1>2
<1>4. exit = 0 => Ended = Watchers
  BY <1>1, <1>2, FS_Subset
<1>5. ASSUME NEW v \in Watchers \ Ended, NEW w \in Watchers \ Ended, v # w
      PROVE  FALSE
  <2>1. /\ IsFiniteSet(Ended \cup {v})
        /\ Cardinality(Ended \cup {v}) = Cardinality(Ended) + 1
    BY <1>1, <1>5, FS_AddElement
  <2>2. Cardinality((Ended \cup {v}) \cup {w}) = Cardinality(Ended \cup {v}) + 1
    BY <2>1, <1>5, FS_AddElement
  <2>3. Cardinality((Ended \cup {v}) \cup {w}) <= Cardinality(Watchers)
    BY <1>1, <1>5, FS_Subset
  <2> QED BY <1>1, <1>2, <2>1, <2>2, <2>3
<1> QED BY <1>3, <1>4, <1>5

\* Over any number of watchers that share the exit channel, no exit is lost and none
\* ends two goroutines: when every watcher has been stopped, at most one goroutine
\* still runs and its exit is waiting, and when none runs the channel is empty.
THEOREM ExitsAreShared == WatcherSafety => []ExitsSuffice
<1>1. WatcherInit => ExitTypes /\ ExitsCounted
  <2> SUFFICES ASSUME WatcherInit PROVE ExitTypes /\ ExitsCounted
    OBVIOUS
  <2>1. ExitTypes
    BY LoopFacts DEF WatcherInit, ExitTypes
  <2>2. Ended = {} /\ Stopped = {}
    BY LoopFacts DEF WatcherInit, Ended, Stopped
  <2> QED BY <2>1, <2>2, FS_EmptySet DEF ExitsCounted, WatcherInit
<1> QED BY <1>1, NextCount, CountsSuffice, PTL DEF WatcherSafety
=============================================================================
