------------------------------- MODULE Lambda --------------------------------
(***************************************************************************)
(* The agent in AWS Lambda: StartLambda (swo/agent_lambda.go), WrapHandler *)
(* and the handler it returns (swolambda.go).  WrapHandler starts the      *)
(* agent once, whoever calls it; every invocation opens a span, runs the   *)
(* function, ends the span and flushes the metrics, also when the function *)
(* panics, and then panics again.                                          *)
(*                                                                         *)
(* Metrics are collected and exported by the goroutine of the SDK's        *)
(* PeriodicReader, one batch at a time, when an invocation flushes and     *)
(* when its own ticker fires.  With delta temporality (otel_metric_        *)
(* exporter.go) collecting takes the data out of the instruments, so what  *)
(* an export that fails has collected is lost.                             *)
(*                                                                         *)
(* The settings watcher is seen from outside (module FileWatcher), and so  *)
(* are the exporters: they are created or not, an export succeeds or fails.*)
(***************************************************************************)
EXTENDS Naturals, FiniteSets

CONSTANTS
    Wrappers,      \* goroutines that call WrapHandler
    Invocations

VARIABLES
    once,          \* initHandlerOnce: new, running or done
    wrap,          \* wrapper -> its call of WrapHandler
    step,          \* where StartLambda is
    watchers,      \* settings watchers started
    meter,         \* the global meter provider is the agent's
    provider,      \* the global tracer provider is the agent's
    tracer,        \* the package's tracer: nil, no-op or the agent's
    flusher,       \* the package's flusher is set
    warmStart,
    inv,           \* invocation -> [at, cold, span, status, outcome, flush]
    pending,       \* invocations whose metrics are recorded and not collected
    reader,        \* the reader's goroutine: [busy, asked, batch]
    exported,      \* invocations whose metrics were exported
    lost           \* pairs of an invocation and who asked for the export that lost
                   \* its metrics

agent == <<step, watchers, meter, provider>>
metrics == <<pending, reader, exported, lost>>
calls == <<warmStart, inv, metrics>>
lambdaVars == <<once, wrap, agent, tracer, flusher, calls>>

Idle == [at |-> "new", cold |-> FALSE, span |-> "none", status |-> "unset",
         outcome |-> "none", flush |-> "none"]

\* The reader serves the flush of one invocation, or nobody: its ticker.
Nobody == {}
Waiting == [busy |-> FALSE, asked |-> Nobody, batch |-> {}]

LambdaInit ==
    /\ once = "new" /\ wrap = [w \in Wrappers |-> "new"]
    /\ step = "idle" /\ watchers = 0 /\ meter = FALSE /\ provider = FALSE
    /\ tracer = "nil" /\ flusher = FALSE
    /\ warmStart = FALSE /\ inv = [i \in Invocations |-> Idle]
    /\ pending = {} /\ reader = Waiting /\ exported = {} /\ lost = {}

-----------------------------------------------------------------------------
(* WrapHandler.  sync.Once: the first caller runs the function, the others *)
(* wait until it has returned.                                             *)

EnterOnce(w) ==
    /\ wrap[w] = "new" /\ once = "new"
    /\ once' = "running"
    /\ wrap' = [wrap EXCEPT ![w] = "starting"]
    /\ step' = "watcher"
    /\ UNCHANGED <<watchers, meter, provider, tracer, flusher, calls>>

\* StartLambda has returned a flusher, or an error; the tracer is taken from
\* whatever tracer provider is the global one.
LeaveOnce(w) ==
    /\ wrap[w] = "starting" /\ step \in {"ok", "failed"}
    /\ flusher' = (step = "ok")
    /\ tracer' = IF provider THEN "sdk" ELSE "noop"
    /\ once' = "done"
    /\ wrap' = [wrap EXCEPT ![w] = "returned"]
    /\ step' = "idle"
    /\ UNCHANGED <<watchers, meter, provider, calls>>

SkipOnce(w) ==
    /\ wrap[w] = "new" /\ once = "done"
    /\ wrap' = [wrap EXCEPT ![w] = "returned"]
    /\ UNCHANGED <<once, agent, tracer, flusher, calls>>

-----------------------------------------------------------------------------
(* StartLambda.  Each step may end in an error, except those that cannot;  *)
(* nothing that was set up before it is undone.                            *)

StepTo(s) ==
    /\ step' = s
    /\ UNCHANGED <<once, wrap, tracer, flusher, calls>>

\* Enabled is not asked; the watcher is started and never stopped.
StartWatcher ==
    /\ step = "watcher"
    /\ watchers' = watchers + 1
    /\ StepTo("metricExporter")
    /\ UNCHANGED <<meter, provider>>

\* The steps that only create something: exporters, registry, sampler, resource.
CreateOK ==
    \E p \in {<<"metricExporter", "meter">>, <<"rates", "traceExporter">>,
              <<"traceExporter", "registry">>, <<"registry", "sampler">>,
              <<"sampler", "resource">>, <<"resource", "provider">>} :
        /\ step = p[1]
        /\ StepTo(p[2])
        /\ UNCHANGED <<watchers, meter, provider>>

CreateFails ==
    /\ step \in {"metricExporter", "rates", "traceExporter", "registry", "sampler", "resource"}
    /\ StepTo("failed")
    /\ UNCHANGED <<watchers, meter, provider>>

SetMeterProvider ==
    /\ step = "meter"
    /\ meter' = TRUE
    /\ StepTo("rates")
    /\ UNCHANGED <<watchers, provider>>

\* A plausible slip: a step that can fail comes after the provider is published.
SetTracerProviderEarly ==
    /\ step = "provider"
    /\ provider' = TRUE
    /\ StepTo("ok") \/ StepTo("failed")
    /\ UNCHANGED <<watchers, meter>>

SetTracerProvider ==
    /\ step = "provider"
    /\ provider' = TRUE
    /\ StepTo("ok")
    /\ UNCHANGED <<watchers, meter>>

-----------------------------------------------------------------------------
(* Invoke.  The runtime invokes a handler that some WrapHandler returned.  *)

GoesOn(i, r) ==
    /\ inv' = [inv EXCEPT ![i] = r]
    /\ UNCHANGED <<once, wrap, agent, tracer, flusher>>

\* warmStart.Swap(true), and the span.
InvokeBegins(i) ==
    /\ inv[i].at = "new" /\ \E w \in Wrappers : wrap[w] = "returned"
    /\ warmStart' = TRUE
    /\ GoesOn(i, [inv[i] EXCEPT !.at = "body", !.cold = ~ warmStart, !.span = tracer])
    /\ UNCHANGED metrics

\* The function returns, returns an error, or panics.
InvokeBody(i, o) ==
    /\ inv[i].at = "body"
    /\ GoesOn(i, [inv[i] EXCEPT !.at = "end", !.outcome = o,
                                !.status = IF o = "ok" THEN @ ELSE "error"])
    /\ UNCHANGED <<warmStart, metrics>>

\* A plausible slip: the metrics are flushed before the span has ended.
SpanEndAfterFlush(i) ==
    /\ inv[i].at = "end" /\ flusher
    /\ exported' = exported \cup pending
    /\ pending' = {i}
    /\ GoesOn(i, [inv[i] EXCEPT !.at = "returned", !.span = "ended", !.flush = "ok"])
    /\ UNCHANGED <<warmStart, reader, lost>>

\* span.End: the processor records the response time of a span of the agent's
\* tracer provider.
SpanEnd(i) ==
    /\ inv[i].at = "end"
    /\ pending' = IF inv[i].span = "sdk" THEN pending \cup {i} ELSE pending
    /\ GoesOn(i, [inv[i] EXCEPT !.at = "flush", !.span = "ended"])
    /\ UNCHANGED <<warmStart, reader, exported, lost>>

\* After the flush the result is returned, or the panic goes on.
Leave(i, f) ==
    [inv[i] EXCEPT !.at = IF inv[i].outcome = "panic" THEN "panicked" ELSE "returned",
                   !.flush = f]

\* What the reader's goroutine does for whoever has asked: it collects.
Collects(asked) ==
    /\ meter /\ ~ reader.busy
    /\ reader' = [busy |-> TRUE, asked |-> asked, batch |-> pending]
    /\ pending' = {}
    /\ UNCHANGED <<warmStart, exported, lost>>

\* ForceFlush has reached the goroutine, which is free, and waits for its answer.
FlushTaken(i) ==
    /\ inv[i].at = "flush" /\ flusher
    /\ Collects({i})
    /\ GoesOn(i, [inv[i] EXCEPT !.at = "flushing"])

\* The ticker of the reader fires.
ReaderTicks ==
    /\ Collects(Nobody)
    /\ UNCHANGED <<once, wrap, agent, tracer, flusher, inv>>

\* The answer goes to the invocation that has asked, if it still waits; Flush
\* passes it on and Invoke logs an error.
Answer(f) ==
    inv' = [i \in Invocations |->
              IF i \in reader.asked /\ inv[i].at = "flushing" THEN Leave(i, f) ELSE inv[i]]

ReaderDone ==
    /\ reader.busy
    /\ reader' = Waiting
    /\ UNCHANGED <<once, wrap, agent, tracer, flusher, warmStart, pending>>

Exports ==
    /\ ReaderDone
    /\ exported' = exported \cup reader.batch
    /\ Answer("ok")
    /\ UNCHANGED lost

ExportFails ==
    /\ ReaderDone
    /\ lost' = lost \cup (reader.batch \X {reader.asked})
    /\ Answer("failed")
    /\ UNCHANGED exported

\* ForceFlush gives up after its timeout, before or after its turn has come; the
\* goroutine goes on with what it has collected.
FlushTimesOut(i) ==
    /\ inv[i].at \in {"flush", "flushing"} /\ flusher
    /\ GoesOn(i, Leave(i, "failed"))
    /\ UNCHANGED <<warmStart, metrics>>

\* StartLambda has failed: there is no flusher.
NoFlush(i) ==
    /\ inv[i].at = "flush" /\ ~ flusher
    /\ GoesOn(i, Leave(i, "none"))
    /\ UNCHANGED <<warmStart, metrics>>

LambdaNext ==
    \/ \E w \in Wrappers : EnterOnce(w) \/ LeaveOnce(w) \/ SkipOnce(w)
    \/ StartWatcher \/ CreateOK \/ CreateFails \/ SetMeterProvider \/ SetTracerProvider
    \/ \E i \in Invocations :
         \/ InvokeBegins(i)
         \/ \E o \in {"ok", "error", "panic"} : InvokeBody(i, o)
         \/ SpanEnd(i) \/ FlushTaken(i) \/ FlushTimesOut(i) \/ NoFlush(i)
    \/ ReaderTicks \/ Exports \/ ExportFails

LambdaSpec == LambdaInit /\ [][LambdaNext]_lambdaVars

-----------------------------------------------------------------------------
(* Properties.                                                             *)

Over(i) == inv[i].at \in {"returned", "panicked"}

\* However many goroutines wrap handlers and wherever StartLambda fails, the agent
\* is started once and whole or not at all: one watcher reads the settings file,
\* no handler meets a nil tracer, and there is a flusher exactly when spans are
\* real, so that nothing is recorded that is never flushed.
StartedOnceAndWhole ==
    /\ watchers <= 1
    /\ (\E w \in Wrappers : wrap[w] = "returned") => tracer # "nil"
    /\ once = "done" => (flusher <=> tracer = "sdk")

\* What an export asked for by this set has collected of i is lost.
LostBy(i, asked) == <<i, asked>> \in lost

\* The runtime may freeze the process as soon as an invocation is over: by then
\* its span has ended with the right status and a panic of the function comes out
\* as a panic.  If its flush succeeded, its metrics have been exported, or were
\* lost before in an export that somebody else had asked for: the reader's ticker,
\* or another invocation.  And no flush hides a loss: that other invocation's flush,
\* and every flush whose export failed, ends with an error.
NothingLeftBehind ==
    \A i \in Invocations :
        /\ Over(i) =>
             /\ inv[i].span = "ended"
             /\ inv[i].status = "error" <=> inv[i].outcome # "ok"
             /\ inv[i].at = "panicked" <=> inv[i].outcome = "panic"
             /\ inv[i].flush = "ok" =>
                  \/ i \in exported
                  \/ \E asked \in {Nobody} \cup {{j} : j \in Invocations \ {i}} : LostBy(i, asked)
        /\ \A j \in Invocations : LostBy(j, {i}) => inv[i].flush = "failed"

=============================================================================
