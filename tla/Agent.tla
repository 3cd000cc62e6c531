-------------------------------- MODULE Agent --------------------------------
(***************************************************************************)
(* The life of the agent: Start and the function it returns (swo/agent.go, *)
(* internal/reporter/metrics_publisher.go), the process-wide oboe          *)
(* (swo/oboe_holder.go) and WaitForReady (swo/agent_api.go).               *)
(*                                                                         *)
(* An application may call Start again after a failure or a shutdown, and  *)
(* may call the function of a failed Start at any later time, or never.    *)
(* Calls of Start do not overlap, and no agent is started while another    *)
(* one is up.  WaitForReady runs in any goroutine at any time.             *)
(*                                                                         *)
(* The settings updater is seen from outside: it runs, it stores and       *)
(* expires settings, and after cancellation it winds up (what happens      *)
(* inside is module SettingsUpdater).                                      *)
(***************************************************************************)
EXTENDS Naturals

CONSTANTS
    Agents,        \* calls of Start
    Waiters,       \* goroutines that call WaitForReady
    Nil,
    Timeout        \* the default deadline, in polls of 500 ms

ASSUME TimeoutAssumption == Timeout \in Nat \ {0}
ASSUME NilAssumption == Nil \notin Agents

VARIABLES
    enabled,       \* config.GetEnabled
    globalOboe,    \* an agent, for its oboe, or Nil
    pc,            \* where the agent's Start, or its shutdown, is
    shutdown,      \* what the function returned by Start does
    updater,       \* settings updater goroutines
    exporter,      \* the span exporter with its connection to the collector
    meters,        \* meter provider with its reader goroutine
    tracer,        \* tracer provider with its batcher goroutine
    settings,      \* the agent's oboe has settings
    wait,          \* calls of WaitForReady
    exited         \* the process has ended

vars == <<enabled, globalOboe, pc, shutdown, updater, exporter, meters, tracer, settings, wait, exited>>
lifecycle == <<globalOboe, shutdown, updater, exporter, meters, tracer>>

StartSteps == {"updater", "exporter", "metrics", "sampler"}
StopSteps  == {"stopUpdater", "stopMetrics", "stopTracer"}

Idle == [pc |-> "idle", o |-> Nil, left |-> 0, ticked |-> FALSE, result |-> FALSE]

Init ==
    /\ enabled \in BOOLEAN
    /\ globalOboe = Nil
    /\ pc = [a \in Agents |-> "new"]
    /\ shutdown = [a \in Agents |-> "none"]
    /\ updater = [a \in Agents |-> "none"]
    /\ exporter = [a \in Agents |-> "none"]
    /\ meters = [a \in Agents |-> "none"]
    /\ tracer = [a \in Agents |-> "none"]
    /\ settings = [a \in Agents |-> FALSE]
    /\ wait = [w \in Waiters |-> Idle]
    /\ exited = FALSE

\* The agent is up: its Start has succeeded, its shutdown has not been called.
Up(a) == pc[a] = "returned" /\ shutdown[a] = "full"

-----------------------------------------------------------------------------
(* Start.                                                                  *)

\* Start returns f, and an error unless f is the full shutdown or the agent is
\* disabled.
Return(a, f) ==
    /\ pc' = [pc EXCEPT ![a] = "returned"]
    /\ shutdown' = [shutdown EXCEPT ![a] = f]

MayStart(a) ==
    /\ ~ exited /\ pc[a] = "new"
    /\ \A b \in Agents \ {a} : pc[b] \in {"new", "down"} \/ (pc[b] = "returned" /\ ~ Up(b))

\* Disabled, or the resource cannot be created: nothing has happened yet.
StartNothing(a) ==
    /\ MayStart(a)
    /\ Return(a, "noop")
    /\ UNCHANGED <<enabled, globalOboe, updater, exporter, meters, tracer, settings, wait, exited>>

StartOboe(a) ==
    /\ MayStart(a) /\ enabled
    /\ globalOboe' = a
    /\ pc' = [pc EXCEPT ![a] = "updater"]
    /\ UNCHANGED <<enabled, shutdown, updater, exporter, meters, tracer, settings, wait, exited>>

\* NewSettingsUpdater refuses the service key, or the updater is started.
StartUpdater(a) ==
    /\ ~ exited /\ pc[a] = "updater"
    /\ \/ Return(a, "noop") /\ UNCHANGED updater
       \/ /\ updater' = [updater EXCEPT ![a] = "running"]
          /\ pc' = [pc EXCEPT ![a] = "exporter"]
          /\ UNCHANGED shutdown
    /\ UNCHANGED <<enabled, globalOboe, exporter, meters, tracer, settings, wait, exited>>

\* A plausible slip: the error path forgets what is already running.
StartExporterForgets(a) ==
    /\ ~ exited /\ pc[a] = "exporter"
    /\ \/ Return(a, "noop") /\ UNCHANGED exporter
       \/ /\ exporter' = [exporter EXCEPT ![a] = "open"]
          /\ pc' = [pc EXCEPT ![a] = "metrics"]
          /\ UNCHANGED shutdown
    /\ UNCHANGED <<enabled, globalOboe, updater, meters, tracer, settings, wait, exited>>

StartExporter(a) ==
    /\ ~ exited /\ pc[a] = "exporter"
    /\ \/ Return(a, "updater") /\ UNCHANGED exporter
       \/ /\ exporter' = [exporter EXCEPT ![a] = "open"]
          /\ pc' = [pc EXCEPT ![a] = "metrics"]
          /\ UNCHANGED shutdown
    /\ UNCHANGED <<enabled, globalOboe, updater, meters, tracer, settings, wait, exited>>

\* ConfigureAndStart fails before it has a meter provider, or after, when the
\* provider is left running, or succeeds.  If it fails, the span exporter stays open.
StartMetrics(a) ==
    /\ ~ exited /\ pc[a] = "metrics"
    /\ \/ Return(a, "updater") /\ UNCHANGED meters
       \/ Return(a, "updater") /\ meters' = [meters EXCEPT ![a] = "running"]
       \/ /\ meters' = [meters EXCEPT ![a] = "running"]
          /\ pc' = [pc EXCEPT ![a] = "sampler"]
          /\ UNCHANGED shutdown
    /\ UNCHANGED <<enabled, globalOboe, updater, exporter, tracer, settings, wait, exited>>

\* NewSampler cannot fail: its oboe is not nil.
StartTracer(a) ==
    /\ ~ exited /\ pc[a] = "sampler"
    /\ tracer' = [tracer EXCEPT ![a] = "running"]
    /\ Return(a, "full")
    /\ UNCHANGED <<enabled, globalOboe, updater, exporter, meters, settings, wait, exited>>

-----------------------------------------------------------------------------
(* The function that Start has returned.                                   *)

StopUpdaterOf(a) == [updater EXCEPT ![a] = IF @ = "running" THEN "cancelled" ELSE @]

\* A plausible slip: the function of a failed Start clears the global oboe too.
CallOfFailedClears(a) ==
    /\ ~ exited /\ pc[a] = "returned" /\ shutdown[a] \in {"noop", "updater"}
    /\ pc' = [pc EXCEPT ![a] = "down"]
    /\ updater' = IF shutdown[a] = "updater" THEN StopUpdaterOf(a) ELSE updater
    /\ globalOboe' = Nil
    /\ UNCHANGED <<enabled, shutdown, exporter, meters, tracer, settings, wait, exited>>

\* The function of a failed Start, or of a disabled one.
CallOfFailed(a) ==
    /\ ~ exited /\ pc[a] = "returned" /\ shutdown[a] \in {"noop", "updater"}
    /\ pc' = [pc EXCEPT ![a] = "down"]
    /\ updater' = IF shutdown[a] = "updater" THEN StopUpdaterOf(a) ELSE updater
    /\ UNCHANGED <<enabled, globalOboe, shutdown, exporter, meters, tracer, settings, wait, exited>>

CallShutdown(a) ==
    /\ ~ exited /\ Up(a)
    /\ globalOboe' = Nil
    /\ pc' = [pc EXCEPT ![a] = "stopUpdater"]
    /\ UNCHANGED <<enabled, shutdown, updater, exporter, meters, tracer, settings, wait, exited>>

StopUpdater(a) ==
    /\ ~ exited /\ pc[a] = "stopUpdater"
    /\ updater' = StopUpdaterOf(a)
    /\ pc' = [pc EXCEPT ![a] = "stopMetrics"]
    /\ UNCHANGED <<enabled, globalOboe, shutdown, exporter, meters, tracer, settings, wait, exited>>

\* Shutdown of the publisher; an error (of the last export) is only logged.
StopMetrics(a) ==
    /\ ~ exited /\ pc[a] = "stopMetrics"
    /\ meters' = [meters EXCEPT ![a] = "stopped"]
    /\ pc' = [pc EXCEPT ![a] = "stopTracer"]
    /\ UNCHANGED <<enabled, globalOboe, shutdown, updater, exporter, tracer, settings, wait, exited>>

\* The batcher shuts its exporter down.  An error (of the last export) ends the process.
StopTracer(a) ==
    /\ ~ exited /\ pc[a] = "stopTracer"
    /\ tracer' = [tracer EXCEPT ![a] = "stopped"]
    /\ exporter' = [exporter EXCEPT ![a] = "closed"]
    /\ pc' = [pc EXCEPT ![a] = "down"]
    /\ exited' \in BOOLEAN
    /\ UNCHANGED <<enabled, globalOboe, shutdown, updater, meters, settings, wait>>

-----------------------------------------------------------------------------
(* The settings updater.  A fetch that has its answer stores it even if    *)
(* the context is cancelled meanwhile; after that nothing changes.         *)

UpdateSetting(a) ==
    /\ ~ exited /\ updater[a] \in {"running", "cancelled"}
    /\ settings' = [settings EXCEPT ![a] = TRUE]
    /\ UNCHANGED <<enabled, lifecycle, pc, wait, exited>>

ExpireSetting(a) ==
    /\ ~ exited /\ updater[a] \in {"running", "cancelled"}
    /\ settings' = [settings EXCEPT ![a] = FALSE]
    /\ UNCHANGED <<enabled, lifecycle, pc, wait, exited>>

\* The loop leaves on its own if the service key turns out to be invalid.
UpdaterCancelled(a) ==
    /\ ~ exited /\ updater[a] = "running"
    /\ updater' = StopUpdaterOf(a)
    /\ UNCHANGED <<enabled, globalOboe, shutdown, exporter, meters, tracer, pc, settings, wait, exited>>

UpdaterEnds(a) ==
    /\ ~ exited /\ updater[a] = "cancelled"
    /\ updater' = [updater EXCEPT ![a] = "stopped"]
    /\ UNCHANGED <<enabled, globalOboe, shutdown, exporter, meters, tracer, pc, settings, wait, exited>>

-----------------------------------------------------------------------------
(* WaitForReady.                                                           *)

Answered(w, r) == wait' = [wait EXCEPT ![w].pc = "done", ![w].result = r]
WaitOnly == ~ exited /\ UNCHANGED <<enabled, lifecycle, pc, settings, exited>>

\* The deadline of the caller's context, or None.
None == Timeout + 1
Deadlines == 0..Timeout \cup {None}

\* A plausible slip: a context without a deadline is used as it is.
DeadlineNotSet(d) == d

Deadline(d) == IF d = None THEN Timeout ELSE d

WaitCall(w, d) ==
    /\ wait[w].pc = "idle"
    /\ \/ ~ enabled /\ Answered(w, TRUE)
       \/ enabled /\ globalOboe = Nil /\ Answered(w, FALSE)
       \/ /\ enabled /\ globalOboe # Nil
          /\ wait' = [wait EXCEPT ![w] = [Idle EXCEPT !.pc = "check", !.o = globalOboe,
                                                      !.left = Deadline(d)]]
    /\ WaitOnly

\* A plausible slip: one look is enough.
WaitCheckOnce(w) ==
    /\ wait[w].pc = "check"
    /\ Answered(w, settings[wait[w].o])
    /\ WaitOnly

WaitCheck(w) ==
    /\ wait[w].pc = "check"
    /\ IF settings[wait[w].o] THEN Answered(w, TRUE)
       ELSE wait' = [wait EXCEPT ![w].pc = "select"]
    /\ WaitOnly

WaitDone(w) ==
    /\ wait[w].pc = "select" /\ wait[w].left = 0
    /\ Answered(w, FALSE)
    /\ WaitOnly

WaitTick(w) ==
    /\ wait[w].pc = "select" /\ wait[w].ticked
    /\ wait' = [wait EXCEPT ![w].pc = "check", ![w].ticked = FALSE]
    /\ WaitOnly

\* 500 ms pass for a caller; the ticker holds at most one tick.
Polling(w) == wait[w].pc \in {"check", "select"}
Time(w) ==
    /\ Polling(w)
    /\ wait' = [wait EXCEPT ![w].ticked = TRUE,
                            ![w].left = IF @ \in {0, None} THEN @ ELSE @ - 1]
    /\ WaitOnly

\* The caller cancels the context.
Cancel(w) ==
    /\ Polling(w) /\ wait[w].left > 0
    /\ wait' = [wait EXCEPT ![w].left = 0]
    /\ WaitOnly

WaitReturn(w) ==
    /\ wait[w].pc = "done"
    /\ wait' = [wait EXCEPT ![w] = Idle]
    /\ WaitOnly

-----------------------------------------------------------------------------

StartNext(a) ==
    StartNothing(a) \/ StartOboe(a) \/ StartUpdater(a) \/ StartExporter(a) \/ StartMetrics(a)
        \/ StartTracer(a)
StopNext(a) ==
    CallOfFailed(a) \/ CallShutdown(a) \/ StopUpdater(a) \/ StopMetrics(a) \/ StopTracer(a)
UpdaterNext(a) ==
    UpdateSetting(a) \/ ExpireSetting(a) \/ UpdaterCancelled(a) \/ UpdaterEnds(a)
WaitNext(w) ==
    \/ \E d \in Deadlines : WaitCall(w, d)
    \/ WaitCheck(w) \/ WaitDone(w) \/ WaitTick(w) \/ Time(w) \/ Cancel(w) \/ WaitReturn(w)

Next ==
    \/ \E a \in Agents : StartNext(a) \/ StopNext(a) \/ UpdaterNext(a)
    \/ \E w \in Waiters : WaitNext(w)
    \/ exited /\ UNCHANGED vars

Spec == Init /\ [][Next]_vars

\* Go runs every goroutine that can run, time passes, and select chooses among
\* its ready cases at random, so it does not pass over the deadline for ever.
FairSpec ==
    /\ Spec
    /\ \A w \in Waiters :
         /\ WF_vars(WaitCheck(w))
         /\ WF_vars(WaitTick(w))
         /\ WF_vars(Time(w))
         /\ SF_vars(WaitDone(w))

-----------------------------------------------------------------------------

\* Once the application has called the function that Start returned, on whichever
\* path, no updater polls for that agent and no batcher runs; and if Start had
\* succeeded, its meter provider and its span exporter are closed too.  A Start that
\* failed leaves things open in one case only, a failure of ConfigureAndStart: the
\* span exporter, which nobody shuts down, and the meter provider if there is one.
\* (Which oboe is the global one is UpIsGlobal's subject.)
ShutdownIsComplete ==
    \A a \in Agents : pc[a] = "down" =>
        /\ updater[a] # "running"
        /\ tracer[a] # "running"
        /\ shutdown[a] = "full" => meters[a] # "running" /\ exporter[a] # "open"
        /\ meters[a] = "running" => exporter[a] = "open"
        /\ exporter[a] = "open" => shutdown[a] = "updater"

\* While an agent is up WaitForReady finds its oboe, and no other, even if an
\* earlier Start failed and its function is called only now.
UpIsGlobal == \A a \in Agents : Up(a) => globalOboe = a

\* WaitForReady says yes only while the library is disabled or the settings of an
\* oboe that Start has made public are there, and says no at once only when there
\* is none: a call never turns down an agent that is up before its deadline.
WaitIsTruthful ==
    [][\A w \in Waiters :
         (wait[w].pc # "done" /\ wait'[w].pc = "done") =>
             IF wait'[w].result
             THEN enabled => settings[wait[w].o]
             ELSE \A a \in Agents : Up(a) => wait[w].o # Nil /\ wait[w].left = 0]_vars

\* Of the updater of each agent no more is assumed than SettingsUpdater provides.
Life(a) == INSTANCE UpdaterLife WITH phase <- updater[a], present <- settings[a]

\* WaitForReady always returns, with or without a deadline in its context, also
\* when the agent is shut down or its updater gives up meanwhile.
WaitReturns == \A w \in Waiters : Polling(w) ~> (~ Polling(w) \/ exited)
=============================================================================
