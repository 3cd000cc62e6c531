----------------------------- MODULE AgentProofs -----------------------------
(***************************************************************************)
(* Proofs about the agent's life, for any number of calls of Start and any *)
(* number of goroutines in WaitForReady.                                   *)
(***************************************************************************)
EXTENDS Agent, TLAPS

PcValues == {"new", "returned", "down"} \cup StartSteps \cup StopSteps

\* The types of what Start and the functions it returns change.
LifeTypes ==
    /\ pc \in [Agents -> PcValues]
    /\ shutdown \in [Agents -> {"none", "noop", "updater", "full"}]
    /\ updater \in [Agents -> {"none", "running", "cancelled", "stopped"}]
    /\ exporter \in [Agents -> {"none", "open", "closed"}]
    /\ meters \in [Agents -> {"none", "running", "stopped"}]
    /\ tracer \in [Agents -> {"none", "running", "stopped"}]

\* An agent between the moment it publishes its oboe and the end of its shutdown.
Busy(a) == pc[a] \in StartSteps \cup StopSteps \/ Up(a)

\* There is one such agent at most, and until its shutdown its oboe is the global one.
OneAgent == \A a, b \in Agents : Busy(a) /\ Busy(b) => a = b
Published == \A a \in Agents : (pc[a] \in StartSteps \/ Up(a)) => globalOboe = a

\* What runs at each point of Start and of the shutdown, and which function is
\* returned for it.
Parts(a) ==
    /\ pc[a] \in {"new", "updater"} => updater[a] = "none"
    /\ pc[a] \in {"new"} \cup StartSteps => tracer[a] = "none" /\ shutdown[a] = "none"
    /\ pc[a] \in {"returned", "down"} /\ shutdown[a] # "full" => tracer[a] = "none"
    /\ pc[a] \in {"returned", "down"} /\ shutdown[a] = "noop" => updater[a] = "none"
    /\ pc[a] \in {"returned", "down"} => shutdown[a] # "none"
    /\ pc[a] \in StopSteps => shutdown[a] = "full"
    /\ pc[a] \in {"stopMetrics", "stopTracer", "down"} => updater[a] # "running"
    /\ pc[a] = "stopTracer" => meters[a] # "running"
    /\ pc[a] = "down" /\ shutdown[a] = "full" =>
         meters[a] # "running" /\ tracer[a] # "running" /\ exporter[a] # "open"
    /\ pc[a] \in {"new", "updater", "exporter"} => exporter[a] = "none"
    /\ pc[a] \in {"metrics", "sampler"} => exporter[a] = "open"
    /\ pc[a] \in {"new", "updater", "exporter", "metrics"} => meters[a] = "none"
    /\ pc[a] \in {"returned", "down"} /\ shutdown[a] # "full" =>
         /\ meters[a] = "running" => exporter[a] = "open"
         /\ exporter[a] = "open" => shutdown[a] = "updater"
AllParts == \A a \in Agents : Parts(a)

IInv == LifeTypes /\ OneAgent /\ Published /\ AllParts

\* WaitForReady, time and the process's end leave the agents alone.
lifeVars == <<globalOboe, pc, shutdown, updater, exporter, meters, tracer>>

\* Nothing runs initially.
LEMMA InitIInv == Init => IInv
  BY DEF Init, IInv, LifeTypes, PcValues, OneAgent, Published, AllParts, Parts, Busy, Up,
         StartSteps, StopSteps

\* The invariant is about lifeVars only.
LEMMA StutterIInv == IInv /\ UNCHANGED lifeVars => IInv'
  BY DEF IInv, LifeTypes, OneAgent, Published, AllParts, Parts, Busy, Up, lifeVars

\* A step of Start keeps the invariant: it begins only when no agent is busy.
LEMMA StartIInv ==
    ASSUME IInv, NEW a \in Agents, StartNext(a)
    PROVE  IInv'
  <1> USE DEF PcValues, StartSteps, StopSteps, LifeTypes, Return
  <1>1. CASE StartNothing(a)
    BY <1>1 DEF IInv, StartNothing, MayStart, OneAgent, Published, AllParts, Parts, Busy, Up
  <1>2. CASE StartOboe(a)
    <2>1. \A b \in Agents \ {a} : ~ Busy(b)
      BY <1>2 DEF IInv, StartOboe, MayStart, Busy, Up
    <2>2. \A b \in Agents \ {a} : ~ Busy(b)'
      BY <1>2, <2>1 DEF IInv, StartOboe, Busy, Up
    <2>3. LifeTypes'
      BY <1>2 DEF IInv, StartOboe
    <2>4. OneAgent' /\ Published'
      BY <1>2, <2>2, <2>3 DEF OneAgent, Published, StartOboe, Busy
    <2>5. AllParts'
      BY <1>2 DEF IInv, StartOboe, MayStart, AllParts, Parts
    <2> QED BY <2>3, <2>4, <2>5 DEF IInv
  <1>3. CASE StartUpdater(a)
    BY <1>3 DEF IInv, StartUpdater, OneAgent, Published, AllParts, Parts, Busy, Up
  <1>4. CASE StartExporter(a)
    BY <1>4 DEF IInv, StartExporter, OneAgent, Published, AllParts, Parts, Busy, Up
  <1>5. CASE StartMetrics(a)
    BY <1>5 DEF IInv, StartMetrics, OneAgent, Published, AllParts, Parts, Busy, Up
  <1>6. CASE StartTracer(a)
    BY <1>6 DEF IInv, StartTracer, OneAgent, Published, AllParts, Parts, Busy, Up
  <1> QED BY <1>1, <1>2, <1>3, <1>4, <1>5, <1>6 DEF StartNext

\* A step of a returned function keeps it: the global oboe is cleared only by the
\* agent that it belongs to, since no other is busy.
LEMMA StopIInv ==
    ASSUME IInv, NEW a \in Agents, StopNext(a)
    PROVE  IInv'
  <1> USE DEF PcValues, StartSteps, StopSteps, LifeTypes, StopUpdaterOf
  <1>1. CASE CallOfFailed(a)
    BY <1>1 DEF IInv, CallOfFailed, OneAgent, Published, AllParts, Parts, Busy, Up
  <1>2. CASE CallShutdown(a)
    <2>1. Busy(a) /\ \A b \in Agents \ {a} : ~ Busy(b)
      BY <1>2 DEF IInv, CallShutdown, OneAgent, Busy
    <2>2. LifeTypes' /\ OneAgent' /\ Published'
      BY <1>2, <2>1 DEF IInv, CallShutdown, OneAgent, Published, Busy, Up
    <2>3. AllParts'
      BY <1>2 DEF IInv, CallShutdown, AllParts, Parts, Up
    <2> QED BY <2>2, <2>3 DEF IInv
  <1>3. CASE StopUpdater(a)
    BY <1>3 DEF IInv, StopUpdater, OneAgent, Published, AllParts, Parts, Busy, Up
  <1>4. CASE StopMetrics(a)
    BY <1>4 DEF IInv, StopMetrics, OneAgent, Published, AllParts, Parts, Busy, Up
  <1>5. CASE StopTracer(a)
    BY <1>5 DEF IInv, StopTracer, OneAgent, Published, AllParts, Parts, Busy, Up
  <1> QED BY <1>1, <1>2, <1>3, <1>4, <1>5 DEF StopNext

\* An updater never comes back to life.
LEMMA UpdaterIInv ==
    ASSUME IInv, NEW a \in Agents, UpdaterNext(a)
    PROVE  IInv'
  <1> USE DEF LifeTypes, StopUpdaterOf, lifeVars, lifecycle
  <1>1. CASE UpdateSetting(a) \/ ExpireSetting(a)
    BY <1>1, StutterIInv DEF UpdateSetting, ExpireSetting
  <1>2. CASE UpdaterCancelled(a)
    BY <1>2 DEF IInv, UpdaterCancelled, OneAgent, Published, AllParts, Parts, Busy, Up
  <1>3. CASE UpdaterEnds(a)
    BY <1>3 DEF IInv, UpdaterEnds, OneAgent, Published, AllParts, Parts, Busy, Up
  <1> QED BY <1>1, <1>2, <1>3 DEF UpdaterNext

\* The invariant is inductive.
LEMMA NextIInv == IInv /\ [Next]_vars => IInv'
  <1> SUFFICES ASSUME IInv, [Next]_vars PROVE IInv'
    OBVIOUS
  <1>1. CASE \E a \in Agents : StartNext(a) \/ StopNext(a) \/ UpdaterNext(a)
    BY <1>1, StartIInv, StopIInv, UpdaterIInv
  <1>2. CASE \E w \in Waiters : WaitNext(w)
    <2>1. UNCHANGED lifeVars
      BY <1>2 DEF WaitNext, WaitCall, WaitCheck, WaitDone, WaitTick, Time, Cancel, WaitReturn,
                  WaitOnly, lifecycle, lifeVars
    <2> QED BY <2>1, StutterIInv
  <1>3. CASE UNCHANGED vars
    BY <1>3, StutterIInv DEF vars, lifeVars
  <1> QED BY <1>1, <1>2, <1>3 DEF Next

\* IInv holds in every state of every behaviour of the agent.
LEMMA InvariantIInv == Spec => []IInv
  BY InitIInv, NextIInv, PTL DEF Spec

\* While an agent is up WaitForReady finds its oboe: neither a Start that failed
\* before nor the late call of its function disturbs it.
THEOREM AgentIsFound == Spec => []UpIsGlobal
  <1>1. IInv => UpIsGlobal
    BY DEF IInv, Published, UpIsGlobal
  <1> QED BY <1>1, InvariantIInv, PTL

\* Whatever function Start has returned, once it has been called no updater and no
\* tracer provider is left running, for an agent that was up no meter provider or
\* span exporter either, and for one that failed only what ConfigureAndStart left.
THEOREM NothingLeftRunning == Spec => []ShutdownIsComplete
  <1>1. IInv => ShutdownIsComplete
    BY DEF IInv, LifeTypes, AllParts, Parts, ShutdownIsComplete
  <1> QED BY <1>1, InvariantIInv, PTL

-----------------------------------------------------------------------------
(* WaitForReady.                                                           *)

WaitRecords == [pc : {"idle", "check", "select", "done"}, o : Agents \cup {Nil}, left : Nat,
                ticked : BOOLEAN, result : BOOLEAN]

\* A call that polls has found an oboe.
WaitInv ==
    /\ enabled \in BOOLEAN /\ settings \in [Agents -> BOOLEAN]
    /\ globalOboe \in Agents \cup {Nil}
    /\ wait \in [Waiters -> WaitRecords]
    /\ \A w \in Waiters : Polling(w) => wait[w].o \in Agents

\* Nobody waits initially.
LEMMA InitWaitInv == Init => WaitInv
  BY DEF Init, WaitInv, WaitRecords, Polling, Idle

\* The agents never touch the calls of WaitForReady.
LEMMA LifeWaitInv ==
    ASSUME WaitInv, NEW a \in Agents, StartNext(a) \/ StopNext(a) \/ UpdaterNext(a)
    PROVE  WaitInv' /\ wait' = wait
  <1>1. /\ wait' = wait /\ enabled' = enabled /\ globalOboe' \in {globalOboe, a, Nil}
        /\ settings' = settings \/ \E b \in BOOLEAN : settings' = [settings EXCEPT ![a] = b]
    BY DEF StartNext, StartNothing, StartOboe, StartUpdater, StartExporter, StartMetrics, StartTracer,
           StopNext, CallOfFailed, CallShutdown, StopUpdater, StopMetrics, StopTracer,
           UpdaterNext, UpdateSetting, ExpireSetting, UpdaterCancelled, UpdaterEnds, lifecycle
  <1> QED BY <1>1 DEF WaitInv, Polling

\* What the step of WaitIsTruthful says of one call.
TrueAnswer(w) ==
    (wait[w].pc # "done" /\ wait'[w].pc = "done") =>
        IF wait'[w].result THEN enabled => settings[wait[w].o]
        ELSE \A a \in Agents : Up(a) => wait[w].o # Nil /\ wait[w].left = 0

\* A step of a call keeps the invariant and, if it is the last, tells the truth.
LEMMA CallWaitInv ==
    ASSUME IInv, WaitInv, NEW w \in Waiters, WaitNext(w)
    PROVE  WaitInv' /\ TrueAnswer(w) /\ \A v \in Waiters \ {w} : wait'[v] = wait[v]
  <1> USE DEF WaitInv, WaitRecords, Polling
  <1>1. /\ UNCHANGED <<enabled, settings, globalOboe>>
        /\ wait[w] \in WaitRecords /\ DOMAIN wait = Waiters
    BY DEF WaitNext, WaitCall, WaitCheck, WaitDone, WaitTick, Time, Cancel, WaitReturn, WaitOnly, lifecycle
  <1>2. \A a \in Agents : Up(a) => globalOboe = a
    BY DEF IInv, Published
  <1>3. ASSUME NEW d \in Deadlines, WaitCall(w, d)
        PROVE  WaitInv' /\ TrueAnswer(w) /\ \A v \in Waiters \ {w} : wait'[v] = wait[v]
    <2>1. CASE ~ enabled /\ Answered(w, TRUE)
      BY <1>1, <2>1 DEF Answered, TrueAnswer
    <2>2. CASE globalOboe = Nil /\ Answered(w, FALSE)
      BY <1>1, <1>2, <2>2, NilAssumption DEF Answered, TrueAnswer
    <2>3. CASE /\ globalOboe # Nil
               /\ wait' = [wait EXCEPT ![w] = [Idle EXCEPT !.pc = "check", !.o = globalOboe,
                                                           !.left = Deadline(d)]]
      <3>1. Deadline(d) \in Nat /\ globalOboe \in Agents
        BY <1>3, <2>3, TimeoutAssumption DEF Deadlines, Deadline, None
      <3> QED BY <1>1, <2>3, <3>1 DEF Idle, TrueAnswer
    <2> QED BY <1>3, <2>1, <2>2, <2>3 DEF WaitCall
  <1>4. CASE WaitCheck(w)
    <2>1. CASE settings[wait[w].o] /\ Answered(w, TRUE)
      BY <1>1, <2>1 DEF Answered, TrueAnswer
    <2>2. CASE wait' = [wait EXCEPT ![w].pc = "select"]
      BY <1>1, <1>4, <2>2 DEF TrueAnswer, WaitCheck
    <2> QED BY <1>4, <2>1, <2>2 DEF WaitCheck
  <1>5. CASE WaitDone(w)
    BY <1>1, <1>5, NilAssumption DEF WaitDone, Answered, TrueAnswer
  <1>6. CASE WaitTick(w)
    BY <1>1, <1>6 DEF WaitTick, TrueAnswer
  <1>7. CASE Time(w)
    <2>1. \A n \in Nat : (IF n \in {0, None} THEN n ELSE n - 1) \in Nat
      BY TimeoutAssumption DEF None
    <2> QED BY <1>1, <1>7, <2>1 DEF Time, TrueAnswer
  <1>8. CASE Cancel(w)
    BY <1>1, <1>8 DEF Cancel, TrueAnswer
  <1>9. CASE WaitReturn(w)
    BY <1>1, <1>9 DEF WaitReturn, TrueAnswer, Idle
  <1> QED BY <1>3, <1>4, <1>5, <1>6, <1>7, <1>8, <1>9 DEF WaitNext

\* Every step keeps it, and no call is answered with less than the truth.
LEMMA WaitStep ==
    IInv /\ WaitInv /\ [Next]_vars => WaitInv' /\ \A w \in Waiters : TrueAnswer(w)
  <1> SUFFICES ASSUME IInv, WaitInv, [Next]_vars
               PROVE  WaitInv' /\ \A w \in Waiters : TrueAnswer(w)
    OBVIOUS
  <1>1. CASE \E a \in Agents : StartNext(a) \/ StopNext(a) \/ UpdaterNext(a)
    BY <1>1, LifeWaitInv DEF TrueAnswer
  <1>2. CASE \E w \in Waiters : WaitNext(w)
    <2>1. PICK w \in Waiters : WaitNext(w)
      BY <1>2
    <2>2. WaitInv' /\ TrueAnswer(w) /\ \A v \in Waiters \ {w} : wait'[v] = wait[v]
      BY <2>1, CallWaitInv
    <2> QED BY <2>2 DEF TrueAnswer
  <1>3. CASE UNCHANGED vars
    BY <1>3 DEF vars, WaitInv, Polling, TrueAnswer
  <1> QED BY <1>1, <1>2, <1>3 DEF Next

\* WaitForReady never says yes without settings, and never says no to a running agent
\* before its deadline, for any number of calls that overlap with any number of Starts.
THEOREM WaitersHearTheTruth == Spec => WaitIsTruthful
  <1>1. IInv /\ WaitInv /\ [Next]_vars => WaitInv' /\ \A w \in Waiters : TrueAnswer(w)
    BY WaitStep
  <1>2. IInv /\ WaitInv /\ [Next]_vars =>
          [\A w \in Waiters :
             (wait[w].pc # "done" /\ wait'[w].pc = "done") =>
                 IF wait'[w].result
                 THEN enabled => settings[wait[w].o]
                 ELSE \A a \in Agents : Up(a) => wait[w].o # Nil /\ wait[w].left = 0]_vars
    BY <1>1 DEF TrueAnswer
  <1> QED BY <1>1, <1>2, InvariantIInv, InitWaitInv, PTL DEF Spec, WaitIsTruthful

-----------------------------------------------------------------------------
(* The updaters.                                                           *)

\* A step of an agent is to its own updater one of UpdaterLife's, or nothing.
LEMMA OwnLife ==
    ASSUME IInv, WaitInv, NEW a \in Agents, StartNext(a) \/ StopNext(a) \/ UpdaterNext(a)
    PROVE  [Life(a)!Next]_(Life(a)!vars)
  <1>0. /\ updater \in [Agents -> {"none", "running", "cancelled", "stopped"}]
        /\ settings \in [Agents -> BOOLEAN]
    BY DEF IInv, LifeTypes, WaitInv
  <1>1. CASE UNCHANGED <<updater, settings>>
    BY <1>1 DEF Life!vars
  <1>2. CASE StartUpdater(a)
    <2>1. updater[a] = "none"
      BY <1>2 DEF StartUpdater, IInv, AllParts, Parts
    <2> QED BY <1>0, <1>2, <2>1 DEF StartUpdater, Life!Next, Life!Start, Life!vars
  <1>3. CASE updater' = StopUpdaterOf(a) /\ UNCHANGED settings
    BY <1>0, <1>3 DEF StopUpdaterOf, Life!Next, Life!Cancel, Life!vars
  <1>4. CASE UpdateSetting(a)
    BY <1>0, <1>4 DEF UpdateSetting, lifecycle, Life!Next, Life!UpdateSetting, Life!Alive
  <1>5. CASE ExpireSetting(a)
    BY <1>0, <1>5 DEF ExpireSetting, lifecycle, Life!Next, Life!CheckSettingsTimeout, Life!Alive
  <1>6. CASE UpdaterEnds(a)
    BY <1>0, <1>6 DEF UpdaterEnds, Life!Next, Life!End
  <1> QED BY <1>1, <1>2, <1>3, <1>4, <1>5, <1>6
          DEF StartNext, StartNothing, StartOboe, StartExporter, StartMetrics, StartTracer,
              StopNext, CallOfFailed, CallShutdown, StopUpdater, StopMetrics, StopTracer,
              UpdaterNext, UpdaterCancelled

\* A step of another agent is nothing to it.
LEMMA OthersLife ==
    ASSUME IInv, WaitInv, NEW a \in Agents, NEW b \in Agents \ {a},
           StartNext(b) \/ StopNext(b) \/ UpdaterNext(b)
    PROVE  UNCHANGED Life(a)!vars
  <1>1. updater'[a] = updater[a] /\ settings'[a] = settings[a]
    BY DEF IInv, LifeTypes, WaitInv, StopUpdaterOf, lifecycle,
           StartNext, StartNothing, StartOboe, StartUpdater, StartExporter, StartMetrics, StartTracer,
           StopNext, CallOfFailed, CallShutdown, StopUpdater, StopMetrics, StopTracer,
           UpdaterNext, UpdateSetting, ExpireSetting, UpdaterCancelled, UpdaterEnds
  <1> QED BY <1>1 DEF Life!vars

\* The model of the agent assumes no more of any updater than the updater's own
\* model provides: it starts each once, ends none that is not cancelled, and sees
\* settings come and go only while it lives, whatever the other agents do.
THEOREM UpdatersAssumed ==
    ASSUME NEW a \in Agents
    PROVE  Spec => Life(a)!Spec
  <1>1. Init => Life(a)!Init
    BY DEF Init, Life!Init
  <1>2. IInv /\ WaitInv /\ [Next]_vars => [Life(a)!Next]_(Life(a)!vars)
    <2> SUFFICES ASSUME IInv, WaitInv, [Next]_vars
                 PROVE  [Life(a)!Next]_(Life(a)!vars)
      OBVIOUS
    <2>1. ASSUME NEW b \in Agents, StartNext(b) \/ StopNext(b) \/ UpdaterNext(b)
          PROVE  [Life(a)!Next]_(Life(a)!vars)
      BY <2>1, OwnLife, OthersLife
    <2>2. CASE UNCHANGED <<updater, settings>>
      BY <2>2 DEF Life!vars
    <2> QED BY <2>1, <2>2 DEF Next, WaitNext, WaitCall, WaitCheck, WaitDone, WaitTick, Time, Cancel,
                              WaitReturn, WaitOnly, lifecycle, vars
  <1>3. IInv /\ WaitInv /\ [Next]_vars => WaitInv'
    BY WaitStep
  <1> QED BY <1>1, <1>2, <1>3, InvariantIInv, InitWaitInv, PTL DEF Spec, Life!Spec
=============================================================================
