----------------------- MODULE SettingsUpdaterProofs ------------------------
(***************************************************************************)
(* Proofs about the HTTP settings updater, for any intervals, timeout, set *)
(* of ttls and number of fetch goroutines.                                 *)
(***************************************************************************)
EXTENDS SettingsUpdater, TLAPS, FiniteSetTheorems

Objects == [age : Nat, ttl : Ttls]

Fetches ==
    {Idle} \cup [pc : {"request"}, elapsed : 0..HttpTimeout] \cup [pc : {"build"}, ttl : Ttls]
      \cup [pc : {"store"}, new : Objects] \cup [pc : {"release"}, valid : BOOLEAN] \cup [pc : {"cancel"}]

Checks ==
    {Idle} \cup [pc : {"load", "release"}] \cup [pc : {"judge"}, seen : Objects]

\* The types.
Types ==
    /\ loop \in {"running", "exited"}
    /\ ctxDone \in BOOLEAN /\ failed \in BOOLEAN /\ late \in BOOLEAN
    /\ updateTimer \in 0..UpdateInterval /\ ttlTimer \in 0..TtlCheckInterval
    /\ updateReady \in {0, 1} /\ ttlReady \in {0, 1}
    /\ fetch \in [Fetchers -> Fetches]
    /\ check \in Checks
    /\ settings \in Objects \cup {Nil}

Holding(f) == fetch[f].pc \in {"request", "build", "store", "release"}

\* Each semaphore is free, or one goroutine holds it.
Semaphores ==
    /\ \A f, g \in Fetchers : Holding(f) /\ Holding(g) => f = g
    /\ updateReady = 1 <=> \A f \in Fetchers : ~ Holding(f)
    /\ ttlReady = 1 <=> check = Idle

IInv == Types /\ Semaphores

-----------------------------------------------------------------------------
(* The semaphores.                                                         *)

\* The record that stands for a nil pointer is no settings object.
LEMMA NilIsNoObject == Nil \notin Objects
  BY IntervalAssumption DEF Nil, Objects

\* The fields of an object are numbers.
LEMMA ObjectFields == \A s \in Objects : s.age \in Nat /\ s.ttl \in Nat
  <1>1. \A s \in Objects : s.age \in Nat /\ s.ttl \in Ttls
    BY DEF Objects
  <1> QED BY <1>1, IntervalAssumption

\* An object that grows older stays one, with its ttl.
LEMMA OlderObject ==
    \A s \in Objects : /\ Older(s) \in Objects /\ Older(s).ttl = s.ttl
                       /\ Older(s).age =< s.age + 1
  BY NilIsNoObject, IntervalAssumption DEF Objects, Older, MaxAge

\* Nothing runs initially.
LEMMA InitIInv == Init => IInv
  <1> SUFFICES ASSUME Init PROVE IInv
    OBVIOUS
  <1>1. Types
    <2>1. fetch \in [Fetchers -> Fetches]
      BY DEF Init, Fetches
    <2>2. updateTimer \in 0..UpdateInterval /\ ttlTimer \in 0..TtlCheckInterval
      BY IntervalAssumption DEF Init
    <2> QED BY <2>1, <2>2 DEF Init, Types, Checks
  <1>2. \A f \in Fetchers : ~ Holding(f)
    BY DEF Init, Holding, Idle
  <1>3. Semaphores
    BY <1>2 DEF Init, Semaphores
  <1> QED BY <1>1, <1>3 DEF IInv

\* The invariant is inductive.
LEMMA NextIInv == IInv /\ [Next]_vars => IInv'
  <1> SUFFICES ASSUME IInv, [Next]_vars PROVE IInv'
    OBVIOUS
  <1> USE IntervalAssumption DEF IInv
  <1>1. CASE LoopExit
    BY <1>1 DEF LoopExit, Types, Semaphores, Holding
  <1>2. CASE LoopUpdate
    <2>1. Types'
      BY <1>2 DEF LoopUpdate, Types, Fetches
    <2>2. Semaphores'
      BY <1>2 DEF LoopUpdate, Types, Semaphores, Holding, Idle
    <2> QED BY <2>1, <2>2
  <1>3. CASE LoopTtl
    <2>1. Types'
      BY <1>3 DEF LoopTtl, Types, Checks
    <2>2. Semaphores'
      BY <1>3 DEF LoopTtl, Types, Semaphores, Holding, Idle
    <2> QED BY <2>1, <2>2
  <1>4. ASSUME NEW f \in Fetchers, NEW a \in {"ok", "error", "invalidKey"}, Answer(f, a)
        PROVE  IInv'
    <2>1. fetch' \in [Fetchers -> Fetches] /\ failed' \in BOOLEAN
      <3>1. CASE a = "ok"
        BY <1>4, <3>1 DEF Answer, Types, Fetches
      <3>2. CASE a # "ok"
        <4>1. [pc |-> "release", valid |-> a # "invalidKey"] \in [pc : {"release"}, valid : BOOLEAN]
          BY Zenon
        <4>2. [pc |-> "release", valid |-> a # "invalidKey"] \in Fetches
          BY <4>1 DEF Fetches
        <4> QED BY <1>4, <3>2, <4>2, Zenon DEF Answer, Types
      <3> QED BY <3>1, <3>2
    <2>2. Types'
      BY <1>4, <2>1 DEF Answer, Types, loopVars
    <2>3. Semaphores'
      BY <1>4 DEF Answer, Types, Semaphores, Holding, loopVars
    <2> QED BY <2>2, <2>3
  <1>5. ASSUME NEW f \in Fetchers, BuildSetting(f)
        PROVE  IInv'
    <2>1. fetch[f].ttl \in Ttls
      BY <1>5 DEF BuildSetting, Types, Fetches, Idle
    <2>2. Types'
      BY <1>5, <2>1 DEF BuildSetting, Types, Fetches, Objects, loopVars
    <2>3. Semaphores'
      BY <1>5 DEF BuildSetting, Types, Semaphores, Holding, loopVars
    <2> QED BY <2>2, <2>3
  <1>6. ASSUME NEW f \in Fetchers, StoreSetting(f)
        PROVE  IInv'
    <2>1. fetch[f].new \in Objects
      BY <1>6 DEF StoreSetting, Types, Fetches, Idle
    <2>2. Types'
      BY <1>6, <2>1 DEF StoreSetting, Types, Fetches, loopVars
    <2>3. Semaphores'
      BY <1>6 DEF StoreSetting, Types, Semaphores, Holding, loopVars
    <2> QED BY <2>2, <2>3
  <1>7. ASSUME NEW f \in Fetchers, ReleaseUpdate(f)
        PROVE  IInv'
    <2>1. Types'
      BY <1>7 DEF ReleaseUpdate, Types, Fetches, loopVars
    <2>2. Semaphores'
      BY <1>7 DEF ReleaseUpdate, Types, Semaphores, Holding, loopVars, Idle
    <2> QED BY <2>1, <2>2
  <1>8. ASSUME NEW f \in Fetchers, CancelOnInvalidKey(f)
        PROVE  IInv'
    <2>1. Types'
      BY <1>8 DEF CancelOnInvalidKey, Types, Fetches, loopVars
    <2>2. Semaphores'
      BY <1>8 DEF CancelOnInvalidKey, Types, Semaphores, Holding, loopVars, Idle
    <2> QED BY <2>1, <2>2
  <1>9. CASE TtlLoad
    <2>1. Types'
      BY <1>9 DEF TtlLoad, Types, Checks, loopVars
    <2>2. Semaphores'
      BY <1>9 DEF TtlLoad, Types, Semaphores, Holding, loopVars, Idle
    <2> QED BY <2>1, <2>2
  <1>10. CASE TtlJudge
    <2>1. Types'
      BY <1>10 DEF TtlJudge, Types, Checks, loopVars
    <2>2. Semaphores'
      BY <1>10 DEF TtlJudge, Types, Semaphores, Holding, loopVars, Idle
    <2> QED BY <2>1, <2>2
  <1>11. CASE ReleaseTtl
    BY <1>11 DEF ReleaseTtl, Types, Semaphores, Holding, Checks, loopVars, Idle
  <1>12. CASE Stop
    BY <1>12 DEF Stop, Types, Semaphores, Holding, loopVars
  <1>13. CASE Tick
    <2>1. fetch' \in [Fetchers -> Fetches] /\ \A f \in Fetchers : fetch'[f].pc = fetch[f].pc
      <3>1. ASSUME NEW f \in Fetchers
            PROVE  fetch'[f] \in Fetches /\ fetch'[f].pc = fetch[f].pc
        <4>1. fetch[f] \in Fetches
          BY DEF Types
        <4>2. CASE fetch[f].pc = "request"
          <5>1. fetch[f] \in [pc : {"request"}, elapsed : 0..HttpTimeout] /\ fetch[f].elapsed < HttpTimeout
            BY <1>13, <4>1, <4>2 DEF Tick, Requesting, Fetches, Idle
          <5> QED BY <1>13, <4>2, <5>1 DEF Tick, Fetches
        <4>3. CASE fetch[f].pc = "store"
          <5>1. fetch[f] \in [pc : {"store"}, new : Objects]
            BY <4>1, <4>3 DEF Fetches, Idle
          <5> QED BY <1>13, <4>3, <5>1, OlderObject DEF Tick, Fetches
        <4>4. CASE fetch[f].pc \notin {"request", "store"}
          BY <1>13, <4>1, <4>4 DEF Tick
        <4> QED BY <4>2, <4>3, <4>4
      <3> QED BY <1>13, <3>1 DEF Tick
    <2>2. check' \in Checks /\ (check' = Idle <=> check = Idle)
      BY <1>13, OlderObject DEF Tick, Types, Checks, Idle
    <2>3. settings' \in Objects \cup {Nil}
      BY <1>13, OlderObject DEF Tick, Types, Older
    <2>4. Types'
      BY <1>13, <2>1, <2>2, <2>3 DEF Tick, Types, LoopReady
    <2>5. Semaphores'
      BY <1>13, <2>1, <2>2 DEF Tick, Types, Semaphores, Holding
    <2> QED BY <2>4, <2>5
  <1>14. CASE UNCHANGED vars
    BY <1>14 DEF vars, Types, Semaphores, Holding
  <1> QED BY <1>1, <1>2, <1>3, <1>4, <1>5, <1>6, <1>7, <1>8, <1>9, <1>10, <1>11, <1>12, <1>13, <1>14
          DEF Next, LoopStep, FetchStep, CheckStep

\* IInv holds in every state of every behaviour of the updater.
LEMMA InvariantIInv == Spec => []IInv
  BY InitIInv, NextIInv, PTL DEF Spec

\* At every moment each semaphore is free or exactly one goroutine holds it, so
\* no deferred send blocks and no slot is lost, on whichever error path.
THEOREM SlotsConserved == Spec => []SemaphoresConserved
  <1>1. ASSUME IInv PROVE SemaphoresConserved
    <2>1. updateReady + Cardinality(Fetching) = 1
      <3>1. Fetching = {f \in Fetchers : Holding(f)}
        BY DEF Fetching, Holding
      <3>2. CASE updateReady = 1
        <4>1. Fetching = {}
          BY <1>1, <3>1, <3>2 DEF IInv, Semaphores
        <4> QED BY <3>2, <4>1, FS_EmptySet
      <3>3. CASE updateReady = 0
        <4>1. PICK f \in Fetchers : Holding(f)
          BY <1>1, <3>3 DEF IInv, Semaphores
        <4>2. Fetching = {f}
          BY <1>1, <3>1, <4>1 DEF IInv, Semaphores
        <4> QED BY <3>3, <4>2, FS_Singleton
      <3> QED BY <1>1, <3>2, <3>3 DEF IInv, Types
    <2>2. ttlReady + (IF check = Idle THEN 0 ELSE 1) = 1
      BY <1>1 DEF IInv, Types, Semaphores
    <2> QED BY <2>1, <2>2 DEF SemaphoresConserved
  <1> QED BY <1>1, InvariantIInv, PTL
-----------------------------------------------------------------------------
(* The settings' age.                                                      *)

\* As long as no goroutine is kept waiting, an object is stored when it is new; and
\* while the loop runs, the settings have outlived their ttl by no more than the
\* time since the last TTL check, whichever step of a check is next.
Fresh ==
    ~ late =>
      /\ \A f \in Fetchers : fetch[f].pc = "store" => fetch[f].new.age = 0
      /\ (loop = "running" /\ ~ ctxDone) =>
           /\ check # Idle => ttlTimer = TtlCheckInterval
           /\ settings # Nil =>
                /\ check = Idle => settings.age =< settings.ttl + TtlCheckInterval - ttlTimer
                /\ check.pc \in {"load", "judge"} => settings.age =< settings.ttl + TtlCheckInterval
                /\ check.pc = "judge" => settings = check.seen \/ settings.age =< settings.ttl
                /\ check.pc = "release" => settings.age =< settings.ttl

\* What the passing of time does: it changes no program counter, a request that
\* may go on has waited one tick longer, the settings keep their ttl and grow older
\* by at most one tick; and if no goroutine was kept waiting, none could go on.
LEMMA TickAges ==
    ASSUME IInv, Tick
    PROVE  /\ \A f \in Fetchers :
                /\ fetch'[f].pc = fetch[f].pc
                /\ fetch[f].pc = "request" => /\ fetch[f].elapsed \in 0..HttpTimeout
                                              /\ fetch'[f].elapsed = fetch[f].elapsed + 1
           /\ settings' # Nil <=> settings # Nil
           /\ settings # Nil => /\ settings \in Objects /\ settings' \in Objects
                                /\ settings'.ttl = settings.ttl
                                /\ settings'.age =< settings.age + 1
           /\ ~ late' => /\ ~ late /\ ~ LoopReady /\ check = Idle /\ check' = Idle
                         /\ \A f \in Fetchers : fetch[f].pc \in {"idle", "request"}
  <1>1. ASSUME NEW f \in Fetchers
        PROVE  /\ fetch'[f].pc = fetch[f].pc
               /\ fetch[f].pc = "request" => /\ fetch[f].elapsed \in 0..HttpTimeout
                                             /\ fetch'[f].elapsed = fetch[f].elapsed + 1
    <2>1. fetch[f] \in Fetches
      BY DEF IInv, Types
    <2>2. CASE fetch[f].pc = "request"
      <3>1. fetch[f] \in [pc : {"request"}, elapsed : 0..HttpTimeout]
        BY <2>1, <2>2 DEF Fetches, Idle
      <3> QED BY <2>2, <3>1 DEF Tick
    <2>3. CASE fetch[f].pc = "store"
      <3>1. fetch[f] \in [pc : {"store"}, new : Objects]
        BY <2>1, <2>3 DEF Fetches, Idle
      <3> QED BY <2>3, <3>1 DEF Tick
    <2>4. CASE fetch[f].pc \notin {"request", "store"}
      BY <2>4 DEF Tick
    <2> QED BY <2>2, <2>3, <2>4
  <1>2. settings # Nil => /\ settings \in Objects /\ settings' \in Objects
                          /\ settings'.ttl = settings.ttl
                          /\ settings'.age =< settings.age + 1
    BY OlderObject DEF IInv, Types, Tick
  <1>3. settings' # Nil <=> settings # Nil
    BY <1>2, NilIsNoObject DEF Tick, Older
  <1>4. ASSUME ~ late'
        PROVE  /\ ~ late /\ ~ LoopReady /\ check = Idle /\ check' = Idle
               /\ \A f \in Fetchers : fetch[f].pc \in {"idle", "request"}
    <2>1. ~ late /\ ~ LoopReady /\ check = Idle /\ Working = {}
      BY <1>4 DEF Tick
    <2>2. check' = Idle
      BY <2>1 DEF Tick, Idle
    <2> QED BY <2>1, <2>2 DEF Working
  <1> QED BY <1>1, <1>2, <1>3, <1>4

\* No step but the passing of time makes a goroutine late.
LEMMA FreshInductive == IInv /\ IInv' /\ Fresh /\ [Next]_vars => Fresh'
  <1> SUFFICES ASSUME IInv, IInv', Fresh, [Next]_vars, ~ late' PROVE Fresh'
    BY DEF Fresh
  <1> USE IntervalAssumption
  <1>1. CASE LoopExit
    BY <1>1 DEF LoopExit, Fresh
  <1>2. CASE LoopUpdate
    BY <1>2 DEF LoopUpdate, Fresh, IInv, Types
  <1>3. CASE LoopTtl
    <2>1. CASE ttlReady = 1
      BY <1>3, <2>1 DEF LoopTtl, Fresh, IInv, Types, Semaphores, Idle
    <2>2. CASE ttlReady = 0
      <3>1. ~ (loop = "running" /\ ~ ctxDone)
        BY <1>3, <2>2 DEF LoopTtl, Fresh, IInv, Types, Semaphores
      <3> QED BY <1>3, <2>2, <3>1 DEF LoopTtl, Fresh
    <2> QED BY <2>1, <2>2 DEF IInv, Types
  <1>4. ASSUME NEW f \in Fetchers, NEW a \in {"ok", "error", "invalidKey"}, Answer(f, a)
        PROVE  Fresh'
    BY <1>4 DEF Answer, Fresh, IInv, Types, loopVars
  <1>5. ASSUME NEW f \in Fetchers, BuildSetting(f)
        PROVE  Fresh'
    BY <1>5 DEF BuildSetting, Fresh, IInv, Types, loopVars
  <1>6. ASSUME NEW f \in Fetchers, StoreSetting(f)
        PROVE  Fresh'
    <2>1. fetch[f].new \in Objects /\ fetch[f].new.age = 0
      BY <1>6 DEF StoreSetting, IInv, Types, Fresh, Fetches, Idle
    <2>2. settings'.age = 0 /\ settings'.ttl \in Nat
      BY <1>6, <2>1 DEF StoreSetting, Objects
    <2>3. \A g \in Fetchers : fetch'[g].pc = "store" => fetch'[g].new.age = 0
      BY <1>6 DEF StoreSetting, Fresh, IInv, Types
    <2> QED BY <1>6, <2>2, <2>3 DEF StoreSetting, Fresh, IInv, Types, loopVars
  <1>7. ASSUME NEW f \in Fetchers, ReleaseUpdate(f)
        PROVE  Fresh'
    BY <1>7 DEF ReleaseUpdate, Fresh, IInv, Types, loopVars, Idle
  <1>8. ASSUME NEW f \in Fetchers, CancelOnInvalidKey(f)
        PROVE  Fresh'
    BY <1>8 DEF CancelOnInvalidKey, Fresh, IInv, Types, loopVars, Idle
  <1>9. CASE TtlLoad
    <2>1. check.pc = "load" /\ check # Idle
      BY <1>9 DEF TtlLoad, Idle
    <2> QED BY <1>9, <2>1 DEF TtlLoad, Fresh, loopVars, Idle
  <1>10. CASE TtlJudge
    <2>1. check.pc = "judge" /\ check # Idle /\ check.seen \in Objects
      BY <1>10 DEF TtlJudge, IInv, Types, Checks, Idle
    <2>2. (settings' # Nil /\ loop = "running" /\ ~ ctxDone) => settings'.age =< settings'.ttl
      <3> SUFFICES ASSUME settings' # Nil, loop = "running", ~ ctxDone
                   PROVE  settings'.age =< settings'.ttl
        OBVIOUS
      <3>1. settings' = settings /\ ~ Expired(check.seen)
        BY <1>10 DEF TtlJudge
      <3>2. check.seen.age =< check.seen.ttl
        BY <2>1, <3>1, NilIsNoObject, ObjectFields DEF Expired
      <3> QED BY <1>10, <2>1, <3>1, <3>2 DEF Fresh, TtlJudge
    <2> QED BY <1>10, <2>1, <2>2 DEF TtlJudge, Fresh, loopVars, Idle
  <1>11. CASE ReleaseTtl
    <2>1. check.pc = "release" /\ check # Idle
      BY <1>11 DEF ReleaseTtl, Idle
    <2>2. settings # Nil => settings.age \in Nat /\ settings.ttl \in Nat
      BY ObjectFields DEF IInv, Types
    <2> QED BY <1>11, <2>1, <2>2 DEF ReleaseTtl, Fresh, loopVars, Idle
  <1>12. CASE Stop
    BY <1>12 DEF Stop, Fresh, loopVars
  <1>13. CASE Tick
    <2>1. /\ ~ late /\ ~ LoopReady /\ check = Idle /\ check' = Idle
          /\ \A f \in Fetchers : fetch'[f].pc \in {"idle", "request"}
      BY <1>13, TickAges
    <2>2. ASSUME loop = "running", ~ ctxDone, settings' # Nil
          PROVE  settings'.age =< settings'.ttl + TtlCheckInterval - ttlTimer'
      <3>1. ttlTimer > 0 /\ ttlTimer' = ttlTimer - 1
        BY <1>13, <2>1, <2>2 DEF Tick, LoopReady, IInv, Types
      <3>2. /\ settings # Nil /\ settings \in Objects /\ settings' \in Objects
            /\ settings'.ttl = settings.ttl /\ settings'.age =< settings.age + 1
        BY <1>13, <2>2, TickAges
      <3>3. settings.age =< settings.ttl + TtlCheckInterval - ttlTimer
        BY <2>1, <2>2, <3>2 DEF Fresh
      <3> QED BY <3>1, <3>2, <3>3, ObjectFields DEF IInv, Types
    <2> QED BY <1>13, <2>1, <2>2 DEF Tick, Fresh, Idle
  <1>14. CASE UNCHANGED vars
    BY <1>14 DEF vars, Fresh
  <1> QED BY <1>1, <1>2, <1>3, <1>4, <1>5, <1>6, <1>7, <1>8, <1>9, <1>10, <1>11, <1>12, <1>13, <1>14
          DEF Next, LoopStep, FetchStep, CheckStep

\* Settings that cannot be refreshed are dropped at most one check interval after
\* their ttl, for every collector and every interleaving in which the goroutines
\* are not kept waiting.
THEOREM StaleSettingsGo == Spec => []FreshWhileRunning
  <1>1. Init => Fresh
    BY DEF Init, Fresh, Idle
  <1>2. ASSUME IInv, Fresh PROVE FreshWhileRunning
    <2> SUFFICES ASSUME loop = "running", ~ ctxDone, ~ late, settings # Nil
                 PROVE  settings.age =< settings.ttl + TtlCheckInterval
      BY DEF FreshWhileRunning
    <2>1. settings \in Objects
      BY <1>2 DEF IInv, Types
    <2>2. check = Idle \/ check.pc \in {"load", "judge", "release"}
      BY <1>2 DEF IInv, Types, Checks
    <2> QED BY <1>2, <2>1, <2>2, ObjectFields, IntervalAssumption DEF Fresh, IInv, Types, Idle
  <1> QED BY <1>1, <1>2, InvariantIInv, FreshInductive, PTL DEF Spec

-----------------------------------------------------------------------------
(* Settings are not lost.                                                  *)

\* A request ends before the next update is due, and two updates in a row take no
\* longer than any ttl: with the code's 60 s, 10 s and the collector's 120 s.
RoomForOneFetch ==
    /\ HttpTimeout < UpdateInterval
    /\ \A ttl \in Ttls : UpdateInterval + HttpTimeout =< ttl

\* As long as no goroutine is kept waiting, a fetch ends before the next is due.
InTime ==
    ~ late => \A f \in Fetchers :
                /\ fetch[f].pc = "request" => fetch[f].elapsed + updateTimer = UpdateInterval
                /\ Holding(f) => updateTimer > 0

\* If moreover no request has failed, the settings are no older than the time since
\* the update before the one under way, so no check finds them expired.
Young ==
    (~ late /\ ~ failed) =>
      /\ check.pc = "judge" => ~ Expired(check.seen)
      /\ (settings # Nil /\ (loop = "running" \/ check # Idle)) =>
           /\ (\A f \in Fetchers : ~ Holding(f)) => settings.age + updateTimer =< UpdateInterval
           /\ \A f \in Fetchers :
                /\ fetch[f].pc = "request" => settings.age =< UpdateInterval + fetch[f].elapsed
                /\ fetch[f].pc \in {"build", "store"} => settings.age =< UpdateInterval + HttpTimeout
                /\ fetch[f].pc = "release" => settings.age = 0

\* A fetch that is in time stays so until it is over.
LEMMA InTimeInductive ==
    ASSUME RoomForOneFetch, IInv, IInv', InTime, [Next]_vars
    PROVE  InTime'
  <1> SUFFICES ASSUME ~ late' PROVE InTime'
    BY DEF InTime
  <1> USE IntervalAssumption
  <1>1. CASE LoopUpdate
    <2>1. ~ late /\ updateTimer' = UpdateInterval
      BY <1>1 DEF LoopUpdate
    <2>2. updateReady = 1
      BY <1>1, <2>1 DEF LoopUpdate, InTime, IInv, Types, Semaphores
    <2>3. \A f \in Fetchers : ~ Holding(f)
      BY <2>2 DEF IInv, Semaphores
    <2>4. \A f \in Fetchers : fetch'[f].pc = "request" => fetch'[f].elapsed = 0
      BY <1>1, <2>2, <2>3 DEF LoopUpdate, IInv, Types, Holding
    <2> QED BY <2>1, <2>4 DEF InTime, IInv, Types, Holding
  <1>2. CASE Tick
    <2>1. ~ late /\ \A f \in Fetchers : fetch'[f].pc \in {"idle", "request"}
      BY <1>2, TickAges
    <2>2. ASSUME NEW f \in Fetchers, fetch'[f].pc = "request"
          PROVE  fetch'[f].elapsed + updateTimer' = UpdateInterval /\ updateTimer' > 0
      <3>1. /\ fetch[f].pc = "request" /\ fetch'[f].elapsed = fetch[f].elapsed + 1
            /\ fetch[f].elapsed \in 0..HttpTimeout
        BY <1>2, <2>2, TickAges
      <3>2. fetch[f].elapsed < HttpTimeout
        BY <1>2, <3>1 DEF Tick, Requesting
      <3>3. fetch[f].elapsed + updateTimer = UpdateInterval
        BY <2>1, <3>1 DEF InTime
      <3>4. updateTimer' = updateTimer - 1
        BY <1>2, <3>1, <3>2, <3>3 DEF Tick, RoomForOneFetch, IInv, Types
      <3> QED BY <3>1, <3>2, <3>3, <3>4 DEF RoomForOneFetch, IInv, Types
    <2> QED BY <2>1, <2>2 DEF InTime, Holding
  <1>3. ASSUME NEW f \in Fetchers, FetchStep(f)
        PROVE  InTime'
    <2>1. ~ late /\ updateTimer' = updateTimer
      BY <1>3 DEF FetchStep, Answer, BuildSetting, StoreSetting, ReleaseUpdate, CancelOnInvalidKey, loopVars
    <2>2. \A g \in Fetchers : g # f => fetch'[g] = fetch[g]
      BY <1>3 DEF FetchStep, Answer, BuildSetting, StoreSetting, ReleaseUpdate, CancelOnInvalidKey, IInv, Types
    <2>3. fetch'[f].pc # "request" /\ (Holding(f)' => Holding(f))
      BY <1>3 DEF FetchStep, Answer, BuildSetting, StoreSetting, ReleaseUpdate, CancelOnInvalidKey,
                  IInv, Types, Holding, Idle
    <2> QED BY <2>1, <2>2, <2>3 DEF InTime, Holding
  <1>4. CASE UNCHANGED <<updateTimer, fetch, late>>
    BY <1>4 DEF InTime, Holding
  <1> QED BY <1>1, <1>2, <1>3, <1>4
          DEF Next, LoopStep, CheckStep, LoopExit, LoopTtl, TtlLoad, TtlJudge, ReleaseTtl, Stop, vars, loopVars

\* Settings no older than the last two updates have not expired.
LEMMA YoungNotExpired ==
    ASSUME RoomForOneFetch, IInv, Young, ~ late, ~ failed,
           settings # Nil, loop = "running" \/ check # Idle
    PROVE  ~ Expired(settings)
  <1>1. settings.age \in Nat /\ settings.ttl \in Nat /\ UpdateInterval + HttpTimeout =< settings.ttl
    BY ObjectFields DEF IInv, Types, RoomForOneFetch, Objects
  <1>2. settings.age =< UpdateInterval + HttpTimeout
    <2>1. CASE \A f \in Fetchers : ~ Holding(f)
      BY <1>1, <2>1, IntervalAssumption DEF Young, IInv, Types
    <2>2. ASSUME NEW f \in Fetchers, Holding(f)
          PROVE  settings.age =< UpdateInterval + HttpTimeout
      <3>1. fetch[f].pc = "request" => fetch[f].elapsed \in 0..HttpTimeout
        BY DEF IInv, Types, Fetches, Idle
      <3> QED BY <1>1, <2>2, <3>1, IntervalAssumption DEF Young, Holding
    <2> QED BY <2>1, <2>2
  <1> QED BY <1>1, <1>2, IntervalAssumption DEF Expired

\* The settings stay young as long as every request is answered.
LEMMA YoungInductive ==
    ASSUME RoomForOneFetch, IInv, IInv', Fresh, InTime, InTime', Young, [Next]_vars
    PROVE  Young'
  <1> SUFFICES ASSUME ~ late', ~ failed' PROVE Young'
    BY DEF Young
  <1> USE IntervalAssumption
  <1> DEFINE Kept == settings # Nil /\ (loop = "running" \/ check # Idle)
  <1>0. settings # Nil => settings.age \in Nat /\ settings.ttl \in Nat
    BY ObjectFields DEF IInv, Types
  <1>1. CASE LoopExit
    BY <1>1 DEF LoopExit, Young, Holding
  <1>2. CASE LoopUpdate
    <2>1. ~ late /\ ~ failed /\ updateTimer = 0 /\ updateTimer' = UpdateInterval
      BY <1>2 DEF LoopUpdate
    <2>2. updateReady = 1
      BY <1>2, <2>1 DEF LoopUpdate, InTime, IInv, Types, Semaphores
    <2>3. \A f \in Fetchers : ~ Holding(f)
      BY <2>2 DEF IInv, Semaphores
    <2>4. PICK f \in Fetchers : fetch' = [fetch EXCEPT ![f] = [pc |-> "request", elapsed |-> 0]]
      BY <1>2, <2>2 DEF LoopUpdate
    <2>5. \A g \in Fetchers : /\ fetch'[g].pc = "request" => fetch'[g].elapsed = 0
                              /\ fetch'[g].pc \notin {"build", "store", "release"}
      BY <2>3, <2>4 DEF IInv, Types, Holding
    <2>6. Holding(f)'
      BY <2>4 DEF IInv, Types, Holding
    <2>7. settings # Nil => settings.age =< UpdateInterval
      BY <1>0, <1>2, <2>1, <2>3 DEF Young, LoopUpdate
    <2>8. UNCHANGED <<settings, check>>
      BY <1>2 DEF LoopUpdate
    <2> QED BY <1>0, <2>1, <2>5, <2>6, <2>7, <2>8 DEF Young
  <1>3. CASE LoopTtl
    BY <1>3 DEF LoopTtl, Young, Holding, IInv, Types
  <1>4. ASSUME NEW f \in Fetchers, NEW a \in {"ok", "error", "invalidKey"}, Answer(f, a)
        PROVE  Young'
    <2>1. ~ late /\ ~ failed /\ UNCHANGED <<loop, check, settings>>
      BY <1>4 DEF Answer, loopVars
    <2>2. fetch[f].pc = "request" /\ fetch[f].elapsed \in 0..HttpTimeout
      BY <1>4 DEF Answer, IInv, Types, Fetches, Idle
    <2>3. PICK ttl \in Ttls : fetch' = [fetch EXCEPT ![f] = [pc |-> "build", ttl |-> ttl]]
      BY <1>4 DEF Answer
    <2>4. fetch'[f].pc = "build" /\ \A g \in Fetchers : g # f => fetch'[g] = fetch[g]
      BY <2>3 DEF IInv, Types
    <2>5. Kept => settings.age =< UpdateInterval + HttpTimeout
      BY <1>0, <2>1, <2>2 DEF Young
    <2>6. Holding(f)'
      BY <2>4 DEF Holding
    <2> QED BY <2>1, <2>4, <2>5, <2>6 DEF Young
  <1>5. ASSUME NEW f \in Fetchers, BuildSetting(f)
        PROVE  Young'
    <2>1. ~ late /\ ~ failed /\ UNCHANGED <<loop, check, settings>> /\ fetch[f].pc = "build"
      BY <1>5 DEF BuildSetting, loopVars
    <2>2. fetch'[f].pc = "store" /\ \A g \in Fetchers : g # f => fetch'[g] = fetch[g]
      BY <1>5 DEF BuildSetting, IInv, Types
    <2>3. Holding(f)'
      BY <2>2 DEF Holding
    <2> QED BY <2>1, <2>2, <2>3 DEF Young
  <1>6. ASSUME NEW f \in Fetchers, StoreSetting(f)
        PROVE  Young'
    <2>1. ~ late /\ ~ failed /\ UNCHANGED <<loop, updateTimer, check>>
      BY <1>6 DEF StoreSetting, loopVars
    <2>2. settings'.age = 0
      BY <1>6, <2>1 DEF StoreSetting, Fresh
    <2>3. \A g \in Fetchers : fetch'[g].pc = "request" => fetch'[g].elapsed \in Nat
      BY DEF IInv, Types, Fetches, Idle
    <2>4. updateTimer \in 0..UpdateInterval
      BY DEF IInv, Types
    <2>5. check'.pc = "judge" => ~ Expired(check.seen)'
      BY <2>1 DEF Young
    <2>6. settings'.age + updateTimer' =< UpdateInterval
      BY <2>1, <2>2, <2>4
    <2>7. settings'.age =< UpdateInterval + HttpTimeout
      BY <2>2
    <2>8. \A g \in Fetchers : fetch'[g].pc = "request" => settings'.age =< UpdateInterval + fetch'[g].elapsed
      BY <2>2, <2>3
    <2> QED BY <2>2, <2>5, <2>6, <2>7, <2>8 DEF Young
  <1>7. ASSUME NEW f \in Fetchers, ReleaseUpdate(f)
        PROVE  Young'
    <2>1. /\ ~ late /\ ~ failed /\ UNCHANGED <<loop, updateTimer, check, settings>>
          /\ fetch[f].pc = "release" /\ updateReady' = 1
      BY <1>7 DEF ReleaseUpdate, loopVars
    <2>2. \A g \in Fetchers : ~ Holding(g)'
      BY <2>1 DEF IInv, Semaphores
    <2>3. Kept => settings.age = 0
      BY <2>1 DEF Young
    <2> QED BY <2>1, <2>2, <2>3 DEF Young, Holding, IInv, Types
  <1>8. ASSUME NEW f \in Fetchers, CancelOnInvalidKey(f)
        PROVE  Young'
    <2>1. /\ ~ late /\ ~ failed /\ UNCHANGED <<loop, updateTimer, check, settings>>
          /\ fetch[f].pc = "cancel"
      BY <1>8 DEF CancelOnInvalidKey, loopVars
    <2>2. fetch'[f].pc = "idle" /\ \A g \in Fetchers : g # f => fetch'[g] = fetch[g]
      BY <1>8 DEF CancelOnInvalidKey, IInv, Types, Idle
    <2>3. \A g \in Fetchers : Holding(g)' <=> Holding(g)
      BY <2>1, <2>2 DEF Holding
    <2> QED BY <2>1, <2>2, <2>3 DEF Young
  <1>9. CASE TtlLoad
    <2>1. /\ ~ late /\ ~ failed /\ check # Idle /\ check' # Idle
          /\ UNCHANGED <<loop, updateTimer, fetch, settings>>
      BY <1>9 DEF TtlLoad, loopVars, Idle
    <2>2. check'.pc = "judge" => settings # Nil /\ check'.seen = settings
      BY <1>9 DEF TtlLoad
    <2>3. check'.pc = "judge" => ~ Expired(check'.seen)
      BY <2>1, <2>2, YoungNotExpired
    <2> QED BY <2>1, <2>3 DEF Young, Holding, Expired
  <1>10. CASE TtlJudge
    <2>1. /\ ~ late /\ ~ failed /\ check # Idle /\ check'.pc = "release"
          /\ UNCHANGED <<loop, updateTimer, fetch>>
      BY <1>10 DEF TtlJudge, loopVars, Idle
    <2>2. settings' = settings
      BY <1>10, <2>1 DEF TtlJudge, Young
    <2> QED BY <2>1, <2>2 DEF Young, Holding
  <1>11. CASE ReleaseTtl
    BY <1>11 DEF ReleaseTtl, Young, Holding, loopVars, Idle
  <1>12. CASE Stop
    BY <1>12 DEF Stop, Young, Holding, loopVars
  <1>13. CASE Tick
    <2>1. /\ ~ late /\ ~ failed /\ ~ LoopReady /\ check = Idle /\ check' = Idle /\ loop' = loop
          /\ \A f \in Fetchers : fetch'[f].pc \in {"idle", "request"} /\ fetch'[f].pc = fetch[f].pc
      BY <1>13, TickAges DEF Tick
    <2> SUFFICES ASSUME settings' # Nil, loop = "running"
                 PROVE  /\ (\A f \in Fetchers : ~ Holding(f)') => settings'.age + updateTimer' =< UpdateInterval
                        /\ \A f \in Fetchers : fetch'[f].pc = "request"
                             => settings'.age =< UpdateInterval + fetch'[f].elapsed
      BY <2>1 DEF Young, Idle
    <2>2. /\ settings # Nil /\ settings.age \in Nat /\ settings'.age \in Nat
          /\ settings'.age =< settings.age + 1
      BY <1>13, TickAges, ObjectFields
    <2>3. updateTimer > 0 /\ updateTimer' = updateTimer - 1
      BY <1>13, <2>1 DEF Tick, LoopReady, IInv, Types
    <2>4. ASSUME \A f \in Fetchers : ~ Holding(f)'
          PROVE  settings'.age + updateTimer' =< UpdateInterval
      <3>1. settings.age + updateTimer =< UpdateInterval
        BY <2>1, <2>2, <2>4 DEF Young, Holding
      <3> QED BY <2>2, <2>3, <3>1 DEF IInv, Types
    <2>5. ASSUME NEW f \in Fetchers, fetch'[f].pc = "request"
          PROVE  settings'.age =< UpdateInterval + fetch'[f].elapsed
      <3>1. settings.age =< UpdateInterval + fetch[f].elapsed
        BY <2>1, <2>2, <2>5 DEF Young
      <3>2. fetch[f].elapsed \in 0..HttpTimeout /\ fetch'[f].elapsed = fetch[f].elapsed + 1
        BY <1>13, <2>1, <2>5, TickAges
      <3> QED BY <2>2, <3>1, <3>2
    <2> QED BY <2>4, <2>5
  <1>14. CASE UNCHANGED vars
    BY <1>14 DEF vars, Young, Holding, Expired
  <1> QED BY <1>1, <1>2, <1>3, <1>4, <1>5, <1>6, <1>7, <1>8, <1>9, <1>10, <1>11, <1>12, <1>13, <1>14
          DEF Next, LoopStep, FetchStep, CheckStep

\* Provided that a request ends before the next update is due and that two updates
\* in a row fit into the ttl, settings once obtained are never taken away from the
\* application as long as the collector answers and no goroutine is kept waiting.
THEOREM HealthyNeverLoses ==
    ASSUME RoomForOneFetch PROVE Spec => NeverLostWhenHealthy
  <1> DEFINE Good == IInv /\ Fresh /\ InTime /\ Young
  <1>1. Init => Good
    BY InitIInv, IntervalAssumption DEF Init, Fresh, InTime, Young, Holding, Idle
  <1>2. Good /\ [Next]_vars => Good'
    BY NextIInv, FreshInductive, InTimeInductive, YoungInductive
  <1>3. Good /\ [Next]_vars => [(settings # Nil /\ ~ failed /\ ~ late) => settings' # Nil]_vars
    <2> SUFFICES ASSUME Good, [Next]_vars, settings # Nil, ~ failed, ~ late
                 PROVE  settings' # Nil
      OBVIOUS
    <2>1. CASE TtlJudge
      BY <2>1 DEF TtlJudge, Young
    <2>2. ASSUME NEW f \in Fetchers, StoreSetting(f)
          PROVE  settings' # Nil
      BY <2>2, NilIsNoObject DEF StoreSetting, IInv, Types, Fetches, Idle
    <2>3. CASE Tick
      BY <2>3, TickAges
    <2>4. CASE settings' = settings
      BY <2>4
    <2> QED BY <2>1, <2>2, <2>3, <2>4
            DEF Next, LoopStep, FetchStep, CheckStep, LoopExit, LoopUpdate, LoopTtl, Answer, BuildSetting,
                ReleaseUpdate, CancelOnInvalidKey, TtlLoad, ReleaseTtl, Stop, vars
  <1> QED BY <1>1, <1>2, <1>3, PTL DEF Spec, NeverLostWhenHealthy

-----------------------------------------------------------------------------
(* What the rest of the agent sees.                                        *)

\* The loop ends only when it is told to.
ExitedWhenDone == loop = "exited" => ctxDone

\* The loop ends only when it is told to, and nothing takes a cancellation back.
LEMMA ExitedInductive == ExitedWhenDone /\ [Next]_vars => ExitedWhenDone'
  BY DEF ExitedWhenDone, Next, LoopStep, LoopExit, LoopUpdate, LoopTtl, FetchStep, Answer, BuildSetting,
         StoreSetting, ReleaseUpdate, CancelOnInvalidKey, CheckStep, TtlLoad, TtlJudge, ReleaseTtl,
         Stop, Tick, vars, loopVars

\* A step that changes neither the settings nor the context, and starts nothing
\* once everything has ended, is at most the end of the updater.
LEMMA QuietStep ==
    ASSUME ExitedWhenDone, ExitedWhenDone',
           UNCHANGED <<ctxDone, settings>>, Drained => Drained'
    PROVE  [Outside!Next]_(Outside!vars)
  BY DEF ExitedWhenDone, Drained, Outside!Next, Outside!End, Outside!vars

\* Every step of the updater is one that the rest of the agent allows for, or one
\* that it does not see.
LEMMA StepOutside ==
    ASSUME IInv, IInv', ExitedWhenDone, ExitedWhenDone', [Next]_vars
    PROVE  [Outside!Next]_(Outside!vars)
  <1>1. ASSUME UNCHANGED <<ctxDone, settings>>, \/ loop = "running"
                                                \/ UNCHANGED <<loop, fetch, check>>
                                                \/ check # Idle
                                                \/ \E f \in Fetchers : fetch[f] # Idle
        PROVE  [Outside!Next]_(Outside!vars)
    BY <1>1, QuietStep DEF Drained
  <1>2. CASE LoopStep
    BY <1>1, <1>2 DEF LoopStep, LoopExit, LoopUpdate, LoopTtl
  <1>3. ASSUME NEW f \in Fetchers, FetchStep(f)
        PROVE  [Outside!Next]_(Outside!vars)
    <2>1. fetch[f] # Idle
      BY <1>3 DEF FetchStep, Answer, BuildSetting, StoreSetting, ReleaseUpdate, CancelOnInvalidKey, Idle
    <2>2. CASE StoreSetting(f)
      <3>1. settings' # Nil /\ fetch'[f] # Idle /\ UNCHANGED ctxDone
        BY <2>2, NilIsNoObject DEF StoreSetting, IInv, Types, Fetches, Idle
      <3> QED BY <2>1, <3>1 DEF Drained, Outside!Next, Outside!UpdateSetting, Outside!Alive, Outside!vars
    <2>3. CASE CancelOnInvalidKey(f)
      <3>1. ~ Drained /\ ctxDone' /\ UNCHANGED <<loop, settings>>
        BY <2>1, <2>3 DEF Drained, CancelOnInvalidKey, loopVars
      <3>2. CASE ctxDone
        BY <3>1, <3>2 DEF Outside!Next, Outside!End, Outside!vars
      <3>3. CASE ~ ctxDone
        <4>1. ~ Drained'
          BY <3>1, <3>3 DEF ExitedWhenDone, Drained
        <4> QED BY <3>1, <3>3, <4>1 DEF Outside!Next, Outside!Cancel, Outside!vars
      <3> QED BY <3>2, <3>3
    <2> QED BY <1>1, <1>3, <2>1, <2>2, <2>3 DEF FetchStep, Answer, BuildSetting, ReleaseUpdate
  <1>4. CASE CheckStep
    <2>1. check # Idle
      BY <1>4 DEF CheckStep, TtlLoad, TtlJudge, ReleaseTtl, Idle
    <2>2. CASE TtlJudge
      <3>1. check' # Idle /\ UNCHANGED ctxDone /\ settings' \in {settings, Nil}
        BY <2>2 DEF TtlJudge, Idle
      <3> QED BY <2>1, <3>1 DEF Drained, Outside!Next, Outside!CheckSettingsTimeout, Outside!Alive, Outside!vars
    <2> QED BY <1>1, <1>4, <2>1, <2>2 DEF CheckStep, TtlLoad, ReleaseTtl
  <1>5. CASE Stop
    <2>1. ~ Drained /\ ~ Drained'
      BY <1>5 DEF Stop, ExitedWhenDone, Drained, loopVars
    <2> QED BY <1>5, <2>1 DEF Stop, Outside!Next, Outside!Cancel, Outside!vars
  <1>6. CASE Tick
    <2>1. /\ \A f \in Fetchers : fetch[f] = Idle <=> fetch'[f] = Idle
          /\ check = Idle <=> check' = Idle
      <3>1. ASSUME NEW f \in Fetchers PROVE fetch[f] = Idle <=> fetch'[f] = Idle
        <4>1. fetch[f] \in Fetches /\ fetch'[f] \in Fetches /\ fetch'[f].pc = fetch[f].pc
          BY <1>6, TickAges DEF IInv, Types
        <4> QED BY <4>1 DEF Fetches, Idle
      <3>2. check = Idle <=> check' = Idle
        BY <1>6 DEF Tick, Idle, IInv, Types, Checks
      <3> QED BY <3>1, <3>2
    <2>2. settings' # Nil <=> settings # Nil
      BY <1>6, TickAges
    <2> QED BY <1>6, <2>1, <2>2 DEF Tick, Drained, Outside!vars
  <1>7. CASE UNCHANGED vars
    BY <1>7 DEF vars, Drained, Outside!vars
  <1> QED BY <1>2, <1>3, <1>4, <1>5, <1>6, <1>7 DEF Next

\* However its goroutines, timers and semaphores interleave, the updater is to the
\* rest of the agent what UpdaterLife says: settings come and go while it lives, it
\* is cancelled once, and once it has ended they are stored or taken away no more.
THEOREM UpdaterLives == Spec => Outside!Spec
  <1>1. Init => ExitedWhenDone /\ Outside!Init
    BY DEF Init, ExitedWhenDone, Drained, Outside!Init
  <1>2. IInv /\ IInv' /\ ExitedWhenDone /\ ExitedWhenDone' /\ [Next]_vars => [Outside!Next]_(Outside!vars)
    BY StepOutside
  <1> QED BY <1>1, <1>2, ExitedInductive, InvariantIInv, PTL DEF Spec, Outside!Spec
=============================================================================
