--------------------------- MODULE SettingsUpdater ---------------------------
(***************************************************************************)
(* The HTTP settings updater: the loop of internal/oboe/                   *)
(* settings_http_updater.go with its two timers and two semaphores, the    *)
(* fetch and TTL-check goroutines it starts, the request they make         *)
(* (settings_http_service.go), and the settings pointer of oboe.go they    *)
(* write.                                                                  *)
(*                                                                         *)
(* Time is relative: timers count down and settings grow older, so clocks  *)
(* need no bound.  Of a settings object only its age and its ttl are kept. *)
(***************************************************************************)
EXTENDS Integers, FiniteSets

CONSTANTS
    UpdateInterval,      \* defaultSettingsUpdateInterval, in ticks
    TtlCheckInterval,    \* defaultSettingsTTLCheckInterval, in ticks
    HttpTimeout,         \* defaultTimeout of the http.Client, in ticks
    Ttls,                \* ttl values the collector may send, in ticks
    Fetchers             \* bound on fetch goroutines alive at once

ASSUME IntervalAssumption ==
    /\ UpdateInterval \in Nat \ {0} /\ TtlCheckInterval \in Nat \ {0}
    /\ HttpTimeout \in Nat /\ Ttls \subseteq Nat

VARIABLES
    loop,          \* "running" or "exited": the goroutine of run
    ctxDone,       \* the context is cancelled
    updateTimer,   \* ticks until updateTimer.C is ready; 0 is ready
    ttlTimer,      \* the same for ttlTimer.C
    updateReady,   \* values in the channel updateReady (capacity 1)
    ttlReady,      \* values in the channel ttlCheckReady (capacity 1)
    fetch,         \* fetch goroutine -> where it is
    check,         \* the ttlSettingsCheck goroutine
    settings,      \* oboe.settings: the object it points to, or Nil
    failed,        \* history: some request did not bring settings
    late           \* history: time has passed while a goroutine could have gone on

loopVars == <<loop, updateTimer, ttlTimer>>
vars == <<loop, ctxDone, updateTimer, ttlTimer, updateReady, ttlReady, fetch, check, settings, failed, late>>

Nil == [age |-> 0, ttl |-> -1]
Idle == [pc |-> "idle"]

\* Ages past this bound are not told apart.
MaxAge(s) == s.ttl + TtlCheckInterval + 1
Older(s) == IF s = Nil THEN s ELSE [s EXCEPT !.age = IF @ < MaxAge(s) THEN @ + 1 ELSE @]

\* e.Before(time.Now()) of checkSettingsTimeout.
Expired(s) == s # Nil /\ s.ttl < s.age

Init ==
    /\ loop = "running"
    /\ ctxDone = FALSE
    /\ updateTimer = 0
    /\ ttlTimer = TtlCheckInterval
    /\ updateReady = 1
    /\ ttlReady = 1
    /\ fetch = [f \in Fetchers |-> Idle]
    /\ check = Idle
    /\ settings = Nil
    /\ failed = FALSE
    /\ late = FALSE

-----------------------------------------------------------------------------
(* run: one iteration of the select takes any case that is ready.          *)

LoopExit ==
    /\ loop = "running" /\ ctxDone
    /\ loop' = "exited"
    /\ UNCHANGED <<ctxDone, updateTimer, ttlTimer, updateReady, ttlReady, fetch, check, settings, failed, late>>

\* A plausible slip: the timer is not reset, so it never fires again.
LoopUpdateOnce ==
    /\ loop = "running" /\ updateTimer = 0
    /\ \E f \in Fetchers :
         fetch[f] = Idle /\ fetch' = [fetch EXCEPT ![f] = [pc |-> "request", elapsed |-> 0]]
    /\ updateReady' = 0
    /\ updateTimer' = -1
    /\ UNCHANGED <<loop, ctxDone, ttlTimer, ttlReady, check, settings, failed, late>>

LoopUpdate ==
    /\ loop = "running" /\ updateTimer = 0
    /\ \/ /\ updateReady = 1
          /\ updateReady' = 0
          /\ \E f \in Fetchers :
               /\ fetch[f] = Idle
               /\ fetch' = [fetch EXCEPT ![f] = [pc |-> "request", elapsed |-> 0]]
       \/ updateReady = 0 /\ UNCHANGED <<updateReady, fetch>>
    /\ updateTimer' = UpdateInterval
    /\ UNCHANGED <<loop, ctxDone, ttlTimer, ttlReady, check, settings, failed, late>>

\* A plausible slip: the wrong interval, and no reset when a tick is skipped.
LoopTtlSlow ==
    /\ loop = "running" /\ ttlTimer = 0 /\ ttlReady = 1
    /\ ttlReady' = 0 /\ check' = [pc |-> "load"]
    /\ ttlTimer' = UpdateInterval + 1
    /\ UNCHANGED <<loop, ctxDone, updateTimer, updateReady, fetch, settings, failed, late>>

LoopTtl ==
    /\ loop = "running" /\ ttlTimer = 0
    /\ \/ ttlReady = 1 /\ ttlReady' = 0 /\ check' = [pc |-> "load"]
       \/ ttlReady = 0 /\ UNCHANGED <<ttlReady, check>>
    /\ ttlTimer' = TtlCheckInterval
    /\ UNCHANGED <<loop, ctxDone, updateTimer, updateReady, fetch, settings, failed, late>>

-----------------------------------------------------------------------------
(* getAndUpdateSettings in its goroutine.                                  *)

\* client.Do and the reading of the answer: the collector answers, or the
\* request fails; a cancelled context makes it fail.  401 and 403 mean an
\* invalid service key, any other problem is retried at the next tick.
Answer(f, a) ==
    /\ fetch[f].pc = "request"
    /\ \/ /\ a = "ok"
          /\ \E ttl \in Ttls : fetch' = [fetch EXCEPT ![f] = [pc |-> "build", ttl |-> ttl]]
          /\ failed' = failed
       \/ /\ a # "ok"
          /\ failed' = TRUE
          /\ fetch' = [fetch EXCEPT ![f] = [pc |-> "release", valid |-> a # "invalidKey"]]
    /\ UNCHANGED <<loopVars, ctxDone, updateReady, ttlReady, check, settings, late>>

\* UpdateSetting reads the clock for the new object's timestamp ...
BuildSetting(f) ==
    /\ fetch[f].pc = "build"
    /\ fetch' = [fetch EXCEPT ![f] =
                   [pc |-> "store", new |-> [age |-> 0, ttl |-> fetch[f].ttl]]]
    /\ UNCHANGED <<loopVars, ctxDone, updateReady, ttlReady, check, settings, failed, late>>

\* ... and stores it.
StoreSetting(f) ==
    /\ fetch[f].pc = "store"
    /\ settings' = fetch[f].new
    /\ fetch' = [fetch EXCEPT ![f] = [pc |-> "release", valid |-> TRUE]]
    /\ UNCHANGED <<loopVars, ctxDone, updateReady, ttlReady, check, failed, late>>

\* A plausible slip: the semaphore is given back on the good path only.
ReleaseUpdateIfValid(f) ==
    /\ fetch[f].pc = "release"
    /\ updateReady' = IF fetch[f].valid THEN 1 ELSE updateReady
    /\ fetch' = [fetch EXCEPT ![f] = IF fetch[f].valid THEN Idle ELSE [pc |-> "cancel"]]
    /\ UNCHANGED <<loopVars, ctxDone, ttlReady, check, settings, failed, late>>

\* The deferred send; it would block on a full channel.
ReleaseUpdate(f) ==
    /\ fetch[f].pc = "release"
    /\ updateReady = 0
    /\ updateReady' = 1
    /\ fetch' = [fetch EXCEPT ![f] = IF fetch[f].valid THEN Idle ELSE [pc |-> "cancel"]]
    /\ UNCHANGED <<loopVars, ctxDone, ttlReady, check, settings, failed, late>>

\* Back in the goroutine's body: an invalid key cancels the context.
CancelOnInvalidKey(f) ==
    /\ fetch[f].pc = "cancel"
    /\ ctxDone' = TRUE
    /\ fetch' = [fetch EXCEPT ![f] = Idle]
    /\ UNCHANGED <<loopVars, updateReady, ttlReady, check, settings, failed, late>>

FetchStep(f) ==
    \/ \E a \in {"ok", "error", "invalidKey"} : Answer(f, a)
    \/ BuildSetting(f)
    \/ StoreSetting(f)
    \/ ReleaseUpdate(f)
    \/ CancelOnInvalidKey(f)

-----------------------------------------------------------------------------
(* ttlSettingsCheck in its goroutine.                                      *)

\* A plausible slip: the early return gives the semaphore back by itself, and
\* the deferred send does so again.
TtlLoadEarlyRelease ==
    /\ check.pc = "load"
    /\ check' = IF settings = Nil THEN [pc |-> "release"]
                ELSE [pc |-> "judge", seen |-> settings]
    /\ ttlReady' = IF settings = Nil THEN 1 ELSE ttlReady
    /\ UNCHANGED <<loopVars, ctxDone, updateReady, fetch, settings, failed, late>>

\* checkSettingsTimeout loads the pointer; nil needs no judging.
TtlLoad ==
    /\ check.pc = "load"
    /\ check' = IF settings = Nil THEN [pc |-> "release"]
                ELSE [pc |-> "judge", seen |-> settings]
    /\ UNCHANGED <<loopVars, ctxDone, updateReady, ttlReady, fetch, settings, failed, late>>

\* The object loaded is judged now; if expired, nil is stored over whatever the
\* pointer holds.
TtlJudge ==
    /\ check.pc = "judge"
    /\ settings' = IF Expired(check.seen) THEN Nil ELSE settings
    /\ check' = [pc |-> "release"]
    /\ UNCHANGED <<loopVars, ctxDone, updateReady, ttlReady, fetch, failed, late>>

ReleaseTtl ==
    /\ check.pc = "release"
    /\ ttlReady = 0
    /\ ttlReady' = 1
    /\ check' = Idle
    /\ UNCHANGED <<loopVars, ctxDone, updateReady, fetch, settings, failed, late>>

CheckStep == TtlLoad \/ TtlJudge \/ ReleaseTtl

-----------------------------------------------------------------------------

\* The function Start returned: the application's shutdown cancels the context.
Stop ==
    /\ ~ ctxDone
    /\ ctxDone' = TRUE
    /\ UNCHANGED <<loopVars, updateReady, ttlReady, fetch, check, settings, failed, late>>

LoopReady == loop = "running" /\ (ctxDone \/ updateTimer = 0 \/ ttlTimer = 0)
Requesting == {f \in Fetchers : fetch[f].pc = "request"}
Working == {f \in Fetchers : fetch[f].pc \notin {"idle", "request"}}

\* Time passes.  The http.Client lets no request run past its timeout; any other
\* goroutine that could go on may be left waiting, and is then late.
Tick ==
    /\ \A f \in Requesting : fetch[f].elapsed < HttpTimeout
    /\ late' = (late \/ LoopReady \/ Working # {} \/ check # Idle)
    /\ updateTimer' = IF updateTimer > 0 THEN updateTimer - 1 ELSE updateTimer
    /\ ttlTimer' = IF ttlTimer > 0 THEN ttlTimer - 1 ELSE ttlTimer
    /\ fetch' = [f \in Fetchers |->
         CASE fetch[f].pc = "request" -> [fetch[f] EXCEPT !.elapsed = @ + 1]
           [] fetch[f].pc = "store"   -> [fetch[f] EXCEPT !.new = Older(@)]
           [] OTHER                   -> fetch[f]]
    /\ check' = IF check.pc = "judge" THEN [check EXCEPT !.seen = Older(@)] ELSE check
    /\ settings' = Older(settings)
    /\ UNCHANGED <<loop, ctxDone, updateReady, ttlReady, failed>>

LoopStep == LoopExit \/ LoopUpdate \/ LoopTtl

Next ==
    \/ LoopStep
    \/ \E f \in Fetchers : FetchStep(f)
    \/ CheckStep
    \/ Stop
    \/ Tick

Spec == Init /\ [][Next]_vars

\* The Go scheduler runs every goroutine that can run, select does not ignore a
\* case that stays ready, and time passes.
Fairness ==
    /\ WF_vars(LoopExit) /\ WF_vars(LoopUpdate) /\ WF_vars(LoopTtl)
    /\ \A f \in Fetchers : WF_vars(FetchStep(f))
    /\ WF_vars(CheckStep)
    /\ WF_vars(Tick)

FairSpec == Spec /\ Fairness

-----------------------------------------------------------------------------

Fetching == {f \in Fetchers : fetch[f].pc \in {"request", "build", "store", "release"}}

\* "Semaphores to prevent overlapping executions": at every moment either the
\* semaphore is free or exactly one goroutine runs getAndUpdateSettings, and the
\* same for the TTL check.  So the deferred sends never block, on no error path,
\* even while an earlier goroutine has yet to cancel after an invalid key.
SemaphoresConserved ==
    /\ updateReady + Cardinality(Fetching) = 1
    /\ ttlReady + (IF check = Idle THEN 0 ELSE 1) = 1

\* While the updater runs and its goroutines are not kept waiting, settings that
\* could not be refreshed are dropped no later than one check interval after their
\* ttl, whatever the collector does.
FreshWhileRunning ==
    (loop = "running" /\ ~ ctxDone /\ ~ late /\ settings # Nil)
        => settings.age =< settings.ttl + TtlCheckInterval

\* As long as the collector has answered every request and no goroutine was kept
\* waiting, settings once obtained are never taken away: each refresh arrives
\* before the ttl of the one before runs out, although fetches take time and ticks
\* and TTL checks fall in any order.
NeverLostWhenHealthy == [][(settings # Nil /\ ~ failed /\ ~ late) => settings' # Nil]_vars

\* The updater keeps its promises to the rest of the agent: it is cancelled once,
\* by the stop function or by itself; then it drains, with no goroutine left behind
\* blocked on a semaphore or on a request; and once the loop and the goroutines are
\* gone no settings are stored or taken away any more, by no fetch that was on its
\* way when it was stopped.
Drained == loop = "exited" /\ check = Idle /\ \A f \in Fetchers : fetch[f] = Idle
Outside == INSTANCE UpdaterLife WITH
    phase   <- IF Drained THEN "stopped" ELSE IF ctxDone THEN "cancelled" ELSE "running",
    present <- settings # Nil
SeenFromOutside == Outside!LiveSpec

\* Outages heal: provided that the collector does not fail for ever (a goroutine
\* that keeps asking gets settings in the end), the updater obtains settings again
\* whenever it has none and is not stopped.
SettingsReturn ==
    (\A f \in Fetchers : SF_vars(Answer(f, "ok")))
        => ((settings = Nil) ~> (settings # Nil \/ ctxDone))

\* What oboe.go says of CheckSettingsTimeout, that it "checks and deletes expired
\* settings": settings that are taken away had expired.  (Violated: the check
\* judges the object it loaded and then clears the pointer, which may hold newer
\* settings by then.)
OnlyExpiredDeleted == [][(settings # Nil /\ settings' = Nil) => Expired(settings)]_vars
=============================================================================
