---------------------------- MODULE FileWatcher -----------------------------
(***************************************************************************)
(* The settings file of AWS Lambda (internal/oboe/file_watcher.go and      *)
(* settings_lambda.go).  An extension, outside this code, writes the file; *)
(* Start waits for it, starts a goroutine that reads it at every tick, and *)
(* reads it once itself; Stop sends on one exit channel of capacity 1 that *)
(* all watchers of the process share.  Reading the file and updating oboe  *)
(* are two steps, and the two goroutines of a watcher may overlap.         *)
(*                                                                         *)
(* StartLambda starts one watcher and never stops it; the tests start and  *)
(* stop several, each once.                                                *)
(***************************************************************************)
EXTENDS Naturals, FiniteSets

CONSTANTS
    Watchers,
    MaxVersion     \* bound: how many settings the extension writes

ASSUME MaxVersionAssumption == MaxVersion \in Nat
ASSUME WatchersAssumption == IsFiniteSet(Watchers)

VARIABLES
    file,          \* the settings file: its kind, and the last settings written
    stored,        \* the settings oboe has, 0 before the first
    at,            \* actor -> where it is
    got,           \* actor -> the settings it has read
    tick,          \* watcher -> ticker.C holds a tick
    exit,          \* what the exit channel holds
    stop,          \* watcher -> its call of Stop
    crashed        \* a goroutine has panicked, the process is gone

watcherVars == <<file, stored, at, got, tick, exit, stop, crashed>>

\* Start in its caller's goroutine, and the goroutine with the ticker.
Caller(w) == <<w, "caller">>
Loop(w)   == <<w, "loop">>
Actors    == Watchers \X {"caller", "loop"}

Kinds == {"absent", "malformed", "incomplete", "valid"}

WatcherInit ==
    /\ file = [kind |-> "absent", v |-> 0]
    /\ stored = 0
    /\ at = [a \in Actors |-> "new"]
    /\ got = [a \in Actors |-> 0]
    /\ tick = [w \in Watchers |-> FALSE]
    /\ exit = 0
    /\ stop = [w \in Watchers |-> "no"]
    /\ crashed = FALSE

Goto(a, p) == at' = [at EXCEPT ![a] = p]

-----------------------------------------------------------------------------
(* The extension.  What is not one object is malformed; an object without  *)
(* arguments, or a null, is incomplete.                                    *)

WriteSettings ==
    /\ ~ crashed
    /\ file.v < MaxVersion
    /\ file' = [kind |-> "valid", v |-> file.v + 1]
    /\ UNCHANGED <<stored, at, got, tick, exit, stop, crashed>>

WriteOther(k) ==
    /\ ~ crashed
    /\ file.v < MaxVersion
    /\ file' = [file EXCEPT !.kind = k]
    /\ UNCHANGED <<stored, at, got, tick, exit, stop, crashed>>

-----------------------------------------------------------------------------
(* readSettingFromFile: without valid settings it returns to `back`, with  *)
(* them the actor goes on to UpdateSetting.  ToSettingsUpdateArgs takes    *)
(* the arguments, and the object, for granted.                             *)

Read(a, back) ==
    /\ UNCHANGED <<file, stored, stop, exit>>
    /\ \/ file.kind \in {"absent", "malformed"} /\ Goto(a, back) /\ UNCHANGED <<got, crashed>>
       \/ file.kind = "incomplete" /\ crashed' = TRUE /\ UNCHANGED <<at, got>>
       \/ /\ file.kind = "valid"
          /\ got' = [got EXCEPT ![a] = file.v]
          /\ Goto(a, "update")
          /\ UNCHANGED crashed

Update(a, back) ==
    /\ ~ crashed /\ at[a] = "update"
    /\ stored' = got[a]
    /\ Goto(a, back)
    /\ UNCHANGED <<file, got, tick, exit, stop, crashed>>

-----------------------------------------------------------------------------
(* Start.                                                                  *)

StartCall(w) ==
    /\ ~ crashed /\ at[Caller(w)] = "new"
    /\ Goto(Caller(w), "wait")
    /\ UNCHANGED <<file, stored, got, tick, exit, stop, crashed>>

\* waitForSettingsFile returns: the file is there, cannot be examined, has not
\* come in time, or the wait was switched off.  Then the goroutine is started.
WaitEnds(w) ==
    /\ ~ crashed /\ at[Caller(w)] = "wait"
    /\ at' = [at EXCEPT ![Caller(w)] = "read", ![Loop(w)] = "select"]
    /\ UNCHANGED <<file, stored, got, tick, exit, stop, crashed>>

CallerRead(w) ==
    /\ ~ crashed /\ at[Caller(w)] = "read"
    /\ Read(Caller(w), "returned")
    /\ UNCHANGED tick

CallerUpdate(w) == Update(Caller(w), "returned")

-----------------------------------------------------------------------------
(* The goroutine.                                                          *)

Tick(w) ==
    /\ ~ crashed /\ at[Caller(w)] # "new" /\ at[Loop(w)] # "done"
    /\ ~ tick[w]
    /\ tick' = [tick EXCEPT ![w] = TRUE]
    /\ UNCHANGED <<file, stored, at, got, exit, stop, crashed>>

\* A plausible slip: the file is only read again when nothing is stored.
LoopTickOnlyFirst(w) ==
    /\ ~ crashed /\ at[Loop(w)] = "select"
    /\ tick[w]
    /\ tick' = [tick EXCEPT ![w] = FALSE]
    /\ IF stored = 0 THEN Read(Loop(w), "select")
       ELSE UNCHANGED <<file, stored, at, got, exit, stop, crashed>>

LoopTick(w) ==
    /\ ~ crashed /\ at[Loop(w)] = "select"
    /\ tick[w]
    /\ tick' = [tick EXCEPT ![w] = FALSE]
    /\ Read(Loop(w), "select")

LoopUpdate(w) == Update(Loop(w), "select")

\* A plausible slip: the goroutine looks at the channel until it has settings.
LoopExitBeforeSettings(w) ==
    /\ ~ crashed /\ at[Loop(w)] = "select"
    /\ exit > 0 /\ stored = 0
    /\ exit' = exit - 1
    /\ Goto(Loop(w), "done")
    /\ UNCHANGED <<file, stored, got, tick, stop, crashed>>

LoopExit(w) ==
    /\ ~ crashed /\ at[Loop(w)] = "select"
    /\ exit > 0
    /\ exit' = exit - 1
    /\ Goto(Loop(w), "done")
    /\ UNCHANGED <<file, stored, got, tick, stop, crashed>>

-----------------------------------------------------------------------------
(* Stop.  A watcher that was started is stopped at most once.              *)

StopCall(w) ==
    /\ ~ crashed /\ at[Caller(w)] # "new" /\ stop[w] = "no"
    /\ stop' = [stop EXCEPT ![w] = "sending"]
    /\ UNCHANGED <<file, stored, at, got, tick, exit, crashed>>

\* exit <- true: blocks while the channel is full.
StopSend(w) ==
    /\ ~ crashed /\ stop[w] = "sending"
    /\ exit < 1
    /\ exit' = exit + 1
    /\ stop' = [stop EXCEPT ![w] = "sent"]
    /\ UNCHANGED <<file, stored, at, got, tick, crashed>>

WatcherNext ==
    \/ WriteSettings
    \/ \E k \in Kinds \ {"valid"} : WriteOther(k)
    \/ \E w \in Watchers :
         \/ StartCall(w) \/ WaitEnds(w) \/ CallerRead(w) \/ CallerUpdate(w)
         \/ Tick(w) \/ LoopTick(w) \/ LoopUpdate(w) \/ LoopExit(w)
         \/ StopCall(w) \/ StopSend(w)

\* The goroutines are scheduled and the tickers tick.  The goroutine waits in a
\* select that chooses at random between a tick and the exit, so an exit offered
\* again and again is taken: strong fairness for LoopExit, and for the send of
\* Stop, which waits in the channel's queue.
WatcherFairness ==
    \A w \in Watchers :
        /\ WF_watcherVars(WaitEnds(w)) /\ WF_watcherVars(CallerRead(w)) /\ WF_watcherVars(CallerUpdate(w))
        /\ WF_watcherVars(Tick(w)) /\ WF_watcherVars(LoopTick(w)) /\ WF_watcherVars(LoopUpdate(w))
        /\ SF_watcherVars(LoopExit(w)) /\ SF_watcherVars(StopSend(w))

-----------------------------------------------------------------------------
(* Properties.                                                             *)

Running(w) == at[Loop(w)] \in {"select", "update"}
\* Whatever the races of Start did, a goroutine that goes on running brings the
\* settings in line with the file the extension leaves.
EventuallyCurrent ==
    <>[](~ crashed /\ file.kind = "valid" /\ \E w \in Watchers : Running(w))
        => <>[](stored = file.v)

\* When every watcher has been stopped, every goroutine ends.
StopTakesEffect ==
    (\A w \in Watchers : stop[w] = "sent")
        ~> (crashed \/ \A w \in Watchers : at[Loop(w)] = "done")

=============================================================================
