-------------------------------- MODULE Oboe --------------------------------
(***************************************************************************)
(* The settings store of internal/oboe/oboe.go: one atomic pointer that    *)
(* request goroutines load, an updater replaces wholesale and the TTL      *)
(* check clears.                                                           *)
(*                                                                         *)
(* heap holds every settings object ever stored, in the order of the       *)
(* Stores; settings is the pointer, an index of heap or Nil.  Objects are  *)
(* never freed here because a request may still hold one.                  *)
(***************************************************************************)
EXTENDS Settings, Sequences

CONSTANTS
    UpdateArgs,      \* SettingsUpdateArgs the collector may send
    LocalConfigs,    \* local configurations the process may be started with
    StartTime,       \* the clock at the start
    MaxTime,         \* bound on the clock
    MaxGen           \* bound on the number of updates

ASSUME ClockAssumption == StartTime \in Nat \ {0} /\ MaxTime \in Nat
ASSUME MaxGenAssumption == MaxGen \in Nat
\* The numeric fields of what arrives; flags and tokens may be anything.
ASSUME ArgsAssumption ==
    /\ \A arg \in UpdateArgs :
         /\ arg.rate \in [BucketKinds -> Nat] /\ arg.capacity \in [BucketKinds -> Nat]
         /\ arg.ttl \in Int /\ arg.value \in Int
    /\ \A cfg \in LocalConfigs : cfg.sampleRate \in Int

VARIABLES
    now,        \* time.Now()
    config,     \* the local configuration, fixed when the agent starts
    settings,   \* oboe.settings, the atomic pointer
    heap,       \* all settings stored so far
    pending,    \* the settings object UpdateSetting is about to store
    ttlSeen     \* the pointer checkSettingsTimeout has loaded and not yet judged

oboeVars == <<now, config, settings, heap, pending, ttlSeen>>

Nil == 0
NoSettings == [timestamp |-> Nil]    \* pending when no update is in progress

OboeInit ==
    /\ now = StartTime
    /\ config \in LocalConfigs
    /\ settings = Nil
    /\ heap = << >>
    /\ pending = NoSettings
    /\ ttlSeen = Nil

\* UpdateSetting up to the Store: the clock is read first, and the object is
\* private until it is stored.  Updates come one at a time: the updater's
\* semaphore keeps fetches from overlapping.
BuildSetting(arg) ==
    /\ pending = NoSettings
    /\ Len(heap) < MaxGen
    /\ pending' = newSettings(arg, config, now)
    /\ UNCHANGED <<now, config, settings, heap, ttlSeen>>

\* o.settings.Store(ns)
StoreSetting ==
    /\ pending # NoSettings
    /\ heap' = Append(heap, pending)
    /\ settings' = Len(heap')
    /\ pending' = NoSettings
    /\ UNCHANGED <<now, config, ttlSeen>>

\* checkSettingsTimeout loads the pointer; a nil one ends the check.
TtlLoad ==
    /\ ttlSeen = Nil
    /\ settings # Nil
    /\ ttlSeen' = settings
    /\ UNCHANGED <<now, config, settings, heap, pending>>

\* It judges the object it loaded, and if that one has expired it stores nil,
\* whatever the pointer is by now.
TtlJudge ==
    /\ ttlSeen # Nil
    /\ settings' = IF Expired(heap[ttlSeen], now) THEN Nil ELSE settings
    /\ ttlSeen' = Nil
    /\ UNCHANGED <<now, config, heap, pending>>

Tick ==
    /\ now < MaxTime
    /\ now' = now + 1
    /\ UNCHANGED <<config, settings, heap, pending, ttlSeen>>

OboeNext ==
    \/ \E arg \in UpdateArgs : BuildSetting(arg)
    \/ StoreSetting
    \/ TtlLoad
    \/ TtlJudge
    \/ Tick
=============================================================================
