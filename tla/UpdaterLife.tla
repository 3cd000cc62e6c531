----------------------------- MODULE UpdaterLife -----------------------------
(***************************************************************************)
(* What the rest of the agent knows of a settings updater, whatever its    *)
(* goroutines, timers and semaphores do (internal/oboe/                    *)
(* settings_http_updater.go): it is started once, settings come and go     *)
(* while it is alive, it is cancelled, by the function that Start returned *)
(* or on its own, then it winds up, and after that the settings stay as    *)
(* they are.                                                               *)
(*                                                                         *)
(* SettingsUpdater implements this specification, and it is all that Agent *)
(* assumes of an updater.                                                  *)
(***************************************************************************)

VARIABLES
    phase,      \* "none", "running", "cancelled" or "stopped"
    present     \* its oboe has settings

vars == <<phase, present>>

Init == phase \in {"none", "running"} /\ present = FALSE

Start ==
    /\ phase = "none"
    /\ phase' = "running"
    /\ UNCHANGED present

\* A fetch that has its answer stores it even if the context is cancelled
\* meanwhile, and so does a check that has begun.
Alive == phase \in {"running", "cancelled"}

UpdateSetting ==
    /\ Alive
    /\ present' = TRUE
    /\ UNCHANGED phase

CheckSettingsTimeout ==
    /\ Alive
    /\ present' = FALSE
    /\ UNCHANGED phase

Cancel ==
    /\ phase = "running"
    /\ phase' = "cancelled"
    /\ UNCHANGED present

\* The last goroutine has ended.
End ==
    /\ phase = "cancelled"
    /\ phase' = "stopped"
    /\ UNCHANGED present

Next == Start \/ UpdateSetting \/ CheckSettingsTimeout \/ Cancel \/ End

Spec == Init /\ [][Next]_vars

\* A cancelled updater ends.
LiveSpec == Spec /\ (phase = "cancelled" ~> phase = "stopped")
=============================================================================
