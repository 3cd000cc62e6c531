------------------------------ MODULE MCLambda ------------------------------
(***************************************************************************)
(* The agent in Lambda and the watcher of its settings file.  They share   *)
(* no state, so each is checked while the other has not begun.             *)
(*                                                                         *)
(* Two goroutines that wrap handlers, and two invocations that may         *)
(* overlap; two watchers in one process and two settings: enough for one   *)
(* watcher to take the exit meant for the other while an old read is       *)
(* overtaken by a newer one.                                               *)
(***************************************************************************)
EXTENDS Lambda, FileWatcher

Init == LambdaInit /\ WatcherInit

Next ==
    \/ WatcherInit /\ LambdaNext /\ UNCHANGED watcherVars
    \/ LambdaInit /\ WatcherNext /\ UNCHANGED lambdaVars

Spec == Init /\ [][Next]_<<lambdaVars, watcherVars>> /\ WatcherFairness
=============================================================================
