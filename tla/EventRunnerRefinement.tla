------------------------ MODULE EventRunnerRefinement ------------------------
(* The runner implements UserLifecycle: a user's mode is read off its      *)
(* pending events, its session off the simulator's impression count.       *)
EXTENDS EventRunner

ModeOf(u) ==
  IF Awaiting(u, "StartReel") THEN "watching"
  ELSE IF Awaiting(u, "RequestFeed") THEN "waiting"
  ELSE IF Awaiting(u, "ExitApp") THEN "leaving"
  ELSE IF Pending(u) # {} THEN "away"
  ELSE "stopped"

Lifecycle ==
  INSTANCE UserLifecycle WITH
    mode <- [u \in Users |-> ModeOf(u)],
    inSession <- [u \in Users |-> open[u] > 0]

\* Every behaviour of the runner is, user by user, one of the lifecycle.
RefinesLifecycle == Lifecycle!Spec
=============================================================================
