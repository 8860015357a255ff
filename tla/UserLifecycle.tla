---------------------------- MODULE UserLifecycle ----------------------------
(***************************************************************************)
(* What the event-driven runner promises about one user, without queue,    *)
(* clock or feed: the user is away, waiting for a feed, watching, leaving, *)
(* or stopped for good (churned, cut by the horizon, or out of reels).  A  *)
(* session opens with a watched reel, closes with the watch whose exit     *)
(* draw fires, and the user cannot be away while one is open.              *)
(***************************************************************************)
CONSTANT Users

VARIABLES mode, inSession
vars == <<mode, inSession>>

Modes == {"away", "waiting", "watching", "leaving", "stopped"}

Init ==
  /\ mode \in [Users -> {"away", "stopped"}]
  /\ inSession = [u \in Users |-> FALSE]

\* u moves between modes; stopping is possible at every move but opening.
Move(u, from, to) ==
  /\ mode[u] = from
  /\ \E m \in to : mode' = [mode EXCEPT ![u] = m]

Open(u) == Move(u, "away", {"waiting"}) /\ UNCHANGED inSession

Land(u) == Move(u, "waiting", {"watching", "stopped"}) /\ UNCHANGED inSession

\* The downloaded feed is dropped before anything of it is watched.
Drop(u) == Move(u, "watching", {"waiting", "stopped"}) /\ UNCHANGED inSession

Watch(u) ==
  /\ Move(u, "watching", {"watching", "waiting", "stopped"})
  /\ inSession' = [inSession EXCEPT ![u] = TRUE]

Exit(u) ==
  /\ Move(u, "watching", {"leaving", "stopped"})
  /\ inSession' = [inSession EXCEPT ![u] = FALSE]

Leave(u) == Move(u, "leaving", {"away", "stopped"}) /\ UNCHANGED inSession

\* The run ends when every user has stopped; what is open is closed.
Finish ==
  /\ \A u \in Users : mode[u] = "stopped"
  /\ inSession' = [u \in Users |-> FALSE]
  /\ UNCHANGED mode

Next ==
  \/ \E u \in Users :
       Open(u) \/ Land(u) \/ Drop(u) \/ Watch(u) \/ Exit(u) \/ Leave(u)
  \/ Finish

Spec == Init /\ [][Next]_vars
=============================================================================
