---------------------------- MODULE MCRoundRobin -----------------------------
(* Configurations for checking RoundRobinRunner. *)
EXTENDS RoundRobinRunner

Base == [users |-> 1, reels |-> 3, newUsers |-> 0, newUsersAt |-> 0, newReels |-> 0,
         newReelsAt |-> 0, feedSize |-> 2, interactionsPerUser |-> 3,
         sessionDynamics |-> FALSE, fullFeeds |-> FALSE, drift |-> <<>>]

\* Three events, two of them at the same count for the same user.
Drift == <<[at |-> 1, cohort |-> {0, 1}], [at |-> 1, cohort |-> {0}],
           [at |-> 2, cohort |-> {1, 2}]>>

\* Users and reels injected in mid-run under drift, before drift, with two new
\* users, and sessions that end inside feeds.
MixedConfigs ==
  {[Base EXCEPT !.newUsers = 1, !.newUsersAt = 1, !.newReels = 1, !.newReelsAt = 1,
                !.drift = Drift],
   [Base EXCEPT !.reels = 2, !.newUsers = 2, !.newReels = 1, !.newReelsAt = 1,
                !.interactionsPerUser = 4],
   [Base EXCEPT !.users = 2, !.sessionDynamics = TRUE, !.drift = Drift],
   [Base EXCEPT !.newUsers = 1, !.newUsersAt = 1, !.newReels = 2,
                !.feedSize = 1, !.drift = Drift]}
=============================================================================
