---------------------------- MODULE EventStream ----------------------------
(***************************************************************************)
(* The stream of handled events that the event-driven runner shows to its  *)
(* observers: the training log, the retraining hook and the day ledger.    *)
(* EventRunner says exactly when each event is scheduled; here any user    *)
(* may act at any timestamp that the loop could reach, with the facts the  *)
(* observers depend on kept: one group per timestamp, requests before      *)
(* consumption within it, requests numbered before they are ranked, reels  *)
(* consumed in the order they were downloaded, exits that drop the feed    *)
(* (as an invalidation does).                                              *)
(***************************************************************************)
EXTENDS Integers, Sequences, FiniteSets

CONSTANTS
  Users,           \* the simulated users
  Reels,           \* the catalogue
  Horizon,         \* simulation.horizonSeconds
  DayLength,       \* kSecondsPerSimulatedDay
  Depth,           \* reels per request
  RefillThreshold, \* serving.refill_threshold
  MaxRequests      \* bound on the requests of a run

ASSUME StreamAssumption ==
  /\ Horizon \in Nat /\ DayLength \in Nat \ {0}
  /\ Depth \in Nat \ {0} /\ RefillThreshold \in Nat /\ MaxRequests \in Nat
  /\ IsFiniteSet(Reels)

VARIABLES
  now,          \* timestamp of the group in process, -1 before the first
  phase,        \* "request", "consume", or "idle" between groups
  ended,        \* the loop is over
  status,       \* per user: away, online, leaving (ExitApp pending)
  feed,         \* downloaded reels with their request: PrefetchStamp.requestId
  acted,        \* users already served in this phase (no zero-length dwell)
  requests,     \* one record per request; requestCount is its length
  impressions,  \* impressionCount
  sessionStart  \* start of the open session, -1 when none is open

streamVars == <<now, phase, ended, status, feed, acted, requests, impressions,
                sessionStart>>

NumDays == Horizon \div DayLength + 1
Days == 0..(NumDays - 1)
DayOf(t) == IF t \div DayLength < NumDays THEN t \div DayLength ELSE NumDays - 1

\* The id the next request carries: requestCount is advanced before ranking.
NextId == Len(requests) + 1

Keys == (1..MaxRequests) \X Reels

StreamInit ==
  /\ now = -1 /\ phase = "idle" /\ ended = FALSE
  /\ status = [u \in Users |-> "away"]
  /\ feed = [u \in Users |-> <<>>] /\ acted = {}
  /\ requests = <<>> /\ impressions = 0
  /\ sessionStart = [u \in Users |-> -1]

\* The loop takes the next timestamp of the queue.
StreamGroup(t) ==
  /\ ~ended /\ phase = "idle" /\ t \in (now + 1)..Horizon
  /\ now' = t /\ phase' = "request" /\ acted' = {}
  /\ UNCHANGED <<ended, status, feed, requests, impressions, sessionStart>>

\* Requests are drained, then consumption and exits, then the group is over.
StreamPhase ==
  /\ phase # "idle"
  /\ phase' = IF phase = "request" THEN "consume" ELSE "idle"
  /\ acted' = {}
  /\ UNCHANGED <<now, ended, status, feed, requests, impressions, sessionStart>>

\* A request (of an arrival, a refill or a refetch) lands the reels of r.
StreamRequest(u, r, version) ==
  /\ phase = "request" /\ u \notin acted
  /\ status[u] \in {"away", "online"} /\ Len(feed[u]) <= RefillThreshold
  /\ Len(requests) < MaxRequests
  /\ status' = [status EXCEPT ![u] = "online"]
  /\ feed' = [feed EXCEPT ![u] =
                @ \o [i \in DOMAIN r |-> [id |-> NextId, reel |-> r[i]]]]
  /\ requests' = Append(requests, [user |-> u, at |-> now, shown |-> r,
                                   version |-> version])
  /\ acted' = acted \cup {u}
  /\ UNCHANGED <<now, phase, ended, impressions, sessionStart>>

\* An impression of the head of the feed; its exit draw may end the session.
StreamImpression(u, exits) ==
  /\ phase = "consume" /\ u \notin acted
  /\ status[u] = "online" /\ feed[u] # <<>>
  /\ feed' = [feed EXCEPT ![u] = Tail(@)]
  /\ impressions' = impressions + 1
  /\ status' = [status EXCEPT ![u] = IF exits THEN "leaving" ELSE @]
  /\ sessionStart' = [sessionStart EXCEPT ![u] =
                        IF exits THEN -1 ELSE IF @ = -1 THEN now ELSE @]
  /\ acted' = acted \cup {u}
  /\ UNCHANGED <<now, phase, ended, requests>>

\* ExitApp: the rest of the feed is abandoned.  A churned user is one that
\* never asks again.
StreamExit(u) ==
  /\ phase = "consume" /\ status[u] = "leaving"
  /\ status' = [status EXCEPT ![u] = "away"]
  /\ feed' = [feed EXCEPT ![u] = <<>>]
  /\ acted' = acted \cup {u}
  /\ UNCHANGED <<now, phase, ended, requests, impressions, sessionStart>>

\* The queue is empty, or holds nothing within the horizon.
StreamEnd ==
  /\ ~ended /\ phase = "idle"
  /\ ended' = TRUE
  /\ UNCHANGED <<now, phase, status, feed, acted, requests, impressions, sessionStart>>
=============================================================================
