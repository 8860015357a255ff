------------------------------ MODULE Simulator -------------------------------
(***************************************************************************)
(* The simulator's bookkeeping: its logical clock, the sessions it opens   *)
(* and closes, the records it hands out and the trending accumulators of   *)
(* the reels.  Either runner drives it.  The round-robin runner lets every *)
(* step advance the one clock; the event-driven runner sets the clock to   *)
(* the time of the event it dispatches, which may be earlier than where    *)
(* another user's step left it.                                            *)
(*                                                                         *)
(* The reaction to a reel is its watch time and its exit draw; the reward, *)
(* fatigue and affinity it moves are left out.  A decayed trending         *)
(* accumulator is the list of what was added to it, each with the seconds  *)
(* of decay applied since: its value is the sum of 2^(-age / halfLife),    *)
(* and trendingEngagement is decayed and bumped with it.                   *)
(***************************************************************************)
EXTENDS Integers, Sequences, SequencesExt

CONSTANTS
  Users, Reels,
  Clocks,          \* who keeps the time: "shared" steps or the "event" queue
  SessionModels,   \* "rotation" (V1) or "dynamics" (session_dynamics)
  Starts,          \* times of the events that start a reel
  WatchTimes,      \* values of round(watchSeconds)
  BrowseOverhead,  \* kBrowseOverheadSeconds
  SessionTargets,  \* values of sampleSessionTarget
  MaxImpressions   \* bound of the model: impressions in the run

ASSUME SimulatorAssumption ==
  /\ Clocks \subseteq {"shared", "event"}
  /\ SessionModels \subseteq {"rotation", "dynamics"}
  /\ Starts \subseteq Nat /\ WatchTimes \subseteq Nat
  /\ BrowseOverhead \in Nat \ {0}
  /\ SessionTargets \subseteq Nat \ {0}
  /\ MaxImpressions \in Nat
  /\ IsFiniteSet(Users)

VARIABLES
  clock, model,  \* the runner's clock discipline and the session model
  now,           \* now_
  popped,        \* time of the last event dispatched, with the event clock
  ready,         \* earliest time of each user's next event
  sessionId,     \* SessionState.sessionId
  length,        \* user.currentSessionLength
  targets,       \* history: the targetLengths drawn, the last one in force
  hidden,        \* HiddenSessionState of each user
  records,       \* history: the SessionRecords of each user
  events,        \* history: sessionId and exit flag of the InteractionEvents
  trending,      \* the contributions to each reel's trendingImpressions
  updatedAt,     \* trendingUpdatedAt
  drained        \* drainOpenSessions has run

config == <<clock, model>>
timeVars == <<now, popped, ready>>
trendVars == <<trending, updatedAt>>
vars == <<config, timeVars, sessionId, length, targets, hidden, records, events,
          trendVars, drained>>

Impressions == [impressions : Nat, start : Nat, last : Nat, previousEnd : Nat,
                gap : Nat]
Records == [session : Nat, exit : BOOLEAN, impressions : Nat, start : Nat, end : Nat]

NoSession == [impressions |-> 0, start |-> 0, last |-> 0, previousEnd |-> 0, gap |-> 0]

\* Seconds since the session before; none is remembered when it ended at 0.
AwayGap(s, t) ==
  IF s.previousEnd = 0 \/ t <= s.previousEnd THEN 0 ELSE t - s.previousEnd

StartSession(s, t) ==
  [s EXCEPT !.impressions = 0, !.start = t, !.last = t, !.gap = AwayGap(s, t)]

\* An impression of the hidden session of u over start..finish.
Accumulated(u, start, finish) ==
  LET s == IF hidden[u].impressions = 0 THEN StartSession(hidden[u], start)
                                        ELSE hidden[u]
  IN [s EXCEPT !.impressions = @ + 1, !.last = finish]

\* Mutant: the end includes the browse overhead.
ClosedAtNow(s, finish) ==
  [s EXCEPT !.previousEnd = finish + BrowseOverhead, !.impressions = 0]

\* After an exit no impression is pending and the end is remembered.
Closed(s, finish) == [s EXCEPT !.previousEnd = finish, !.impressions = 0]

MakeSessionRecord(s, id, exit) ==
  [session |-> id, exit |-> exit, impressions |-> s.impressions,
   start |-> s.start, end |-> s.last]

TrendingDecayForward(r, t) == IF t > updatedAt[r] THEN t - updatedAt[r] ELSE 0

\* Mutant: the update time is set before the decay is computed.
CountUndecayed(r, t) ==
  /\ trending' = [trending EXCEPT ![r] = Append(@, [at |-> t, age |-> 0])]
  /\ updatedAt' = [updatedAt EXCEPT ![r] = t]

\* The accumulators are brought forward to t, then bumped.
Count(r, t) ==
  LET aged(c) == [c EXCEPT !.age = @ + TrendingDecayForward(r, t)] IN
  /\ trending' = [trending EXCEPT ![r] =
                    Append([i \in DOMAIN @ |-> aged(@[i])], [at |-> t, age |-> 0])]
  /\ updatedAt' = [updatedAt EXCEPT ![r] = t]

TargetReached(u) == length[u] >= Last(targets[u])

Init ==
  /\ clock \in Clocks /\ model \in SessionModels
  /\ clock = "event" => model = "dynamics"
  /\ now = 0 /\ popped = 0 /\ ready = [u \in Users |-> 0]
  /\ sessionId = [u \in Users |-> 0]
  /\ length = [u \in Users |-> 0]
  /\ targets = [u \in Users |-> <<>>]
  /\ hidden = [u \in Users |-> NoSession]
  /\ records = [u \in Users |-> <<>>]
  /\ events = [u \in Users |-> <<>>]
  /\ trending = [r \in Reels |-> <<>>]
  /\ updatedAt = [r \in Reels |-> 0]
  /\ drained = FALSE
------------------------------------------------------------------------------
\* Where the clock stands when u starts a reel: where the last step left it,
\* or at the event dispatched.  The queue never goes back in time.
StartsAt(u, start) ==
  IF clock = "shared" THEN start = now
  ELSE start \in Starts /\ start >= popped /\ start >= ready[u]

\* What every step does to the clock, the reel and the user's history.
Advance(u, r, start, watch, session, exit) ==
  /\ now' = start + watch + BrowseOverhead
  /\ popped' = start
  /\ ready' = [ready EXCEPT ![u] = start + watch + (IF exit THEN 0 ELSE BrowseOverhead)]
  /\ Count(r, start + watch + BrowseOverhead)
  /\ events' = [events EXCEPT ![u] = Append(@, [session |-> session, exit |-> exit])]

\* Without session dynamics a session lasts for a drawn number of impressions
\* and the impression after them opens the next.
StepOpens(u, r, start, watch) ==
  /\ model = "rotation"
  /\ targets[u] # <<>> => TargetReached(u)
  /\ \E n \in SessionTargets : targets' = [targets EXCEPT ![u] = Append(@, n)]
  /\ sessionId' = [sessionId EXCEPT ![u] = Len(targets[u])]
  /\ length' = [length EXCEPT ![u] = 1]
  /\ Advance(u, r, start, watch, Len(targets[u]), FALSE)
  /\ UNCHANGED <<hidden, records>>

StepContinues(u, r, start, watch) ==
  /\ model = "rotation"
  /\ targets[u] # <<>> /\ ~TargetReached(u)
  /\ length' = [length EXCEPT ![u] = @ + 1]
  /\ Advance(u, r, start, watch, sessionId[u], FALSE)
  /\ UNCHANGED <<sessionId, targets, hidden, records>>

\* With session dynamics the exit draw ends a session.
StepV2Stays(u, r, start, watch) ==
  /\ model = "dynamics"
  /\ hidden' = [hidden EXCEPT ![u] = Accumulated(u, start, start + watch)]
  /\ length' = [length EXCEPT ![u] = @ + 1]
  /\ Advance(u, r, start, watch, sessionId[u], FALSE)
  /\ UNCHANGED <<sessionId, targets, records>>

StepV2Exits(u, r, start, watch) ==
  LET s == Accumulated(u, start, start + watch) IN
  /\ model = "dynamics"
  /\ records' = [records EXCEPT ![u] = Append(@, MakeSessionRecord(s, sessionId[u], TRUE))]
  /\ hidden' = [hidden EXCEPT ![u] = Closed(s, start + watch)]
  /\ sessionId' = [sessionId EXCEPT ![u] = @ + 1]
  /\ length' = [length EXCEPT ![u] = 0]
  /\ Advance(u, r, start, watch, sessionId[u], TRUE)
  /\ UNCHANGED targets

Step(u, r, start, watch) ==
  /\ ~drained
  /\ FoldFunction(+, 0, [v \in Users |-> Len(events[v])]) < MaxImpressions
  /\ StartsAt(u, start)
  /\ \/ StepOpens(u, r, start, watch)
     \/ StepContinues(u, r, start, watch)
     \/ StepV2Stays(u, r, start, watch)
     \/ StepV2Exits(u, r, start, watch)
  /\ UNCHANGED <<config, drained>>

OpenUsers == {u \in Users : hidden[u].impressions > 0}

\* The end of the run: what is open is recorded as ended by the run.
DrainOpenSessions ==
  /\ ~drained /\ drained' = TRUE
  /\ records' = [u \in Users |->
                   IF u \in OpenUsers
                   THEN Append(records[u], MakeSessionRecord(hidden[u], sessionId[u], FALSE))
                   ELSE records[u]]
  /\ hidden' = [u \in Users |-> NoSession]
  /\ UNCHANGED <<config, timeVars, sessionId, length, targets, events, trendVars>>

Next ==
  \/ \E u \in Users, r \in Reels, start \in Starts \cup {now}, watch \in WatchTimes :
       Step(u, r, start, watch)
  \/ DrainOpenSessions

Spec == Init /\ [][Next]_vars
------------------------------------------------------------------------------
\* The variables have their types.
TypeOK ==
  /\ clock \in Clocks /\ model \in SessionModels
  /\ now \in Nat /\ popped \in Nat /\ ready \in [Users -> Nat]
  /\ sessionId \in [Users -> Nat] /\ length \in [Users -> Nat]
  /\ targets \in [Users -> Seq(SessionTargets)]
  /\ hidden \in [Users -> Impressions]
  /\ records \in [Users -> Seq(Records)]
  /\ events \in [Users -> Seq([session : Nat, exit : BOOLEAN])]
  /\ trending \in [Reels -> Seq([at : Nat, age : Nat])]
  /\ updatedAt \in [Reels -> Nat]
  /\ drained \in BOOLEAN

Exact(r) ==
  \A i \in DOMAIN trending[r] :
    trending[r][i].at + trending[r][i].age = updatedAt[r]

\* While the steps keep the clock every contribution to a trending accumulator
\* has decayed by exactly the time since it was made, so that the velocity
\* read at any later time is right (reel.hpp's trending contract).
TrendingDecayedForward == clock = "shared" => \A r \in Reels : Exact(r)

\* The same of either runner: "so the velocity is correct at any later `now`"
\* (Simulator::step), "identical to V1 step" (stepV2).
VelocityCorrect == \A r \in Reels : Exact(r)

\* A sum, as the size of a set: each x of S has as many marks as it counts.
Marks(count, S) == UNION {{x} \X (1..count[x]) : x \in S}
Total(count, S) == Cardinality(Marks(count, S))

\* The impressions of a user and those in the records agree: each is in one
\* record or in the session still open, and after the drain all are recorded.
EveryImpressionRecorded ==
  model = "dynamics" =>
    \A u \in Users :
      LET held == [k \in DOMAIN records[u] |-> records[u][k].impressions]
      IN Total(held, DOMAIN records[u]) + hidden[u].impressions = Len(events[u])

\* Records whose ids count them, each of a session begun after the last ended.
Chain(recs) ==
  \A k \in DOMAIN recs :
    /\ recs[k].session = k - 1
    /\ recs[k].start <= recs[k].end
    /\ k > 1 => recs[k - 1].end <= recs[k].start /\ recs[k - 1].exit

\* Sessions of a user follow each other in time under either clock, also when
\* the event clock steps back between users, and only the last may have been
\* ended by the run (makeSessionRecord, drainOpenSessions).
SessionsDisjoint == \A u \in Users : Chain(records[u])

\* A session starts with the fatigue of the one before decayed over the time
\* since that one's last impression finished.  (A session that ended at time
\* 0 is taken for none.)
AwayGapExact ==
  \A u \in Users :
    hidden[u].impressions > 0 =>
      hidden[u].gap =
        IF records[u] = <<>> \/ Last(records[u]).end = 0 THEN 0
        ELSE hidden[u].start - Last(records[u]).end

\* The times of a user's sessions are its own, under either clock.
SessionTimesExact == SessionsDisjoint /\ AwayGapExact

\* What the recommender is shown of sessions is what happened: the session id
\* moves on after an exit flag and nowhere else, and without session dynamics
\* every session but the last has its drawn number of impressions.
VisibleSessions ==
  \A u \in Users :
    /\ model = "dynamics" =>
         /\ \A k \in 1..Len(events[u]) - 1 :
              events[u][k + 1].session = events[u][k].session + (IF events[u][k].exit THEN 1 ELSE 0)
         /\ ~drained => length[u] = hidden[u].impressions
    /\ model = "rotation" =>
         \A k \in 1..Len(targets[u]) - 1 :
           Cardinality({i \in DOMAIN events[u] : events[u][i].session = k - 1}) = targets[u][k]

\* Sessions account for every impression: each is recorded once, and the
\* session ids the recommender is shown agree with the sessions closed.
SessionsAccounted == EveryImpressionRecorded /\ VisibleSessions
=============================================================================
