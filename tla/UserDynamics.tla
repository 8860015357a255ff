---------------------------- MODULE UserDynamics -----------------------------
(***************************************************************************)
(* What an impression leaves behind in its user, beside the simulator's    *)
(* bookkeeping: the hidden exposure of PreferenceEvolution, the habit of   *)
(* RetentionModel and whether the user returns, the estimates that         *)
(* OnlineUserStateUpdater and ToleranceEstimator derive from the window of *)
(* recent interactions, and the session-health books of the run.           *)
(*                                                                         *)
(* A decayed quantity is the list of what was added to it, each with the   *)
(* decay applied since, as in Simulator; the pruning of values under an    *)
(* epsilon is left out.  A reel stands for a topic and a creator of its    *)
(* own.  The vectors themselves, the traits and the weights are left out.  *)
(***************************************************************************)
EXTENDS Simulator, FiniteSetsExt

CONSTANTS
  GateSets,          \* sets of gates: evolution, retention, learning, personalized
  RecentWindow,      \* learning.recent_window
  Duration,          \* seconds of a reel; watched as long it is completed
  RepetitivePercent, \* kExitRepetitionThreshold
  ReturnDelays,      \* values of nextReturnDelay
  ChurnDelay         \* retention.churn_delay_threshold_seconds

ASSUME DynamicsAssumption ==
  /\ GateSets \subseteq SUBSET {"evolution", "retention", "learning", "personalized"}
  /\ RecentWindow \in Nat \ {0} /\ Duration \in Nat \ {0}
  /\ RepetitivePercent \in 1..100
  /\ ReturnDelays \subseteq Nat \ {0} /\ ChurnDelay \in Nat

VARIABLES
  gates,      \* the gates of the run
  watched,    \* history: reel, completion and time of each impression of a user
  exposure,   \* what was added to HiddenExposureState: reel, time, age
  touchedAt,  \* HiddenExposureState.lastTouchedAt
  felt,       \* history: the exposures that dulled the user's last impression
  habit,      \* what was added to habitStrength: impressions, time, age
  lastExitAt, \* HiddenRetentionState.lastExitAt
  leaving,    \* ExitApp is pending
  returnAt,   \* time of the user's ReturnToApp
  churned,    \* HiddenRetentionState.churned
  recent,     \* user.recentInteractions
  estimate,   \* what is summed in sessionPreference: reels, newer events of each
  fatigue,    \* what was added to estimatedTopicFatigue: reel, decays and relaxations
  health      \* SessionHealthMetrics: closed, open and linked records

hiddenVars == <<exposure, touchedAt, felt, habit, lastExitAt>>
awayVars == <<leaving, returnAt, churned>>
learnedVars == <<recent, estimate, fatigue>>
\* Sessions ended by their user, open ones, and those linked to the one before.
NoHealth == [k \in {"closed", "open", "linked"} |-> 0]

dynVars == <<vars, gates, watched, hiddenVars, awayVars, learnedVars, health>>

DynInit ==
  /\ Init
  /\ gates \in GateSets
  /\ model = "rotation" => gates \subseteq {"learning"}
  /\ "retention" \in gates => clock = "event"
  /\ watched = [u \in Users |-> <<>>]
  /\ exposure = [u \in Users |-> <<>>] /\ touchedAt = [u \in Users |-> 0]
  /\ felt = [u \in Users |-> {}]
  /\ habit = [u \in Users |-> <<>>] /\ lastExitAt = [u \in Users |-> 0]
  /\ leaving = {} /\ returnAt = [u \in Users |-> 0] /\ churned = {}
  /\ recent = [u \in Users |-> <<>>] /\ estimate = [u \in Users |-> {}]
  /\ fatigue = [u \in Users |-> <<>>]
  /\ health = NoHealth

\* One more addition to a decayed quantity: what is there ages by the gap.
Added(list, gap, entry) ==
  Append([i \in DOMAIN list |-> [list[i] EXCEPT !.age = @ + gap]], entry)

Elapsed(from, to) == IF to > from THEN to - from ELSE 0
------------------------------------------------------------------------------
\* The reaction to a reel: completed or not, of a watch ratio in percent.
Completed(watch) == watch >= Duration
WatchRatio(watch) == Min({100, (100 * watch) \div Duration})

\* The time an impression is evolved at: the event's, or the shared clock,
\* which the step has already moved.
ImpressionTime(start, watch) ==
  IF clock = "event" THEN start ELSE start + watch + BrowseOverhead

\* BehaviourModelV2 reads the exposure as the previous impression left it.
ExposureFelt(u, r) ==
  felt' = [felt EXCEPT ![u] = {i \in DOMAIN exposure[u] : exposure[u][i].reel = r}]

\* Mutant: the decay is anchored at the user's first impression for good.
AnchorOnce(u, t) == IF exposure[u] = <<>> THEN t ELSE touchedAt[u]

\* The whole state is re-anchored on every touch.
Anchor(u, t) == t

\* PreferenceEvolution: decay what is there to t, then add this exposure.
ApplyImpression(u, r, t) ==
  LET gap == IF exposure[u] = <<>> THEN 0 ELSE Elapsed(touchedAt[u], t) IN
  IF "evolution" \in gates
  THEN /\ exposure' = [exposure EXCEPT ![u] = Added(@, gap, [reel |-> r, at |-> t, age |-> 0])]
       /\ touchedAt' = [touchedAt EXCEPT ![u] = Anchor(u, t)]
       /\ ExposureFelt(u, r)
  ELSE UNCHANGED <<exposure, touchedAt, felt>>

\* RetentionModel: habit decays over the time since the exit before, then the
\* session just closed moves it.
OnSessionEnd(u, rec) ==
  IF "retention" \in gates
  THEN /\ habit' = [habit EXCEPT ![u] =
                      Added(@, IF @ = <<>> THEN 0 ELSE Elapsed(lastExitAt[u], rec.end),
                            [impressions |-> rec.impressions, at |-> rec.end, age |-> 0])]
       /\ lastExitAt' = [lastExitAt EXCEPT ![u] = rec.end]
  ELSE UNCHANGED <<habit, lastExitAt>>
------------------------------------------------------------------------------
\* The step pushes its event and trims the window.
Remember(u, r, session) ==
  LET longer == Append(recent[u], [reel |-> r, session |-> session]) IN
  recent' = [recent EXCEPT ![u] = IF Len(longer) > RecentWindow THEN Tail(longer) ELSE longer]

\* The events of the window in the session of the interaction, and how many of
\* them are newer than each.
SessionEvents(u, session) ==
  LET own == {i \in DOMAIN recent'[u] : recent'[u][i].session = session}
  IN {[reel |-> recent'[u][i].reel, newer |-> Cardinality({j \in own : j > i})] : i \in own}

\* OnlineUserStateUpdater: the session vector is the sum over those events,
\* each discounted once per newer one.
UpdateEstimates(u, session) ==
  estimate' = IF "learning" \in gates
              THEN [estimate EXCEPT ![u] = SessionEvents(u, session)]
              ELSE estimate

\* The satisfaction a reaction shows, in percent: full for a completion, none
\* for an exit out of a repetitive window.
ComputeSat(watch, exit, repetition) ==
  IF exit /\ repetition >= RepetitivePercent THEN 0
  ELSE IF Completed(watch) THEN 100 ELSE WatchRatio(watch)

\* Mutant: the window includes the interaction itself.
WithCurrent(u) == recent'[u]

\* The window before the interaction, which is its newest entry.
PriorWindow(u) == Front(recent'[u])

\* An event on reel r decays every entry, and the step of the moving average
\* towards the event's signal relaxes what there is about r.
Weathered(list, r) ==
  [i \in DOMAIN list |->
     [reel |-> list[i].reel, age |-> list[i].age + 1,
      relaxed |-> list[i].relaxed + IF list[i].reel = r THEN 1 ELSE 0]]

\* ToleranceEstimator: the fatigue there was weathers; the reel's topic is added
\* to when it is repeated and met with less than full satisfaction.  The first
\* interaction of a user says nothing.
UpdateFatigue(u, r, watch, exit) ==
  LET prior == PriorWindow(u)
      same == Cardinality({i \in DOMAIN prior : prior[i].reel = r})
      repetition == (100 * same) \div Max({1, Len(prior)})
      tired == same > 0 /\ ComputeSat(watch, exit, repetition) < 100
      old == Weathered(fatigue[u], r)
  IN fatigue' = IF "personalized" \notin gates \/ prior = <<>> THEN fatigue
                ELSE [fatigue EXCEPT ![u] =
                        IF tired THEN Append(old, [reel |-> r, age |-> 0, relaxed |-> 0]) ELSE old]
------------------------------------------------------------------------------
\* SessionHealthMetrics.add of one record of each of these users: that of a
\* user seen before is linked to the session before it.
Tallied(h, who, kind) ==
  [h EXCEPT ![kind] = @ + Cardinality(who),
            !["linked"] = @ + Cardinality({u \in who : records[u] # <<>>})]

\* What a step of the simulator is followed by.
Impression(u, r, start, watch) ==
  /\ u \notin leaving \cup churned
  /\ clock = "event" => start >= returnAt[u]
  /\ Step(u, r, start, watch)
  /\ LET event == Last(events'[u]) IN
     /\ watched' = [watched EXCEPT ![u] = Append(@, [reel |-> r, watch |-> watch,
                                            at |-> ImpressionTime(start, watch)])]
     /\ ApplyImpression(u, r, ImpressionTime(start, watch))
     /\ Remember(u, r, event.session)
     /\ UpdateEstimates(u, event.session)
     /\ UpdateFatigue(u, r, watch, event.exit)
     /\ IF event.exit
        THEN /\ OnSessionEnd(u, Last(records'[u]))
             /\ health' = Tallied(health, {u}, "closed")
             /\ leaving' = IF clock = "event" THEN leaving \cup {u} ELSE leaving
        ELSE UNCHANGED <<habit, lastExitAt, health, leaving>>
  /\ UNCHANGED <<gates, returnAt, churned>>

\* The exit of the app: the user returns after the delay drawn, or never.
ExitApp(u, delay) ==
  /\ u \in leaving /\ ~drained
  /\ leaving' = leaving \ {u}
  /\ IF "retention" \in gates /\ delay > ChurnDelay
     THEN churned' = churned \cup {u} /\ UNCHANGED returnAt
     ELSE returnAt' = [returnAt EXCEPT ![u] = ready[u] + delay] /\ UNCHANGED churned
  /\ UNCHANGED <<vars, gates, watched, hiddenVars, learnedVars, health>>

\* Open sessions reach the session-health books and nothing else.
DrainSessions ==
  /\ DrainOpenSessions
  /\ health' = Tallied(health, OpenUsers, "open")
  /\ UNCHANGED <<gates, watched, hiddenVars, awayVars, learnedVars>>

DynNext ==
  \/ \E u \in Users, r \in Reels, start \in Starts \cup {now}, watch \in WatchTimes :
       Impression(u, r, start, watch)
  \/ \E u \in Users, delay \in ReturnDelays : ExitApp(u, delay)
  \/ DrainSessions

DynSpec == DynInit /\ [][DynNext]_dynVars
------------------------------------------------------------------------------
\* Exposure holds every impression of the user, each decayed by exactly the
\* user's own time since it, under either clock: other users move the shared
\* clock, or the event clock back, without touching it.
ExposureDecayedOnce ==
  "evolution" \in gates =>
    \A u \in Users :
      /\ Len(exposure[u]) = Len(watched[u])
      /\ \A i \in DOMAIN exposure[u] :
           /\ exposure[u][i].reel = watched[u][i].reel
           /\ exposure[u][i].at = watched[u][i].at
           /\ exposure[u][i].age = watched[u][Len(watched[u])].at - watched[u][i].at

\* A reel is dulled by the user's earlier impressions of it and not by itself.
FeltBefore ==
  "evolution" \in gates =>
    \A u \in Users : LET n == Len(watched[u]) IN
      felt[u] = {i \in 1..(n - 1) : watched[u][i].reel = watched[u][n].reel}

\* Habit holds the sessions the user itself ended, each decayed by exactly the
\* time from its end to the last; a session ended by the run moves no habit,
\* and a user that churned never watches again.
HabitExact ==
  "retention" \in gates =>
    \A u \in Users :
      /\ DOMAIN habit[u] = {k \in DOMAIN records[u] : records[u][k].exit}
      /\ \A k \in DOMAIN habit[u] :
           /\ habit[u][k].impressions = records[u][k].impressions
           /\ habit[u][k].age = records[u][Len(habit[u])].end - records[u][k].end
      /\ u \in churned => Last(events[u]).exit

\* The hidden state of a user is a function of the user's own impressions.
HiddenStateExact == ExposureDecayedOnce /\ FeltBefore /\ HabitExact

\* The session vector is made of the user's last impressions, as many of them
\* as the window holds and the session of the last one has, each discounted
\* once per later impression, and of no other session (the implicit reset).
SessionVectorFresh ==
  "learning" \in gates =>
    \A u \in Users : LET n == Len(events[u]) IN n > 0 =>
      estimate[u] =
        {[reel |-> watched[u][i].reel, newer |-> n - i] :
           i \in {k \in 1..n : k > n - RecentWindow /\ events[u][k].session = events[u][n].session}}

\* How often a reel is met after one impression of a history.
Recurrences(seen, met, r) == Cardinality({j \in (met + 1)..Len(seen) : seen[j].reel = r})

\* A user seems tired of a topic only after it came back within the window,
\* so never of one met for the first time (computeSat, "a purely novel event");
\* and what it came to then has decayed once for every later impression of the
\* user and relaxed once for every later one of that topic.
FatigueNeedsRepetition ==
  \A u \in Users : \A i \in DOMAIN fatigue[u] :
    LET met == Len(watched[u]) - fatigue[u][i].age
        Same(j) == watched[u][j].reel = fatigue[u][i].reel
    IN /\ met > 1 /\ Same(met)
       /\ \E j \in (met - RecentWindow + 1)..(met - 1) : j > 0 /\ Same(j)
       /\ fatigue[u][i].relaxed = Recurrences(watched[u], met, fatigue[u][i].reel)

\* What the recommender learns of a user is of its session and its window.
LearnedStateExact == SessionVectorFresh /\ FatigueNeedsRepetition

\* Every session is in the books once, open ones apart, and one is linked to
\* the session before exactly when its user had one (add, openShare).
HealthBooksBalance ==
  LET all == Total([u \in Users |-> Len(records[u])], Users)
      open == Cardinality({u \in Users : records[u] # <<>> /\ ~Last(records[u]).exit})
      users == Cardinality({u \in Users : records[u] # <<>>})
  IN /\ health.open = open /\ health.closed = all - open
     /\ health.linked = all - users

\* Sessions account for every impression, and the books for every session.
SessionsBooked == SessionsAccounted /\ HealthBooksBalance
=============================================================================
