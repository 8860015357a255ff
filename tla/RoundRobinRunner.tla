-------------------------- MODULE RoundRobinRunner ---------------------------
(***************************************************************************)
(* The legacy experiment runner: ceil(interactionsPerUser / feedSize)      *)
(* rounds, in each a feed for every user in turn, consumed before the next *)
(* user is served.  Reels and users can be injected at the start of a      *)
(* round, hidden preferences drift on schedule, a session may end inside a *)
(* feed, and everything served is counted in per-round ledgers.            *)
(*                                                                         *)
(* Users and reels are their dense ids, injected ones follow the generated *)
(* ones.  A recommender returns any new reels, as many as it can or fewer. *)
(* Rewards, regrets and latencies are left out: a ledger is what it        *)
(* counts, and of a regret only whether the oracle was really asked.       *)
(***************************************************************************)
EXTENDS Integers, Sequences, FiniteSets, SequencesExt, FiniteSetsExt

CONSTANTS
  Configs,  \* the configurations loaded
  Tracked   \* kColdStartMaxImpressions

Config ==
  [users : Nat, reels : Nat, newUsers : Nat, newUsersAt : Nat, newReels : Nat,
   newReelsAt : Nat, feedSize : Nat, interactionsPerUser : Nat,
   sessionDynamics : BOOLEAN, fullFeeds : BOOLEAN,
   drift : Seq([at : Nat, cohort : SUBSET Nat])]

\* Injection is refused under content_v2, which session dynamics require.
ASSUME ConfigsAssumption ==
  /\ Configs \subseteq Config /\ Tracked \in Nat
  /\ \A c \in Configs : c.sessionDynamics => c.newUsers = 0 /\ c.newReels = 0

VARIABLES
  config,
  stage,      \* "round", "request", "consume", "finish" or "done"
  round,
  users, reels, \* sizes of the dataset
  turn,       \* the user served
  feed,       \* resp.reels
  served,     \* impressions simulated of this feed
  evaluated,  \* the oracle was asked about this request
  done,       \* doneByUser
  total,      \* user.totalInteractions
  pref,       \* the drift event whose target is the hidden preference, 0 for none
  drifted,    \* the drift cohort flags
  open,       \* impressions of the session a user has open
  records,    \* what sessionHealth was given
  curve,      \* newUserByImpression
  ledger,     \* the counts of each round
  exposed,    \* exposedInjectedReels
  report,     \* the ExperimentResult, a record once the run is over
  log         \* history: round, reel and preference of each user's impressions

progressVars == <<stage, round, turn>>
dataVars     == <<users, reels>>
feedVars     == <<feed, served, evaluated>>
userVars     == <<total, pref, open, log>>
metricVars   == <<records, curve, ledger, exposed>>
vars == <<config, progressVars, dataVars, feedVars, done, drifted, userVars, metricVars,
          report>>

Lower(a, b) == IF a < b THEN a ELSE b

\* Mutant: a feed more when the budget is a multiple of the feed size.
RoundsOver ==
  IF config.feedSize > 0 THEN config.interactionsPerUser \div config.feedSize + 1 ELSE 0

\* The feeds needed to spend the budget, one a round.
Rounds ==
  IF config.feedSize > 0
  THEN (config.interactionsPerUser + config.feedSize - 1) \div config.feedSize
  ELSE 0

Users == 0..users - 1
Injected(u) == u >= config.users
InjectedReel(r) == r >= config.reels

EmptyRound ==
  [impressions |-> 0, sessions |-> {}, drifted |-> 0, injected |-> 0, distinct |-> 0]
NoRow == [users |-> 0, evaluated |-> 0]

\* The scheduler's view of a user.
EverApplies(u) == \E i \in DOMAIN config.drift : u \in config.drift[i].cohort

\* Mutant: the first of the events that fire together wins.
FirstWins(u, n) ==
  LET due == {i \in DOMAIN config.drift :
                config.drift[i].at = n /\ u \in config.drift[i].cohort}
  IN IF due = {} THEN pref[u] ELSE CHOOSE i \in due : \A j \in due : i <= j

\* The events whose count is reached fire in config order, the last one wins.
MaybeApply(u, n) ==
  LET due == {i \in DOMAIN config.drift :
                config.drift[i].at = n /\ u \in config.drift[i].cohort}
  IN IF due = {} THEN pref[u] ELSE CHOOSE i \in due : \A j \in due : j <= i

Init ==
  /\ config \in Configs
  /\ stage = (IF Rounds = 0 THEN "finish" ELSE "round") /\ round = 0 /\ turn = 0
  /\ users = config.users /\ reels = config.reels
  /\ feed = <<>> /\ served = 0 /\ evaluated = FALSE
  /\ done = [u \in Users |-> 0] /\ total = [u \in Users |-> 0]
  /\ pref = [u \in Users |-> 0]
  /\ drifted = [u \in Users |-> EverApplies(u)]
  /\ open = [u \in Users |-> 0] /\ log = [u \in Users |-> <<>>]
  /\ records = <<>>
  /\ curve = [i \in 0..Tracked - 1 |-> NoRow]
  /\ ledger = [r \in 0..Rounds - 1 |-> EmptyRound]
  /\ exposed = {} /\ report = <<>>
------------------------------------------------------------------------------
\* A column of the users' bookkeeping grown for the injected ones.
Grown(column, initial) ==
  [u \in 0..users' - 1 |-> IF u \in Users THEN column[u] ELSE initial[u]]

\* appendReels and then appendUsers at the start of their rounds.
BeginRound ==
  /\ stage = "round" /\ stage' = "request" /\ turn' = 0
  /\ reels' = reels + (IF round = config.newReelsAt THEN config.newReels ELSE 0)
  /\ users' = users + (IF round = config.newUsersAt THEN config.newUsers ELSE 0)
  /\ LET none == [u \in 0..users' - 1 |-> 0] IN
     /\ done' = Grown(done, none) /\ total' = Grown(total, none)
     /\ pref' = Grown(pref, none) /\ open' = Grown(open, none)
     /\ log' = Grown(log, [u \in 0..users' - 1 |-> <<>>])
  /\ drifted' = Grown(drifted, [u \in 0..users' - 1 |-> EverApplies(u)])
  /\ UNCHANGED <<config, round, feedVars, metricVars, report>>

\* Injected users have the oracle asked inside the tracked window.
ForceColdStart(u) == Injected(u) /\ done[u] < Tracked

\* Feeds of new reels: those of the user's log are in its seen set.  The
\* baselines fill their feeds while the catalogue lasts, a pipeline may not.
Feeds(u) ==
  LET seen == {log[u][i].reel : i \in DOMAIN log[u]}
      new == (0..reels - 1) \ seen
  IN UNION {{f \in [1..n -> new] : \A i, j \in 1..n : f[i] = f[j] => i = j} :
              n \in IF config.fullFeeds THEN {Lower(config.feedSize, Cardinality(new))}
                                        ELSE 0..config.feedSize}

Remaining(u) == config.interactionsPerUser - done[u]

ToConsume(u) == Lower(Remaining(u), Len(feed))

\* A user who got no feed has had its turn.
NothingServed == turn' = turn + 1 /\ UNCHANGED stage

\* recommend() and the oracle for the next user; a user whose budget is spent
\* is passed over.
Request ==
  /\ stage = "request" /\ turn < users
  /\ IF Remaining(turn) = 0
     THEN turn' = turn + 1 /\ UNCHANGED <<stage, feedVars>>
     ELSE /\ feed' \in Feeds(turn) /\ served' = 0
          /\ \E sampled \in BOOLEAN : evaluated' = (sampled \/ ForceColdStart(turn))
          /\ IF feed' = <<>> THEN NothingServed
                             ELSE stage' = "consume" /\ UNCHANGED turn
  /\ UNCHANGED <<config, round, dataVars, done, drifted, userVars, metricVars, report>>

\* MetricAccumulator's key of a session: the user and its session number.
SessionKey(u) == <<u, Cardinality({i \in DOMAIN records : records[i].user = u})>>

\* What an impression of reel r adds to the round.
Counted(row, u, r) ==
  [row EXCEPT !.impressions = @ + 1,
              !.sessions = @ \cup {SessionKey(u)},
              !.drifted = @ + (IF drifted[u] THEN 1 ELSE 0),
              !.injected = @ + (IF InjectedReel(r) THEN 1 ELSE 0)]

\* Mutant: the rows are indexed inside the feed.
CurveByPosition(u, k) ==
  IF Injected(u) /\ k < Tracked
  THEN [curve EXCEPT ![k] = [users |-> @.users + 1,
                             evaluated |-> @.evaluated + (IF evaluated THEN 1 ELSE 0)]]
  ELSE curve

\* The row of an injected user's own impression index, k into the feed.
CurveWith(u, k) ==
  IF Injected(u) /\ done[u] + k < Tracked
  THEN [curve EXCEPT ![done[u] + k] =
          [users |-> @.users + 1,
           evaluated |-> @.evaluated + (IF evaluated THEN 1 ELSE 0)]]
  ELSE curve

\* One impression: drift, the simulator's step and the ledgers.  It is the
\* last of the feed at its end, at the end of the budget, and on an exit.
Impression(exit) ==
  LET u == turn
      r == feed[served + 1]
      now == MaybeApply(u, total[u])
  IN
  /\ stage = "consume"
  /\ exit => config.sessionDynamics
  /\ pref' = [pref EXCEPT ![u] = now]
  /\ total' = [total EXCEPT ![u] = @ + 1]
  /\ log' = [log EXCEPT ![u] = Append(@, [round |-> round, reel |-> r, pref |-> now])]
  /\ open' = [open EXCEPT ![u] = IF exit THEN 0 ELSE @ + 1]
  /\ records' = IF exit
                THEN Append(records, [round |-> round, user |-> u,
                                      impressions |-> open[u] + 1, ended |-> FALSE])
                ELSE records
  /\ curve' = CurveWith(u, served)
  /\ ledger' = [ledger EXCEPT ![round] = Counted(@, u, r)]
  /\ exposed' = IF InjectedReel(r) THEN exposed \cup {r} ELSE exposed
  /\ served' = served + 1
  /\ IF exit \/ served + 1 = ToConsume(u)
     THEN /\ done' = [done EXCEPT ![u] = @ + served + 1]
          /\ turn' = turn + 1 /\ stage' = "request"
     ELSE UNCHANGED <<done, turn, stage>>
  /\ UNCHANGED <<config, round, dataVars, drifted, feed, evaluated, report>>

\* The end of a round takes the reels exposed so far.
EndRound ==
  /\ stage = "request" /\ turn = users
  /\ ledger' = [ledger EXCEPT ![round].distinct = Cardinality(exposed)]
  /\ round' = round + 1
  /\ stage' = IF round + 1 < Rounds THEN "round" ELSE "finish"
  /\ UNCHANGED <<config, turn, dataVars, feedVars, done, drifted, userVars,
                 records, curve, exposed, report>>

\* Mutant: what is open at the end is lost.
NotDrained == {<<>>}

\* The sessions left open are recorded in the last round, in any order.
Drained ==
  IF config.sessionDynamics /\ Rounds > 0
  THEN {[i \in DOMAIN s |-> [round |-> Rounds - 1, user |-> s[i],
                             impressions |-> open[s[i]], ended |-> TRUE]] :
          s \in SetToSeqs({u \in Users : open[u] > 0})}
  ELSE {<<>>}

------------------------------------------------------------------------------
(* The result: what the accumulators are reduced to. *)

\* The sum of a row of counts.
Total(count) == Cardinality(UNION {{x} \X (1..count[x]) : x \in DOMAIN count})

\* SessionHealthMetrics.add links a record to an earlier one of its user.
Linked(recs) ==
  {i \in DOMAIN recs : \E j \in 1..(i - 1) : recs[j].user = recs[i].user}

\* reduceRound and reduce: sessions of the rounds R, open ones apart.
SessionHealth(recs, R) ==
  LET within(S) == {i \in S : recs[i].round \in R} IN
  [sessions |-> Cardinality({i \in within(DOMAIN recs) : ~recs[i].ended}),
   open |-> Cardinality({i \in within(DOMAIN recs) : recs[i].ended}),
   linked |-> Cardinality(within(Linked(recs)))]

\* The rows of the cold-start curve, to the last index that was reached.
NewUserCurve ==
  LET reached == {i \in DOMAIN curve : curve[i].users > 0}
  IN IF reached = {} THEN <<>>
     ELSE [k \in 1..(1 + Max(reached)) |-> curve[k - 1]]

NewReelExposure ==
  [r \in DOMAIN ledger |->
     [injected |-> ledger[r].injected,
      cumulative |-> Total([q \in 0..r |-> ledger[q].injected]),
      distinct |-> ledger[r].distinct]]

\* The round the first event is taken to affect.
DriftRound ==
  IF config.feedSize > 0
  THEN Min({config.drift[i].at : i \in DOMAIN config.drift}) \div config.feedSize
  ELSE 0

\* The rounds the adaptation report reads its baseline from, and those it
\* searches for the trough and the recovery: only with drifted impressions.
BaselineRounds ==
  {r \in (DriftRound - 3)..(DriftRound - 1) : r \in DOMAIN ledger /\ ledger[r].drifted > 0}
SearchedRounds == {r \in DOMAIN ledger : r >= DriftRound /\ ledger[r].drifted > 0}

AdaptationReport ==
  [driftedUsers |-> Cardinality({u \in Users : drifted[u]}),
   controlUsers |-> Cardinality({u \in Users : ~drifted[u]}),
   baseline |-> BaselineRounds, searched |-> SearchedRounds]

\* MetricsCollector.overall pools the rounds: a session in two counts once.
Overall ==
  [impressions |-> Total([r \in DOMAIN ledger |-> ledger[r].impressions]),
   sessions |-> Cardinality(UNION {ledger[r].sessions : r \in DOMAIN ledger})]

Result(recs) ==
  [overall |-> Overall,
   sessionHealth |-> SessionHealth(recs, DOMAIN ledger),
   byRound |-> [r \in DOMAIN ledger |-> SessionHealth(recs, {r})],
   newUserCurve |-> NewUserCurve,
   exposure |-> NewReelExposure,
   adaptation |-> IF config.drift = <<>> THEN <<>> ELSE AdaptationReport]

Finish ==
  /\ stage = "finish" /\ stage' = "done"
  /\ \E rest \in Drained : records' = records \o rest
  /\ open' = [u \in Users |-> 0]
  /\ report' = Result(records')
  /\ UNCHANGED <<config, round, turn, dataVars, feedVars, done, drifted, total,
                 pref, log, curve, ledger, exposed>>

Next == BeginRound \/ Request \/ (\E exit \in BOOLEAN : Impression(exit))
        \/ EndRound \/ Finish

Spec == Init /\ [][Next]_vars

\* The runner is one thread that runs until it returns.
------------------------------------------------------------------------------
\* The variables have their types.
TypeOK ==
  /\ config \in Configs
  /\ stage \in {"round", "request", "consume", "finish", "done"}
  /\ round \in 0..Rounds /\ users \in Nat /\ reels \in Nat /\ turn \in 0..users
  /\ feed \in Seq(Nat) /\ served \in Nat /\ evaluated \in BOOLEAN
  /\ done \in [Users -> Nat] /\ total \in [Users -> Nat]
  /\ pref \in [Users -> Nat] /\ open \in [Users -> Nat]
  /\ drifted \in [Users -> BOOLEAN]
  /\ log \in [Users -> Seq([round : Nat, reel : Nat, pref : Nat])]
  /\ records \in Seq([round : Nat, user : Nat, impressions : Nat, ended : BOOLEAN])
  /\ curve \in [0..Tracked - 1 -> [users : Nat, evaluated : Nat]]
  /\ ledger \in [0..Rounds - 1 ->
                   [impressions : Nat, sessions : SUBSET (Nat \X Nat), drifted : Nat,
                    injected : Nat, distinct : Nat]]
  /\ exposed \in SUBSET Nat /\ IsFiniteSet(exposed)

\* No user has spent its budget when its turn comes, however feeds were
\* shortened and whenever it was injected: the loop's "defensive" skip "ceil
\* rounds never hit this at round start", and no one is served past the budget.
ServedEveryRound ==
  /\ stage = "request" /\ turn < users => Remaining(turn) > 0
  /\ \A u \in Users : total[u] <= config.interactionsPerUser

\* The drift target in force when u has seen n impressions.
InForce(u, n) ==
  LET reached == {i \in DOMAIN config.drift :
                    config.drift[i].at <= n /\ u \in config.drift[i].cohort}
      later(i, j) == config.drift[i].at > config.drift[j].at
                     \/ (config.drift[i].at = config.drift[j].at /\ i >= j)
  IN IF reached = {} THEN 0 ELSE CHOOSE i \in reached : \A j \in reached : later(i, j)

\* Every impression is served under the latest drift its user has reached,
\* although an event only fires on equality with the count.  The adaptation
\* report reads its baseline from rounds before any of them and finds every
\* impression after one in the rounds it searches for the trough.
DriftCurrent ==
  \A u \in Users : \A i \in DOMAIN log[u] :
    /\ log[u][i].pref = InForce(u, i - 1)
    /\ log[u][i].pref # 0 => log[u][i].round >= DriftRound
    /\ stage = "done" /\ log[u][i].pref # 0 =>
         log[u][i].round \in report.adaptation.searched \ report.adaptation.baseline

\* Row i of the cold-start curve has each injected user that got so far, once,
\* and each with a regret the oracle computed for the request it was served by;
\* the reported rows end at the furthest any of them got and have no gap.
CurveExact ==
  /\ \A i \in DOMAIN curve :
       LET reached == Cardinality({u \in Users : Injected(u) /\ total[u] > i})
       IN curve[i] = [users |-> reached, evaluated |-> reached]
  /\ stage = "done" =>
       LET rows == report.newUserCurve IN
       /\ Len(rows) = Max({0} \cup {Lower(total[u], Tracked) : u \in {v \in Users : Injected(v)}})
       /\ \A k \in DOMAIN rows : rows[k].users >= rows[Len(rows)].users /\ rows[k].users > 0

\* The impressions logged, by user and place.
Logged == UNION {{u} \X DOMAIN log[u] : u \in Users}
Entry(p) == log[p[1]][p[2]]

\* The result adds up: its rounds to its totals, its sessions to the records
\* (a session met in two rounds counts once), each linked to the one before of its user, and its cohorts to the users.
ResultAddsUp ==
  LET health == report.sessionHealth
      OfRounds(f) == Total([r \in DOMAIN report.byRound |-> report.byRound[r][f]])
      last == report.exposure[Rounds - 1]
  IN /\ report.overall.impressions = Total(total)
     /\ config.sessionDynamics => report.overall.sessions = health.sessions + health.open
     /\ health.sessions + health.open = Len(records)
     /\ health.linked = Len(records)
          - Cardinality({u \in Users : config.sessionDynamics /\ total[u] > 0})
     /\ \A f \in {"sessions", "open", "linked"} : OfRounds(f) = health[f]
     /\ Rounds > 0 => /\ last.distinct = Cardinality(exposed)
                      /\ last.cumulative >= last.distinct
                      /\ last.distinct <= config.newReels
     /\ config.drift # <<>> =>
          report.adaptation.driftedUsers + report.adaptation.controlUsers = users

\* The ledgers of each round and the session records agree with what the
\* users saw: an impression is counted in its round, cohort and reel group,
\* and belongs to one session record or to the session still open; and the
\* result agrees with the ledgers.
LedgersAgree ==
  /\ stage = "done" => ResultAddsUp
  /\ \A r \in DOMAIN ledger :
       /\ ledger[r].impressions = Cardinality({p \in Logged : Entry(p).round = r})
       /\ ledger[r].drifted =
            Cardinality({p \in Logged : Entry(p).round = r /\ EverApplies(p[1])})
       /\ ledger[r].injected =
            Cardinality({p \in Logged : Entry(p).round = r /\ InjectedReel(Entry(p).reel)})
       /\ r < round => ledger[r].distinct =
            Cardinality({Entry(p).reel :
              p \in {q \in Logged : Entry(q).round <= r /\ InjectedReel(Entry(q).reel)}})
  /\ config.sessionDynamics =>
       \A u \in Users :
         LET own == {i \in DOMAIN records : records[i].user = u}
         IN Total([i \in own |-> records[i].impressions]) + open[u] = total[u]
=============================================================================
