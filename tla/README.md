# ReelRank: verification project

ReelRank is a deterministic C++20 simulator of a short-video platform. Synthetic
users with hidden preferences ask a recommender for feeds, react to the reels
they are shown, leave and come back; the harness measures how well the
recommender served them. One run is one process and, apart from two load tools,
one thread. What makes it hard is therefore not locking but order: hundreds of
users live on independent timelines in one priority queue, requests are ranked
long before their reels are consumed, sessions are closed by draws in the middle
of other users' steps, and every result must be a function of the configuration
alone.

The project consists of TLA+ models of the parts whose order, bookkeeping or
selection logic can be wrong in ways a unit test would hardly reach, TLC
configurations that check them on small instances, and TLAPS proofs of the
central properties for every instance. All paths below are relative to the
repository; `EDR` abbreviates `src/evaluation/event_driven_runner.cpp`.

## 1. The system

### Components, their state and their operations

| Component | State | Operations |
|---|---|---|
| Event-driven runner (`EDR`, `simulation/event_queue.*`) | queue of events; per user: `online`, `prefetchedFeed` and its stamps, `outstandingRequest`, `nextSeq`, `churned`; global: clock of the loop, occupancy, day buckets | `scheduleEvent`, `scheduleRequestFeed`, the handlers of `OpenApp`, `RequestFeed`, `StartReel`, `ExitApp`, `ReturnToApp`, `handlePhaseAt`, the main loop, the drain |
| Recommendation pipeline (`recommendation/orchestrator.cpp`, `constraint_reranker.cpp`, `mmr_reranker.cpp`, `personalized_diversity_reranker.cpp`) | nothing between requests but the exploration source's `lastFiredSlots` | retrieve from every source and merge, filter, cap, rank, guarantee exploration slots, select under caps, swap or MMR |
| Candidate sources (`candidate_sources/`) | the creator source's map of reels by creator, built once; the exploration source's random stream and `lastFiredSlots`; scratch buffers | `generate` (appended reels reach only the recommenders' vector index, through `onReelsAppended`) |
| Simulator (`simulation/simulator.cpp`) | `now_`, visible `SessionState`, hidden session state, reel counters and trending accumulators | `step`, `stepV2`, `syncClock`, `drainOpenSessions` |
| Round-robin runner (`evaluation/experiment_runner.cpp`) | rounds, per-user budget, injected users and reels, alignment and regret buckets | rounds, injection, request and consume loops |
| Learning loop (`learning_v2/`) | training matrix, models, retrain schedule | log a ranked request, join an outcome, snapshot, retrain, hot swap |
| Online learning (`learning/`) | long-term and session vectors of each user | apply an impression |
| Behaviour, latent, retention, evolution, drift (`simulation/`) | hidden state of each user | draw a reaction, a return delay or churn; shift preferences |
| Vector indexes (`vindex/`) | vectors and, in the HNSW case, a vendored graph | insert, search |
| Metrics and writers (`evaluation/`) | sums per round or day | accumulate, reduce, write CSV and JSON |
| Configuration (`infrastructure/`) | none after loading | parse, validate the gates |
| Applications (`apps/`) | `simulate`: the configuration in force; load drivers: threads, a latch, a start flag, sample slots | load, override, run, report; run, measure |

### How they interact

The runner pops an event, asks the pipeline for a feed (`RequestFeed`), appends
the answer to the user's client cache, and consumes the cache one `StartReel` at
a time. Each `StartReel` sets the simulator's clock to the event's time, steps
the simulator, which writes the reel's counters and the user's history, then
applies the online update. The pipeline reads exactly those counters and that
history at the next request, so *when* a request is ranked relative to *which*
consumptions is what the comparison of serving strategies measures. Sessions are
opened and closed inside the simulator's step; the closed record travels back
through the runner to the metrics, and sessions still open at the end are
drained once.

### What is hard, and what makes each part correct

- **Event runner.** Events of many users meet at one timestamp in hash order.
  Correct means: all requests of one instant read one version of the counters; a
  user never has two consumption chains, nor none without a reason; feed and
  stamps stay in lockstep and of bounded staleness; an exit leaves nothing of
  the visit behind; every impression is in exactly one session record although
  exits may fall beyond the horizon; the loop ends.
- **Pipeline.** Seven passes rewrite one pool. Correct means: the merge does not
  depend on source order; the guarantee gives exactly what it owes and disturbs
  nothing else; caps hold while a feed is built and after it is rearranged; a
  short feed is short because it must be; one answer per request, without
  repeats or consumed reels.
- **Simulator.** One clock serves all users and, with the event queue, may step
  back. Correct means: sessions, their gaps and their records are per user all
  the same; decayed accumulators are decayed by their true age.
- **Load driver.** The only concurrent code with a protocol of its own. Correct
  means: the timed window contains exactly the timed requests, no wake-up is
  lost, shards partition the users, results are read after the joins.

- **Round-robin runner.** Rounds are fixed in advance, budgets are per user, and
  users and reels appear in mid-run. Correct means: nobody is served past its
  budget nor passed over with budget left; a drift that fires on equality is
  never stepped over; the curves and per-round ledgers count what users saw.
- **Catalogue and sources.** Indexes, scores and pools are read by eight arms
  while reels are appended. Correct means: the exact arm is exact after every
  append; exploration spends its budget on distinct reels and its random stream
  does not depend on what fired; a feed is short for a reason.
- **Users' state.** Evolution, retention, the online learner and the tolerance
  estimator each keep a decayed or windowed summary. Correct means: each is a
  function of the user's own history, whatever other users did to the clock.
- **Learning loop.** Rows are captured at ranking, completed by outcomes that
  come later or never, sampled twice over and read twice: in memory to retrain,
  from disk offline. Correct means: both readers see the same rows; every
  request is served by the models it is owed.
- **Books and reports.** Three handlers date a session by three different days.
  Correct means: every book adds up to the same sessions.
- **Configuration and artifacts.** Keys are listed three times by hand, rules
  are checked before the command line is applied, files and report blocks are
  gated independently. Correct means: the runner refuses late only what the loader
  does not look at, and all of it that cannot run; every feature reported; a
  directory that is complete, exact and rerunnable, whose summary agrees with it.

`PROJECT.json` lists each hazard at its line with the properties that cover it.

## 2. Modules

| Module | Models |
|---|---|
| `EventRunner` | the event-driven runner: every handler, the queue, phases, horizon, serving strategy, exits, returns, churn, the final drain |
| `UserLifecycle` | abstract: what the runner promises about one user |
| `EventRunnerRefinement` | reads a user's lifecycle mode off the runner's state; instantiates `UserLifecycle` |
| `FeedPipeline` | one user's requests through `Orchestrator::recommend` and the rerankers |
| `FeedService` | abstract: what a caller of the pipeline relies on |
| `Catalogue` | a growing catalogue, the indexes over it, what each candidate source and baseline recommender takes from it, the live ground truth |
| `Simulator` | the simulator's clock, sessions, records and trending accumulators |
| `UserDynamics` | extends `Simulator`: what an impression and an exit leave in the user: exposure, habit, return or churn, session vector, fatigue |
| `LongTermBooks` | extends `UserDynamics`: the long-term, churn, retention, session-health and ecosystem books of the event runner and their reports |
| `EventStream` | the events the runner shows to its observers, over-approximated |
| `TrainingLog`, `Retraining`, `DayLedger` | three observers: the training tables and their offline loader, the retrain hook, the day books |
| `EventRecording` | composes the stream with its three observers |
| `RoundRobinRunner` | the round-robin runner, with its result and adaptation report |
| `ConfigGates` | the features of a configuration, the rules between them, runner, recommender and report blocks |
| `ConfigDocument` | every section and key: written, admitted, read back |
| `RunSummary` | what `summary.json` says about blocks, placeholders and files |
| `RunArtifacts` | one `simulate` invocation, from the document to the last file |
| `LoadDriver` | `runCell` and `runWorker` of `apps/benchmark_recommender.cpp` |
| `MC...` | symmetry, catalogues, source lists and configurations for TLC |
| `...Proofs` | the theorems (section 5) |

How they compose. `UserDynamics` conjoins the hooks to `Simulator`'s steps and
`LongTermBooks` the books to `UserDynamics`' steps, so the run over
`LongTermBooks` checks the three together, and the step from each to the one
below is a theorem. `EventRecording` conjoins each event of `EventStream` with
the observers in the order the handler calls them. `EventRunner` contains none
of these: it would multiply their states by those of the queue. It uses of each
what the other modules establish: its `Responses` are the feeds `FeedService`
allows, and `FeedPipeline` is proved to implement `FeedService`; the candidates
`FeedPipeline` takes from a source are any, which includes those `Catalogue`
says it selects; the event times `LongTermBooks` allows are those the queue can
dispatch. `EventStream` allows every order of events the queue allows, and more.

### EventRunner

State: `queue` is the multiset of scheduled events (a set, since `seq` tells
events of one user apart); `now` and `phase` are the group being drained and its
phase; the rest are the fields named in the comments of the declaration.

| Action | Code |
|---|---|
| `BeginGroup`, `EndPhase` | main loop and `handlePhaseAt` |
| `OpenApp` | handler of `OpenApp` and `ReturnToApp` |
| `RequestFeed` | serve, append the response with its stamps, open a chain iff the user held nothing |
| `Refetch` | `StartReel` with an empty feed (defensive) or after an intent swing: drop the rest, ask again |
| `StartReelContinue` | an impression after which the session goes on: refill, next `StartReel` |
| `StartReelExit` | an impression whose exit draw fires: record the session, schedule the exit |
| `ExitApp`, `ExitAppChurn` | leave; schedule the return, or churn |
| `Finish` | the loop is over: `drainOpenSessions` |

`scheduleEvent`'s drop beyond the horizon is part of every handler, through
`Replace`. The order of events within a phase is any order: in the code it is a
pinned hash of user and time. History variables record which users were cut by
the horizon (`cut`), were answered with nothing (`starved`), and what version of
the counters a group began with (`groupWrites`). The intent test compares
embeddings; it is nondeterministic, except that a feed ranked since the last
update can never fail it (cosine one).

### FeedPipeline

One action per pass of `recommend`; the selection walk and the swap pass take
one step per position, so that the caps are checked inside the loops. A source
may produce any reels at any similarity, and a ranker or MMR any order: an
over-approximation that the proofs inherit. Distance and similarity are one
value, each being monotone in the other. The exploration source keeps its gate
count `lastFiredSlots` and its reset when exploration is off. Personal caps are
computed with the code's rounding, in tenths. `Consume` stands for the caller:
a prefix of the answer is seen before the next request.

### Simulator

Two clock disciplines and two session models, fixed at the start. With the
event clock `StartsAt` lets a step begin at any time of `Starts` that is neither
before the last event dispatched nor before the user's own chain: what the
runner's queue guarantees. A trending accumulator is the list of its
contributions, each with the time it was made and the seconds of decay applied
to it since, so that "decayed by its age" can be said without real numbers. The
watch time and the exit draw are chosen freely; fatigue, satisfaction, reward,
affinity and the lifetime counters are left out.

### UserDynamics and LongTermBooks

A decayed quantity is the list of what was added to it, each entry with the
decay applied since: "decayed by exactly its age" needs no real numbers, and a
gap applied twice or an anchor not moved shows. A windowed estimate is the list
of the interactions it was made of; an estimate that also moves towards each new
signal (topic fatigue) counts these relaxations beside the decays. Pruning below
an epsilon, traits, weights and vectors are left out; whether a return is drawn
within the churn threshold is chosen freely. The books keep the three datings of the code apart: an
impression on the day it starts (`CountEcosystem`), a session's health on the
day of the impression that closed it, the session on the day it began
(`DatedAt`), a churn on the day the user left. `CloseBooks` drains and computes
the reports as the runner does after its loop; rates and concentration indices
are their integer numerators. A sum over days, reels or users is the size of a
set with as many marks for each as it counts (`Total`), so that it can be
reasoned about without a fold.

### EventRecording

`EventStream` keeps of the runner what its observers depend on: one group per
timestamp, requests before consumption in it, requests numbered before they are
ranked, reels consumed in the order downloaded, exits that drop the feed.
`TrainingLog` has the four tables with their rotation, the in-memory matrix and
the offline join and split; the two sampling predicates are sets of request ids,
as in the code, where each is a hash of the id. A model is what it was trained
on, so "served by the right model" is a statement about sets of outcomes. The
population a day snapshot averages is represented by its clock, the impressions
consumed so far. `DayLedger` is instantiated with the last day of the run. What
the days add up to is the size of a set of marks, as many for each day as it
counts, and the parts of a table after `n` more rows are given in closed form, so
that both can be reasoned about without a fold.

### RoundRobinRunner

One action per feed request and per impression; a round's begin (appended reels,
then users) and end are actions of their own, and `Finish` drains and assembles
the result. A recommender may return any new reels, as many as asked or fewer
where the code's can. Rewards and regrets are left out: a ledger is what it
counts, and of a regret only whether the oracle was asked.

### Catalogue

Reels are dense ids, a query the similarity of each to the asking user. Search
is the `k` nearest for the exact index, and for the graph any part of the index
of at most `k`: what it misses is a history (`missed`). An orchestrated arm
filters and caps what its sources offer as `Orchestrator::recommend` does, and
serves a prefix of any ranking of the pool; `hnsw_ranker_diversity` serves what
a walk of the pool under the hard creator and topic caps may choose, which has
no backfill and may be short (`Reranked`). The caps of a request are a range,
since personal diversity moves them. Affinity for a creator is a level that
multiplies the smoothed rate. Scores are integers: a half-life is one tick and `Unit` makes `MaxNow` of them exact.
Exploration has its three modes with their integer shares, and its random stream
is the number of draws taken from it. A selection is stated by places (the best `n`
of a set are those with fewer than `n` before them), a sum by the size of a set.

### ConfigGates, ConfigDocument, RunSummary, RunArtifacts

A configuration is its scheduler, its algorithm and the set of features it turns
on; of any other setting a value is where it came from (document, command line)
or that it is void. `ConfigDocument` has the keys of the 23 sections and the top level; a section
nested in another is reached through a key of it, so a key lost anywhere loses
what is behind it. The documents someone may give are a constant of `RunArtifacts`:
features, and any other settings with a value each (`Document`). What a runner makes of the
values is in `WorldGenerated`, `DriftBuilt` and `RecommenderBuilt`: it refuses an empty world, a
drift event without a mix, a cohort or positive weights of existing topics, an oracle without
hidden states. Whether a value other than void is usable is left open where it depends on
the number (`Doubtful`). It is sequential: load, override, run or refuse,
assemble, write file by file, export, finish. What makes it worth checking is
the product of rules: 2 schedulers, 3 kinds of algorithm and 14 features, every
combination of which is a document someone can write.

### LoadDriver

`main` and each worker have a program counter. A request is a begin and an end,
so requests of several threads overlap. The wait on the start flag is a look
(`PassGo`, `Park`): it blocks atomically with having seen the flag down, as
`std::atomic::wait` does, may look again spuriously, and is woken by
`NotifyAll`. `measured` is a history variable.

## 3. Runs

| Run | Instance | Distinct states | Shows |
|---|---|---|---|
| `er_prefetch` | 1 user, 4 reels, horizon 7, depth 2, threshold 1, intent invalidation, an opening draw beyond the horizon | 13 671 | one sound chain, nobody is lost, stamps and staleness bounded, sessions conserved: `ChainSound`, `NoLostUser`, `StalenessBound`, `SessionsConserved` |
| `er_lifecycle` | 2 users, 3 reels, horizon 4, refill on empty and invalidation | 1.01 M | equal-time snapshot, no reel downloaded twice, the run ends, who exits returns, refinement of `UserLifecycle`: `SnapshotConsistency`, `NeverServedTwice`, `RunCompletes`, `ExitedUsersReturn`, `RefinesLifecycle` |
| `fp_feeds` | 4 reels, 2 similarities, 2 sources, limit 4, feed 2, 2 guaranteed slots, all three ways out | 2.78 M | exact merge, exact and minimal guarantee, refinement of `FeedService`: `MergeExact`, `GuaranteeExact`, `OnlyExplorationOvertakes`, `RefinesFeedService` |
| `fp_diverse` | 5 reels of overlapping creators and topics, feed 4, fixed and personal caps | 229 k | diverse feeds, short only when forced, relevance lost to caps alone: `FeedDiverse`, `ShortOnlyWhenForced`, `PassedOverOnlyForCaps` |
| `sim_sessions` | 2 users, 2 reels, 4 impressions, both clocks, both session models, three sets of gates, 4 days | 910 k | decay, session times, hidden and learned state, all books agree: `TrendingDecayedForward`, `BooksAgree`, `SessionTimesExact`, `HiddenStateExact`, `LearnedStateExact` |
| `sim_eventclock` | 2 users, 1 reel, 3 impressions | violation | finding 1: `VelocityCorrect` |
| `catalogue` | 8 arms, 1 user, 3 reels and 1 injected, feed 2, limit 3, 2 requests, a graph that finds any part of its index, personal and fixed caps | 230 k | exactness, exploration budgets, stream alignment, starvation: `ExactHasNoRegret`, `ExplorationPoolFull`, `StreamAligned`, `StarvedForCause` |
| `recording` | 2 users, 2 reels, 3 requests, 3 days, boundaries every 2 s | 4.17 M | models served, tables joined, offline equals memory, snapshots, day books: `ServingExact`, `TablesJoin`, `OfflineMatchesMemory`, `SnapshotsAreDayEnd`, `DayBooksBalance` |
| `rr_rounds` | four configurations with injection, drift and exits alone and together | 215 k | budgets and rounds, drift in force, cold-start curve, ledgers and result: `ServedEveryRound`, `DriftCurrent`, `CurveExact`, `LedgersAgree` |
| `artifacts_gates` | all 98 304 gate combinations, every setting alone and all at once, every override and switch | 878 k | late refusals are those and only those, every feature reported, the directory exact: `LateRefusals`, `GatesReported`, `DirectoryExact` |
| `artifacts_learned` | as above, no override | violation | finding 2: `LearnedReportOnlyOnLearnedArm` |
| `load_cell` | 1 to 3 threads, 0 to 4 users, 1 warm-up and 2 timed requests | 5 281 | measurement exact, users split, termination: `MeasurementExact`, `UsersSplit`, `Terminates` |

Why the bounds are enough.

- *Event runner.* Scheduling state is per user, so one user with a deep cache
  covers chains, refills, flags and the horizon; `Horizon` 7 lets the user exit,
  return and be cut in each phase of a visit, and the opening time 8 is beyond
  it. What relates users are the shared counters and the timestamp groups, for
  which two users suffice: watch times 0 and 1 with an overhead of 1 make their
  events coincide. Return delay 9 always exceeds the horizon, 1 never does alone.
- *Pipeline.* `fp_feeds` has a limit above the feed, so that cap and cut both
  bite, two similarities for ties, and room for two promotions with pools on
  both sides of the feed size. In `fp_diverse` creators {0,1} and topics
  {0,2,4} / {1,3} overlap in part, and scales of one half with fatigue 0.6 take
  caps down to one.
- *Simulator, users, books.* Two impressions close a session and a third opens
  the next; four let one user return and the other interleave anywhere. Event
  times 0, 2 and 5 with watch times 0 and 3 put one user's event before, inside
  and after the other's watch, and days of 2 put sessions across midnight; with
  horizon 7 there is a partial last day, and events beyond it. A recent window of
  2 is overrun; delay 9 churns at a threshold of 8. The full retention window is
  the code's seven days, the decile two creators so that a head exists.
- *Catalogue.* One reel in, one out of the recency window, one appended; a
  limit of 3 can be mined out by a user who has seen 3 of 4. Two creators, two
  topics and caps of one or two let the caps bind by creator, by topic, or not at
  all; two levels of affinity can reverse the order of smoothed rates.
- *Recording.* Request ids cover shown-only, both and pool-only sampling; four
  seconds with an interval of two has a boundary missed and one met exactly; one
  row per part rotates at every row; depth 1 with threshold 1 lets two requests
  of a user overlap.
- *Round robin.* Odd budgets against feeds of 2 give a short last feed; three
  drift events give a tie at one count and different cohorts.
- *Artifacts.* The gates, the keys and the switches are those of the code. Of the
  settings that are no gates the documents of the run have none, one or all
  (`EveryDocument`), a drift with what it needs and without it; the theorems are about every set of documents with any
  combination of them.
- *Load driver.* With three threads a middle shard exists besides the first and
  the last; 0 to 4 users covers none, fewer than threads, equal, and remainders.

Deadlock is checked where the specification must not stop: the event runner, the
pipeline, the recording and the load driver. The simulator stops at `MaxImpressions` or after the
drain, the catalogue at its bounds, a round-robin run and an invocation of
`simulate` when they are done. `MaxImpressions`, `MaxRequests` and `MaxNow` are
the only bounds that are not parameters of the program or input sets; the
horizon bounds the event runner as it bounds the program.

### Fairness

- `EventRunner`: `WF_vars(Next)`. The loop is single-threaded and does nothing
  but dispatch; weak fairness says that the process keeps running. No event is
  favoured: within a timestamp any order is allowed, and liveness holds because
  a timestamp's events are finitely many and time advances.
- `LoadDriver`: weak fairness of main and of each worker: the operating system
  schedules runnable threads. Spurious wake-ups (`Recheck`) are possible but not
  fair, so a worker parked for good counts as a hang.
- The other specifications have no liveness property: `FeedPipeline` is loops over
  a finite pool, `Simulator`, `Catalogue` and the observers are called, the round-robin runner is nested loops over
  ranges fixed before they start, and `simulate` is straight-line code.

## 4. Findings

1. **Trending decays twice under the event clock** (`simulator.cpp:399`, run
   `sim_eventclock`). A step at an earlier time than the accumulator's last
   update applies no decay (correct) but sets `trendingUpdatedAt` back, so what
   was added before is later decayed for the same seconds again. The comment at
   `simulator.cpp:533` promises a velocity "correct at any later `now`" and the
   one at 391 says the copy in `stepV2` is "identical to V1 step". With the
   round-robin clock the promise holds (`TrendingDecayedForward`, proved).
2. **The learned-models report without a learned arm** (`EDR:1964`, run
   `artifacts_learned`). The loader ties the learned algorithm to the gate
   `learned_ranker` but not the gate to the algorithm. A document with the gate
   on and another algorithm runs to its end and then dereferences the absent
   recommender; the comment at `EDR:1962` says "Only on the learned arm".

Observed while modelling, and built into the models as the code has it:

- *Event runner.* `scheduleRequestFeed` raises `outstandingRequest` before
  `scheduleEvent` may drop the request beyond the horizon, against the comment at
  `EDR:693`; `ChainSound` and `NoLostUser` show that only users the horizon has
  cut are concerned. With a positive refill threshold a reel can be downloaded
  while still cached (`EDR:1238`; `seen_filter.hpp:11-13` promises otherwise);
  with threshold 0 it cannot (`NeverServedTwice`).
- *Sessions.* A session that ends at time 0 is taken for no previous session
  (`simulator.cpp:114`), and the next starts without away decay
  (`SessionTimesExact` has this exception).
- *Long-term books.* The users of a day are those whose *closed* session began on
  it. The retention window is open at its start, so a session beginning exactly
  at midnight does not count as a return, and it is a week from the end of the
  first day: only two more active days within it surely make a retained user. Exposure is felt un-decayed by the
  first reaction after an absence.
- *Adaptation delay* (`EDR:157`). The window of ten after a drift still holds nine
  impressions from before it, so the delay reported is one impression whenever
  satisfaction collapses for good; `docs/RESULTS-V2.md` uses the number.
- *Day snapshots.* Days before the first event keep 0.
- *Creator source.* Reels appended in mid-run are never found by it
  (`creator_affinity_candidate_source.cpp:36`); the other sources find them.
- *Exploration stream.* Before the enable day a run draws what a run with epsilon
  0 draws (`StreamAligned`), but not what a run without the enable day draws, as
  `exploration_candidate_source.cpp:53` says: there a gate that fires draws
  further numbers.
- *Round-robin with preference evolution.* `longterm_metrics.csv` is a header and
  the `long_term` block zeros, its note names `hidden_preference_final.csv`,
  which only the event runner exports, and the welfare block lists
  `platform_trust` as not yet modelled (`SummaryTrue` has this exception).
- *Session-health note.* It says that no drain exists and `open_sessions` is 0;
  both runners drain.
- *Overrides.* `--algorithm hnsw_learned_ranker` on a document without its gate
  leaves a `config.json` the loader rejects (`Replayable` has this exception),
  and reads an empty optional at the first request (`EDR:804`).
- *Order of the last files.* `metadata.json` is written before
  `hidden_preference_final.csv` and the training log's `schema.json`: it stamps a
  complete report, not a complete directory.
- *Values of a document.* The loader checks no drift event and no size of the
  world. The runner refuses both before it simulates, as
  `experiment_runner.cpp:105-108` says ("fail fast"); a drift event in a document
  that names a topic but no weight is refused, since a weight is 0 by default.
- *Learning.* `retrain_every_hours`, `min_training_rows` and
  `log_max_rows_per_file` are not validated.

## 5. Proofs

All theorems hold for arbitrary values of the constants under the named
assumptions of the modules (`TimeAssumption`, `ServingAssumption`,
`UsersFinite`, `CatalogueAssumption`, `RequestAssumption`,
`SimulatorAssumption`, `DynamicsAssumption`, `BooksAssumption`,
`CellAssumption`, `ConfigsAssumption`, `DocumentsAssumption`,
`OverridesAssumption`, `SwitchesAssumption`, `StreamAssumption`,
`LogAssumption`, `RetrainAssumption`), which TLC evaluates in the runs. They say
no more than what the configuration validator, the constructors or the types of
the code guarantee, with one exception: `retrain_every_hours` and
`log_max_rows_per_file` are not validated (section 4), and the theorems speak of
positive ones. That users and reels are finitely many, as the counts of a dataset
are, is assumed where something is summed over them. Two theorems have a hypothesis of their own:
`NeverServedTwiceCorrect` needs a refill threshold of zero, without which the
property is false (section 4), and `ServingExactCorrect` a log that keeps its
matrix, as it does on the learned arm, the only one that retrains.

**Event runner** (`EventRunnerProofs`).
- `TypeCorrect`. `TypeOK` is inductive only together with `Lockstep`, that feed
  and stamps have one length: without it the tail of an empty stamp list would
  be taken.
- `OneChainCorrect`, `ChainMatchesStateCorrect`, `PhaseCascadeCorrect` (together
  `ChainSoundCorrect`) and `GroupsAdvanceCorrect` rest on one invariant, `Chain`. None of its three parts
  is inductive alone: that a handler may schedule a request without making a
  second chain follows from what the event found when it was dispatched
  (`ChainMatchesState`), which follows from there being no other event of the
  user (`OneChain`); that a group can be left follows from the cascade. The
  consequence is that the code's defensive branch of `StartReel` is dead, and
  that the flag test of `servingShouldRefill` matters only for the flags of
  finding 1.
- `SnapshotCorrect` adds to `Chain` that while a group is in its first two phases the
  counters are those it began with, and that stamps of this instant were taken
  then (`Snapshot`, `StampOrigin`).
- `SessionsConservedCorrect`: impressions counted, recorded and open add up.
- `NoLostUserCorrect`, from `Chain` and the horizon of the queue
  (`WithinHorizon`): a handler that ends without an event in the queue has
  either dropped one beyond the horizon or left its user churned or empty-handed.
- `ImplementsLifecycle`: with `Chain` every handler maps to a step of
  `UserLifecycle` or to a stutter.
- `StalenessBoundCorrect`, from `CacheBound`: a refill leaves at most threshold
  plus depth, and stamps are in serving order (`Lockstep`).
- `NeverServedTwiceCorrect`: with threshold 0 a refill finds an empty cache,
  and what was consumed is seen before the next request is answered.

**Pipeline** (`FeedPipelineProofs`).
- `TypeCorrect`; `ShapeInvariant`, the strengthening on which the rest depends:
  the stages a path may be in (`Ways`), the pool servable and unseen after the
  filter, the ranking a permutation of the pool, the feed injective and from the
  pool, the walk's set equal to the feed.
- `FeedWithinCapsCorrect`: admitting one reel under `<` keeps every cap; the
  rearrangements keep the set.
- `TopicsSpreadCorrect`: positions before the cursor are settled, and a swap
  touches only places beyond it. With the caps: `FeedDiverseCorrect`.
- `MergeExactCorrect`, from `Merged`: after any subset of the sources the pool is
  the union of what they found, each reel at the best similarity so far.
- `GuaranteeExactCorrect` and `OnlyExplorationOvertakesCorrect`, from `Permuted`:
  a promotion moves one exploration reel to the end of the prefix, and the
  reels it passes keep their order; the loop stops at the first prefix that holds
  enough, so nothing is promoted in vain.
- `ShortOnlyWhenForcedCorrect`, from `Walked`: a reel the walk has passed over
  broke a cap when it was met, and caps only fill up.
- `PassedOverOnlyForCapsCorrect`, from `WalkedInOrder`: what the walk has chosen
  lies above its cursor, so the cap that kept a reel out was reached by better
  ranked reels, and the rearrangement changes nobody's being in the feed.
- `ImplementsFeedService`: every step is a step of `FeedService` or a stutter.

**Simulator, users and books** (`UserDynamicsProofs`).
- `TypeCorrect`; `TrendingDecayedForwardCorrect`, from `TrendInv`: with the
  shared clock `updatedAt` never exceeds `now`, so the clamp never acts.
- `SessionsDisjointCorrect` and `AwayGapExactCorrect`, together
  `SessionTimesExactCorrect`, from `SessionInv`: the
  remembered end is the last record's (`Remembered`), an open session began no
  earlier (`Opened`), and a user's next start is not before its own last finish
  (`Floor`), which is what survives of time order when the clock steps back.
- `ImplementsSimulator` and `ImplementsDynamics`: a run with its books is a run of
  `UserDynamics`, and that is a run of `Simulator`; neither layer is read by the
  one below. What is proved of sessions, trending and users therefore holds of
  the whole composition, in which exits and returns decide who watches next
  (`DynSessionTimes`, `DynTrending`, `BooksSessionTimes`, `BooksTrending`,
  `BooksHiddenState`, `BooksLearnedState`).
- `ExposureDecayedOnceCorrect`, from `ExposureInv`: the last
  touch of a user never lies after the user's floor (`Decayed`), so the gap of the
  next impression is never cut at zero, although the clock steps back.
- `FeltBeforeCorrect` and `HabitExactCorrect`, with it `HiddenStateExactCorrect`:
  what was felt before an impression is the exposure to what is like it, so
  `FeltInv` needs `ExposureInv`; a habit is formed at the end of a session from
  the sessions before (`Formed`), which no other user's end may disturb.
- `LearnedStateExactCorrect`, from `Windowed` and `Ordered`: the events kept are
  the last of the user's own, in the order of their sessions, so those of the
  current session are a suffix (`SessionSuffix`) and the implicit reset of the
  code loses nothing; from `Repeated`, that the fatigue estimate counts what
  came back within the window.
- `SessionsAccountedCorrect` (of `Simulator`) and `SessionsBookedCorrect` (of
  `UserDynamics`). What is recorded and open grows by one with each impression
  (`RecordedStep`), and a session of drawn length is full when the next is opened
  (`VisibleInv`). Before the drain no record is of an open session (`NoneOpen`), so
  exits and the drain move the health books by the same lemma (`HealthMoves`).
- `BooksAgreeCorrect`, of the whole composition, has five parts. All start from what
  an impression books (`BookImpressionFacts`): a session that began at `b`, not after
  the impression that ends it, and days follow times (`DayFacts`).
  `SessionBooksAgreeCorrect`, from `LedgerInv`: one exit adds one mark to the health
  of the later day and one to the sessions of the earlier, so the totals up to any
  day stay in order (`DayMore`, `From`), and one pending exit is answered by one
  return or one churn (`LedgerReturn`). `ChurnEndsActivityCorrect`, from
  `LongTermInv`: a user's days of activity are not after the day of its own time
  (`ReadyDays`), which is the day its churn is dated. `RetentionMeansReturnCorrect`:
  a user is active on exactly the days of its closed sessions (`ActiveDays`); a
  session after the end of the first day has a later day, and one two days later
  and within the window ends in the window (`RetainedFacts`).
  `EcosystemCompleteCorrect`, from `ShownInv`: the first day of an open session has
  had its impression (`OpenShown`), which a long-term session dated back to that
  day needs, and no day after the last event has one (`LatestShown`); the index of
  the run is no less than a day's because squares grow (`ConcentrationGrows`).

**Recording** (`EventRecordingProofs`).
- Everything rests on `StreamInv`: requests are in the order of their times, none
  is of a later instant than the group in process, and what is downloaded
  belongs to one of them.
- `TablesJoinCorrect` and `OfflineMatchesMemoryCorrect`, from `JoinInv`: a reel a client
  holds was captured when its request was logged, if it was sampled at all
  (`Awaited`), so its outcome finds its row whenever it arrives; the count moves
  only when a row becomes complete (`Completed`), surveys with their outcomes
  (`Surveyed`). The parts stay within the cap because a rotation opens as many as
  the rows need (`RowsWithinCap`). The temporal split puts a request in the training
  part only if fewer than its share come before it, so an earlier one is there too
  (`EarlierTrains`).
- `DayBooksBalanceCorrect` and `SnapshotsAreDayEndCorrect`, from `LedgerInv`: nothing is
  booked on a day to come (`Booked`), so filling the days up to today at the first
  group of a later day gives each its own total (`Settled`); a session is booked on
  the day it began no later than on the day it ended. Totals are sizes of sets of
  marks, and one more event is one more mark (`OneMore`).
- `ServingExactCorrect`, from `RetrainInv`. The next boundary ends the interval of the
  last request that met one (`Boundary`), so a boundary is due exactly for the first
  request of an interval, and the intervals that passed without a request are owed
  nothing. A request trains on all that was observed before its instant, because requests
  come first in a group (`Observed`, `TrainsOnAll`), and what is observed later is of
  later instants (`ObservedKept`): a retrain stays what it was owed (`Fitted`). Retrains are at
  increasing times, so the version of a request is the number of those until then
  (`Versioned`, `DueInstants`).

**Catalogue** (`CatalogueProofs`).
- `TypeCorrect`, from which the rest follows one step at a time: types, both
  vector indexes equal to the live catalogue, no injection where reels need a
  hidden state.
- The best `n` of a set are defined by how many others go before each. That this
  is a sequence at all is `Ranks`: by score, ties by id, is a strict total order
  (rational scores are compared by cross products, `CrossTransitive`), so
  everyone has a place of its own, and as many places as members leave none free.
- `ExactHasNoRegretCorrect`, from `FilteredTop`: cutting the feed from the unseen
  among the `FeedSize + |seen|` nearest is cutting it from all the unseen. The
  fallback scan (`exact_vector_recommender.cpp:92-104`) is therefore dead code
  as long as no reel is inactive.
- `ExplorationPoolFullCorrect`, from `LeastShown`: a pick of the least shown takes
  the never shown first, and the three budgets are spent on disjoint parts.
- `StreamAlignedCorrect`, from the types: the index seed is the first draw, and only
  gates that can fire draw beyond those of epsilon 0.
- `StarvedCorrect`, from two facts: what the graph found reaches past the seen reels
  unless one of the first three causes holds (`ReachesUnseen`), so the pool has a
  feed in it; and a feed is shorter than its pool allows only if the caps shut out
  every reel it leaves there (`FeedOfPool`).

**Round-robin runner** (`RoundRobinProofs`).
- `TypeCorrect` and `ServedEveryRoundCorrect`, from `BudgetInv`: before its turn a
  user has been served at most one feed a round, and all the rounds but the last
  do not add up to the budget (`CeilFeeds`), so there is always something left.
- `DriftCurrentCorrect`, from `DriftInv`: the preference of a user is the event in
  force at the count before, and those firing now come after all of these
  (`InForceStep`); an impression under a drift is not in an earlier round than
  the report's first (`FirstDrift`), and its round has drifted impressions.
- `CurveExactCorrect`, from `CurveInv`: row `i` counts the injected users past
  `i`; one below another is no longer than it, so the rows have no gap.
- `LedgersAgreeCorrect`. A round's ledger is the size of its part of the log
  (`CountsInv`), what is logged is of a round begun and a reel of the dataset
  (`LoggedInv`), and an impression is in one of its user's records or in the open
  session, whose key is the number of those records (`SessionInv`); the drain
  hands each open session to one record. The result follows by counting one set
  in two ways (`TotalCounts`): the log by round and by user, the records by round,
  the keys by user; a user's first record is the one not linked.

**Configuration and run directory** (`RunArtifactsProofs`).
- Every key of every section reaches the configuration and is written back: a
  nested section is reached through a key of its parent, which is a key of its
  own parent or of the top level (`EntryThrough`, `GateEntries`). So a
  configuration whose settings are all known passes the reader and the writer
  whole (`PassedWhole`), and an unknown one stops at the loader.
- `Invocation` has three parts. `Reading`: past the loader, features and scheduler are
  those of the document and a setting is the document's or the command line's.
  `Reporting`: the blocks are those of the run's configuration. `Writing`: the
  directory is what the writer has passed so far (`Listed`), what the event
  runner adds, and the logs that have been opened.
- `LateRefusalsCorrect` (with `Accounted`): the rules of the loader imply those of the
  runners on features, except for what `--algorithm` may change after it; on values a
  setting of the run is the document's unless a switch has set it, and no switch sets
  one of a drift.
- `GatesReportedCorrect`, `StampedCompleteCorrect`, and `DirectoryExactCorrect` from them and the round
  trip: files, `config.json` and summary agree with the features, for every set
  of documents. The run takes each setting alone, and all of them at once; the theorem
  covers every combination.
- `TypeCorrect`.

**Load driver** (`LoadDriverProofs`).
- `TypeCorrect`, `WindowExactCorrect`, `UsersDisjointCorrect`,
  `MergeCompleteCorrect` (`MeasurementExactCorrect`), from `Inv`: the latch is the number of threads still
  to arrive (`LatchInv`), where main is and what it has published (`StageInv`),
  requests stay in their shard (`ServingInv`), slots and row hold what was timed
  and merged (`SampleInv`). The shard lemmas prove that integer division with
  the remainder to the last thread yields consecutive ranges.
- `UsersSplitCorrect`, from `Covered`: a thread's `k`-th timed request is for the
  `k`-th user of its shard, and consecutive ranges cover the population.

Only model-checked is liveness (`RunCompletes`, `ExitedUsersReturn`,
`Terminates`), which is outside the prover's reach. Every
invariant and both refinements that the passing runs check are theorems. What a
fold or a recursive definition computes can only be shown by induction over the
data, which the provers cannot instantiate; where an induction over numbers was
needed, the proofs take a least counterexample, and where a sum had to be
reasoned about it is stated as the size of a set (`Catalogue`,
`RoundRobinRunner`, `DayLedger`, `Simulator` and the books).

## 6. Not modelled

- Real-valued models (behaviour, latent reactions, trust, embeddings, ranking
  weights, regressions): their outcomes are nondeterministic choices. That makes
  the results independent of coefficients, and silent about them.
- The metric and the graph of the vector indexes: geometry, and vendored code.
- Random generation of datasets; the cohort and sampling hashes (sets of users
  and ids instead); numbers, columns and wording of reports.
- The adaptation delay of the event runner and the satisfaction and regret
  averages: arithmetic on real values.
- Random streams, logging and vector arithmetic (`infrastructure/`): no state
  between steps but the streams, whose draws are choices.
- The other applications: sequential drivers. `concurrency_check` is a smaller
  version of the worker pool, without the latch.
- Crashes and restarts: a run persists nothing it reads again; a run directory
  is only written (`StampedComplete` says what a reader of a partial one may
  conclude).

## 7. Plan

Done: every part of the plan that orders or counts, and the theorems of the event
runner, its recording, the pipeline, the simulator with its users and books, the
catalogue, the round-robin runner, the run directory and the load driver. What
remains is the satisfaction averages and the adaptation delay, if a model of the
real numbers they compare is worth having.
