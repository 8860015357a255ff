----------------------------- MODULE ConfigGates -----------------------------
(***************************************************************************)
(* The feature gates of an experiment and what the loader makes of them:   *)
(* the section rules of infrastructure/config.cpp, the rules between       *)
(* sections, the choice of a runner and of a recommender, and the report   *)
(* blocks each runner configures.  Everything here is a pure operator on a *)
(* configuration; RunArtifacts runs it.                                    *)
(*                                                                         *)
(* A configuration is [scheduler, algorithm, on]: `on' is the set of the   *)
(* optional features it turns on, every one of which defaults to off.      *)
(***************************************************************************)
EXTENDS FiniteSets

Schedulers == {"round_robin", "event_queue"}

(* "factory_arm" stands for the seven algorithms makeRecommender builds.   *)
Algorithms == {"factory_arm", "oracle_satisfaction", "hnsw_learned_ranker"}

(* The gates of the realism section, each with what it requires.           *)
RealismGates == {"content_v2", "latent_reactions", "session_dynamics",
                 "personalized_diversity", "preference_evolution"}

(* The features that exist in the event runner only: a non-default serving *)
(* strategy, retention, the ecosystem report, the training log, the survey.*)
EventOnlyGates == {"serving", "retention", "ecosystem_metrics",
                   "training_log", "survey"}

(* "horizon" is a positive simulation.horizon_seconds; "injection" is a    *)
(* positive new_users or new_reels; "drift" a non-empty drift.events.      *)
Gates == RealismGates \cup EventOnlyGates
           \cup {"learned_ranker", "injection", "drift", "horizon"}

Configurations == [scheduler : Schedulers, algorithm : Algorithms,
                   on : SUBSET Gates]

-----------------------------------------------------------------------------
(* The rules of one section, applied while that section is read.           *)

SimulationRules(c) == c.scheduler = "event_queue" => "horizon" \in c.on

Requires(c, gate, needed) == gate \in c.on => needed \in c.on

RealismRules(c) ==
  /\ Requires(c, "latent_reactions", "content_v2")
  /\ Requires(c, "session_dynamics", "latent_reactions")
  /\ Requires(c, "personalized_diversity", "session_dynamics")
  /\ Requires(c, "preference_evolution", "session_dynamics")

(* The rules between sections, applied once every section has been read.   *)

EventOnly(c) == c.on \cap EventOnlyGates # {} => c.scheduler = "event_queue"

EventNeedsSessions(c) ==
  c.scheduler = "event_queue" => "session_dynamics" \in c.on

LearnedRules(c) ==
  /\ Requires(c, "learned_ranker", "training_log")
  /\ c.algorithm = "hnsw_learned_ranker" => "learned_ranker" \in c.on

NoInjectionIntoV2(c) == ~({"content_v2", "injection"} \subseteq c.on)

(* Mutants of ExperimentRules: event mode without its session stack, and   *)
(* injection into a V2 catalogue.                                          *)
RulesWithoutStack(c) ==
  /\ EventOnly(c)
  /\ Requires(c, "retention", "session_dynamics")
  /\ LearnedRules(c)
  /\ NoInjectionIntoV2(c)

RulesWithInjection(c) ==
  /\ EventOnly(c)
  /\ EventNeedsSessions(c)
  /\ Requires(c, "retention", "session_dynamics")
  /\ LearnedRules(c)

ExperimentRules(c) ==
  /\ EventOnly(c)
  /\ EventNeedsSessions(c)
  /\ Requires(c, "retention", "session_dynamics")
  /\ LearnedRules(c)
  /\ NoInjectionIntoV2(c)

Accepted(c) == SimulationRules(c) /\ RealismRules(c) /\ ExperimentRules(c)

-----------------------------------------------------------------------------
(* What a run does with a configuration.                                   *)

(* The event runner repeats the gate stack for configurations that were    *)
(* built in memory; the round-robin runner has no such check.              *)
GateStackHolds(c) ==
  c.scheduler = "event_queue" =>
    {"content_v2", "latent_reactions", "session_dynamics"} \subseteq c.on

(* Whether the runner can build the configured recommender: the factory    *)
(* refuses the learned arm, which only the event runner constructs, and    *)
(* the oracle needs the hidden reel states that content_v2 generates, one  *)
(* for each reel: `none' says that there is not a reel.                    *)
RecommenderBuilt(c, none) ==
  /\ c.algorithm = "oracle_satisfaction" => "content_v2" \in c.on \/ none
  /\ c.algorithm = "hnsw_learned_ranker" => c.scheduler = "event_queue"

LongTermGate(c) == c.on \cap {"preference_evolution", "retention"} # {}

RoundRobinBlocks(c) ==
     {b \in {"cold_start"} : "injection" \in c.on}
  \cup {b \in {"adaptation"} : "drift" \in c.on}
  \cup {b \in {"welfare"} : "latent_reactions" \in c.on}
  \cup {b \in {"session_health"} : "session_dynamics" \in c.on}
  \cup {b \in {"long_term"} : LongTermGate(c)}

(* cold_start and adaptation are switched off whatever the configuration   *)
(* says: there is no injection in event mode and rounds are days; a drift  *)
(* is reported by adaptation_delay inside the event_mode block instead.    *)
EventQueueBlocks(c) ==
     {"event_mode"}
  \cup {b \in {"adaptation_delay"} : "drift" \in c.on}
  \cup {b \in {"welfare"} : "latent_reactions" \in c.on}
  \cup {b \in {"session_health"} : "session_dynamics" \in c.on}
  \cup {b \in {"long_term"} : LongTermGate(c)}
  \cup {b \in {"ecosystem"} : "ecosystem_metrics" \in c.on}
  \cup {b \in {"learned_models"} : "learned_ranker" \in c.on}

Blocks(c) == IF c.scheduler = "event_queue" THEN EventQueueBlocks(c)
                                            ELSE RoundRobinBlocks(c)
=============================================================================
