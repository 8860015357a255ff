---------------------------- MODULE ConfigDocument ----------------------------
(***************************************************************************)
(* An experiment document: which keys of which sections it sets.           *)
(*                                                                         *)
(* Every section of infrastructure/config.cpp lists its keys three times:  *)
(* to_json writes them, ensureKnownKeys admits them and readKey reads them *)
(* over the default.  A section is reached through a key of another one,   *)
(* "" is the top level.  The features of ConfigGates are keys too; of the  *)
(* other settings a value is only where it came from, or that it is void:  *)
(* zero or empty, and of a name or a topic one that does not exist.        *)
(***************************************************************************)
EXTENDS ConfigGates

(* The keys of each section.                                               *)
WorldKeys ==
  [simulation |-> {"seed", "users", "reels", "creators", "topics", "dimensions",
     "interactions_per_user", "new_users", "new_users_at", "new_reels", "new_reels_at",
     "scheduler", "horizon_seconds"},
   recommendation |-> {"feed_size", "vector_candidates", "popular_candidates",
     "fresh_candidates", "exploration_candidates", "trending_candidates",
     "creator_affinity_candidates"},
   hnsw |-> {"m", "ef_construction", "ef_search"}]

RankingKeys ==
  [ranking |-> {"similarity_weight", "quality_weight", "freshness_weight",
     "popularity_weight", "trending_weight", "creator_affinity_weight",
     "exploration_weight", "repetition_penalty", "duration_match_weight",
     "impression_penalty_weight", "session_topic_weight", "freshness_half_life_seconds",
     "trending_half_life_seconds", "visual_match_weight", "music_match_weight",
     "emotional_match_weight", "clickbait_weight", "emotional_intensity_weight",
     "usefulness_weight", "production_quality_weight", "information_density_weight",
     "language_match_weight", "save_popularity_weight"}]

PolicyKeys ==
  [learning |-> {"enabled", "long_term_rate", "session_rate", "recent_window",
     "session_lambda", "long_term_weight", "session_weight", "modality_rate"},
   exploration |-> {"enabled", "epsilon", "fresh_window_seconds", "guaranteed_slots",
     "enable_at_day"},
   diversity |-> {"enabled", "max_per_creator", "max_per_topic", "mmr_lambda", "use_mmr",
     "personalized_cap_scale_min", "personalized_cap_scale_max",
     "personalized_lambda_min", "personalized_lambda_max"},
   drift |-> {"events"},
   drift_events |-> {"at_interaction", "cohort_lo", "cohort_hi", "topic_mix"},
   topic_mix |-> {"topic", "weight"}]

ReactionKeys ==
  [behaviour |-> {"alpha", "beta", "gamma", "delta", "noise_std", "skip_bias",
     "not_interested_z", "not_interested_prob"},
   reward |-> {"watch_ratio_weight", "watch_seconds_weight", "like_weight",
     "share_weight", "follow_weight", "instant_skip_penalty", "not_interested_penalty"},
   evaluation |-> {"oracle_sample_rate", "retrieval_sample_rate", "ecosystem_metrics"}]

RealismKeys ==
  [realism |-> RealismGates \cup {"languages", "archetypes", "cohort_mix"},
   behaviour_v2 |-> {"topic_weight", "visual_weight", "music_weight", "emotional_weight",
     "usefulness_weight", "humour_weight", "novelty_weight", "information_density_weight",
     "controversy_penalty_weight", "controversy_boost_weight",
     "language_mismatch_penalty", "creator_attachment_weight", "latent_noise_std",
     "comment_propensity", "save_propensity", "profile_visit_propensity",
     "social_conformity_weight", "short_completion_boost", "short_duration_seconds"},
   session_dynamics |-> {"topic_fatigue_weight", "creator_fatigue_weight",
     "novelty_match_weight", "topic_fatigue_increment", "creator_fatigue_increment",
     "general_fatigue_scale", "away_decay_half_life_seconds", "exit_bias",
     "exit_fatigue_weight", "exit_regret_weight", "exit_poor_streak_weight",
     "exit_satisfaction_weight", "exit_interruption_weight",
     "external_interruption_hazard", "regret_lambda", "fatigue_lambda",
     "failure_exit_lambda"}]

EventKeys ==
  [scheduling |-> {"open_stagger_seconds", "return_delay_mean_seconds",
     "return_delay_spread_rel"},
   serving |-> {"prefetch_depth", "refill_threshold", "invalidate_on_intent_change",
     "intent_swing_cosine_threshold"},
   evolution |-> {"eta_evo"},
   retention |-> {"enabled", "churn_delay_threshold_seconds", "hazard_floor"},
   survey |-> {"enabled", "sample_rate", "noise_sd"},
   value_weights |-> {"watch", "share", "follow", "satisfaction", "exit", "regret"},
   learning_v2 |-> {"training_log", "log_sample_rate", "log_pool_sample_rate",
     "log_max_rows_per_file", "survey", "learned_ranker", "value_weights",
     "retrain_every_hours", "min_training_rows", "retrain_epochs"}]

(* A nested section, with the one that holds it.                           *)
Parent == [drift_events |-> <<"drift", "events">>, topic_mix |-> <<"drift_events", "topic_mix">>,
           survey |-> <<"learning_v2", "survey">>, value_weights |-> <<"learning_v2", "value_weights">>]

Groups == {WorldKeys, RankingKeys, PolicyKeys, ReactionKeys, RealismKeys, EventKeys}
Sections == [s \in UNION {DOMAIN g : g \in Groups} |->
               UNION {g[s] : g \in {h \in Groups : s \in DOMAIN h}}]
TopKeys == (DOMAIN Sections \ DOMAIN Parent) \cup {"algorithm", "description"}
Lists == DOMAIN Sections \cup {""}
Keys(s) == IF s = "" THEN TopKeys ELSE Sections[s]

Settings == (UNION {{<<s, k>> : k \in Keys(s)} : s \in DOMAIN Sections})
              \cup {<<"", k>> : k \in {"algorithm", "description"}}

(* Mutants: a key that is not saved, and one that is not read.             *)
WrittenShort == [s \in Lists |-> Keys(s) \ {"cohort_mix"}]
ReadIntoShort == [s \in Lists |-> Keys(s) \ {"value_weights"}]

(* What to_json writes of a section, what the loader admits and reads.     *)
Written == [s \in Lists |-> Keys(s)]
Known == [s \in Lists |-> Keys(s)]
ReadInto == [s \in Lists |-> Keys(s)]

(* A setting and the keys its section is reached through, at most three.   *)
Holder(p) == IF p[1] \in DOMAIN Parent THEN Parent[p[1]] ELSE <<"", p[1]>>
Path(p) ==
  LET up(q) == IF q[1] = "" THEN q ELSE Holder(q) IN {p, up(p), up(up(p)), up(up(up(p)))}

Through(p, list) == \A q \in Path(p) : q[2] \in list[q[1]]

(* The keys behind each feature.                                           *)
GateKeys(g) ==
  CASE g \in RealismGates -> {<<"realism", g>>}
    [] g = "horizon" -> {<<"simulation", "horizon_seconds">>}
    [] g = "injection" -> {<<"simulation", k>> : k \in {"new_users", "new_reels"}}
    [] g = "drift" -> {<<"drift", "events">>}
    [] g = "serving" -> {<<"serving", k>> : k \in Keys("serving")}
    [] g = "retention" -> {<<"retention", "enabled">>}
    [] g = "ecosystem_metrics" -> {<<"evaluation", g>>}
    [] g = "survey" -> {<<"survey", "enabled">>}
    [] OTHER -> {<<"learning_v2", g>>}

(* What is left of a configuration that passes through the keys of `list'. *)
Passed(c, list) ==
  [gates |->
     [scheduler |-> IF Through(<<"simulation", "scheduler">>, list)
                    THEN c.gates.scheduler ELSE "round_robin",
      algorithm |-> IF Through(<<"", "algorithm">>, list)
                    THEN c.gates.algorithm ELSE "factory_arm",
      on |-> {g \in c.gates.on : \A p \in GateKeys(g) : Through(p, list)}],
   settings |-> [p \in {q \in DOMAIN c.settings : Through(q, list)} |-> c.settings[p]]]

(* The settings whose void value (zero, empty, no such name) is refused    *)
(* while their section is read.                                            *)
Guarded == {<<"", "algorithm">>, <<"simulation", "scheduler">>,
            <<"realism", "languages">>, <<"realism", "archetypes">>}

(* loadExperimentConfig: admitted, read over the defaults, validated.      *)
Admitted(doc) ==
  /\ \A p \in DOMAIN doc.settings : Through(p, Known)
  /\ \A p \in DOMAIN doc.settings \cap Guarded : doc.settings[p] # "void"
  /\ Accepted(doc.gates)
Loaded(doc) == Passed(doc, ReadInto)

(* The resolved configuration, as config.json holds it.                    *)
Resolved(c) == Passed(c, Written)

-----------------------------------------------------------------------------
(* What a runner makes of the values; the loader looks at Guarded alone.   *)

(* Setting k of section s has its value from that source.                  *)
From(source, set, s, k) == <<s, k>> \in DOMAIN set /\ set[<<s, k>>] = source

(* Users prefer topics, which have directions, and start from the average  *)
(* preference: without any one of these nothing can be generated.          *)
WorldGenerated(set) ==
  \A k \in {"users", "topics", "dimensions"} : ~From("void", set, "simulation", k)

NoReels(set) == \E k \in {"reels", "creators"} : From("void", set, "simulation", k)

(* The DriftScheduler: every event has a mix, of topics of the world and   *)
(* with positive weights, and a cohort.  A mix is empty, and a weight is   *)
(* zero, until the document says otherwise; the cohort is then everybody.  *)
DriftBuilt(c) ==
  "drift" \in c.gates.on =>
    /\ <<"topic_mix", "weight">> \in DOMAIN c.settings
    /\ ~From("void", c.settings, "topic_mix", "weight")
    /\ ~From("void", c.settings, "topic_mix", "topic")
    /\ ~From("void", c.settings, "drift_events", "cohort_hi")

(* What depends on the values themselves: in one dimension the preferences *)
(* of the users, or a mix, may cancel; a topic of the document's world may *)
(* not exist in that of the command line; the index library may refuse a   *)
(* degenerate graph.                                                       *)
Doubtful(c) ==
  \/ From("document", c.settings, "simulation", "dimensions")
  \/ /\ "drift" \in c.gates.on /\ <<"topic_mix", "topic">> \in DOMAIN c.settings
     /\ From("switch", c.settings, "simulation", "topics")
  \/ \E k \in Keys("hnsw") : From("void", c.settings, "hnsw", k)
===============================================================================
