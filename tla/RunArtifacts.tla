----------------------------- MODULE RunArtifacts -----------------------------
(***************************************************************************)
(* One `simulate' invocation, from the configuration document to the run   *)
(* directory: the document is loaded and validated, the command line       *)
(* overrides what was validated, a runner starts (or refuses), the result  *)
(* is assembled, and ResultsWriter::writeAll writes the files one by one   *)
(* before the event runner adds its own.  The order matters to whoever     *)
(* reads a directory while, or after, it is being written.                 *)
(***************************************************************************)
EXTENDS ConfigDocument, RunSummary, Naturals, Sequences

CONSTANTS
  Documents,      \* the documents that may be given, see Document
  Overrides,      \* what --algorithm may say: algorithms, or "none"
  Switches        \* the other switches that may be given

(* What the program starts from when no document says otherwise.           *)
Defaults == [scheduler |-> "round_robin", algorithm |-> "factory_arm", on |-> {}]

(* Settings with no feature behind them, and keys that nobody knows.       *)
Tunable == {p \in Settings : /\ \A g \in Gates : p \notin GateKeys(g)
                              /\ p \notin {Parent[s] : s \in DOMAIN Parent}
                              /\ p \notin {<<"", "algorithm">>, <<"simulation", "scheduler">>}}

Unknown == {<<s, "unknown">> : s \in Lists}

(* A document gives the features and any other settings a value each, its  *)
(* own or the void one; the name of an algorithm or a scheduler is among   *)
(* them when it is void.  A drift event needs the drift.                   *)
Document(d) ==
  /\ d.gates \in Configurations
  /\ d.settings \in [DOMAIN d.settings -> {"document", "void"}]
  /\ \A p \in DOMAIN d.settings :
       /\ \/ p \in Tunable \cup Unknown
          \/ p \in {<<"", "algorithm">>, <<"simulation", "scheduler">>} /\ d.settings[p] = "void"
       /\ <<"drift", "events">> \in Path(p) => "drift" \in d.gates.on

ASSUME DocumentsAssumption == \A d \in Documents : Document(d)
ASSUME OverridesAssumption == Overrides \subseteq Algorithms \cup {"none"}
ASSUME SwitchesAssumption == Switches \subseteq {"smoke", "seed"}

VARIABLES
  pc,        \* "load", "override", "run", "assemble", "write", "export",
             \* "finish", "done"; "rejected", "refused", "crashed"
  given,     \* the settings of the document that are no feature gates
  settings,  \* those of the run, where they differ from the defaults
  config,    \* the feature gates of the run
  loaded,    \* the feature gates as the document gave them
  blocks,    \* the report blocks of the ExperimentResult that are configured
  at,        \* the position of the writer in WriteOrder
  files      \* what the run directory holds

vars == <<pc, given, settings, config, loaded, blocks, at, files>>

Stages == {"load", "override", "run", "assemble", "write", "export", "finish",
           "done", "rejected", "refused", "crashed"}

(* The files of writeAll that are written whatever is configured, and the  *)
(* others, each with the block that must be.                               *)
CoreFiles ==
  {"config", "summary", "retrieval_metrics", "recommendation_metrics",
   "diversity_metrics", "learning_curve", "regret_curve", "latency_metrics", "metadata"}

GatedFiles ==
  [new_user_curve |-> "cold_start", new_reel_exposure |-> "cold_start",
   welfare_metrics |-> "welfare", welfare_archetype_metrics |-> "welfare",
   session_health |-> "session_health", serving_metrics |-> "event_mode",
   longterm_metrics |-> "long_term", ecosystem_metrics |-> "ecosystem",
   retraining_log |-> "learned_models", explanation_sample |-> "learned_models"]

WriteOrder ==
  << "config", "summary", "retrieval_metrics", "recommendation_metrics",
     "diversity_metrics", "learning_curve", "regret_curve", "latency_metrics",
     "new_user_curve", "new_reel_exposure", "welfare_metrics", "welfare_archetype_metrics",
     "session_health", "serving_metrics", "longterm_metrics", "ecosystem_metrics",
     "retraining_log", "explanation_sample", "metadata" >>

Configured(file) == file \in CoreFiles \/ GatedFiles[file] \in blocks

EventMode == config.scheduler = "event_queue"

TypeOK ==
  /\ pc \in Stages
  /\ DOMAIN settings \subseteq Settings
  /\ config \in Configurations
  /\ loaded \in Configurations
  /\ at \in 1 .. Len(WriteOrder) + 1

-----------------------------------------------------------------------------
Init ==
  /\ pc = "load"
  /\ \E d \in Documents : loaded = d.gates /\ given = d.settings
  /\ settings = <<>>
  /\ config = Defaults
  /\ blocks = {}
  /\ at = 1
  /\ files = {}

Load ==
  LET doc == [gates |-> loaded, settings |-> given]
  IN  /\ pc = "load"
      /\ IF Admitted(doc)
         THEN /\ pc' = "override"
              /\ config' = Loaded(doc).gates
              /\ settings' = Loaded(doc).settings
         ELSE pc' = "rejected" /\ UNCHANGED <<config, settings>>
      /\ UNCHANGED <<given, loaded, blocks, at, files>>

SwitchSettings(switch) ==
  IF switch = "seed" THEN {<<"simulation", "seed">>}
  ELSE {<<"simulation", k>> : k \in {"users", "reels", "creators", "topics", "dimensions",
                                     "interactions_per_user"}}
         \cup {<<"evaluation", k>> : k \in {"oracle_sample_rate", "retrieval_sample_rate"}}

(* The command line wins over the document, and nothing validates the      *)
(* configuration again.                                                    *)
Override(algorithm, line) ==
  LET switched == UNION {SwitchSettings(w) : w \in line}
  IN  /\ pc = "override"
      /\ settings' = [p \in switched \cup DOMAIN settings |->
                         IF p \in switched THEN "switch" ELSE settings[p]]
      /\ config' = IF algorithm = "none" THEN config
                                         ELSE [config EXCEPT !.algorithm = algorithm]
      /\ pc' = "run"
      /\ UNCHANGED <<given, loaded, blocks, at, files>>

(* The configuration a runner is given.                                    *)
Run == [gates |-> config, settings |-> settings]

(* Mutant of Refused: the drift events are not looked at before they fire. *)
RefusedDriftUnchecked ==
  \/ ~GateStackHolds(config)
  \/ ~WorldGenerated(settings)
  \/ ~RecommenderBuilt(config, NoReels(settings))

(* The refusals a runner makes before it has done anything: the event      *)
(* runner's check, the generators, the drift scheduler, the recommender.   *)
Refused ==
  \/ ~GateStackHolds(config)
  \/ ~WorldGenerated(settings)
  \/ ~DriftBuilt(Run)
  \/ ~RecommenderBuilt(config, NoReels(settings))

Refuse ==
  /\ pc = "run"
  /\ Refused \/ Doubtful(Run)
  /\ pc' = "refused"
  /\ UNCHANGED <<given, settings, config, loaded, blocks, at, files>>

(* The learned arm reads the training logger at its first request: without *)
(* one that is a dereference of an empty optional, which may go on or not. *)
LoggerMissing ==
  config.algorithm = "hnsw_learned_ranker" /\ "training_log" \notin config.on

(* The simulation; the training log and the survey open their files in the *)
(* run directory at the first row they sample, if they sample one.         *)
Simulate ==
  /\ pc = "run"
  /\ ~Refused
  /\ \/ pc' = "assemble"
     \/ LoggerMissing /\ pc' = "crashed"
  /\ files' \in SUBSET ({"training_log", "survey"} \cap config.on)
  /\ UNCHANGED <<given, settings, config, loaded, blocks, at>>

(* The learned-models report reads the learned recommender whenever the    *)
(* gate is on; on any other arm the pointer is null.                       *)
LearnedArmMissing ==
  /\ EventMode
  /\ "learned_ranker" \in config.on
  /\ config.algorithm # "hnsw_learned_ranker"

Assemble ==
  /\ pc = "assemble"
  /\ \/ pc' = "write" /\ blocks' = Blocks(config)
     \/ LearnedArmMissing /\ pc' = "crashed" /\ UNCHANGED blocks
  /\ UNCHANGED <<given, settings, config, loaded, at, files>>

(* Mutant of WriteFile: the metadata first, the configuration last.        *)
WriteBackwards ==
  LET file == WriteOrder[Len(WriteOrder) + 1 - at]
  IN  /\ pc = "write"
      /\ at <= Len(WriteOrder)
      /\ files' = files \cup {f \in {file} : Configured(f)}
      /\ at' = at + 1
      /\ pc' = IF at < Len(WriteOrder) THEN pc ELSE IF EventMode THEN "export" ELSE "done"
      /\ UNCHANGED <<given, settings, config, loaded, blocks>>

(* One line of writeAll: the file is written when its block is configured. *)
WriteFile ==
  /\ pc = "write"
  /\ at <= Len(WriteOrder)
  /\ files' = files \cup {f \in {WriteOrder[at]} : Configured(f)}
  /\ at' = at + 1
  /\ pc' = IF at = Len(WriteOrder)
           THEN IF EventMode THEN "export" ELSE "done"
           ELSE pc
  /\ UNCHANGED <<given, settings, config, loaded, blocks>>

(* What config.json and summary.json hold once written: nothing after the  *)
(* override changes a configuration, and nothing after the assembly a block. *)
ConfigFile == Resolved([gates |-> config, settings |-> settings])
SummaryFile == Summary(config, blocks)

(* The event runner's own export, after writeAll has returned.             *)
ExportHidden ==
  /\ pc = "export"
  /\ files' = files \cup {f \in {"hidden_preference_final"} : LongTermGate(config)}
  /\ pc' = "finish"
  /\ UNCHANGED <<given, settings, config, loaded, blocks, at>>

(* trainingLogger.finish() and surveyWriter.finish().                      *)
FinishLogs ==
  /\ pc = "finish"
  /\ files' = files \cup ({"training_log", "survey"} \cap config.on)
                    \cup {f \in {"schema"} : "training_log" \in config.on}
  /\ pc' = "done"
  /\ UNCHANGED <<given, settings, config, loaded, blocks, at>>

Next == \/ Load
        \/ \E algorithm \in Overrides, line \in SUBSET Switches : Override(algorithm, line)
        \/ Refuse
        \/ Simulate
        \/ Assemble
        \/ WriteFile
        \/ ExportHidden
        \/ FinishLogs

Spec == Init /\ [][Next]_vars

-----------------------------------------------------------------------------
(* No combination of features that passed validation is refused by the     *)
(* runner it names, so the event runner's own check of the gate stack is   *)
(* dead code behind the loader.  What is refused after the load is an      *)
(* oracle without hidden reel states, a learned arm that --algorithm asked *)
(* the round-robin runner for, and values the loader does not look at: a   *)
(* world with nothing in it, and a drift that is not spelled out.  Those   *)
(* never get as far as a result either: whatever the command line changes, *)
(* a drift that cannot be realised does not run, nor does an empty world   *)
(* that the command line has not filled.                                   *)
LateRefusals ==
  LET document == [gates |-> loaded, settings |-> given]
  IN  /\ pc = "refused" =>
           \/ config.algorithm = "oracle_satisfaction" /\ "content_v2" \notin loaded.on
           \/ config.algorithm = "hnsw_learned_ranker" /\ loaded.algorithm # config.algorithm
           \/ ~WorldGenerated(given) \/ ~DriftBuilt(document) \/ Doubtful(Run)
      /\ pc \in {"assemble", "write", "export", "finish", "done"} =>
           /\ DriftBuilt(document)
           /\ \A k \in {"users", "topics", "dimensions"} :
                From("void", given, "simulation", k) => From("switch", settings, "simulation", k)

(* Every feature the document turns on is accounted for in the result and  *)
(* nothing else is, although the two runners set the blocks by different   *)
(* rules and the event runner never even looks at an injection: what it    *)
(* leaves out the loader has excluded.                                     *)
GatesReported ==
  pc \in {"write", "export", "finish", "done"} =>
    /\ "cold_start" \in blocks <=> "injection" \in loaded.on
    /\ blocks \cap {"adaptation", "adaptation_delay"} # {} <=> "drift" \in loaded.on
    /\ "welfare" \in blocks <=> "latent_reactions" \in loaded.on
    /\ "session_health" \in blocks <=> "session_dynamics" \in loaded.on
    /\ "long_term" \in blocks <=> LongTermGate(loaded)
    /\ "ecosystem" \in blocks <=> "ecosystem_metrics" \in loaded.on
    /\ "learned_models" \in blocks <=> "learned_ranker" \in loaded.on

(* A finished run directory holds exactly the files its document asks for. *)
FilesMatchGates ==
  pc = "done" =>
    files = CoreFiles
       \cup {f \in {"new_user_curve", "new_reel_exposure"} : "injection" \in loaded.on}
       \cup {f \in {"welfare_metrics", "welfare_archetype_metrics"} :
              "latent_reactions" \in loaded.on}
       \cup {f \in {"session_health"} : "session_dynamics" \in loaded.on}
       \cup {f \in {"serving_metrics"} : loaded.scheduler = "event_queue"}
       \cup {f \in {"longterm_metrics"} : LongTermGate(loaded)}
       \cup {f \in {"hidden_preference_final"} :
              LongTermGate(loaded) /\ loaded.scheduler = "event_queue"}
       \cup {f \in {"ecosystem_metrics"} : "ecosystem_metrics" \in loaded.on}
       \cup {f \in {"retraining_log", "explanation_sample"} :
              "learned_ranker" \in loaded.on}
       \cup {f \in {"training_log", "schema"} : "training_log" \in loaded.on}
       \cup {f \in {"survey"} : "survey" \in loaded.on}

(* metadata.json stamps a directory whose report is complete: whoever      *)
(* finds it, at whatever moment, finds every other file of writeAll too.   *)
StampedComplete ==
  "metadata" \in files =>
    \A i \in 1 .. Len(WriteOrder) : Configured(WriteOrder[i]) => WriteOrder[i] \in files

(* The config.json of a directory is the document to run it again: it sets *)
(* everything this run ran with, the loader takes it and reads the same    *)
(* back, and a setting of the original document is in it unless the        *)
(* command line said otherwise.  Only the learned arm, asked for on the    *)
(* command line alone, leaves a directory that cannot be run again.        *)
Replayable ==
  pc = "done" =>
    /\ Loaded(ConfigFile) = [gates |-> config, settings |-> settings]
    /\ Admitted(ConfigFile)
         <=> (config.algorithm = "hnsw_learned_ranker" => "learned_ranker" \in config.on)
    /\ config.on = loaded.on /\ config.scheduler = loaded.scheduler
    /\ DOMAIN given \subseteq DOMAIN settings
    /\ \A p \in DOMAIN settings :
         \/ settings[p] = "switch"
         \/ p \in DOMAIN given /\ settings[p] = given[p]

(* What the summary says agrees with the files beside it: a field is not   *)
(* yet modelled exactly when the file that would report it is missing, and *)
(* whatever a note points at is there; but for the long-term note of a     *)
(* round-robin run, whose hidden preferences nobody exports.               *)
SummaryTrue ==
  pc = "done" =>
    /\ SummaryFile.keys \ PlainKeys =
         {k \in {"welfare", "metric_groups"} : "welfare_metrics" \in files}
           \cup {k \in {"session_health"} : "session_health" \in files}
           \cup {k \in {"event_mode"} : "serving_metrics" \in files}
           \cup {k \in {"long_term"} : "longterm_metrics" \in files}
           \cup {k \in {"ecosystem"} : "ecosystem_metrics" \in files}
           \cup {k \in {"learned_models"} : "retraining_log" \in files}
           \cup {k \in {"cold_start"} : "new_user_curve" \in files}
           \cup {k \in {"adaptation"} : SummaryFile.columns > 4}
    /\ SummaryFile.delay => "serving_metrics" \in files
    /\ SummaryFile.columns > 4 \/ SummaryFile.delay <=> "drift" \in loaded.on
    /\ SummaryFile.unmodeled =
         {f \in {"harmful_fatigue"} : "welfare_metrics" \in files
                                        /\ "session_health" \notin files}
           \cup {f \in {"platform_trust"} : "welfare_metrics" \in files
                                        /\ "hidden_preference_final" \notin files}
    /\ SummaryFile.group = "live" <=> {"welfare_metrics", "session_health"} \subseteq files
    /\ SummaryFile.pointers \ files \subseteq
         {f \in {"hidden_preference_final"} : config.scheduler = "round_robin"
                                               /\ LongTermGate(config)}

(* A run directory is complete once it is stamped; once the run has ended  *)
(* it holds its files exactly, can be run again from its config.json, and  *)
(* the fields and pointers of its summary agree with the files beside it.  *)
DirectoryExact == StampedComplete /\ FilesMatchGates /\ Replayable /\ SummaryTrue

(* The comment above the learned-models report: it is configured only on   *)
(* the learned arm.                                                        *)
LearnedReportOnlyOnLearnedArm ==
  "learned_models" \in blocks => config.algorithm = "hnsw_learned_ranker"

=============================================================================
