-------------------------- MODULE RunArtifactsProofs --------------------------
(***************************************************************************)
(* Safety of one invocation for every set of documents, whatever settings  *)
(* they combine, and of overrides and switches: the runner refuses only    *)
(* what the loader does not see, all is reported, and the run directory is *)
(* complete, exact and can be run again.                                   *)
(***************************************************************************)
EXTENDS RunArtifacts, SequenceTheorems, TLAPS

(* The document: every setting reaches the configuration *)

\* A key of a section is found whatever group the section is in.
LEMMA GroupKeys ==
  ASSUME NEW g \in Groups, NEW s \in DOMAIN g, NEW k \in g[s]
  PROVE  s \in DOMAIN Sections /\ k \in Sections[s]
  BY DEF Sections

\* A key and the section, or the top level, that has it.
Entry(p) == p[1] \in Lists /\ p[2] \in Keys(p[1])

\* A key of a section is an entry, whatever group the section is in.
LEMMA GroupEntry ==
  ASSUME NEW g \in Groups, NEW s \in DOMAIN g, s # "", NEW k \in g[s] PROVE Entry(<<s, k>>)
<1>1. s \in DOMAIN Sections /\ k \in Sections[s]
  BY GroupKeys
<1> QED
  BY <1>1 DEF Entry, Lists, Keys

\* The keys that hold a nested section are entries.
LEMMA ParentEntries ==
  \A s \in DOMAIN Parent : Entry(Parent[s])
<1>1. /\ "drift" \in DOMAIN PolicyKeys /\ "drift_events" \in DOMAIN PolicyKeys
      /\ "events" \in PolicyKeys["drift"] /\ "topic_mix" \in PolicyKeys["drift_events"]
  BY DEF PolicyKeys
<1>2. /\ "learning_v2" \in DOMAIN EventKeys
      /\ "survey" \in EventKeys["learning_v2"] /\ "value_weights" \in EventKeys["learning_v2"]
  BY DEF EventKeys
<1>3. PolicyKeys \in Groups /\ EventKeys \in Groups
  BY DEF Groups
<1>4. Entry(<<"drift", "events">>) /\ Entry(<<"drift_events", "topic_mix">>)
  BY <1>1, <1>3, GroupEntry
<1>5. Entry(<<"learning_v2", "survey">>) /\ Entry(<<"learning_v2", "value_weights">>)
  BY <1>2, <1>3, GroupEntry
<1>6. /\ DOMAIN Parent = {"drift_events", "topic_mix", "survey", "value_weights"}
      /\ Parent["drift_events"] = <<"drift", "events">>
      /\ Parent["topic_mix"] = <<"drift_events", "topic_mix">>
      /\ Parent["survey"] = <<"learning_v2", "survey">>
      /\ Parent["value_weights"] = <<"learning_v2", "value_weights">>
  BY DEF Parent
<1> QED
  BY <1>4, <1>5, <1>6, Zenon

\* The key that holds the section of an entry is an entry.
LEMMA HolderEntry ==
  ASSUME NEW p, Entry(p), p[1] # "" PROVE Entry(Holder(p))
<1>1. p[1] \in DOMAIN Sections
  BY DEF Entry, Lists
<1>2. CASE p[1] \in DOMAIN Parent
  BY <1>2, ParentEntries, Zenon DEF Holder
<1>3. CASE p[1] \notin DOMAIN Parent
  BY <1>1, <1>3 DEF Holder, Entry, Lists, Keys, TopKeys
<1> QED
  BY <1>2, <1>3

\* Every entry is admitted, read and written.
LEMMA EntryThrough ==
  ASSUME NEW p, Entry(p)
  PROVE  Through(p, Known) /\ Through(p, ReadInto) /\ Through(p, Written)
<1> DEFINE up(q) == IF q[1] = "" THEN q ELSE Holder(q)
<1>1. \A q : Entry(q) => Entry(up(q))
  BY HolderEntry
<1>2. Path(p) = {p, up(p), up(up(p)), up(up(up(p)))}
  BY DEF Path
<1> HIDE DEF up
<1>3. \A q \in Path(p) : Entry(q)
  BY <1>1, <1>2
<1> QED
  BY <1>3 DEF Entry, Through, Known, ReadInto, Written

\* The keys of the features are there.
LEMMA GateEntries ==
  ASSUME NEW g \in Gates, NEW p \in GateKeys(g) PROVE Entry(p)
<1>1. /\ "realism" \in DOMAIN RealismKeys /\ RealismGates \subseteq RealismKeys["realism"]
      /\ "simulation" \in DOMAIN WorldKeys
      /\ {"horizon_seconds", "new_users", "new_reels"} \subseteq WorldKeys["simulation"]
      /\ "drift" \in DOMAIN PolicyKeys /\ "events" \in PolicyKeys["drift"]
      /\ "retention" \in DOMAIN EventKeys /\ "enabled" \in EventKeys["retention"]
      /\ "evaluation" \in DOMAIN ReactionKeys
      /\ "ecosystem_metrics" \in ReactionKeys["evaluation"]
      /\ "survey" \in DOMAIN EventKeys /\ "enabled" \in EventKeys["survey"]
      /\ "serving" \in DOMAIN EventKeys /\ "learning_v2" \in DOMAIN EventKeys
      /\ {"training_log", "learned_ranker"} \subseteq EventKeys["learning_v2"]
  BY DEF RealismKeys, WorldKeys, PolicyKeys, EventKeys, ReactionKeys
<1>2. {WorldKeys, PolicyKeys, ReactionKeys, RealismKeys, EventKeys} \subseteq Groups
  BY DEF Groups
<1>3. /\ \A k \in RealismGates : Entry(<<"realism", k>>)
      /\ \A k \in {"horizon_seconds", "new_users", "new_reels"} : Entry(<<"simulation", k>>)
      /\ Entry(<<"evaluation", "ecosystem_metrics">>)
  BY <1>1, <1>2, GroupEntry
<1>4. /\ Entry(<<"drift", "events">>) /\ Entry(<<"retention", "enabled">>)
      /\ Entry(<<"survey", "enabled">>)
      /\ \A k \in {"training_log", "learned_ranker"} : Entry(<<"learning_v2", k>>)
  BY <1>1, <1>2, GroupEntry
<1>5. "serving" \in DOMAIN Sections
  BY <1>1, <1>2 DEF Sections
<1>6. \A k \in Keys("serving") : Entry(<<"serving", k>>)
  BY <1>5 DEF Entry, Lists
<1> QED
  BY <1>3, <1>4, <1>6 DEF Gates, RealismGates, EventOnlyGates, GateKeys

(* What holds along an invocation *)

Begun == {"override", "run", "assemble", "write", "export", "finish", "done",
          "refused", "crashed"}
Ending == {"write", "export", "finish", "done"}

\* Past the loader the document was accepted, the features and the scheduler
\* are its own, and a setting is its own or one the command line gave.
Reading ==
  /\ loaded \in Configurations /\ config \in Configurations
  /\ given = [p \in DOMAIN given |-> given[p]]
  /\ settings = [p \in DOMAIN settings |-> settings[p]]
  /\ pc \in Begun =>
       /\ Accepted(loaded)
       /\ config.on = loaded.on /\ config.scheduler = loaded.scheduler
       /\ \A p \in DOMAIN settings : Through(p, Known)
       /\ \A p \in DOMAIN given \cap Guarded : given[p] # "void"
       /\ DOMAIN given \subseteq DOMAIN settings
       /\ \A p \in DOMAIN settings :
            \/ settings[p] = "switch"
            \/ p \in DOMAIN given /\ settings[p] = given[p]
  /\ pc \notin Begun => settings = <<>>

\* The report is that of the run's configuration.
Reporting == blocks = IF pc \in Ending THEN Blocks(config) ELSE {}

\* The files of writeAll before position n that are configured.
Listed(n) == {WriteOrder[i] : i \in {j \in 1..n - 1 : Configured(WriteOrder[j])}}

Logs == {"training_log", "survey"}

\* What the event runner adds to the directory: the hidden preferences, and
\* with the training log, once it is finished, its schema.
Added ==
  {f \in {"hidden_preference_final"} :
     LongTermGate(config) /\ (pc = "finish" \/ (pc = "done" /\ EventMode))}
    \cup {f \in {"schema"} : pc = "done" /\ "training_log" \in config.on}

\* The directory holds what the writer has passed, what the event runner has
\* added, and of the logs those that are on, all of them at the end.
Writing ==
  /\ pc \in Stages /\ (pc = "load" => files = {})
  /\ at \in 1..20 /\ (pc = "write" => at <= 19)
  /\ pc \notin Ending => at = 1
  /\ pc \in Ending \ {"write"} => at = 20
  /\ pc \in {"export", "finish"} => EventMode
  /\ files \ Logs = Listed(at) \cup Added
  /\ files \cap Logs \subseteq config.on
  /\ pc = "done" => files \cap Logs = Logs \cap config.on

Invocation == Reading /\ Reporting /\ Writing

\* A configuration whose settings are all known is read, or written, whole.
LEMMA PassedWhole ==
  ASSUME NEW gates \in Configurations, NEW set, set = [p \in DOMAIN set |-> set[p]],
         \A p \in DOMAIN set : Through(p, Known)
  PROVE  LET c == [gates |-> gates, settings |-> set]
         IN  Passed(c, ReadInto) = c /\ Passed(c, Written) = c
<1>1. ReadInto = Known /\ Written = Known
  BY DEF ReadInto, Written, Known
<1> DEFINE c == [gates |-> gates, settings |-> set]
<1>2. c.gates = gates /\ c.settings = set
  OBVIOUS
<1>3. /\ Entry(<<"simulation", "scheduler">>) /\ Entry(<<"", "algorithm">>)
  <2>1. "simulation" \in DOMAIN WorldKeys /\ "scheduler" \in WorldKeys["simulation"]
    BY DEF WorldKeys
  <2>2. WorldKeys \in Groups
    BY DEF Groups
  <2>3. Entry(<<"", "algorithm">>)
    BY DEF Entry, Lists, Keys, TopKeys
  <2> QED
    BY <2>1, <2>2, <2>3, GroupEntry
<1>4. /\ Through(<<"simulation", "scheduler">>, Known) /\ Through(<<"", "algorithm">>, Known)
      /\ \A g \in Gates : \A p \in GateKeys(g) : Through(p, Known)
  BY <1>3, EntryThrough, GateEntries
<1>5. /\ gates.on \subseteq Gates
      /\ gates = [scheduler |-> gates.scheduler, algorithm |-> gates.algorithm, on |-> gates.on]
  BY DEF Configurations
<1>6. {g \in gates.on : \A p \in GateKeys(g) : Through(p, Known)} = gates.on
  BY <1>4, <1>5, Zenon
<1>7. {q \in DOMAIN set : Through(q, Known)} = DOMAIN set
  BY Zenon
<1> HIDE DEF c
<1>8. Passed(c, Known) = [gates |-> gates, settings |-> set]
  <2>1. Passed(c, Known).gates = gates
    BY <1>2, <1>4, <1>5, <1>6 DEF Passed
  <2>2. Passed(c, Known).settings = [p \in DOMAIN set |-> set[p]]
    BY <1>2, <1>7 DEF Passed
  <2>3. Passed(c, Known) = [gates |-> Passed(c, Known).gates,
                            settings |-> Passed(c, Known).settings]
    BY DEF Passed
  <2> QED
    BY <2>1, <2>2, <2>3
<1> QED
  BY <1>1, <1>8 DEF c

\* The initial documents.
LEMMA ReadingInit ==
  ASSUME Init PROVE Reading
<1>1. pc \notin Begun /\ settings = <<>> /\ config = Defaults
  BY DEF Init, Begun
<1>2. config \in Configurations
  BY <1>1 DEF Defaults, Configurations, Schedulers, Algorithms
<1>3. loaded \in Configurations /\ given = [p \in DOMAIN given |-> given[p]]
  BY DocumentsAssumption DEF Init, Document
<1>4. settings = [p \in DOMAIN settings |-> settings[p]]
  BY <1>1
<1> QED
  BY <1>1, <1>2, <1>3, <1>4 DEF Reading

\* Loading a document.
LEMMA ReadingLoad ==
  ASSUME Reading, Load PROVE Reading'
<1> DEFINE doc == [gates |-> loaded, settings |-> given]
<1>1. UNCHANGED <<given, loaded>> /\ pc = "load"
  BY DEF Load
<1>2. CASE ~Admitted(doc)
  <2>1. UNCHANGED <<config, settings>> /\ pc' = "rejected"
    BY <1>2 DEF Load
  <2> QED
    BY <1>1, <2>1 DEF Reading, Begun
<1>3. CASE Admitted(doc)
  <2>1. doc.settings = given /\ doc.gates = loaded
    OBVIOUS
  <2>2. /\ pc' = "override" /\ config' = Loaded(doc).gates /\ settings' = Loaded(doc).settings
    BY <1>3 DEF Load
  <2>3. /\ \A p \in DOMAIN given : Through(p, Known)
        /\ \A p \in DOMAIN given \cap Guarded : given[p] # "void"
        /\ Accepted(loaded)
    BY <1>3, <2>1 DEF Admitted
  <2>4. Loaded(doc) = doc
    BY <2>3, PassedWhole DEF Reading, Loaded
  <2>5. config' = loaded /\ settings' = given
    BY <2>1, <2>2, <2>4
  <2> QED
    BY <1>1, <2>2, <2>3, <2>5 DEF Reading, Begun
<1> QED
  BY <1>2, <1>3

\* The settings of the switches are known.
LEMMA SwitchEntries ==
  ASSUME NEW w \in Switches, NEW p \in SwitchSettings(w) PROVE Through(p, Known)
<1>1. /\ "simulation" \in DOMAIN WorldKeys /\ "evaluation" \in DOMAIN ReactionKeys
      /\ {"seed", "users", "reels", "creators", "topics", "dimensions",
          "interactions_per_user"} \subseteq WorldKeys["simulation"]
      /\ {"oracle_sample_rate", "retrieval_sample_rate"} \subseteq ReactionKeys["evaluation"]
  BY DEF WorldKeys, ReactionKeys
<1>2. {WorldKeys, ReactionKeys} \subseteq Groups
  BY DEF Groups
<1>3. /\ \A k \in {"seed", "users", "reels", "creators", "topics", "dimensions",
                   "interactions_per_user"} : Entry(<<"simulation", k>>)
      /\ \A k \in {"oracle_sample_rate", "retrieval_sample_rate"} : Entry(<<"evaluation", k>>)
  BY <1>1, <1>2, GroupEntry
<1>4. Entry(p)
  BY <1>3, Zenon DEF SwitchSettings
<1> QED
  BY <1>4, EntryThrough

\* The command line.
LEMMA ReadingOverride ==
  ASSUME Reading, NEW algorithm \in Overrides, NEW line \in SUBSET Switches,
         Override(algorithm, line)
  PROVE  Reading'
<1> DEFINE switched == UNION {SwitchSettings(w) : w \in line}
<1>1. /\ UNCHANGED <<given, loaded>> /\ pc = "override" /\ pc' = "run"
      /\ settings' = [p \in switched \cup DOMAIN settings |->
                        IF p \in switched THEN "switch" ELSE settings[p]]
      /\ config' = IF algorithm = "none" THEN config
                                         ELSE [config EXCEPT !.algorithm = algorithm]
  BY DEF Override
<1>2. \A p \in switched : Through(p, Known)
  BY SwitchEntries
<1> HIDE DEF switched
<1>3. config' \in Configurations /\ config'.on = config.on /\ config'.scheduler = config.scheduler
  BY <1>1, OverridesAssumption DEF Reading, Configurations
<1>4. DOMAIN settings' = switched \cup DOMAIN settings
  BY <1>1
<1>5. \A p \in DOMAIN settings' :
        settings'[p] = "switch" \/ (p \in DOMAIN settings /\ settings'[p] = settings[p])
  BY <1>1, <1>4
<1>6. settings' = [p \in DOMAIN settings' |-> settings'[p]]
  BY <1>1
<1>7. pc \in Begun /\ pc' \in Begun
  BY <1>1 DEF Begun
<1> QED
  BY <1>1, <1>2, <1>3, <1>4, <1>5, <1>6, <1>7 DEF Reading

\* Everything after it leaves the configuration alone.
LEMMA ReadingStep ==
  ASSUME Reading, [Next]_vars PROVE Reading'
<1>1. CASE Load
  BY <1>1, ReadingLoad
<1>2. CASE \E algorithm \in Overrides, line \in SUBSET Switches : Override(algorithm, line)
  BY <1>2, ReadingOverride
<1>3. CASE Refuse \/ Simulate \/ Assemble \/ WriteFile \/ ExportHidden \/ FinishLogs
  <2>1. UNCHANGED <<given, loaded, config, settings>>
    BY <1>3 DEF Refuse, Simulate, Assemble, WriteFile, ExportHidden, FinishLogs
  <2>2. pc \in Begun /\ pc' \in Begun
    BY <1>3 DEF Refuse, Simulate, Assemble, WriteFile, ExportHidden, FinishLogs, Begun
  <2> QED
    BY <2>1, <2>2 DEF Reading
<1>4. CASE UNCHANGED vars
  BY <1>4 DEF Reading, vars
<1> QED
  BY <1>1, <1>2, <1>3, <1>4 DEF Next

\* The blocks are set once, when the result is assembled.
LEMMA ReportingStep ==
  ASSUME Reporting, [Next]_vars PROVE Reporting'
<1>1. CASE Load \/ Refuse \/ Simulate
           \/ \E algorithm \in Overrides, line \in SUBSET Switches : Override(algorithm, line)
  <2>1. blocks' = blocks /\ pc \notin Ending /\ pc' \notin Ending
    BY <1>1 DEF Load, Refuse, Simulate, Override, Ending
  <2> QED
    BY <2>1 DEF Reporting
<1>2. CASE Assemble
  BY <1>2 DEF Assemble, Reporting, Ending
<1>3. CASE WriteFile \/ ExportHidden \/ FinishLogs
  <2>1. UNCHANGED <<blocks, config>> /\ pc \in Ending /\ pc' \in Ending
    BY <1>3 DEF WriteFile, ExportHidden, FinishLogs, Ending
  <2> QED
    BY <2>1 DEF Reporting, Blocks, EventQueueBlocks, RoundRobinBlocks, LongTermGate
<1>4. CASE UNCHANGED vars
  BY <1>4 DEF Reporting, vars
<1> QED
  BY <1>1, <1>2, <1>3, <1>4 DEF Next

\* What the loader accepted says of the features of the run.
LEMMA GateFacts ==
  ASSUME Reading, pc \in Begun
  PROVE  /\ config.on = loaded.on /\ config.scheduler = loaded.scheduler
         /\ config.scheduler \in Schedulers /\ config.on \subseteq Gates
         /\ EventMode => {"content_v2", "latent_reactions", "session_dynamics"} \subseteq config.on
         /\ ~EventMode => config.on \cap EventOnlyGates = {} /\ "learned_ranker" \notin config.on
         /\ EventMode => "injection" \notin config.on
         /\ "session_dynamics" \in config.on => "latent_reactions" \in config.on
<1>1. /\ config.on = loaded.on /\ config.scheduler = loaded.scheduler /\ Accepted(loaded)
      /\ config \in Configurations
  BY DEF Reading
<1> QED
  BY <1>1 DEF EventMode, Accepted, Configurations, Schedulers, RealismRules, ExperimentRules,
              Requires, EventOnly, EventOnlyGates, EventNeedsSessions, LearnedRules,
              NoInjectionIntoV2

\* The values of the document are its own, and what the command line sets is
\* in the world or in the evaluation.
Sourced ==
  /\ \A p \in DOMAIN given : given[p] # "switch"
  /\ \A p \in DOMAIN settings : settings[p] = "switch" => p[1] \in {"simulation", "evaluation"}

Running == {"assemble", "write", "export", "finish", "done", "crashed"}

\* What was refused is what the runner refuses, and what it refuses does not
\* run.
Accounted ==
  /\ Reading
  /\ Sourced
  /\ pc = "refused" => Refused \/ Doubtful(Run)
  /\ pc \in Running => ~Refused

\* The values keep their sources.
LEMMA SourcedStep ==
  ASSUME Sourced, [Next]_vars PROVE Sourced'
<1>1. CASE Load
  <2>1. given' = given
    BY <1>1 DEF Load
  <2>2. CASE settings' = settings
    BY <2>1, <2>2 DEF Sourced
  <2>3. CASE settings' = Loaded([gates |-> loaded, settings |-> given]).settings
    <3>1. \A p \in DOMAIN settings' : p \in DOMAIN given /\ settings'[p] = given[p]
      BY <2>3 DEF Loaded, Passed
    <3> QED
      BY <2>1, <3>1 DEF Sourced
  <2> QED
    BY <1>1, <2>2, <2>3 DEF Load
<1>2. ASSUME NEW algorithm \in Overrides, NEW line \in SUBSET Switches, Override(algorithm, line)
      PROVE  Sourced'
  <2> DEFINE switched == UNION {SwitchSettings(w) : w \in line}
  <2>1. /\ given' = given
        /\ settings' = [p \in switched \cup DOMAIN settings |->
                          IF p \in switched THEN "switch" ELSE settings[p]]
    BY <1>2 DEF Override
  <2>2. \A p \in switched : p[1] \in {"simulation", "evaluation"}
    BY DEF SwitchSettings
  <2> HIDE DEF switched
  <2>3. /\ DOMAIN settings' = switched \cup DOMAIN settings
        /\ \A p \in DOMAIN settings' :
             p \in switched \/ (p \in DOMAIN settings /\ settings'[p] = settings[p])
    BY <2>1
  <2> QED
    BY <2>1, <2>2, <2>3 DEF Sourced
<1>3. CASE Refuse \/ Simulate \/ Assemble \/ WriteFile \/ ExportHidden \/ FinishLogs
  <2>1. UNCHANGED <<given, settings>>
    BY <1>3 DEF Refuse, Simulate, Assemble, WriteFile, ExportHidden, FinishLogs
  <2> QED
    BY <2>1 DEF Sourced
<1>4. CASE UNCHANGED vars
  BY <1>4 DEF Sourced, vars
<1> QED
  BY <1>1, <1>2, <1>3, <1>4 DEF Next

\* The refusals depend on the configuration and the settings alone.
LEMMA RefusalStable ==
  ASSUME UNCHANGED <<config, settings>>
  PROVE  Refused' = Refused /\ Doubtful(Run)' = Doubtful(Run)
<1>1. Run' = Run
  BY DEF Run
<1> QED
  BY <1>1 DEF Refused, Doubtful, From

\* A refused invocation stays refused, a running one was not.
LEMMA AccountedStep ==
  ASSUME Accounted, [Next]_vars PROVE Accounted'
<1>1. Reading' /\ Sourced'
  BY ReadingStep, SourcedStep DEF Accounted
<1>2. CASE Load \/ \E algorithm \in Overrides, line \in SUBSET Switches : Override(algorithm, line)
  <2>1. pc' \in {"override", "rejected", "run"}
    BY <1>2 DEF Load, Override
  <2> QED
    BY <1>1, <2>1 DEF Accounted, Running
<1>3. CASE ~(Load \/ \E algorithm \in Overrides, line \in SUBSET Switches : Override(algorithm, line))
  <2>1. UNCHANGED <<config, settings>>
    BY <1>3 DEF Next, vars, Refuse, Simulate, Assemble, WriteFile, ExportHidden, FinishLogs
  <2>2. Refused' = Refused /\ Doubtful(Run)' = Doubtful(Run)
    BY <2>1, RefusalStable
  <2>3. CASE Refuse
    BY <1>1, <2>2, <2>3 DEF Refuse, Accounted, Running
  <2>4. CASE Simulate
    BY <1>1, <2>2, <2>4 DEF Simulate, Accounted, Running
  <2>5. CASE Assemble \/ WriteFile \/ ExportHidden \/ FinishLogs
    <3>1. pc \in Running /\ pc' \in Running
      BY <2>5 DEF Assemble, WriteFile, ExportHidden, FinishLogs, Running
    <3> QED
      BY <1>1, <2>2, <3>1 DEF Accounted, Running
  <2>6. CASE UNCHANGED vars
    BY <1>1, <2>2, <2>6 DEF Accounted, vars
  <2> QED
    BY <1>3, <2>3, <2>4, <2>5, <2>6 DEF Next
<1> QED
  BY <1>2, <1>3

\* Along every invocation the configuration is the one that was accepted.
LEMMA AccountedCorrect == Spec => []Accounted
<1>1. Init => Accounted
  <2> SUFFICES ASSUME Init PROVE Accounted
    OBVIOUS
  <2>1. pc = "load" /\ settings = <<>>
    BY DEF Init
  <2>2. \A p \in DOMAIN given : given[p] # "switch"
    BY DocumentsAssumption DEF Init, Document
  <2> QED
    BY <2>1, <2>2, ReadingInit DEF Accounted, Sourced, Running
<1> QED
  BY <1>1, AccountedStep, PTL DEF Spec

\* A void setting of the run is the document's.
LEMMA VoidGiven ==
  ASSUME Reading, pc \in Begun, NEW s, NEW k, From("void", settings, s, k)
  PROVE  From("void", given, s, k)
BY DEF Reading, From

\* The runner's own refusals go back to the command line's learned arm, to
\* the oracle, and to a value of the document.
LEMMA RefusalFacts ==
  ASSUME Reading, pc \in Begun, Refused
  PROVE  \/ config.algorithm = "oracle_satisfaction" /\ "content_v2" \notin loaded.on
         \/ config.algorithm = "hnsw_learned_ranker" /\ loaded.algorithm # config.algorithm
         \/ ~WorldGenerated(given) \/ ~DriftBuilt([gates |-> loaded, settings |-> given])
<1>1. GateStackHolds(config)
  BY GateFacts DEF GateStackHolds, EventMode
<1>2. CASE ~WorldGenerated(settings)
  BY <1>2, VoidGiven DEF WorldGenerated
<1>3. CASE ~DriftBuilt(Run)
  <2> DEFINE doc == [gates |-> loaded, settings |-> given]
  <2>1. /\ Run.gates = config /\ Run.settings = settings
        /\ doc.gates = loaded /\ doc.settings = given
    BY DEF Run
  <2>2. config.on = loaded.on /\ DOMAIN given \subseteq DOMAIN settings
    BY DEF Reading
  <2> HIDE DEF doc
  <2>3. ~DriftBuilt(doc)
    BY <1>3, <2>1, <2>2, VoidGiven DEF DriftBuilt
  <2> QED
    BY <2>3 DEF doc
<1>4. CASE ~RecommenderBuilt(config, NoReels(settings))
  <2>1. CASE config.algorithm = "oracle_satisfaction" /\ "content_v2" \notin config.on
    BY <2>1 DEF Reading
  <2>2. CASE config.algorithm = "hnsw_learned_ranker" /\ ~EventMode
    <3>1. config.algorithm = loaded.algorithm => "learned_ranker" \in loaded.on
      BY <2>2 DEF Reading, Accepted, ExperimentRules, LearnedRules
    <3> QED
      BY <2>2, <3>1, GateFacts
  <2> QED
    BY <1>4, <2>1, <2>2 DEF RecommenderBuilt, EventMode
<1> QED
  BY <1>1, <1>2, <1>3, <1>4 DEF Refused

\* What is not refused has its drift and its world from the document, but for
\* what the command line put into the world.
LEMMA RunFacts ==
  ASSUME Reading, Sourced, pc \in Begun, ~Refused
  PROVE  /\ DriftBuilt([gates |-> loaded, settings |-> given])
         /\ \A k \in {"users", "topics", "dimensions"} :
              From("void", given, "simulation", k) => From("switch", settings, "simulation", k)
<1>1. WorldGenerated(settings) /\ DriftBuilt(Run)
  BY DEF Refused
<1>2. /\ config.on = loaded.on /\ DOMAIN given \subseteq DOMAIN settings
      /\ \A p \in DOMAIN settings :
           settings[p] = "switch" \/ (p \in DOMAIN given /\ settings[p] = given[p])
  BY DEF Reading
<1>3. \A s, k : From("void", given, s, k) =>
                   From("switch", settings, s, k) \/ From("void", settings, s, k)
  BY <1>2 DEF From
<1>4. \A s \in {"topic_mix", "drift_events"}, k \in {"weight", "topic", "cohort_hi"} :
        <<s, k>> \in DOMAIN settings => settings[<<s, k>>] # "switch"
  BY DEF Sourced
<1>5. DriftBuilt([gates |-> loaded, settings |-> given])
  <2> DEFINE doc == [gates |-> loaded, settings |-> given]
  <2>1. /\ Run.gates = config /\ Run.settings = settings
        /\ doc.gates = loaded /\ doc.settings = given
    BY DEF Run
  <2> HIDE DEF doc
  <2>2. ASSUME "drift" \in loaded.on
        PROVE  /\ <<"topic_mix", "weight">> \in DOMAIN settings
               /\ ~From("void", settings, "topic_mix", "weight")
               /\ ~From("void", settings, "topic_mix", "topic")
               /\ ~From("void", settings, "drift_events", "cohort_hi")
    BY <1>1, <1>2, <2>1, <2>2 DEF DriftBuilt
  <2>3. ASSUME "drift" \in loaded.on, <<"topic_mix", "weight">> \notin DOMAIN given PROVE FALSE
    BY <1>2, <1>4, <2>2, <2>3
  <2>4. ASSUME "drift" \in loaded.on
        PROVE  /\ ~From("void", given, "topic_mix", "weight")
               /\ ~From("void", given, "topic_mix", "topic")
               /\ ~From("void", given, "drift_events", "cohort_hi")
    BY <1>3, <1>4, <2>2, <2>4 DEF From
  <2>5. DriftBuilt(doc)
    BY <2>1, <2>3, <2>4 DEF DriftBuilt
  <2> QED
    BY <2>5 DEF doc
<1> QED
  BY <1>1, <1>3, <1>5 DEF WorldGenerated

\* No combination of features is refused late, and no empty world and no
\* drift that is not spelled out comes to a result.
THEOREM LateRefusalsCorrect == Spec => []LateRefusals
<1>1. Accounted => LateRefusals
  <2> SUFFICES ASSUME Accounted PROVE LateRefusals
    OBVIOUS
  <2> DEFINE drifts == DriftBuilt([gates |-> loaded, settings |-> given])
             filled == \A k \in {"users", "topics", "dimensions"} :
                From("void", given, "simulation", k) => From("switch", settings, "simulation", k)
  <2>1. pc = "refused" =>
           \/ config.algorithm = "oracle_satisfaction" /\ "content_v2" \notin loaded.on
           \/ config.algorithm = "hnsw_learned_ranker" /\ loaded.algorithm # config.algorithm
           \/ ~WorldGenerated(given) \/ ~drifts \/ Doubtful(Run)
    BY RefusalFacts DEF Accounted, Begun
  <2>2. pc \in {"assemble", "write", "export", "finish", "done"} => drifts /\ filled
    BY RunFacts DEF Accounted, Begun, Running
  <2> HIDE DEF drifts, filled
  <2> QED
    BY <2>1, <2>2 DEF LateRefusals, drifts, filled
<1> QED
  BY <1>1, AccountedCorrect, PTL

(* The run directory *)

\* The nineteen lines of writeAll: each file is unconditional or has a block,
\* none is a log, and the metadata come last.
LEMMA OrderFacts ==
  /\ Len(WriteOrder) = 19
  /\ \A i \in 1..19 : WriteOrder[i] \in CoreFiles \cup DOMAIN GatedFiles
  /\ \A f \in CoreFiles \cup DOMAIN GatedFiles : \E i \in 1..19 : WriteOrder[i] = f
  /\ WriteOrder[19] = "metadata" /\ \A i \in 1..18 : WriteOrder[i] # "metadata"
<1>1. Len(WriteOrder) = 19
  BY DEF WriteOrder
<1>2. /\ WriteOrder[1] = "config" /\ WriteOrder[2] = "summary"
      /\ WriteOrder[3] = "retrieval_metrics" /\ WriteOrder[4] = "recommendation_metrics"
      /\ WriteOrder[5] = "diversity_metrics" /\ WriteOrder[6] = "learning_curve"
      /\ WriteOrder[7] = "regret_curve" /\ WriteOrder[8] = "latency_metrics"
      /\ WriteOrder[9] = "new_user_curve" /\ WriteOrder[10] = "new_reel_exposure"
      /\ WriteOrder[11] = "welfare_metrics" /\ WriteOrder[12] = "welfare_archetype_metrics"
      /\ WriteOrder[13] = "session_health" /\ WriteOrder[14] = "serving_metrics"
      /\ WriteOrder[15] = "longterm_metrics" /\ WriteOrder[16] = "ecosystem_metrics"
      /\ WriteOrder[17] = "retraining_log" /\ WriteOrder[18] = "explanation_sample"
      /\ WriteOrder[19] = "metadata"
  BY DEF WriteOrder
<1>3. DOMAIN GatedFiles =
        {"new_user_curve", "new_reel_exposure", "welfare_metrics", "welfare_archetype_metrics",
         "session_health", "serving_metrics", "longterm_metrics", "ecosystem_metrics",
         "retraining_log", "explanation_sample"}
  BY DEF GatedFiles
<1>4. \A i \in 1..19 : WriteOrder[i] \in CoreFiles \cup DOMAIN GatedFiles
  <2>1. \A i \in 1..19 : \/ i = 1 \/ i = 2 \/ i = 3 \/ i = 4 \/ i = 5 \/ i = 6 \/ i = 7 \/ i = 8
                         \/ i = 9 \/ i = 10 \/ i = 11 \/ i = 12 \/ i = 13 \/ i = 14 \/ i = 15
                         \/ i = 16 \/ i = 17 \/ i = 18 \/ i = 19
    OBVIOUS
  <2> QED
    BY <1>2, <1>3, <2>1 DEF CoreFiles
<1>5. \A i \in 1..18 : WriteOrder[i] # "metadata"
  <2>1. \A i \in 1..18 : \/ i = 1 \/ i = 2 \/ i = 3 \/ i = 4 \/ i = 5 \/ i = 6 \/ i = 7 \/ i = 8
                         \/ i = 9 \/ i = 10 \/ i = 11 \/ i = 12 \/ i = 13 \/ i = 14 \/ i = 15
                         \/ i = 16 \/ i = 17 \/ i = 18
    OBVIOUS
  <2> QED
    BY <1>2, <2>1
<1>6. \A f \in CoreFiles \cup DOMAIN GatedFiles : \E i \in 1..19 : WriteOrder[i] = f
  <2>1. \A i \in {1, 2, 3, 4, 5, 6, 7, 8, 9, 10, 11, 12, 13, 14, 15, 16, 17, 18, 19} : i \in 1..19
    OBVIOUS
  <2> QED
    BY <1>2, <1>3, <2>1 DEF CoreFiles
<1> QED
  BY <1>1, <1>2, <1>4, <1>5, <1>6

\* None of them is a log, or a file the event runner adds.
LEMMA LineFacts ==
  \A f \in CoreFiles \cup DOMAIN GatedFiles :
    f \notin Logs \cup {"hidden_preference_final", "schema"}
  BY DEF CoreFiles, GatedFiles, Logs

\* One more line, and the files of all of them.
LEMMA ListedFacts ==
  /\ Listed(1) = {}
  /\ \A n \in 1..19 : Listed(n + 1) = Listed(n) \cup {f \in {WriteOrder[n]} : Configured(f)}
  /\ Listed(20) = {f \in CoreFiles \cup DOMAIN GatedFiles : Configured(f)}
  /\ \A n \in 1..20 : Listed(n) \subseteq CoreFiles \cup DOMAIN GatedFiles
  /\ \A n \in 1..20 : "metadata" \in Listed(n) => n = 20
<1>1. \A i \in 1..0 : FALSE
  OBVIOUS
<1>2. ASSUME NEW n \in 1..19
      PROVE  Listed(n + 1) = Listed(n) \cup {f \in {WriteOrder[n]} : Configured(f)}
  <2>1. 1 .. (n + 1) - 1 = (1 .. n - 1) \cup {n}
    OBVIOUS
  <2> QED
    BY <2>1 DEF Listed
<1>3. \A n \in 1..20 : \A i \in 1 .. n - 1 : i \in 1..19 /\ (i \in 1..18 \/ n = 20)
  OBVIOUS
<1>4. 1 .. 20 - 1 = 1..19 /\ 1 .. 1 - 1 = {}
  OBVIOUS
<1>5. Listed(20) = {f \in CoreFiles \cup DOMAIN GatedFiles : Configured(f)}
  BY <1>4, OrderFacts DEF Listed
<1>6. \A n \in 1..20 : Listed(n) \subseteq CoreFiles \cup DOMAIN GatedFiles
  BY <1>3, OrderFacts DEF Listed
<1>7. \A n \in 1..20 : "metadata" \in Listed(n) => n = 20
  BY <1>3, OrderFacts DEF Listed
<1>8. Listed(1) = {}
  BY <1>4 DEF Listed
<1> QED
  BY <1>2, <1>5, <1>6, <1>7, <1>8

\* The files listed after a step that leaves the report alone.
LEMMA ListedNext ==
  ASSUME NEW n, at' = n, blocks' = blocks PROVE Listed(at)' = Listed(n)
  BY DEF Listed, Configured

\* Nothing is written before the result is assembled, but for the logs.
LEMMA WritingEarly ==
  ASSUME Writing, [Next]_vars, pc \notin Ending PROVE Writing'
<1>1. at = 1 /\ Added = {} /\ files \cap Logs \subseteq config.on /\ files \ Logs = {}
  <2>1. at = 1 /\ Added = {}
    BY DEF Writing, Added, Ending
  <2> QED
    BY <2>1, ListedFacts DEF Writing
<1>2. \/ at' = 1 /\ pc' \in {"write"} \cup (Stages \ Ending) /\ pc' # "load" /\ pc' \in Stages
      \/ UNCHANGED vars
  BY <1>1 DEF Next, Load, Override, Refuse, Simulate, Assemble, WriteFile, ExportHidden,
              FinishLogs, Ending, Stages
<1>3. Added' = {}
  BY <1>2 DEF Added, Ending, vars
<1>4. Listed(at)' = {}
  <2>1. \A i \in 1 .. 1 - 1 : FALSE
    OBVIOUS
  <2> QED
    BY <1>1, <1>2, <2>1 DEF Listed, vars
<1>5. files' \ Logs = {} /\ files' \cap Logs \subseteq config'.on
  <2>1. CASE Simulate
    <3>1. files' \subseteq Logs \cap config.on /\ config' = config
      BY <2>1 DEF Simulate, Logs
    <3> QED
      BY <3>1
  <2>2. CASE \E algorithm \in Overrides, line \in SUBSET Switches : Override(algorithm, line)
    <3>1. files' = files /\ config'.on = config.on
      BY <2>2 DEF Override
    <3> QED
      BY <1>1, <3>1
  <2>3. CASE Load \/ Refuse \/ Assemble \/ UNCHANGED vars
    <3>1. files' = files /\ (config' = config \/ files = {})
      BY <2>3 DEF Load, Refuse, Assemble, vars, Writing
    <3> QED
      BY <1>1, <3>1
  <2> QED
    BY <2>1, <2>2, <2>3 DEF Next, WriteFile, ExportHidden, FinishLogs, Ending
<1>6. CASE UNCHANGED vars
  BY <1>6 DEF Writing, vars, Added, EventMode, LongTermGate, Listed, Configured
<1>7. CASE ~UNCHANGED vars
  <2>1. at' = 1 /\ pc' \in {"write"} \cup (Stages \ Ending) /\ pc' # "load" /\ pc' \in Stages
    BY <1>2, <1>7
  <2>2. files' \ Logs = Listed(at)' \cup Added'
    BY <1>3, <1>4, <1>5
  <2>3. at' \in 1..20 /\ at' <= 19
    BY <2>1
  <2> QED
    BY <1>5, <2>1, <2>2, <2>3 DEF Writing, Ending
<1> QED
  BY <1>6, <1>7

\* One line of writeAll.
LEMMA WritingFile ==
  ASSUME Reading, Writing, WriteFile PROVE Writing'
<1>1. PICK n : n = at
  OBVIOUS
<1>2. /\ pc = "write" /\ n \in 1..19 /\ at' = n + 1 /\ n + 1 \in 2..20
      /\ UNCHANGED <<config, blocks>>
      /\ files' = files \cup {f \in {WriteOrder[n]} : Configured(f)}
      /\ pc' = IF n = 19 THEN IF EventMode THEN "export" ELSE "done" ELSE "write"
  BY <1>1, OrderFacts DEF WriteFile, Writing
<1>3. Listed(at)' = Listed(n) \cup {f \in {WriteOrder[n]} : Configured(f)}
  BY <1>2, ListedNext, ListedFacts
<1>4. WriteOrder[n] \notin Logs
  BY <1>2, OrderFacts, LineFacts
<1>5. Added = {} /\ files \ Logs = Listed(n) /\ files \cap Logs \subseteq config.on
  <2>1. Added = {}
    BY <1>2 DEF Added
  <2> QED
    BY <1>1, <2>1 DEF Writing
<1>6. pc' = "done" => ~EventMode /\ config.on \cap EventOnlyGates = {}
  BY <1>2, GateFacts DEF Begun
<1>7. Added' = {}
  <2>1. pc' = "done" => "training_log" \notin config.on
    BY <1>6 DEF EventOnlyGates
  <2>2. (pc' = "done" => ~EventMode) /\ pc' # "finish" /\ config' = config
    BY <1>2, <1>6
  <2> QED
    BY <2>1, <2>2 DEF Added, EventMode
<1>8. /\ files' \ Logs = (files \ Logs) \cup {f \in {WriteOrder[n]} : Configured(f)}
      /\ files' \cap Logs = files \cap Logs
  BY <1>2, <1>4
<1>9. files' \ Logs = Listed(at)' \cup Added'
  BY <1>3, <1>5, <1>7, <1>8
<1>10. files' \cap Logs \subseteq config'.on
  BY <1>2, <1>5, <1>8
<1>11. pc' = "done" => files' \cap Logs = Logs \cap config'.on
  <2>1. Logs \subseteq EventOnlyGates
    BY DEF Logs, EventOnlyGates
  <2>2. pc' = "done" => Logs \cap config'.on = {}
    BY <1>2, <1>6, <2>1
  <2> QED
    BY <1>10, <2>2
<1>12. EventMode' <=> EventMode
  BY <1>2 DEF EventMode
<1>13. /\ pc' \in Stages /\ pc' \in Ending /\ pc' # "load"
       /\ (pc' = "write" => n + 1 <= 19) /\ (pc' # "write" => n + 1 = 20)
       /\ (pc' \in {"export", "finish"} => EventMode)
  BY <1>2 DEF Stages, Ending
<1> QED
  BY <1>2, <1>9, <1>10, <1>11, <1>12, <1>13 DEF Writing

\* The event runner's own files.
LEMMA WritingExport ==
  ASSUME Writing, ExportHidden \/ FinishLogs PROVE Writing'
<1>1. /\ at = 20 /\ at' = 20 /\ EventMode /\ (EventMode' <=> EventMode)
      /\ UNCHANGED <<config, blocks>>
  BY DEF Writing, ExportHidden, FinishLogs, Ending, EventMode
<1>2. Listed(at)' = Listed(at)
  BY <1>1, ListedNext
<1>3. "hidden_preference_final" \notin Logs /\ "schema" \notin Logs
  BY DEF Logs
<1>4. LongTermGate(config)' <=> LongTermGate(config)
  BY <1>1 DEF LongTermGate
<1>5. CASE ExportHidden
  <2>1. pc = "export" /\ pc' = "finish" /\ config' = config
        /\ files' = files \cup {f \in {"hidden_preference_final"} : LongTermGate(config)}
    BY <1>5 DEF ExportHidden
  <2>2. Added = {} /\ Added' = {f \in {"hidden_preference_final"} : LongTermGate(config)}
    BY <1>4, <2>1 DEF Added
  <2>3. files' \ Logs = Listed(at)' \cup Added' /\ files' \cap Logs = files \cap Logs
    BY <1>2, <1>3, <2>1, <2>2 DEF Writing
  <2> QED
    BY <1>1, <2>1, <2>3 DEF Writing, Stages, Ending
<1>6. CASE FinishLogs
  <2>1. /\ pc = "finish" /\ pc' = "done" /\ config' = config
        /\ files' = files \cup (Logs \cap config.on)
                          \cup {f \in {"schema"} : "training_log" \in config.on}
    BY <1>6 DEF FinishLogs, Logs
  <2>2. /\ Added = {f \in {"hidden_preference_final"} : LongTermGate(config)}
        /\ Added' = Added \cup {f \in {"schema"} : "training_log" \in config.on}
    BY <1>1, <1>4, <2>1 DEF Added
  <2>3. files' \ Logs = Listed(at)' \cup Added'
    BY <1>2, <1>3, <2>1, <2>2 DEF Writing
  <2>4. files' \cap Logs = Logs \cap config.on
    BY <1>3, <2>1 DEF Writing
  <2> QED
    BY <1>1, <2>1, <2>3, <2>4 DEF Writing, Stages, Ending
<1> QED
  BY <1>5, <1>6

\* Every step, before and after the result is assembled.
LEMMA WritingStep ==
  ASSUME Reading, Writing, [Next]_vars PROVE Writing'
<1>1. CASE pc \notin Ending
  BY <1>1, WritingEarly
<1>2. CASE pc \in Ending /\ ~UNCHANGED vars
  <2>1. WriteFile \/ ExportHidden \/ FinishLogs
    BY <1>2 DEF Next, Load, Override, Refuse, Simulate, Assemble, Ending
  <2> QED
    BY <2>1, WritingFile, WritingExport
<1>3. CASE UNCHANGED vars
  BY <1>3 DEF Writing, vars, Added, EventMode, LongTermGate, Listed, Configured
<1> QED
  BY <1>1, <1>2, <1>3

\* Every invocation, from the document to the finished directory.
LEMMA InvocationCorrect == Spec => []Invocation
<1>1. Init => Invocation
  <2> SUFFICES ASSUME Init PROVE Invocation
    OBVIOUS
  <2>1. pc = "load" /\ blocks = {} /\ at = 1 /\ files = {}
    BY DEF Init
  <2>2. Added = {} /\ Listed(at) = {}
    BY <2>1, ListedFacts DEF Added
  <2> QED
    BY <2>1, <2>2, ReadingInit DEF Invocation, Reporting, Writing, Stages, Ending
<1>2. Invocation /\ [Next]_vars => Invocation'
  BY ReadingStep, ReportingStep, WritingStep DEF Invocation
<1> QED
  BY <1>1, <1>2, PTL DEF Spec

\* Whoever finds metadata.json, at whatever moment, finds every other file
\* of writeAll too.
THEOREM StampedCompleteCorrect == Spec => []StampedComplete
<1>1. Invocation => StampedComplete
  <2> SUFFICES ASSUME Invocation, "metadata" \in files,
                      NEW i \in 1 .. Len(WriteOrder), Configured(WriteOrder[i])
               PROVE  WriteOrder[i] \in files
    BY DEF StampedComplete
  <2>1. "metadata" \in CoreFiles
    BY DEF CoreFiles
  <2>2. "metadata" \notin Logs /\ "metadata" \notin Added
    BY DEF Logs, Added
  <2>3. "metadata" \in Listed(at) /\ at \in 1..20
    BY <2>2 DEF Invocation, Writing
  <2>4. at = 20
    BY <2>3, ListedFacts
  <2>5. WriteOrder[i] \in Listed(20)
    BY OrderFacts, ListedFacts
  <2> QED
    BY <2>4, <2>5 DEF Invocation, Writing
<1> QED
  BY <1>1, InvocationCorrect, PTL

\* The blocks of an assembled result, by the features of the document.
LEMMA BlockFacts ==
  ASSUME Invocation, pc \in Ending
  PROVE  /\ "cold_start" \in blocks <=> "injection" \in loaded.on
         /\ "adaptation" \in blocks <=> ("drift" \in loaded.on /\ ~EventMode)
         /\ "adaptation_delay" \in blocks <=> ("drift" \in loaded.on /\ EventMode)
         /\ "welfare" \in blocks <=> "latent_reactions" \in loaded.on
         /\ "session_health" \in blocks <=> "session_dynamics" \in loaded.on
         /\ "event_mode" \in blocks <=> EventMode
         /\ "long_term" \in blocks <=> LongTermGate(loaded)
         /\ "ecosystem" \in blocks <=> "ecosystem_metrics" \in loaded.on
         /\ "learned_models" \in blocks <=> "learned_ranker" \in loaded.on
         /\ blocks \subseteq {"cold_start", "adaptation", "adaptation_delay", "welfare",
                              "session_health", "event_mode", "long_term", "ecosystem",
                              "learned_models"}
<1>1. Reading /\ pc \in Begun /\ blocks = Blocks(config)
  BY DEF Invocation, Reporting, Ending, Begun
<1>2. LongTermGate(config) <=> LongTermGate(loaded)
  BY <1>1, GateFacts DEF LongTermGate
<1>3. CASE EventMode
  <2>1. blocks = EventQueueBlocks(config)
    BY <1>1, <1>3 DEF Blocks, EventMode
  <2> QED
    BY <1>1, <1>2, <1>3, <2>1, GateFacts DEF EventQueueBlocks
<1>4. CASE ~EventMode
  <2>1. blocks = RoundRobinBlocks(config)
    BY <1>1, <1>4 DEF Blocks, EventMode
  <2> QED
    BY <1>1, <1>2, <1>4, <2>1, GateFacts DEF RoundRobinBlocks, EventOnlyGates
<1> QED
  BY <1>3, <1>4

\* Whatever the runner, the blocks of the result are those of the features
\* the document turned on.
THEOREM GatesReportedCorrect == Spec => []GatesReported
<1>1. Invocation => GatesReported
  BY BlockFacts DEF GatesReported, Ending
<1> QED
  BY <1>1, InvocationCorrect, PTL

\* The files of the blocks.
LEMMA GatedFacts ==
  {f \in DOMAIN GatedFiles : GatedFiles[f] \in blocks} =
         {f \in {"new_user_curve", "new_reel_exposure"} : "cold_start" \in blocks}
    \cup {f \in {"welfare_metrics", "welfare_archetype_metrics"} : "welfare" \in blocks}
    \cup {f \in {"session_health"} : "session_health" \in blocks}
    \cup {f \in {"serving_metrics"} : "event_mode" \in blocks}
    \cup {f \in {"longterm_metrics"} : "long_term" \in blocks}
    \cup {f \in {"ecosystem_metrics"} : "ecosystem" \in blocks}
    \cup {f \in {"retraining_log", "explanation_sample"} : "learned_models" \in blocks}
<1>1. DOMAIN GatedFiles =
        {"new_user_curve", "new_reel_exposure", "welfare_metrics", "welfare_archetype_metrics",
         "session_health", "serving_metrics", "longterm_metrics", "ecosystem_metrics",
         "retraining_log", "explanation_sample"}
  BY DEF GatedFiles
<1>2. /\ \A f \in {"new_user_curve", "new_reel_exposure"} : GatedFiles[f] = "cold_start"
      /\ \A f \in {"welfare_metrics", "welfare_archetype_metrics"} : GatedFiles[f] = "welfare"
      /\ GatedFiles["session_health"] = "session_health"
      /\ GatedFiles["serving_metrics"] = "event_mode"
      /\ GatedFiles["longterm_metrics"] = "long_term"
      /\ GatedFiles["ecosystem_metrics"] = "ecosystem"
      /\ \A f \in {"retraining_log", "explanation_sample"} : GatedFiles[f] = "learned_models"
  BY DEF GatedFiles
<1> QED
  BY <1>1, <1>2

\* A finished directory.
LEMMA DoneFiles ==
  ASSUME Invocation, pc = "done"
  PROVE  files = CoreFiles \cup {f \in DOMAIN GatedFiles : GatedFiles[f] \in blocks}
           \cup {f \in {"hidden_preference_final"} : LongTermGate(loaded) /\ EventMode}
           \cup {f \in {"training_log", "schema"} : "training_log" \in loaded.on}
           \cup {f \in {"survey"} : "survey" \in loaded.on}
<1>1. Reading /\ Writing /\ pc \in Begun /\ at = 20
  BY DEF Invocation, Writing, Begun, Ending
<1>2. files = Listed(20) \cup Added \cup (Logs \cap config.on)
  BY <1>1 DEF Writing
<1>3. config.on = loaded.on /\ (LongTermGate(config) <=> LongTermGate(loaded))
  BY <1>1, GateFacts DEF LongTermGate
<1>4. Added \cup (Logs \cap config.on) =
        {f \in {"hidden_preference_final"} : LongTermGate(loaded) /\ EventMode}
          \cup {f \in {"training_log", "schema"} : "training_log" \in loaded.on}
          \cup {f \in {"survey"} : "survey" \in loaded.on}
  BY <1>3 DEF Added, Logs
<1>5. Listed(20) = CoreFiles \cup {f \in DOMAIN GatedFiles : GatedFiles[f] \in blocks}
  BY ListedFacts DEF Configured
<1> QED
  BY <1>2, <1>4, <1>5

\* A finished run directory holds exactly the files its document asks for.
LEMMA FilesFacts ==
  ASSUME Invocation PROVE FilesMatchGates
<1> SUFFICES ASSUME pc = "done" PROVE FilesMatchGates
  BY DEF FilesMatchGates
<1>1. EventMode <=> loaded.scheduler = "event_queue"
  BY GateFacts DEF Invocation, Begun, EventMode
<1>2. pc \in Ending
  BY DEF Ending
<1> QED
  BY <1>1, <1>2, BlockFacts, GatedFacts, DoneFiles DEF FilesMatchGates

\* The config.json of a directory is the document to run it again.
LEMMA ReplayFacts ==
  ASSUME Invocation PROVE Replayable
<1> SUFFICES ASSUME pc = "done" PROVE Replayable
  BY DEF Replayable
<1> DEFINE whole == [gates |-> config, settings |-> settings]
<1>1. Reading /\ pc \in Begun
  BY DEF Invocation, Begun
<1>2. Passed(whole, ReadInto) = whole /\ Passed(whole, Written) = whole
  BY <1>1, PassedWhole DEF Reading
<1>3. ConfigFile = whole
  BY <1>2 DEF ConfigFile, Resolved
<1>4. Loaded(ConfigFile) = whole
  BY <1>2, <1>3 DEF Loaded
<1>5. ConfigFile.gates = config /\ ConfigFile.settings = settings
  BY <1>3
<1>6. \A p \in DOMAIN settings : Through(p, Known)
  BY <1>1 DEF Reading
<1>7. \A p \in DOMAIN settings \cap Guarded : settings[p] # "void"
  BY <1>1 DEF Reading
<1>8. Accepted(config)
        <=> (config.algorithm = "hnsw_learned_ranker" => "learned_ranker" \in config.on)
  <2>1. Accepted(loaded) /\ config.on = loaded.on /\ config.scheduler = loaded.scheduler
    BY <1>1 DEF Reading
  <2> QED
    BY <2>1 DEF Accepted, SimulationRules, RealismRules, ExperimentRules, Requires, EventOnly,
                EventNeedsSessions, LearnedRules, NoInjectionIntoV2
<1>9. Admitted(ConfigFile) <=> Accepted(config)
  BY <1>5, <1>6, <1>7 DEF Admitted
<1> QED
  BY <1>1, <1>4, <1>8, <1>9 DEF Replayable, Reading

\* Which of its files a finished directory holds.
LEMMA FoundFiles ==
  ASSUME Invocation, pc = "done"
  PROVE  /\ "welfare_metrics" \in files <=> "welfare" \in blocks
         /\ "welfare_archetype_metrics" \in files <=> "welfare" \in blocks
         /\ "session_health" \in files <=> "session_health" \in blocks
         /\ "serving_metrics" \in files <=> "event_mode" \in blocks
         /\ "longterm_metrics" \in files <=> "long_term" \in blocks
         /\ "ecosystem_metrics" \in files <=> "ecosystem" \in blocks
         /\ "retraining_log" \in files <=> "learned_models" \in blocks
         /\ "new_user_curve" \in files <=> "cold_start" \in blocks
         /\ "new_reel_exposure" \in files <=> "cold_start" \in blocks
         /\ "hidden_preference_final" \in files <=> (LongTermGate(loaded) /\ EventMode)
         /\ {"learning_curve", "diversity_metrics", "retrieval_metrics",
             "recommendation_metrics"} \subseteq files
<1>1. \A f : f \in files <=>
        \/ f \in CoreFiles
        \/ f \in {"new_user_curve", "new_reel_exposure"} /\ "cold_start" \in blocks
        \/ f \in {"welfare_metrics", "welfare_archetype_metrics"} /\ "welfare" \in blocks
        \/ f = "session_health" /\ "session_health" \in blocks
        \/ f = "serving_metrics" /\ "event_mode" \in blocks
        \/ f = "longterm_metrics" /\ "long_term" \in blocks
        \/ f = "ecosystem_metrics" /\ "ecosystem" \in blocks
        \/ f \in {"retraining_log", "explanation_sample"} /\ "learned_models" \in blocks
        \/ f = "hidden_preference_final" /\ LongTermGate(loaded) /\ EventMode
        \/ f \in {"training_log", "schema"} /\ "training_log" \in loaded.on
        \/ f = "survey" /\ "survey" \in loaded.on
  BY DoneFiles, GatedFacts
<1> QED
  BY <1>1 DEF CoreFiles

\* What a note points at is there, but for the hidden preferences of a
\* round-robin run.
LEMMA PointerFacts ==
  ASSUME Invocation, pc = "done"
  PROVE  SummaryFile.pointers \ files \subseteq
           {f \in {"hidden_preference_final"} : config.scheduler = "round_robin"
                                                 /\ LongTermGate(config)}
<1>1. Reading /\ pc \in Begun /\ pc \in Ending
  BY DEF Invocation, Begun, Ending
<1>2. SummaryFile.pointers = UNION {Pointers(b) : b \in blocks \cup {"always"}}
  BY DEF SummaryFile, Summary
<1>3. LongTermGate(config) <=> LongTermGate(loaded)
  BY <1>1, GateFacts DEF LongTermGate
<1>4. ~EventMode => config.scheduler = "round_robin"
  BY <1>1, GateFacts DEF EventMode, Schedulers
<1>5. ASSUME NEW b \in blocks \cup {"always"}, NEW f \in Pointers(b), f \notin files
      PROVE  f = "hidden_preference_final" /\ ~EventMode /\ LongTermGate(loaded)
  <2>1. b \in {"always", "cold_start", "adaptation", "adaptation_delay", "welfare",
               "session_health", "event_mode", "long_term", "ecosystem", "learned_models"}
    BY <1>1, BlockFacts
  <2>2. CASE b = "long_term"
    <3>1. "long_term" \in blocks /\ LongTermGate(loaded)
      BY <1>1, <2>2, BlockFacts
    <3>2. f \in {"longterm_metrics", "hidden_preference_final"}
      BY <2>2 DEF Pointers
    <3> QED
      BY <1>5, <3>1, <3>2, FoundFiles
  <2>3. CASE b # "long_term"
    <3>1. b # "always" => b \in blocks
      BY <1>5
    <3>2. f \in files
      BY <1>5, <2>1, <2>3, <3>1, FoundFiles DEF Pointers
    <3> QED
      BY <1>5, <3>2
  <2> QED
    BY <2>2, <2>3
<1> QED
  BY <1>2, <1>3, <1>4, <1>5

\* What the summary says agrees with the files beside it.
LEMMA SummaryFacts ==
  ASSUME Invocation PROVE SummaryTrue
<1> SUFFICES ASSUME pc = "done" PROVE SummaryTrue
  BY DEF SummaryTrue
<1>1. Reading /\ pc \in Begun /\ pc \in Ending
  BY DEF Invocation, Begun, Ending
<1>2. /\ SummaryFile.keys = PlainKeys \cup BlockKeys(blocks)
      /\ SummaryFile.delay <=> "adaptation_delay" \in blocks
      /\ SummaryFile.unmodeled = NotYetModeled(config, blocks)
      /\ SummaryFile.group = SessionGroup(blocks)
      /\ SummaryFile.columns = CurveColumns(blocks)
  BY DEF SummaryFile, Summary
<1>3. SummaryFile.columns > 4 <=> "adaptation" \in blocks
  BY <1>2 DEF CurveColumns
<1>4. LongTermGate(config) <=> LongTermGate(loaded)
  BY <1>1, GateFacts DEF LongTermGate
<1>5. BlockKeys(blocks) =
        {k \in {"welfare", "metric_groups"} : "welfare" \in blocks}
          \cup {k \in {"session_health"} : "session_health" \in blocks}
          \cup {k \in {"event_mode"} : "event_mode" \in blocks}
          \cup {k \in {"long_term"} : "long_term" \in blocks}
          \cup {k \in {"ecosystem"} : "ecosystem" \in blocks}
          \cup {k \in {"learned_models"} : "learned_models" \in blocks}
          \cup {k \in {"cold_start"} : "cold_start" \in blocks}
          \cup {k \in {"adaptation"} : "adaptation" \in blocks}
  BY <1>1, BlockFacts DEF BlockKeys
<1>6. SummaryFile.keys \ PlainKeys = BlockKeys(blocks)
  <2>1. BlockKeys(blocks) \cap PlainKeys = {}
    BY <1>5 DEF PlainKeys
  <2> QED
    BY <1>2, <2>1
<1>7. SummaryFile.delay => "serving_metrics" \in files
  BY <1>1, <1>2, BlockFacts, FoundFiles
<1>8. SummaryFile.columns > 4 \/ SummaryFile.delay <=> "drift" \in loaded.on
  BY <1>1, <1>2, <1>3, BlockFacts
<1>9. TrustModeled(config, blocks) <=>
        ("welfare" \in blocks /\ "hidden_preference_final" \in files)
  BY <1>4, FoundFiles DEF TrustModeled, EventMode
<1>10. SummaryFile.unmodeled =
         {f \in {"harmful_fatigue"} : "welfare_metrics" \in files
                                        /\ "session_health" \notin files}
           \cup {f \in {"platform_trust"} : "welfare_metrics" \in files
                                        /\ "hidden_preference_final" \notin files}
  BY <1>2, <1>9, FoundFiles DEF NotYetModeled
<1>11. SummaryFile.group = "live" <=> {"welfare_metrics", "session_health"} \subseteq files
  BY <1>2, FoundFiles DEF SessionGroup
<1>12. SummaryFile.keys \ PlainKeys =
         {k \in {"welfare", "metric_groups"} : "welfare_metrics" \in files}
           \cup {k \in {"session_health"} : "session_health" \in files}
           \cup {k \in {"event_mode"} : "serving_metrics" \in files}
           \cup {k \in {"long_term"} : "longterm_metrics" \in files}
           \cup {k \in {"ecosystem"} : "ecosystem_metrics" \in files}
           \cup {k \in {"learned_models"} : "retraining_log" \in files}
           \cup {k \in {"cold_start"} : "new_user_curve" \in files}
           \cup {k \in {"adaptation"} : SummaryFile.columns > 4}
  BY <1>3, <1>5, <1>6, FoundFiles
<1> QED
  BY <1>7, <1>8, <1>10, <1>11, <1>12, PointerFacts DEF SummaryTrue

\* Once stamped a directory is complete; once the run has ended it holds the
\* files its document asks for, can be run again from its own config.json,
\* and its summary agrees with the rest.
THEOREM DirectoryExactCorrect == Spec => []DirectoryExact
<1>1. Invocation => FilesMatchGates /\ Replayable /\ SummaryTrue
  BY FilesFacts, ReplayFacts, SummaryFacts
<1> QED
  BY <1>1, InvocationCorrect, StampedCompleteCorrect, PTL DEF DirectoryExact

(* Types *)

\* Nobody knows the unknown key.
LEMMA UnknownKey ==
  \A s \in Lists : "unknown" \notin Keys(s)
<1>1. \A s \in DOMAIN WorldKeys : s # "unknown" /\ "unknown" \notin WorldKeys[s]
  BY DEF WorldKeys
<1>2. \A s \in DOMAIN RankingKeys : s # "unknown" /\ "unknown" \notin RankingKeys[s]
  BY DEF RankingKeys
<1>3. \A s \in DOMAIN PolicyKeys : s # "unknown" /\ "unknown" \notin PolicyKeys[s]
  BY DEF PolicyKeys
<1>4. \A s \in DOMAIN ReactionKeys : s # "unknown" /\ "unknown" \notin ReactionKeys[s]
  BY DEF ReactionKeys
<1>5. \A s \in DOMAIN RealismKeys : s # "unknown" /\ "unknown" \notin RealismKeys[s]
  BY DEF RealismKeys, RealismGates
<1>6. \A s \in DOMAIN EventKeys : s # "unknown" /\ "unknown" \notin EventKeys[s]
  BY DEF EventKeys
<1>7. \A g \in Groups : \A s \in DOMAIN g : s # "unknown" /\ "unknown" \notin g[s]
  BY <1>1, <1>2, <1>3, <1>4, <1>5, <1>6, Zenon DEF Groups
<1>8. \A s \in DOMAIN Sections : s # "unknown" /\ "unknown" \notin Sections[s]
  BY <1>7 DEF Sections
<1>9. "unknown" \notin TopKeys
  BY <1>8 DEF TopKeys
<1> QED
  BY <1>8, <1>9 DEF Lists, Keys

\* What the switches set are settings.
LEMMA SwitchSettingFacts ==
  ASSUME NEW w \in Switches, NEW p \in SwitchSettings(w) PROVE p \in Settings
<1>1. /\ "simulation" \in DOMAIN WorldKeys /\ "evaluation" \in DOMAIN ReactionKeys
      /\ {"seed", "users", "reels", "creators", "topics", "dimensions",
          "interactions_per_user"} \subseteq WorldKeys["simulation"]
      /\ {"oracle_sample_rate", "retrieval_sample_rate"} \subseteq ReactionKeys["evaluation"]
  BY DEF WorldKeys, ReactionKeys
<1>2. {WorldKeys, ReactionKeys} \subseteq Groups
  BY DEF Groups
<1>3. ASSUME NEW s \in {"simulation", "evaluation"}, NEW k, Entry(<<s, k>>)
      PROVE  <<s, k>> \in Settings
  <2>1. s \in DOMAIN Sections /\ k \in Keys(s)
    BY <1>3 DEF Entry, Lists
  <2>2. <<s, k>> \in {<<s, x>> : x \in Keys(s)}
    BY <2>1, Zenon
  <2> QED
    BY <2>1, <2>2, Zenon DEF Settings
<1>4. /\ \A k \in {"seed", "users", "reels", "creators", "topics", "dimensions",
                   "interactions_per_user"} : Entry(<<"simulation", k>>)
      /\ \A k \in {"oracle_sample_rate", "retrieval_sample_rate"} : Entry(<<"evaluation", k>>)
  BY <1>1, <1>2, GroupEntry
<1>5. /\ \A k \in {"seed", "users", "reels", "creators", "topics", "dimensions",
                   "interactions_per_user"} : <<"simulation", k>> \in Settings
      /\ \A k \in {"oracle_sample_rate", "retrieval_sample_rate"} :
           <<"evaluation", k>> \in Settings
  BY <1>3, <1>4
<1> QED
  BY <1>5, Zenon DEF SwitchSettings

\* The document sets settings or the unknown key, the run only settings.
Typed ==
  /\ Invocation
  /\ DOMAIN given \subseteq Settings \cup Unknown
  /\ DOMAIN settings \subseteq Settings

\* The documents there are.
LEMMA TypedInit ==
  ASSUME Init, Invocation PROVE Typed
<1>1. "simulation" \in DOMAIN Sections /\ "scheduler" \in Keys("simulation")
  <2>1. "simulation" \in DOMAIN WorldKeys /\ "scheduler" \in WorldKeys["simulation"]
    BY DEF WorldKeys
  <2>2. WorldKeys \in Groups
    BY DEF Groups
  <2> QED
    BY <2>1, <2>2, GroupKeys DEF Keys
<1>2. /\ <<"simulation", "scheduler">> \in Settings /\ <<"", "algorithm">> \in Settings
      /\ Tunable \subseteq Settings
  <2>1. <<"simulation", "scheduler">> \in {<<"simulation", k>> : k \in Keys("simulation")}
    BY <1>1, Zenon
  <2>2. <<"simulation", "scheduler">> \in Settings
    BY <1>1, <2>1, Zenon DEF Settings
  <2>3. <<"", "algorithm">> \in Settings
    BY DEF Settings
  <2> QED
    BY <2>2, <2>3 DEF Tunable
<1>3. DOMAIN given \subseteq Settings \cup Unknown
  <2>1. \A p \in DOMAIN given : p \in Tunable \cup Unknown
                                \/ p \in {<<"", "algorithm">>, <<"simulation", "scheduler">>}
    BY DocumentsAssumption DEF Init, Document
  <2> QED
    BY <1>2, <2>1
<1> QED
  BY <1>3 DEF Init, Typed

\* A document with the unknown key is not loaded.
LEMMA TypedStep ==
  ASSUME Typed, [Next]_vars, Invocation' PROVE Typed'
<1>1. given' = given
  BY DEF Next, Load, Override, Refuse, Simulate, Assemble, WriteFile, ExportHidden, FinishLogs, vars
<1>2. DOMAIN settings' \subseteq Settings
  <2>1. CASE Load
    <3>1. CASE pc' = "rejected"
      BY <2>1, <3>1 DEF Load, Typed
    <3>2. CASE pc' # "rejected"
      <4>1. Admitted([gates |-> loaded, settings |-> given])
            /\ settings' = Loaded([gates |-> loaded, settings |-> given]).settings
        BY <2>1, <3>2 DEF Load
      <4>2. \A p \in DOMAIN given : Through(p, Known)
        BY <4>1 DEF Admitted
      <4>3. settings' = given
        BY <4>1, <4>2, PassedWhole DEF Typed, Invocation, Reading, Loaded
      <4>4. \A p \in Unknown : ~Through(p, Known)
        <5> SUFFICES ASSUME NEW s \in Lists PROVE ~Through(<<s, "unknown">>, Known)
          BY Zenon DEF Unknown
        <5>1. <<s, "unknown">> \in Path(<<s, "unknown">>)
          BY DEF Path
        <5>2. "unknown" \notin Known[s]
          BY UnknownKey DEF Known
        <5> QED
          BY <5>1, <5>2 DEF Through
      <4> QED
        BY <4>2, <4>3, <4>4 DEF Typed
    <3> QED
      BY <3>1, <3>2
  <2>2. ASSUME NEW algorithm \in Overrides, NEW line \in SUBSET Switches, Override(algorithm, line)
        PROVE  DOMAIN settings' \subseteq Settings
    <3> DEFINE switched == UNION {SwitchSettings(w) : w \in line}
    <3>1. switched \subseteq Settings
      BY SwitchSettingFacts
    <3>2. DOMAIN settings' = switched \cup DOMAIN settings
      BY <2>2 DEF Override
    <3> QED
      BY <3>1, <3>2 DEF Typed
  <2>3. CASE Refuse \/ Simulate \/ Assemble \/ WriteFile \/ ExportHidden \/ FinishLogs
             \/ UNCHANGED vars
    <3>1. settings' = settings
      BY <2>3 DEF Refuse, Simulate, Assemble, WriteFile, ExportHidden, FinishLogs, vars
    <3> QED
      BY <3>1 DEF Typed
  <2> QED
    BY <2>1, <2>2, <2>3 DEF Next
<1>3. Unknown' = Unknown /\ Settings' = Settings
  OBVIOUS
<1> QED
  BY <1>1, <1>2, <1>3 DEF Typed

\* Types: no run is configured with a setting no section has.
THEOREM TypeCorrect == Spec => []TypeOK
<1>1. Init /\ Invocation => Typed
  BY TypedInit
<1>2. Typed /\ [Next]_vars /\ Invocation' => Typed'
  BY TypedStep
<1>3. Typed => TypeOK
  BY OrderFacts DEF Typed, Invocation, Reading, Writing, TypeOK
<1> QED
  BY <1>1, <1>2, <1>3, InvocationCorrect, PTL DEF Spec
=============================================================================
