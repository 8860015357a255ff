----------------------------- MODULE Retraining -----------------------------
(***************************************************************************)
(* Deterministic in-loop retraining of the learned arm: at the first       *)
(* request at or after each boundary the models are retrained from the     *)
(* in-memory matrix and swapped in before that request is ranked.  A model *)
(* is what it was trained on; training itself is abstracted.               *)
(***************************************************************************)
EXTENDS Integers, Sequences, FiniteSets

CONSTANTS
  RetrainInterval, \* retrain_every_hours, in seconds
  MinTrainingRows, \* learning_v2.min_training_rows
  MinPositives     \* kMinPositivesToTrain

ASSUME RetrainAssumption ==
  RetrainInterval \in Nat \ {0} /\ MinTrainingRows \in Nat /\ MinPositives \in Nat

VARIABLES
  nextRetrain, \* nextRetrainTime
  retrains,    \* retrainRecords: [at, rows]; retrainVersion is its length
  explained    \* explanation_sample.json: request and version, 0 when absent

retrainVars == <<nextRetrain, retrains, explained>>

RetrainInit ==
  /\ nextRetrain = RetrainInterval
  /\ retrains = <<>>
  /\ explained = [id |-> 0, version |-> 0]

\* Mutant: the schedule catches up one boundary at a time.
CatchUp(t) == nextRetrain + RetrainInterval

\* The first boundary after t: missed ones collapse into one retrain.
BoundaryAfter(t) == (t \div RetrainInterval + 1) * RetrainInterval

\* The schedule advances whether or not there are rows to train on.
BoundaryDue(t, rows) == t >= nextRetrain

Retrains(t, rows) == BoundaryDue(t, rows) /\ Cardinality(rows) >= MinTrainingRows

\* The records after the hook of a request at t, with rows trainable.
AfterHook(t, rows) ==
  IF Retrains(t, rows) THEN Append(retrains, [at |-> t, rows |-> rows]) ELSE retrains

\* LearnedModels.ready: some target had the examples to train a model.
ReadyAfter(rs) == rs # <<>> /\ Cardinality(rs[Len(rs)].rows) >= MinPositives

\* What serves: the last version, 0 for the fallback ranker.
ServingVersion(rs) == IF ReadyAfter(rs) THEN Len(rs) ELSE 0

\* The first non-empty feed that the models ranked is kept as the sample.
Samples(id, rs, shown) == explained.id = 0 /\ ReadyAfter(rs) /\ shown # {}

\* The hook of a request, and the sample taken after its ranking.
RetrainHook(id, t, rows, shown) ==
  LET rs == AfterHook(t, rows) IN
  /\ nextRetrain' = IF BoundaryDue(t, rows) THEN BoundaryAfter(t) ELSE nextRetrain
  /\ retrains' = rs
  /\ explained' = IF Samples(id, rs, shown)
                  THEN [id |-> id, version |-> Len(rs)] ELSE explained
=============================================================================
