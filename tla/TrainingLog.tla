---------------------------- MODULE TrainingLog ----------------------------
(***************************************************************************)
(* The training-data logger, the survey writer and the offline loader.     *)
(* A request is sampled by two predicates of its id alone, for the reels   *)
(* it showed and for its whole pool; outcomes arrive later, one impression *)
(* at a time, and are joined on (request, reel): in memory, in the matrix  *)
(* the retraining reads, and offline, from the tables left on disk.        *)
(***************************************************************************)
EXTENDS Integers, Sequences, FiniteSets, SequencesExt

CONSTANTS
  ShownSampled,   \* ids with pinnedHash01(id ^ kLogSampleSalt) < rate
  PoolSampled,    \* ids with pinnedHash01(id ^ kLogPoolSampleSalt) < rate
  KeepMatrix,     \* learning_v2.learned_ranker
  MaxRowsPerFile  \* learning_v2.log_max_rows_per_file

ASSUME LogAssumption ==
  KeepMatrix \in BOOLEAN /\ MaxRowsPerFile \in Nat \ {0}

VARIABLES
  requestRows,    \* requests.csv: [id, user, at]
  candidateRows,  \* candidates.csv: [id, reel, shown]
  candidateParts, \* rows in each rotation part
  outcomeRows,    \* outcomes.csv: [id, reel, at] (the time is history)
  outcomeParts,
  surveyRows,     \* survey.csv: [id, reel]
  captured,       \* matrix_ rows (keys) with features
  labelled,       \* matrix_ rows with an outcome
  rated,          \* matrix_ rows with a likert
  completeRows    \* matrixCompleteRows_

tableVars == <<requestRows, candidateRows, candidateParts, outcomeRows,
               outcomeParts, surveyRows>>
matrixVars == <<captured, labelled, rated, completeRows>>
logVars == <<tableVars, matrixVars>>

LogInit ==
  /\ requestRows = {} /\ candidateRows = {} /\ outcomeRows = {} /\ surveyRows = {}
  /\ candidateParts = <<>> /\ outcomeParts = <<>>
  /\ captured = {} /\ labelled = {} /\ rated = {} /\ completeRows = 0

\* n rows are written: they fill the last part, and the others open one part
\* after the other, full but for the last.
RowsLand(parts, n) ==
  LET room == IF parts = <<>> THEN 0 ELSE MaxRowsPerFile - Last(parts)
      over == n - room
      filled(rows) == [i \in DOMAIN parts |-> IF i = Len(parts) THEN rows ELSE parts[i]]
      opened == [i \in 1..((over + MaxRowsPerFile - 1) \div MaxRowsPerFile) |->
                   Min({MaxRowsPerFile, over - (i - 1) * MaxRowsPerFile})]
  IN IF over <= 0 THEN filled(MaxRowsPerFile - room + n) ELSE filled(MaxRowsPerFile) \o opened

\* The rows whose outcomes will arrive: shown reels of shown-sampled requests.
Matrixed(id, shown) ==
  IF KeepMatrix /\ id \in ShownSampled THEN {<<id, r>> : r \in shown} ELSE {}

\* onRequestRanked.
LogRequest(id, user, t, pool, shown) ==
  LET rows == IF id \in PoolSampled THEN pool ELSE shown IN
  IF id \in ShownSampled \cup PoolSampled
  THEN /\ requestRows' = requestRows \cup {[id |-> id, user |-> user, at |-> t]}
       /\ candidateRows' = candidateRows \cup
            {[id |-> id, reel |-> r, shown |-> r \in shown] : r \in rows}
       /\ candidateParts' = RowsLand(candidateParts, Cardinality(rows))
       /\ captured' = captured \cup Matrixed(id, shown)
       /\ UNCHANGED <<outcomeRows, outcomeParts, surveyRows, labelled, rated,
                      completeRows>>
  ELSE UNCHANGED logVars

\* Mutant: every outcome is written, whatever the sample.
TakesAllOutcomes(id) == TRUE

\* Outcomes join to shown-sampled impressions only.
TakesOutcome(id) == id \in ShownSampled

\* onImpressionOutcome, then onSurvey when the survey's rate draw fired.  An
\* outcome without a captured row creates none.
LogImpression(id, reel, t, surveyed) ==
  LET key == <<id, reel>>
      known == key \in captured
  IN
  /\ IF TakesOutcome(id)
     THEN /\ labelled' = IF known THEN labelled \cup {key} ELSE labelled
          /\ completeRows' = IF known /\ key \notin labelled
                             THEN completeRows + 1 ELSE completeRows
          /\ outcomeRows' = outcomeRows \cup {[id |-> id, reel |-> reel, at |-> t]}
          /\ outcomeParts' = RowsLand(outcomeParts, 1)
     ELSE UNCHANGED <<labelled, completeRows, outcomeRows, outcomeParts>>
  /\ surveyRows' = IF surveyed THEN surveyRows \cup {key} ELSE surveyRows
  /\ rated' = IF surveyed /\ known THEN rated \cup {key} ELSE rated
  /\ UNCHANGED <<requestRows, candidateRows, candidateParts, captured>>

\* snapshotMatrix: rows with features and an outcome.
Trainable == captured \cap labelled

\* finish: each table exists, header-only when nothing was logged.
LogFinish ==
  /\ candidateParts' = IF candidateParts = <<>> THEN <<0>> ELSE candidateParts
  /\ outcomeParts' = IF outcomeParts = <<>> THEN <<0>> ELSE outcomeParts
  /\ UNCHANGED <<requestRows, candidateRows, outcomeRows, surveyRows, matrixVars>>
------------------------------------------------------------------------------
(* The offline loader, over the finished tables. *)

OutcomeKeys == {<<o.id, o.reel>> : o \in outcomeRows}

\* Mutant: pool candidates are examples too.
JoinedWithPool == {c \in candidateRows : <<c.id, c.reel>> \in OutcomeKeys \/ ~c.shown}

\* Shown candidates with an outcome.
Joined == {c \in candidateRows : c.shown /\ <<c.id, c.reel>> \in OutcomeKeys}

\* loadTrainingLog: joined candidates whose request has its metadata.
Examples ==
  {[key |-> <<p[1].id, p[1].reel>>, at |-> p[2].at, user |-> p[2].user,
    rated |-> <<p[1].id, p[1].reel>> \in surveyRows] :
     p \in {p \in Joined \X requestRows : p[1].id = p[2].id}}

\* Joined rows the loader drops for want of a request.
DroppedNoRequest == {c \in Joined : \A q \in requestRows : q.id # c.id}

SplitRequests(read) == {<<e.at, e.key[1]>> : e \in read}

Precedes(p, q) == p[1] < q[1] \/ (p[1] = q[1] /\ p[2] < q[2])

\* assignSplit, temporal: the earliest floor(0.8 n) requests are for training.
TrainExamples(read) ==
  LET split == SplitRequests(read) IN
  {e \in read : Cardinality({p \in split : Precedes(p, <<e.at, e.key[1]>>)})
                  < (8 * Cardinality(split)) \div 10}
=============================================================================
