--------------------------- MODULE EventRecording ---------------------------
(***************************************************************************)
(* The event-driven runner with its observers: each handled event of the   *)
(* stream is shown to the training log, the retraining hook and the day    *)
(* ledger in the order the handler calls them.                             *)
(***************************************************************************)
EXTENDS EventStream, TrainingLog, Retraining

VARIABLES processedDay, snapshot, impressionsBy, requestsBy, closedBy,
          startedBy, drained

Ledger == INSTANCE DayLedger WITH LastDay <- NumDays - 1

ledgerVars == <<processedDay, snapshot, impressionsBy, requestsBy, closedBy,
                startedBy, drained>>
vars == <<streamVars, logVars, retrainVars, ledgerVars>>

Init ==
  /\ StreamInit /\ LogInit /\ RetrainInit
  /\ Ledger!LedgerInit

BeginGroup ==
  /\ \E t \in (now + 1)..Horizon :
       StreamGroup(t) /\ Ledger!DayAdvances(DayOf(t), impressions)
  /\ UNCHANGED <<logVars, retrainVars>>

EndPhase == StreamPhase /\ UNCHANGED <<logVars, retrainVars, ledgerVars>>

\* Distinct reels, at most a feed.
Feeds ==
  {r \in UNION {[1..n -> Reels] : n \in 0..Depth} :
     \A i, j \in DOMAIN r : r[i] = r[j] => i = j}

\* RequestFeed: number the request, run the retraining hook, rank, log, sample.
RequestFeed(u) ==
  \E r \in Feeds :
    /\ StreamRequest(u, r, ServingVersion(AfterHook(now, Trainable)))
    /\ RetrainHook(NextId, now, Trainable, Range(r))
    /\ LogRequest(NextId, u, now, Reels, Range(r))
    /\ Ledger!CountRequest(DayOf(now))

\* StartReel: the step, the day's buckets, then the outcome and the survey.
StartReel(u) ==
  \E exits, surveyed \in BOOLEAN :
    /\ StreamImpression(u, exits)
    /\ LET item == Head(feed[u])
           start == IF sessionStart[u] = -1 THEN now ELSE sessionStart[u]
       IN /\ LogImpression(item.id, item.reel, now, surveyed)
          /\ Ledger!CountImpression(DayOf(now), exits, DayOf(start))
    /\ UNCHANGED retrainVars

ExitApp(u) == StreamExit(u) /\ UNCHANGED <<logVars, retrainVars, ledgerVars>>

\* The loop ends: final snapshot, drain of the open sessions, log flushed.
Finish ==
  /\ StreamEnd
  /\ LogFinish
  /\ Ledger!CloseLedger(impressions, Cardinality({u \in Users : sessionStart[u] # -1}))
  /\ UNCHANGED retrainVars

Terminated == ended /\ UNCHANGED vars

Next ==
  \/ BeginGroup \/ EndPhase \/ Finish \/ Terminated
  \/ \E u \in Users : RequestFeed(u) \/ StartReel(u) \/ ExitApp(u)

Spec == Init /\ [][Next]_vars
------------------------------------------------------------------------------
(* Properties *)

\* The outcomes of the events before time t, as the matrix keys them.
ObservedBefore(t) == {<<o.id, o.reel>> : o \in {x \in outcomeRows : x.at < t}}

\* The instants a retrain is owed: the first request of an interval, once
\* enough outcomes of earlier instants have been observed.
RetrainInstants ==
  {requests[i].at : i \in {j \in DOMAIN requests :
     /\ requests[j].at >= RetrainInterval
     /\ \A k \in DOMAIN requests :
          requests[k].at \div RetrainInterval = requests[j].at \div RetrainInterval
            => requests[j].at <= requests[k].at
     /\ Cardinality(ObservedBefore(requests[j].at)) >= MinTrainingRows}}

\* The version owed to a request at t when retrains are owed at those instants:
\* the ones due so far, counted once the last of them had the examples to train
\* any target.
OwedVersion(t, instants) ==
  LET due == {f \in instants : f <= t}
      last == CHOOSE f \in due : \A g \in due : g <= f
  IN IF due # {} /\ Cardinality(ObservedBefore(last)) >= MinPositives
     THEN Cardinality(due) ELSE 0

\* Every request is served by the models of the last boundary that had data,
\* trained on all outcomes of earlier instants and nothing else; requests of
\* one instant share them, whatever order they are popped in; each interval
\* retrains at most once, however many boundaries passed without a request.
ServedVersionExact ==
  LET instants == RetrainInstants IN
  /\ \A i \in DOMAIN requests : requests[i].version = OwedVersion(requests[i].at, instants)
  /\ \A k \in DOMAIN retrains : retrains[k].rows = ObservedBefore(retrains[k].at)
  /\ Len(retrains) = Cardinality(instants)

\* The sample explains the first non-empty feed that learned models ranked.
SampleIsFirstLearned ==
  LET learned == {i \in DOMAIN requests :
                    requests[i].version # 0 /\ requests[i].shown # <<>>}
  IN IF learned = {} THEN explained.id = 0
     ELSE /\ explained.id \in learned
          /\ \A i \in learned : explained.id <= i
          /\ explained.version = requests[explained.id].version

\* Serving follows learning: the models, and the one sample explained.
ServingExact == ServedVersionExact /\ SampleIsFirstLearned

\* Every outcome has its candidate row, every candidate its request.
RowsJoined ==
  /\ \A o \in outcomeRows : [id |-> o.id, reel |-> o.reel, shown |-> TRUE] \in candidateRows
  /\ DroppedNoRequest = {}

\* The count that gates retraining is the number of trainable rows, one for
\* each outcome written.
CountExact ==
  KeepMatrix => completeRows = Cardinality(Trainable) /\ Trainable = OutcomeKeys

\* The tables join, the count that gates retraining is that of the rows it
\* trains on, and no part exceeds its cap.
TablesJoin ==
  /\ RowsJoined /\ CountExact
  /\ \A i \in DOMAIN outcomeParts : outcomeParts[i] <= MaxRowsPerFile
  /\ \A i \in DOMAIN candidateParts : candidateParts[i] <= MaxRowsPerFile

\* What the loader reads back from the finished log is what the run trained
\* on: the same examples with the same survey labels; and the temporal split
\* trains on nothing later than what it tests on.
OfflineMatchesMemory ==
  ended =>
    LET read == Examples
        train == TrainExamples(read)
    IN /\ KeepMatrix => /\ {e.key : e \in read} = Trainable
                        /\ {e.key : e \in {x \in read : x.rated}} = rated \cap Trainable
       /\ \A e \in train, f \in read \ train : e.at <= f.at

\* What the days up to d add up to: each day has as many marks as it counts.
Marks(f, d) == UNION {{e} \X (1..f[e]) : e \in 0..d}
SumUpTo(f, d) == Cardinality(Marks(f, d))

\* The snapshot of a day is the population at the end of that day: for every
\* day from the first active one, whichever days in between were empty.
SnapshotsAreDayEnd ==
  ended =>
    \A d \in Days :
      (requests # <<>> /\ d >= DayOf(requests[1].at))
        => snapshot[d] = SumUpTo(impressionsBy, d)

\* The two session books agree: every closed session is in both, once, and
\* no later in the book of starts; the drain accounts for every open one.  No
\* request or impression is lost between days.
DayBooksBalance ==
  /\ \A d \in Days : SumUpTo(closedBy, d) <= SumUpTo(startedBy, d)
  /\ SumUpTo(closedBy, NumDays - 1) = SumUpTo(startedBy, NumDays - 1)
  /\ \A d \in Days : startedBy[d] > 0 => impressionsBy[d] > 0
  /\ SumUpTo(requestsBy, NumDays - 1) = Len(requests)
  /\ SumUpTo(impressionsBy, NumDays - 1) = impressions
  /\ ended => drained = Cardinality({u \in Users : sessionStart[u] # -1})
=============================================================================
