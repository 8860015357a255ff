----------------------------- MODULE EventRunner -----------------------------
(***************************************************************************)
(* The event-driven runner: users open the app, request feeds, consume     *)
(* reels, exit and return on independent timelines over one priority queue *)
(* (EventDrivenRunner::run and EventQueue).  The loop takes the queue one  *)
(* timestamp at a time and drains each timestamp in three phases: arrivals,*)
(* feed requests, everything else.  Within a phase the order is that of a  *)
(* pinned hash, modelled as any order.                                     *)
(*                                                                         *)
(* An impression is atomic in the code (Simulator::stepV2 inside the       *)
(* StartReel handler) and so it is here.  Rewards, embeddings and metrics  *)
(* are abstracted; what is kept of an impression is its watch time, the    *)
(* session it belongs to, its exit draw and the counters it bumps.         *)
(***************************************************************************)
EXTENDS Integers, Sequences, FiniteSets

CONSTANTS
  Users,             \* the simulated users
  Reels,             \* the catalogue
  Horizon,           \* simulation.horizonSeconds
  OpenTimes,         \* values of the uniform(0, openStaggerSeconds) draw
  WatchTimes,        \* values of round(watchSeconds)
  BrowseOverhead,    \* kBrowseOverheadSeconds
  RefetchDelay,      \* kIntentRefetchDelaySeconds
  ReturnDelays,      \* values of baselineReturnDelay / nextReturnDelay
  PrefetchDepth,     \* reels per request (prefetch_depth, or feedSize)
  RefillThreshold,   \* serving.refill_threshold
  InvalidateOnIntent,\* serving.invalidate_on_intent_change
  LearningEnabled,   \* learning.enabled
  RetentionEnabled   \* retention.enabled

ASSUME TimeAssumption ==
  /\ Horizon \in Nat
  /\ OpenTimes \subseteq Nat /\ OpenTimes # {}
  /\ WatchTimes \subseteq Nat
  /\ BrowseOverhead \in Nat \ {0}
  /\ RefetchDelay \in Nat \ {0}
  /\ ReturnDelays \subseteq Nat \ {0}

ASSUME ServingAssumption ==
  /\ PrefetchDepth \in Nat \ {0}
  /\ RefillThreshold \in Nat
  /\ InvalidateOnIntent \in BOOLEAN
  /\ LearningEnabled \in BOOLEAN
  /\ RetentionEnabled \in BOOLEAN

ASSUME UsersFinite == IsFiniteSet(Users)

VARIABLES
  now,         \* timestamp of the group in process, -1 before the first
  phase,       \* 0, 1, 2 inside a group, 3 between groups
  done,        \* the loop has ended and open sessions are drained
  queue,       \* EventQueue: the scheduled events
  nextSeq,     \* UserTimeline.nextSeq
  online,      \* UserTimeline.online
  onlineNow,   \* the O(1) occupancy count
  outstanding, \* outstandingRequest
  feed,        \* UserTimeline.prefetchedFeed
  stamps,      \* feedStamps, parallel to feed
  seen,        \* User.seenReels
  applyCount,  \* updater applies per user, the staleness clock
  total,       \* User.totalInteractions
  open,        \* HiddenSessionState.impressionsThisSession
  sessionId,   \* Simulator SessionState.sessionId
  records,     \* session records collected per user
  recorded,    \* impressions in those records
  churned,     \* HiddenRetentionState.churned
  writes,      \* impressionCount: version of the global reel counters
  groupWrites, \* history: writes when the current group began
  cut,         \* history: an event of the user fell beyond the horizon
  starved      \* history: an empty response met an empty feed

timeVars    == <<now, phase, done, groupWrites>>
queueVars   == <<queue, nextSeq, cut>>
onlineVars  == <<online, onlineNow>>
feedVars    == <<feed, stamps>>
sessionVars == <<open, sessionId, records, recorded>>
countVars   == <<seen, applyCount, total, writes>>
vars == <<timeVars, queueVars, onlineVars, outstanding, feedVars, countVars,
          sessionVars, churned, starved>>

EventTypes == {"OpenApp", "RequestFeed", "StartReel", "ExitApp", "ReturnToApp"}

\* Mutants: requests drained with consumption; exits left out of every phase.
RequestsLast(type) == IF type \in {"OpenApp", "ReturnToApp"} THEN 0 ELSE 2

ExitsForgotten(type) ==
  CASE type \in {"OpenApp", "ReturnToApp"} -> 0
    [] type = "RequestFeed" -> 1
    [] type = "ExitApp" -> 3
    [] OTHER -> 2

\* The phase of a timestamp group in which an event is handled.
EventProcessingPhase(type) ==
  CASE type \in {"OpenApp", "ReturnToApp"} -> 0
    [] type = "RequestFeed" -> 1
    [] OTHER -> 2

Events == [time : Nat, user : Users, type : EventTypes, seq : Nat]
Stamps == [requestTime : Nat, rankApply : Nat, readAt : Nat]

Pending(u) == {e \in queue : e.user = u}
Awaiting(u, type) == \E e \in queue : e.user = u /\ e.type = type

\* Events later than the horizon are dropped when they are scheduled.
InHorizon(t) == t <= Horizon

\* The events of u that a handler schedules at time t, in the order of types.
Scheduled(u, types, t) ==
  IF InHorizon(t)
  THEN {[time |-> t, user |-> u, type |-> types[k], seq |-> nextSeq[u] + k - 1] :
          k \in 1..Len(types)}
  ELSE {}

\* e leaves the queue and its handler schedules types for the same user at t.
Replace(e, types, t) ==
  /\ queue' = (queue \ {e}) \cup Scheduled(e.user, types, t)
  /\ nextSeq' = [nextSeq EXCEPT ![e.user] =
                   IF InHorizon(t) THEN @ + Len(types) ELSE @]
  /\ cut' = [cut EXCEPT ![e.user] = @ \/ (types # <<>> /\ ~InHorizon(t))]

\* The event the loop may dispatch next: due now, of the phase being drained.
Due(e, type) ==
  /\ e \in queue
  /\ e.type = type
  /\ e.time = now
  /\ EventProcessingPhase(type) = phase

\* A feed: distinct active reels the user has not consumed, at most depth.
Responses(u) ==
  {r \in UNION {[1..n -> Reels \ seen[u]] : n \in 0..PrefetchDepth} :
     \A i, j \in DOMAIN r : r[i] = r[j] => i = j}

\* A response opens a chain only for a user who held nothing when the handler
\* began.  Mutants: whatever was held; tested after the response landed.
OpensAlways(u, r) == r # <<>>

OpensAfterLanding(u, r) == feed[u] \o r = <<>> /\ r # <<>>

OpensChain(u, r) == feed[u] = <<>> /\ r # <<>>

\* Mutant: the threshold is off by one.
RefillsEarly(remaining, pending) == ~pending /\ remaining <= RefillThreshold + 1

ServingShouldRefill(remaining, pending) ==
  ~pending /\ remaining <= RefillThreshold

\* The session-preference vector moves only in updater applies, so a feed
\* ranked since the last apply has cosine 1 and is never below the threshold.
MayInvalidate(u) ==
  InvalidateOnIntent /\ applyCount[u] > Head(stamps[u]).rankApply

\* When a StartReel asks again: at once with an empty feed, in a later group
\* after an invalidation.
RefetchTime(empty) == IF empty THEN now ELSE now + RefetchDelay

\* Nothing is left to process.  Mutant: the horizon itself is left out.
LoopOverEarly == \A e \in queue : e.time >= Horizon

LoopOver == \A e \in queue : e.time > Horizon
------------------------------------------------------------------------------
Init ==
  /\ now = -1 /\ phase = 3 /\ done = FALSE /\ groupWrites = 0
  /\ \E t \in [Users -> OpenTimes] :
       /\ queue = {[time |-> t[u], user |-> u, type |-> "OpenApp", seq |-> 0] :
                     u \in {v \in Users : InHorizon(t[v])}}
       /\ nextSeq = [u \in Users |-> IF InHorizon(t[u]) THEN 1 ELSE 0]
       /\ cut = [u \in Users |-> ~InHorizon(t[u])]
  /\ online = [u \in Users |-> FALSE] /\ onlineNow = 0
  /\ outstanding = [u \in Users |-> FALSE]
  /\ feed = [u \in Users |-> <<>>] /\ stamps = [u \in Users |-> <<>>]
  /\ seen = [u \in Users |-> {}]
  /\ applyCount = [u \in Users |-> 0] /\ total = [u \in Users |-> 0]
  /\ writes = 0
  /\ open = [u \in Users |-> 0] /\ sessionId = [u \in Users |-> 0]
  /\ records = [u \in Users |-> 0] /\ recorded = [u \in Users |-> 0]
  /\ churned = [u \in Users |-> FALSE] /\ starved = [u \in Users |-> FALSE]

\* The main loop takes the earliest timestamp of the queue.
BeginGroup ==
  /\ ~done /\ phase = 3
  /\ \E e \in queue :
       /\ \A f \in queue : e.time <= f.time
       /\ e.time <= Horizon
       /\ now' = e.time
  /\ phase' = 0 /\ groupWrites' = writes
  /\ UNCHANGED <<done, queueVars, onlineVars, outstanding, feedVars, countVars,
                 sessionVars, churned, starved>>

\* handlePhaseAt returns once no event of the timestamp belongs to the phase.
EndPhase ==
  /\ ~done /\ phase \in 0..2
  /\ \A e \in queue : e.time = now => EventProcessingPhase(e.type) # phase
  /\ phase' = phase + 1
  /\ UNCHANGED <<now, done, groupWrites, queueVars, onlineVars, outstanding,
                 feedVars, countVars, sessionVars, churned, starved>>

OpenApp(e) ==
  /\ \E type \in {"OpenApp", "ReturnToApp"} : Due(e, type)
  /\ online' = [online EXCEPT ![e.user] = TRUE]
  /\ onlineNow' = IF online[e.user] THEN onlineNow ELSE onlineNow + 1
  /\ outstanding' = [outstanding EXCEPT ![e.user] = TRUE]
  /\ Replace(e, <<"RequestFeed">>, now)
  /\ UNCHANGED <<timeVars, feedVars, countVars, sessionVars, churned, starved>>

\* A response is appended behind what is left of the feed; only an empty feed
\* opens a new consumption chain.  An empty response to an empty feed
\* schedules nothing.
RequestFeed(e) ==
  LET u == e.user IN
  /\ Due(e, "RequestFeed")
  /\ outstanding' = [outstanding EXCEPT ![u] = FALSE]
  /\ \E r \in Responses(u) :
       LET stamp == [requestTime |-> now, rankApply |-> applyCount[u],
                     readAt |-> writes]
       IN
       /\ feed' = [feed EXCEPT ![u] = @ \o r]
       /\ stamps' = [stamps EXCEPT ![u] = @ \o [i \in 1..Len(r) |-> stamp]]
       /\ Replace(e, IF OpensChain(u, r) THEN <<"StartReel">> ELSE <<>>, now)
       /\ starved' = [starved EXCEPT ![u] = feed[u] = <<>> /\ r = <<>>]
  /\ UNCHANGED <<timeVars, onlineVars, countVars, sessionVars, churned>>

\* StartReel drops what is left and asks again: in a later group when the
\* session intent has swung; at once, defensively, should the feed be empty.
Refetch(e) ==
  LET u == e.user
      empty == feed[u] = <<>>
      types == IF empty \/ ~outstanding[u] THEN <<"RequestFeed">> ELSE <<>>
  IN
  /\ Due(e, "StartReel")
  /\ empty \/ MayInvalidate(u)
  /\ feed' = [feed EXCEPT ![u] = <<>>]
  /\ stamps' = [stamps EXCEPT ![u] = <<>>]
  /\ outstanding' = [outstanding EXCEPT ![u] = TRUE]
  /\ Replace(e, types, RefetchTime(empty))
  /\ UNCHANGED <<timeVars, onlineVars, countVars, sessionVars, churned, starved>>

\* Mutant: the stamp of the consumed reel stays behind.
ImpressionKeepsStamp(u) ==
  /\ feed' = [feed EXCEPT ![u] = Tail(@)]
  /\ stamps' = stamps
  /\ seen' = [seen EXCEPT ![u] = @ \cup {Head(feed[u])}]
  /\ total' = [total EXCEPT ![u] = @ + 1]
  /\ applyCount' = [applyCount EXCEPT ![u] = IF LearningEnabled THEN @ + 1 ELSE @]
  /\ writes' = writes + 1

\* One impression: the head of the feed and its stamp are consumed, the reel
\* counters written, the user's history and estimate advanced.
Impression(u) ==
  /\ feed' = [feed EXCEPT ![u] = Tail(@)]
  /\ stamps' = [stamps EXCEPT ![u] = Tail(@)]
  /\ seen' = [seen EXCEPT ![u] = @ \cup {Head(feed[u])}]
  /\ total' = [total EXCEPT ![u] = @ + 1]
  /\ applyCount' = [applyCount EXCEPT ![u] = IF LearningEnabled THEN @ + 1 ELSE @]
  /\ writes' = writes + 1

\* The impression after which the session goes on: refill below the
\* threshold, and keep consuming while anything is left.
StartReelContinue(e) ==
  LET u == e.user
      remaining == Len(feed[u]) - 1
      refill == ServingShouldRefill(remaining, outstanding[u])
      types == (IF refill THEN <<"RequestFeed">> ELSE <<>>)
                 \o (IF remaining > 0 THEN <<"StartReel">> ELSE <<>>)
  IN
  /\ Due(e, "StartReel") /\ feed[u] # <<>>
  /\ Impression(u)
  /\ \E watch \in WatchTimes : Replace(e, types, now + watch + BrowseOverhead)
  /\ outstanding' = [outstanding EXCEPT ![u] = @ \/ refill]
  /\ open' = [open EXCEPT ![u] = @ + 1]
  /\ UNCHANGED <<timeVars, onlineVars, sessionId, records, recorded, churned, starved>>

\* Mutant: the record is made before the exiting impression is counted.
ClosesEarly(u) ==
  /\ records' = [records EXCEPT ![u] = @ + 1]
  /\ recorded' = [recorded EXCEPT ![u] = @ + open[u]]
  /\ open' = [open EXCEPT ![u] = 0]
  /\ sessionId' = [sessionId EXCEPT ![u] = @ + 1]

\* Mutant: the impression count of the closed session is kept.
CloseWithoutReset(u) ==
  /\ records' = [records EXCEPT ![u] = @ + 1]
  /\ recorded' = [recorded EXCEPT ![u] = @ + open[u] + 1]
  /\ open' = [open EXCEPT ![u] = @ + 1]
  /\ sessionId' = [sessionId EXCEPT ![u] = @ + 1]

\* The exiting impression is counted, the session recorded and closed.
CloseSession(u) ==
  /\ records' = [records EXCEPT ![u] = @ + 1]
  /\ recorded' = [recorded EXCEPT ![u] = @ + open[u] + 1]
  /\ open' = [open EXCEPT ![u] = 0]
  /\ sessionId' = [sessionId EXCEPT ![u] = @ + 1]

\* The impression whose exit draw fires: the closed session is collected here
\* and the exit is scheduled at the end of the watch.
StartReelExit(e) ==
  LET u == e.user IN
  /\ Due(e, "StartReel") /\ feed[u] # <<>>
  /\ Impression(u)
  /\ \E watch \in WatchTimes : Replace(e, <<"ExitApp">>, now + watch)
  /\ CloseSession(u)
  /\ UNCHANGED <<timeVars, onlineVars, outstanding, churned, starved>>

\* What every exit does before the return is drawn.
Leave(u) ==
  /\ online' = [online EXCEPT ![u] = FALSE]
  /\ onlineNow' = IF online[u] THEN onlineNow - 1 ELSE onlineNow
  /\ feed' = [feed EXCEPT ![u] = <<>>]
  /\ stamps' = [stamps EXCEPT ![u] = <<>>]
  /\ outstanding' = [outstanding EXCEPT ![u] = FALSE]

ExitApp(e) ==
  LET u == e.user IN
  /\ Due(e, "ExitApp")
  /\ Leave(u)
  /\ \E delay \in ReturnDelays : Replace(e, <<"ReturnToApp">>, now + delay)
  /\ UNCHANGED <<timeVars, countVars, sessionVars, churned, starved>>

\* nextReturnDelay draws a delay over the churn threshold: no return at all.
ExitAppChurn(e) ==
  LET u == e.user IN
  /\ RetentionEnabled
  /\ Due(e, "ExitApp")
  /\ Leave(u)
  /\ churned' = [churned EXCEPT ![u] = TRUE]
  /\ Replace(e, <<>>, now)
  /\ UNCHANGED <<timeVars, countVars, sessionVars, starved>>

\* The loop is over: Simulator::drainOpenSessions records each open session.
Finish ==
  /\ ~done /\ phase = 3
  /\ LoopOver
  /\ done' = TRUE
  /\ records' = [u \in Users |-> IF open[u] > 0 THEN records[u] + 1 ELSE records[u]]
  /\ recorded' = [u \in Users |-> recorded[u] + open[u]]
  /\ open' = [u \in Users |-> 0]
  /\ UNCHANGED <<now, phase, groupWrites, queueVars, onlineVars, outstanding,
                 feedVars, countVars, sessionId, churned, starved>>

Dispatch ==
  \E e \in queue :
    \/ OpenApp(e) \/ RequestFeed(e)
    \/ Refetch(e) \/ StartReelContinue(e) \/ StartReelExit(e)
    \/ ExitApp(e) \/ ExitAppChurn(e)

Terminated == done /\ UNCHANGED vars

Next == BeginGroup \/ EndPhase \/ Dispatch \/ Finish \/ Terminated

Spec == Init /\ [][Next]_vars
FairSpec == Spec /\ WF_vars(Next)
------------------------------------------------------------------------------
(* Properties *)

\* Every variable has its type.
TypeOK ==
  /\ now \in Int /\ now >= -1
  /\ phase \in 0..3 /\ done \in BOOLEAN
  /\ queue \subseteq Events /\ nextSeq \in [Users -> Nat]
  /\ online \in [Users -> BOOLEAN] /\ onlineNow \in Int
  /\ outstanding \in [Users -> BOOLEAN]
  /\ feed \in [Users -> Seq(Reels)] /\ stamps \in [Users -> Seq(Stamps)]
  /\ seen \in [Users -> SUBSET Reels]
  /\ applyCount \in [Users -> Nat] /\ total \in [Users -> Nat]
  /\ open \in [Users -> Nat] /\ sessionId \in [Users -> Nat]
  /\ records \in [Users -> Nat] /\ recorded \in [Users -> Nat]
  /\ churned \in [Users -> BOOLEAN]
  /\ writes \in Nat /\ groupWrites \in Nat
  /\ cut \in [Users -> BOOLEAN] /\ starved \in [Users -> BOOLEAN]

\* A user has one consumption chain: two pending events of one user are only
\* ever a refill request riding with the StartReel of the same instant.  A
\* second StartReel, or one beside an ExitApp, would double-consume.
OneChain ==
  \A e, f \in queue :
    e.user = f.user /\ e # f =>
      e.time = f.time /\ {e.type, f.type} = {"RequestFeed", "StartReel"}

\* What an event finds when it is handled: a StartReel a downloaded reel (its
\* defensive branch is dead), a request its raised flag, an exit an online
\* user whose session is closed, an arrival an offline user with no feed.
EventMatches(e) ==
  LET u == e.user IN
  /\ e.type = "StartReel" =>
       /\ online[u] /\ feed[u] # <<>>
       /\ outstanding[u] => Awaiting(u, "RequestFeed")
  /\ e.type = "RequestFeed" =>
       /\ online[u] /\ outstanding[u]
       /\ feed[u] # <<>> => Awaiting(u, "StartReel")
  /\ e.type = "ExitApp" => online[u] /\ open[u] = 0 /\ ~outstanding[u]
  /\ e.type \in {"OpenApp", "ReturnToApp"} =>
       ~online[u] /\ open[u] = 0 /\ feed[u] = <<>> /\ ~outstanding[u]

\* Every pending event matches the state of its user.
ChainMatchesState == \A e \in queue : EventMatches(e)

\* No event is left behind the cascade: what is still queued lies in the
\* current timestamp's present or later phases, or in a later timestamp.
PhaseCascade ==
  \A e \in queue :
    /\ e.time >= now
    /\ e.time = now => EventProcessingPhase(e.type) >= phase

\* The consumption chain is sound: one chain per user, every pending event
\* finds the state its handler assumes, and nothing is left behind the phase
\* cascade.  Each part needs the other two.
ChainSound == OneChain /\ ChainMatchesState /\ PhaseCascade

\* A timestamp is processed as one group, never reopened, and time never
\* goes back.
GroupsAdvance == [][now' >= now /\ (phase = 3 /\ phase' = 0 => now' > now)]_vars

\* Equal-timestamp snapshot: requests of the same instant, by whichever users
\* and in whichever order, read the same version of the global counters.
SnapshotConsistency ==
  \A u, v \in Users :
    \A i \in DOMAIN stamps[u], j \in DOMAIN stamps[v] :
      stamps[u][i].requestTime = stamps[v][j].requestTime =>
        stamps[u][i].readAt = stamps[v][j].readAt

\* No lost wake-up: a user without a pending event left the platform, was cut
\* by the horizon, or was answered with nothing while holding nothing.
NoLostUser ==
  \A u \in Users : Pending(u) = {} => churned[u] \/ cut[u] \/ starved[u]

\* The feed and its stamps stay in lockstep, the client cache is bounded, and
\* the staleness an item will have when it is consumed (the applies since its
\* ranking) is bounded by its place.
StalenessBound ==
  \A u \in Users :
    /\ Len(stamps[u]) = Len(feed[u])
    /\ Len(feed[u]) <= RefillThreshold + PrefetchDepth
    /\ \A i \in DOMAIN stamps[u] :
         LET staleness == applyCount[u] - stamps[u][i].rankApply IN
         /\ staleness >= 0
         /\ staleness + i <= RefillThreshold + PrefetchDepth

\* Every impression is in exactly one session record or in the open session;
\* each closed session was recorded once, and the drain leaves none open.
SessionsConserved ==
  \A u \in Users :
    /\ total[u] = recorded[u] + open[u]
    /\ ~done => records[u] = sessionId[u]
    /\ done => open[u] = 0 /\ records[u] \in {sessionId[u], sessionId[u] + 1}

\* No downloaded reel was already consumed by its user or downloaded twice.
NeverServedTwice ==
  \A u \in Users :
    \A i, j \in DOMAIN feed[u] :
      feed[u][i] \notin seen[u] /\ (feed[u][i] = feed[u][j] => i = j)

\* The run ends, whatever users do.
RunCompletes == <>done

\* A user who exited comes back unless it churned or its return lies beyond
\* the horizon.
ExitedUsersReturn ==
  \A u \in Users : ~online[u] /\ ~churned[u] /\ ~cut[u] ~> online[u]
=============================================================================
