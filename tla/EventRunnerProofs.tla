-------------------------- MODULE EventRunnerProofs --------------------------
(***************************************************************************)
(* Safety of the event-driven runner for every value of its constants.     *)
(* First the scheduling: types, the chain of every user, the cascade of    *)
(* phases.  Then what they are for: requests of one instant read one       *)
(* version of the global counters, no impression is lost or counted twice  *)
(* by the session records, no user is forgotten, each one moves as         *)
(* UserLifecycle says, and the client cache and its staleness are bounded. *)
(***************************************************************************)
EXTENDS EventRunnerRefinement, SequenceTheorems, TLAPS

\* What a handler schedules is an event of its user, at its time, with a
\* sequence number not used before.
LEMMA ScheduledFacts ==
  ASSUME TypeOK, NEW u \in Users, NEW types \in Seq(EventTypes), NEW t \in Nat
  PROVE  /\ Scheduled(u, types, t) \subseteq Events
         /\ \A x \in Scheduled(u, types, t) :
              /\ x.user = u /\ x.time = t /\ x.seq >= nextSeq[u]
              /\ x.seq < nextSeq[u] + Len(types)
              /\ \E k \in 1..Len(types) : x.type = types[k] /\ x.seq = nextSeq[u] + k - 1
<1>1. Len(types) \in Nat /\ \A k \in 1..Len(types) : types[k] \in EventTypes
  OBVIOUS
<1>2. nextSeq[u] \in Nat
  BY DEF TypeOK
<1>3. ASSUME NEW k \in 1..Len(types)
      PROVE  [time |-> t, user |-> u, type |-> types[k], seq |-> nextSeq[u] + k - 1]
               \in Events
  <2>1. nextSeq[u] + k - 1 \in Nat
    BY <1>1, <1>2
  <2> QED
    BY <1>1, <2>1 DEF Events
<1> QED
  BY <1>1, <1>2, <1>3 DEF Scheduled

\* Replacing an event keeps the queue, the sequence numbers and cut typed.
LEMMA ReplaceType ==
  ASSUME TypeOK, NEW e \in queue, NEW types \in Seq(EventTypes), NEW t \in Nat,
         Replace(e, types, t)
  PROVE  /\ queue' \subseteq Events
         /\ nextSeq' \in [Users -> Nat]
         /\ cut' \in [Users -> BOOLEAN]
<1>1. e.user \in Users
  BY DEF TypeOK, Events
<1>2. Scheduled(e.user, types, t) \subseteq Events
  BY <1>1, ScheduledFacts
<1>3. queue' \subseteq Events
  BY <1>2 DEF Replace, TypeOK
<1>4. nextSeq' \in [Users -> Nat]
  <2>1. Len(types) \in Nat
    OBVIOUS
  <2> QED
    BY <1>1, <2>1 DEF Replace, TypeOK
<1>5. cut' \in [Users -> BOOLEAN]
  BY <1>1 DEF Replace, TypeOK
<1> QED
  BY <1>3, <1>4, <1>5

\* A response is a sequence of reels not yet consumed.
LEMMA ResponseType ==
  ASSUME TypeOK, NEW u \in Users, NEW r \in Responses(u)
  PROVE  r \in Seq(Reels) /\ r \in Seq(Reels \ seen[u]) /\ Len(r) <= PrefetchDepth
<1>1. PICK n \in 0..PrefetchDepth : r \in [1..n -> Reels \ seen[u]]
  BY DEF Responses
<1>2. n \in Nat /\ n <= PrefetchDepth
  BY ServingAssumption
<1>3. r \in Seq(Reels \ seen[u]) /\ Len(r) = n
  BY <1>1, <1>2
<1> QED
  BY <1>2, <1>3

------------------------------------------------------------------------------
(* Type correctness *)

\* The feed and its stamps always have the same length.
Lockstep == \A u \in Users : Len(stamps[u]) = Len(feed[u])

\* The first events are typed and nothing else has happened.
LEMMA InitType == Init => TypeOK
<1> SUFFICES ASSUME Init PROVE TypeOK
  OBVIOUS
<1>1. PICK t \in [Users -> OpenTimes] :
        /\ queue = {[time |-> t[u], user |-> u, type |-> "OpenApp", seq |-> 0] :
                      u \in {v \in Users : InHorizon(t[v])}}
        /\ nextSeq = [u \in Users |-> IF InHorizon(t[u]) THEN 1 ELSE 0]
        /\ cut = [u \in Users |-> ~InHorizon(t[u])]
  BY DEF Init
<1>2. queue \subseteq Events
  <2>1. ASSUME NEW e \in queue PROVE e \in Events
    <3>1. PICK u \in Users :
            e = [time |-> t[u], user |-> u, type |-> "OpenApp", seq |-> 0]
      BY <1>1
    <3>2. t[u] \in Nat
      BY TimeAssumption
    <3> QED
      BY <3>1, <3>2 DEF Events, EventTypes
  <2> QED
    BY <2>1
<1>3. /\ nextSeq \in [Users -> Nat] /\ cut \in [Users -> BOOLEAN]
  BY <1>1 DEF InHorizon
<1>4. <<>> \in Seq(Reels) /\ <<>> \in Seq(Stamps)
  OBVIOUS
<1>5. /\ now \in Int /\ now >= -1 /\ phase \in 0..3 /\ done \in BOOLEAN
      /\ onlineNow \in Int /\ writes \in Nat /\ groupWrites \in Nat
  <2>1. /\ now = -1 /\ phase = 3 /\ done = FALSE
        /\ onlineNow = 0 /\ writes = 0 /\ groupWrites = 0
    BY DEF Init
  <2>2. now \in Int /\ now >= -1
    BY <2>1
  <2>3. phase \in 0..3 /\ onlineNow \in Int /\ writes \in Nat /\ groupWrites \in Nat
    BY <2>1
  <2>4. done \in BOOLEAN
    BY <2>1
  <2> QED
    BY <2>2, <2>3, <2>4
<1>6. /\ online \in [Users -> BOOLEAN] /\ outstanding \in [Users -> BOOLEAN]
      /\ churned \in [Users -> BOOLEAN] /\ starved \in [Users -> BOOLEAN]
  BY DEF Init
<1>7. feed \in [Users -> Seq(Reels)] /\ stamps \in [Users -> Seq(Stamps)]
  BY <1>4 DEF Init
<1>8. /\ seen \in [Users -> SUBSET Reels]
      /\ applyCount \in [Users -> Nat] /\ total \in [Users -> Nat]
      /\ open \in [Users -> Nat] /\ sessionId \in [Users -> Nat]
      /\ records \in [Users -> Nat] /\ recorded \in [Users -> Nat]
  BY DEF Init
<1> QED
  BY <1>2, <1>3, <1>5, <1>6, <1>7, <1>8 DEF TypeOK

\* Clearing the feed of a user keeps the two sequences typed and in lockstep.
LEMMA ClearType ==
  ASSUME TypeOK, Lockstep, NEW u \in Users,
         feed' = [feed EXCEPT ![u] = <<>>], stamps' = [stamps EXCEPT ![u] = <<>>]
  PROVE  /\ feed' \in [Users -> Seq(Reels)] /\ stamps' \in [Users -> Seq(Stamps)]
         /\ Lockstep'
<1>1. <<>> \in Seq(Reels) /\ <<>> \in Seq(Stamps)
  OBVIOUS
<1>2. feed' \in [Users -> Seq(Reels)] /\ stamps' \in [Users -> Seq(Stamps)]
  BY <1>1 DEF TypeOK
<1>3. ASSUME NEW v \in Users PROVE Len(stamps'[v]) = Len(feed'[v])
  <2>1. CASE v = u
    BY <2>1 DEF TypeOK
  <2>2. CASE v # u
    BY <2>2 DEF TypeOK, Lockstep
  <2> QED
    BY <2>1, <2>2
<1> QED
  BY <1>2, <1>3 DEF Lockstep

\* Leaving keeps what it touches typed.
LEMMA LeaveType ==
  ASSUME TypeOK, Lockstep, NEW u \in Users, Leave(u)
  PROVE  /\ online' \in [Users -> BOOLEAN] /\ onlineNow' \in Int
         /\ outstanding' \in [Users -> BOOLEAN]
         /\ feed' \in [Users -> Seq(Reels)] /\ stamps' \in [Users -> Seq(Stamps)]
         /\ Lockstep'
<1>1. online' \in [Users -> BOOLEAN] /\ outstanding' \in [Users -> BOOLEAN]
  BY DEF Leave, TypeOK
<1>2. onlineNow' \in Int
  BY DEF Leave, TypeOK
<1>3. /\ feed' \in [Users -> Seq(Reels)] /\ stamps' \in [Users -> Seq(Stamps)]
      /\ Lockstep'
  BY ClearType DEF Leave
<1> QED
  BY <1>1, <1>2, <1>3

\* What one impression does to the feed and the counters is well typed.
LEMMA ImpressionType ==
  ASSUME TypeOK, NEW u \in Users, feed[u] # <<>>, Len(stamps[u]) = Len(feed[u]),
         Impression(u)
  PROVE  /\ feed' \in [Users -> Seq(Reels)] /\ stamps' \in [Users -> Seq(Stamps)]
         /\ seen' \in [Users -> SUBSET Reels]
         /\ applyCount' \in [Users -> Nat] /\ total' \in [Users -> Nat]
         /\ writes' \in Nat
<1>1. feed[u] \in Seq(Reels) /\ stamps[u] \in Seq(Stamps) /\ stamps[u] # <<>>
  BY DEF TypeOK
<1>2. /\ Tail(feed[u]) \in Seq(Reels) /\ Head(feed[u]) \in Reels
      /\ Tail(stamps[u]) \in Seq(Stamps)
  BY <1>1
<1> QED
  BY <1>2 DEF Impression, TypeOK

\* Every step keeps every variable typed and feeds and stamps in lockstep.
THEOREM TypeStep == TypeOK /\ Lockstep /\ [Next]_vars => TypeOK' /\ Lockstep'
<1> SUFFICES ASSUME TypeOK, Lockstep, [Next]_vars PROVE TypeOK' /\ Lockstep'
  OBVIOUS
<1>1. CASE BeginGroup
  <2>1. PICK e \in queue : now' = e.time
    BY <1>1 DEF BeginGroup
  <2>2. now' \in Nat
    BY <2>1 DEF TypeOK, Events
  <2> QED
    BY <1>1, <2>2 DEF BeginGroup, TypeOK, Lockstep, queueVars, onlineVars, feedVars,
                      countVars, sessionVars
<1>2. CASE EndPhase
  BY <1>2 DEF EndPhase, TypeOK, Lockstep, queueVars, onlineVars, feedVars, countVars,
              sessionVars
<1>3. CASE Dispatch
  <2>1. PICK e \in queue :
          \/ OpenApp(e) \/ RequestFeed(e)
          \/ Refetch(e) \/ StartReelContinue(e) \/ StartReelExit(e)
          \/ ExitApp(e) \/ ExitAppChurn(e)
    BY <1>3 DEF Dispatch
  <2> DEFINE u == e.user
  <2>2. u \in Users /\ e \in Events /\ e.time \in Nat
    BY DEF TypeOK, Events
  <2>3. ASSUME NEW type, Due(e, type) PROVE now \in Nat
    BY <2>2, <2>3 DEF Due
  <2>4. <<>> \in Seq(EventTypes) /\ \A type \in EventTypes : <<type>> \in Seq(EventTypes)
    OBVIOUS
  <2>a. /\ <<"RequestFeed">> \in Seq(EventTypes) /\ <<"StartReel">> \in Seq(EventTypes)
        /\ <<"ExitApp">> \in Seq(EventTypes) /\ <<"ReturnToApp">> \in Seq(EventTypes)
    BY <2>4 DEF EventTypes
  <2>5. CASE OpenApp(e)
    <3>1. now \in Nat
      BY <2>5, <2>3 DEF OpenApp
    <3>2. Replace(e, <<"RequestFeed">>, now)
      BY <2>5 DEF OpenApp
    <3>3. queue' \subseteq Events /\ nextSeq' \in [Users -> Nat] /\ cut' \in [Users -> BOOLEAN]
      BY <3>1, <3>2, <2>a, ReplaceType
    <3>4. online' \in [Users -> BOOLEAN] /\ outstanding' \in [Users -> BOOLEAN]
      BY <2>5, <2>2 DEF OpenApp, TypeOK
    <3>5. onlineNow' \in Int
      BY <2>5 DEF OpenApp, TypeOK
    <3>6. UNCHANGED <<timeVars, feedVars, countVars, sessionVars, churned, starved>>
      BY <2>5 DEF OpenApp
    <3> QED
      BY <3>3, <3>4, <3>5, <3>6 DEF TypeOK, Lockstep, timeVars, feedVars, countVars,
                                    sessionVars
  <2>6. CASE RequestFeed(e)
    <3>1. now \in Nat
      BY <2>6, <2>3 DEF RequestFeed
    <3> DEFINE stamp == [requestTime |-> now, rankApply |-> applyCount[u],
                         readAt |-> writes]
    <3>2. PICK r \in Responses(u) :
            /\ feed' = [feed EXCEPT ![u] = @ \o r]
            /\ stamps' = [stamps EXCEPT ![u] = @ \o [i \in 1..Len(r) |-> stamp]]
            /\ Replace(e, IF feed[u] = <<>> /\ r # <<>> THEN <<"StartReel">> ELSE <<>>, now)
            /\ starved' = [starved EXCEPT ![u] = feed[u] = <<>> /\ r = <<>>]
      BY <2>6 DEF RequestFeed, OpensChain
    <3>3. (IF feed[u] = <<>> /\ r # <<>> THEN <<"StartReel">> ELSE <<>>) \in Seq(EventTypes)
      BY <2>4, <2>a
    <3>4. queue' \subseteq Events /\ nextSeq' \in [Users -> Nat] /\ cut' \in [Users -> BOOLEAN]
      BY <3>1, <3>2, <3>3, ReplaceType
    <3>5. stamp \in Stamps
      BY <3>1, <2>2 DEF Stamps, TypeOK
    <3>6. /\ feed[u] \in Seq(Reels) /\ stamps[u] \in Seq(Stamps) /\ r \in Seq(Reels)
      BY <2>2, ResponseType DEF TypeOK
    <3> HIDE DEF stamp
    <3>7. /\ [i \in 1..Len(r) |-> stamp] \in Seq(Stamps)
          /\ Len([i \in 1..Len(r) |-> stamp]) = Len(r)
      BY <3>5, <3>6
    <3>8. /\ feed[u] \o r \in Seq(Reels)
          /\ stamps[u] \o [i \in 1..Len(r) |-> stamp] \in Seq(Stamps)
          /\ Len(feed[u] \o r) = Len(feed[u]) + Len(r)
          /\ Len(stamps[u] \o [i \in 1..Len(r) |-> stamp]) = Len(stamps[u]) + Len(r)
      BY <3>6, <3>7
    <3>9. /\ feed' \in [Users -> Seq(Reels)] /\ stamps' \in [Users -> Seq(Stamps)]
          /\ Lockstep' /\ starved' \in [Users -> BOOLEAN]
      BY <3>2, <3>8, <2>2 DEF TypeOK, Lockstep
    <3> QED
      BY <2>6, <2>2, <3>4, <3>9 DEF RequestFeed, TypeOK, timeVars, onlineVars, countVars,
                                    sessionVars
  <2>7. CASE Refetch(e)
    <3> DEFINE types == IF feed[u] = <<>> \/ ~outstanding[u] THEN <<"RequestFeed">> ELSE <<>>
               t == IF feed[u] = <<>> THEN now ELSE now + RefetchDelay
    <3>1. types \in Seq(EventTypes) /\ t \in Nat
      BY <2>7, <2>3, <2>4, <2>a, TimeAssumption DEF Refetch
    <3>2. Replace(e, types, t)
      BY <2>7 DEF Refetch, RefetchTime
    <3> HIDE DEF types, t
    <3>3. queue' \subseteq Events /\ nextSeq' \in [Users -> Nat] /\ cut' \in [Users -> BOOLEAN]
      BY <3>1, <3>2, ReplaceType
    <3>4. outstanding' \in [Users -> BOOLEAN]
      BY <2>7, <2>2 DEF Refetch, TypeOK
    <3>5. /\ feed' \in [Users -> Seq(Reels)] /\ stamps' \in [Users -> Seq(Stamps)]
          /\ Lockstep'
      BY <2>7, <2>2, ClearType DEF Refetch
    <3>6. UNCHANGED <<timeVars, onlineVars, countVars, sessionVars, churned, starved>>
      BY <2>7 DEF Refetch
    <3> QED
      BY <3>3, <3>4, <3>5, <3>6 DEF TypeOK, timeVars, onlineVars, countVars, sessionVars
  <2>8. CASE StartReelContinue(e)
    <3> DEFINE refill == ServingShouldRefill(Len(feed[u]) - 1, outstanding[u])
               types == (IF refill THEN <<"RequestFeed">> ELSE <<>>)
                          \o (IF Len(feed[u]) - 1 > 0 THEN <<"StartReel">> ELSE <<>>)
    <3>1. PICK watch \in WatchTimes : Replace(e, types, now + watch + BrowseOverhead)
      BY <2>8 DEF StartReelContinue
    <3>2. /\ (IF refill THEN <<"RequestFeed">> ELSE <<>>) \in Seq(EventTypes)
          /\ (IF Len(feed[u]) - 1 > 0 THEN <<"StartReel">> ELSE <<>>) \in Seq(EventTypes)
      BY <2>4, <2>a
    <3>3. types \in Seq(EventTypes)
      BY <3>2
    <3>4. now + watch + BrowseOverhead \in Nat
      BY <2>8, <2>3, TimeAssumption DEF StartReelContinue
    <3>r. refill \in BOOLEAN
      BY DEF ServingShouldRefill
    <3>o. outstanding' = [outstanding EXCEPT ![u] = @ \/ refill]
      BY <2>8 DEF StartReelContinue
    <3> HIDE DEF types, refill
    <3>5. queue' \subseteq Events /\ nextSeq' \in [Users -> Nat] /\ cut' \in [Users -> BOOLEAN]
      BY <3>1, <3>3, <3>4, ReplaceType
    <3>6. Impression(u) /\ feed[u] # <<>> /\ Len(stamps[u]) = Len(feed[u])
      BY <2>8, <2>2 DEF StartReelContinue, Lockstep
    <3>7. /\ feed' \in [Users -> Seq(Reels)] /\ stamps' \in [Users -> Seq(Stamps)]
          /\ seen' \in [Users -> SUBSET Reels]
          /\ applyCount' \in [Users -> Nat] /\ total' \in [Users -> Nat] /\ writes' \in Nat
      BY <2>2, <3>6, ImpressionType
    <3>8. Lockstep'
      <4>1. /\ feed[u] \in Seq(Reels) /\ stamps[u] \in Seq(Stamps)
            /\ feed[u] # <<>> /\ stamps[u] # <<>>
        BY <2>2, <3>6 DEF TypeOK
      <4>2. Len(Tail(feed[u])) = Len(Tail(stamps[u]))
        BY <4>1, <3>6
      <4> QED
        BY <4>2, <3>6, <2>2 DEF Impression, Lockstep, TypeOK
    <3>9. outstanding' \in [Users -> BOOLEAN] /\ open' \in [Users -> Nat]
      BY <2>8, <2>2, <3>r, <3>o DEF StartReelContinue, TypeOK
    <3> QED
      BY <2>8, <3>5, <3>7, <3>8, <3>9
         DEF StartReelContinue, TypeOK, timeVars, onlineVars
  <2>9. CASE StartReelExit(e)
    <3>1. PICK watch \in WatchTimes : Replace(e, <<"ExitApp">>, now + watch)
      BY <2>9 DEF StartReelExit
    <3>2. now + watch \in Nat
      BY <2>9, <2>3, TimeAssumption DEF StartReelExit
    <3>3. queue' \subseteq Events /\ nextSeq' \in [Users -> Nat] /\ cut' \in [Users -> BOOLEAN]
      BY <3>1, <3>2, <2>a, ReplaceType
    <3>4. Impression(u) /\ feed[u] # <<>> /\ Len(stamps[u]) = Len(feed[u])
      BY <2>9, <2>2 DEF StartReelExit, Lockstep
    <3>5. /\ feed' \in [Users -> Seq(Reels)] /\ stamps' \in [Users -> Seq(Stamps)]
          /\ seen' \in [Users -> SUBSET Reels]
          /\ applyCount' \in [Users -> Nat] /\ total' \in [Users -> Nat] /\ writes' \in Nat
      BY <2>2, <3>4, ImpressionType
    <3>6. Lockstep'
      <4>1. /\ feed[u] \in Seq(Reels) /\ stamps[u] \in Seq(Stamps)
            /\ feed[u] # <<>> /\ stamps[u] # <<>>
        BY <2>2, <3>4 DEF TypeOK
      <4>2. Len(Tail(feed[u])) = Len(Tail(stamps[u]))
        BY <4>1, <3>4
      <4> QED
        BY <4>2, <3>4, <2>2 DEF Impression, Lockstep, TypeOK
    <3>7. /\ open' = [open EXCEPT ![u] = 0]
          /\ sessionId' = [sessionId EXCEPT ![u] = @ + 1]
          /\ records' = [records EXCEPT ![u] = @ + 1]
          /\ recorded' = [recorded EXCEPT ![u] = @ + open[u] + 1]
          /\ UNCHANGED <<timeVars, onlineVars, outstanding, churned, starved>>
      BY <2>9 DEF StartReelExit, CloseSession
    <3>a. open' \in [Users -> Nat]
      BY <3>7, <2>2 DEF TypeOK
    <3>b. sessionId' \in [Users -> Nat]
      <4>1. sessionId' = [sessionId EXCEPT ![u] = @ + 1] /\ sessionId \in [Users -> Nat]
        BY <3>7 DEF TypeOK
      <4> QED
        BY <4>1, <2>2
    <3>8. records' \in [Users -> Nat]
      BY <3>7, <2>2 DEF TypeOK
    <3>9. recorded' \in [Users -> Nat]
      <4>1. recorded[u] + open[u] + 1 \in Nat
        BY <2>2 DEF TypeOK
      <4> QED
        BY <4>1, <3>7 DEF TypeOK
    <3> QED
      BY <3>3, <3>5, <3>6, <3>7, <3>a, <3>b, <3>8, <3>9 DEF TypeOK, timeVars, onlineVars
  <2>10. CASE ExitApp(e)
    <3>1. PICK delay \in ReturnDelays : Replace(e, <<"ReturnToApp">>, now + delay)
      BY <2>10 DEF ExitApp
    <3>2. now + delay \in Nat
      BY <2>10, <2>3, TimeAssumption DEF ExitApp
    <3>3. queue' \subseteq Events /\ nextSeq' \in [Users -> Nat] /\ cut' \in [Users -> BOOLEAN]
      BY <3>1, <3>2, <2>a, ReplaceType
    <3>4. Leave(u) /\ UNCHANGED <<timeVars, countVars, sessionVars, churned, starved>>
      BY <2>10 DEF ExitApp
    <3> QED
      BY <3>3, <3>4, <2>2, LeaveType DEF TypeOK, timeVars, countVars, sessionVars
  <2>11. CASE ExitAppChurn(e)
    <3>1. Replace(e, <<>>, now)
      BY <2>11 DEF ExitAppChurn
    <3>2. now \in Nat
      BY <2>11, <2>3 DEF ExitAppChurn
    <3>3. queue' \subseteq Events /\ nextSeq' \in [Users -> Nat] /\ cut' \in [Users -> BOOLEAN]
      BY <3>1, <3>2, <2>4, ReplaceType
    <3>4. Leave(u) /\ UNCHANGED <<timeVars, countVars, sessionVars, starved>>
      BY <2>11 DEF ExitAppChurn
    <3>5. churned' \in [Users -> BOOLEAN]
      BY <2>11, <2>2 DEF ExitAppChurn, TypeOK
    <3> QED
      BY <3>3, <3>4, <3>5, <2>2, LeaveType DEF TypeOK, timeVars, countVars, sessionVars
  <2> QED
    BY <2>1, <2>5, <2>6, <2>7, <2>8, <2>9, <2>10, <2>11
<1>4. CASE Finish
  BY <1>4 DEF Finish, TypeOK, Lockstep, queueVars, onlineVars, feedVars, countVars
<1>5. CASE UNCHANGED vars
  BY <1>5 DEF vars, TypeOK, Lockstep, timeVars, queueVars, onlineVars, feedVars, countVars,
              sessionVars
<1> QED
  BY <1>1, <1>2, <1>3, <1>4, <1>5 DEF Next, Terminated

\* Every variable has its type in every reachable state of the runner.
THEOREM TypeCorrect == Spec => []TypeOK
<1>1. Init => TypeOK /\ Lockstep
  BY InitType DEF Init, Lockstep
<1>2. TypeOK /\ Lockstep /\ [Next]_vars => (TypeOK /\ Lockstep)'
  BY TypeStep
<1> QED
  BY <1>1, <1>2, PTL DEF Spec
------------------------------------------------------------------------------
(* One consumption chain per user, and the phase cascade that keeps it so.   *)
(* The two need each other: a StartReel finds its user's request already     *)
(* served because a request of the same instant belongs to an earlier phase, *)
(* and no handler opens a second chain because its event is then the only    *)
(* one its user has.                                                         *)

\* The inductive invariant of the scheduling.
Chain == OneChain /\ ChainMatchesState /\ PhaseCascade

\* What the queue holds after a handler: old events and the scheduled ones.
LEMMA ReplaceQueue ==
  ASSUME TypeOK, NEW e \in queue, NEW types \in Seq(EventTypes), NEW t \in Nat,
         Replace(e, types, t)
  PROVE  /\ \A f \in queue' : (f \in queue /\ f # e) \/ f \in Scheduled(e.user, types, t)
         /\ \A f \in queue' : f.user # e.user => f \in queue
         /\ \A f \in queue : f # e => f \in queue'
         /\ \A f \in Scheduled(e.user, types, t) : f \in queue'
<1>1. e.user \in Users
  BY DEF TypeOK, Events
<1>2. queue' = (queue \ {e}) \cup Scheduled(e.user, types, t)
  BY DEF Replace
<1>3. \A f \in Scheduled(e.user, types, t) : f.user = e.user
  BY <1>1, ScheduledFacts
<1> QED
  BY <1>2, <1>3

\* Every type a handler schedules within the horizon is then awaited.
LEMMA ScheduledAwaited ==
  ASSUME TypeOK, NEW e \in queue, NEW types \in Seq(EventTypes), NEW t \in Nat,
         Replace(e, types, t), InHorizon(t), NEW k \in 1..Len(types)
  PROVE  Awaiting(e.user, types[k])'
<1> DEFINE x == [time |-> t, user |-> e.user, type |-> types[k],
                 seq |-> nextSeq[e.user] + k - 1]
<1>1. x \in Scheduled(e.user, types, t)
  BY DEF Scheduled
<1>2. x \in queue'
  BY <1>1 DEF Replace
<1>3. x.user = e.user /\ x.type = types[k]
  OBVIOUS
<1> QED
  BY <1>2, <1>3 DEF Awaiting

\* A handler disturbs only its own user: it is enough to look at that user's
\* events to see that every event still matches its user's state.
LEMMA OthersMatch ==
  ASSUME TypeOK, ChainMatchesState, NEW e \in queue,
         NEW types \in Seq(EventTypes), NEW t \in Nat, Replace(e, types, t),
         \A v \in Users \ {e.user} :
           /\ online'[v] = online[v] /\ outstanding'[v] = outstanding[v]
           /\ feed'[v] = feed[v] /\ open'[v] = open[v],
         \A f \in queue' : f.user = e.user => EventMatches(f)'
  PROVE  ChainMatchesState'
<1>1. queue' \subseteq Events
  BY ReplaceType
<1>2. ASSUME NEW f \in queue', f.user # e.user PROVE EventMatches(f)'
  <2>1. f \in queue /\ f.user \in Users \ {e.user}
    BY <1>1, <1>2, ReplaceQueue DEF Events
  <2>2. EventMatches(f)
    BY <2>1 DEF ChainMatchesState
  <2>3. \A type : Awaiting(f.user, type) => Awaiting(f.user, type)'
    BY <1>2, ReplaceQueue DEF Awaiting
  <2>4. /\ online'[f.user] = online[f.user] /\ outstanding'[f.user] = outstanding[f.user]
        /\ feed'[f.user] = feed[f.user] /\ open'[f.user] = open[f.user]
    BY <2>1
  <2> QED
    BY <2>2, <2>3, <2>4 DEF EventMatches
<1> QED
  BY <1>2 DEF ChainMatchesState

\* The event being handled is the only one of its user, unless it is a
\* request: a request of the same instant was drained a phase earlier.
LEMMA OnlyEvent ==
  ASSUME TypeOK, Chain, NEW e, NEW type, Due(e, type), type # "RequestFeed",
         NEW f \in queue, f.user = e.user
  PROVE  f = e
<1> SUFFICES ASSUME f # e PROVE FALSE
  OBVIOUS
<1>1. e \in queue /\ e.type = type /\ e.time = now /\ EventProcessingPhase(type) = phase
  BY DEF Due
<1>2. e.time = f.time /\ {e.type, f.type} = {"RequestFeed", "StartReel"}
  BY <1>1 DEF Chain, OneChain
<1>3. e.type = "StartReel" /\ f.type = "RequestFeed"
  BY <1>1, <1>2
<1>4. phase = 2
  BY <1>1, <1>3 DEF EventProcessingPhase
<1>5. EventProcessingPhase(f.type) >= phase
  BY <1>1, <1>2 DEF Chain, PhaseCascade
<1>6. EventProcessingPhase(f.type) = 1
  BY <1>3 DEF EventProcessingPhase
<1> QED
  BY <1>4, <1>5, <1>6

\* What a StartReel finds.
LEMMA StartReelFinds ==
  ASSUME TypeOK, Chain, NEW e, Due(e, "StartReel")
  PROVE  feed[e.user] # <<>> /\ online[e.user] /\ ~outstanding[e.user]
<1>1. e \in queue /\ e.type = "StartReel"
  BY DEF Due
<1>2. EventMatches(e)
  BY <1>1 DEF Chain, ChainMatchesState
<1>3. /\ online[e.user] /\ feed[e.user] # <<>>
      /\ outstanding[e.user] => Awaiting(e.user, "RequestFeed")
  BY <1>1, <1>2 DEF EventMatches
<1>4. ~Awaiting(e.user, "RequestFeed")
  BY <1>1, OnlyEvent DEF Awaiting
<1> QED
  BY <1>3, <1>4

\* The cascade survives a handler that schedules at a later instant, or at
\* this one for the present or a later phase.
LEMMA CascadeStep ==
  ASSUME TypeOK, PhaseCascade, NEW e \in queue, NEW types \in Seq(EventTypes),
         NEW t \in Nat, Replace(e, types, t), UNCHANGED <<now, phase>>, t >= now,
         t = now => \A k \in 1..Len(types) : EventProcessingPhase(types[k]) >= phase
  PROVE  PhaseCascade'
<1> SUFFICES ASSUME NEW f \in queue'
             PROVE  /\ f.time >= now
                    /\ f.time = now => EventProcessingPhase(f.type) >= phase
  BY DEF PhaseCascade
<1>1. CASE f \in queue
  BY <1>1 DEF PhaseCascade
<1>2. CASE f \in Scheduled(e.user, types, t)
  <2>1. e.user \in Users
    BY DEF TypeOK, Events
  <2>2. f.time = t /\ \E k \in 1..Len(types) : f.type = types[k]
    BY <1>2, <2>1, ScheduledFacts
  <2> QED
    BY <2>2
<1> QED
  BY <1>1, <1>2, ReplaceQueue

\* One chain survives a handler whose event was its user's only one and that
\* schedules one event, or a request and a StartReel for one instant.
LEMMA OneChainStep ==
  ASSUME TypeOK, OneChain, NEW e \in queue, NEW types \in Seq(EventTypes),
         NEW t \in Nat, Replace(e, types, t),
         types = <<>> \/ \A f \in queue : f.user = e.user => f = e,
         Len(types) <= 1 \/ types = <<"RequestFeed", "StartReel">>
  PROVE  OneChain'
<1> SUFFICES ASSUME NEW f \in queue', NEW g \in queue', f.user = g.user, f # g
             PROVE  f.time = g.time /\ {f.type, g.type} = {"RequestFeed", "StartReel"}
  BY DEF OneChain
<1>u. e.user \in Users
  BY DEF TypeOK, Events
<1>1. CASE f \in queue /\ g \in queue
  BY <1>1 DEF OneChain
<1>2. CASE f.user # e.user
  BY <1>1, <1>2, ReplaceQueue
<1>3. CASE types = <<>>
  <2>1. Scheduled(e.user, types, t) = {}
    BY <1>3 DEF Scheduled
  <2> QED
    BY <2>1, <1>1, ReplaceQueue
<1>4. CASE f.user = e.user /\ types # <<>>
  <2>1. f \in Scheduled(e.user, types, t) /\ g \in Scheduled(e.user, types, t)
    BY <1>4, ReplaceQueue
  <2>2. PICK i \in 1..Len(types) :
          f = [time |-> t, user |-> e.user, type |-> types[i], seq |-> nextSeq[e.user] + i - 1]
    BY <2>1 DEF Scheduled
  <2>3. PICK j \in 1..Len(types) :
          g = [time |-> t, user |-> e.user, type |-> types[j], seq |-> nextSeq[e.user] + j - 1]
    BY <2>1 DEF Scheduled
  <2>4. i # j
    BY <2>2, <2>3
  <2>5. types = <<"RequestFeed", "StartReel">>
    BY <2>4
  <2>6. {types[i], types[j]} = {"RequestFeed", "StartReel"}
    BY <2>4, <2>5
  <2> QED
    BY <2>2, <2>3, <2>6
<1> QED
  BY <1>2, <1>3, <1>4
------------------------------------------------------------------------------
(* One lemma per handler *)

\* What a handler has to show: its event was its user's only one, it schedules
\* for the present or a later phase, and its user's events match.
LEMMA HandlerStep ==
  ASSUME TypeOK, Chain, NEW e \in queue, NEW types \in Seq(EventTypes), NEW t \in Nat,
         Replace(e, types, t), UNCHANGED <<now, phase>>, t >= now,
         types = <<>> \/ \A f \in queue : f.user = e.user => f = e,
         Len(types) <= 1 \/ types = <<"RequestFeed", "StartReel">>,
         t = now => \A k \in 1..Len(types) : EventProcessingPhase(types[k]) >= phase,
         \A v \in Users \ {e.user} :
           /\ online'[v] = online[v] /\ outstanding'[v] = outstanding[v]
           /\ feed'[v] = feed[v] /\ open'[v] = open[v],
         \A f \in queue' : f.user = e.user => EventMatches(f)'
  PROVE  Chain'
<1>1. OneChain'
  BY OneChainStep DEF Chain
<1>2. PhaseCascade'
  BY CascadeStep DEF Chain
<1>3. ChainMatchesState'
  BY OthersMatch DEF Chain
<1> QED
  BY <1>1, <1>2, <1>3 DEF Chain

\* An arrival goes online and waits for its first request, of this instant.
LEMMA OpenAppChain ==
  ASSUME TypeOK, Chain, NEW e \in queue, OpenApp(e)
  PROVE  Chain'
<1> DEFINE types == <<"RequestFeed">>
<1>1. PICK type \in {"OpenApp", "ReturnToApp"} : Due(e, type)
  BY DEF OpenApp
<1>2. e.user \in Users /\ now \in Nat /\ e.type = type /\ phase = 0
  BY <1>1 DEF Due, EventProcessingPhase, TypeOK, Events
<1>3. \A f \in queue : f.user = e.user => f = e
  BY <1>1, OnlyEvent
<1>4. /\ types \in Seq(EventTypes) /\ Len(types) <= 1
      /\ \A k \in 1..Len(types) : types[k] = "RequestFeed"
  BY DEF EventTypes
<1>5. Replace(e, types, now)
  BY DEF OpenApp
<1>6. /\ online' = [online EXCEPT ![e.user] = TRUE]
      /\ outstanding' = [outstanding EXCEPT ![e.user] = TRUE]
      /\ UNCHANGED <<now, phase, feed, open>>
  BY DEF OpenApp, timeVars, feedVars, sessionVars
<1>7. feed[e.user] = <<>>
  BY <1>1, <1>2 DEF Chain, ChainMatchesState, EventMatches
<1> HIDE DEF types
<1>8. \A k \in 1..Len(types) : EventProcessingPhase(types[k]) >= phase
  BY <1>2, <1>4 DEF EventProcessingPhase
<1>9. \A v \in Users \ {e.user} :
        /\ online'[v] = online[v] /\ outstanding'[v] = outstanding[v]
        /\ feed'[v] = feed[v] /\ open'[v] = open[v]
  BY <1>6 DEF TypeOK
<1>10. ASSUME NEW f \in queue', f.user = e.user PROVE EventMatches(f)'
  <2>1. f \in Scheduled(e.user, types, now)
    BY <1>2, <1>3, <1>4, <1>5, <1>10, ReplaceQueue
  <2>2. f.type = "RequestFeed"
    BY <1>2, <1>4, <2>1, ScheduledFacts
  <2>3. online'[e.user] /\ outstanding'[e.user] /\ feed'[e.user] = <<>>
    BY <1>2, <1>6, <1>7 DEF TypeOK
  <2> QED
    BY <1>10, <2>2, <2>3 DEF EventMatches
<1> QED
  <2>1. now >= now
    BY <1>2
  <2> QED
    BY <1>2, <1>3, <1>4, <1>5, <1>6, <1>8, <1>9, <1>10, <2>1, HandlerStep

\* An invalidation drops the feed and leaves one request in a later group.
LEMMA RefetchChain ==
  ASSUME TypeOK, Chain, NEW e \in queue, Refetch(e)
  PROVE  Chain'
<1> DEFINE types == IF ~outstanding[e.user] THEN <<"RequestFeed">> ELSE <<>>
           t == now + RefetchDelay
<1>1. Due(e, "StartReel")
  BY DEF Refetch
<1>2. e.user \in Users /\ now \in Nat
  BY <1>1 DEF Due, TypeOK, Events
<1>3. \A f \in queue : f.user = e.user => f = e
  BY <1>1, OnlyEvent
<1>4. feed[e.user] # <<>> /\ online[e.user] /\ ~outstanding[e.user]
  BY <1>1, StartReelFinds
<1>5. /\ types \in Seq(EventTypes) /\ Len(types) <= 1
      /\ \A k \in 1..Len(types) : types[k] = "RequestFeed"
  BY <1>4 DEF EventTypes
<1>6. t \in Nat /\ t > now
  BY <1>2, TimeAssumption
<1>7. Replace(e, types, t)
  BY <1>4 DEF Refetch, RefetchTime
<1>8. /\ feed' = [feed EXCEPT ![e.user] = <<>>]
      /\ outstanding' = [outstanding EXCEPT ![e.user] = TRUE]
      /\ UNCHANGED <<now, phase, online, open>>
  BY DEF Refetch, timeVars, onlineVars, sessionVars
<1> HIDE DEF types, t
<1>9. \A v \in Users \ {e.user} :
        /\ online'[v] = online[v] /\ outstanding'[v] = outstanding[v]
        /\ feed'[v] = feed[v] /\ open'[v] = open[v]
  BY <1>8 DEF TypeOK
<1>10. ASSUME NEW f \in queue', f.user = e.user PROVE EventMatches(f)'
  <2>1. f \in Scheduled(e.user, types, t)
    BY <1>3, <1>5, <1>6, <1>7, <1>10, ReplaceQueue
  <2>2. f.type = "RequestFeed"
    BY <1>2, <1>5, <1>6, <2>1, ScheduledFacts
  <2>3. online'[e.user] /\ outstanding'[e.user] /\ feed'[e.user] = <<>>
    BY <1>2, <1>4, <1>8 DEF TypeOK
  <2> QED
    BY <1>10, <2>2, <2>3 DEF EventMatches
<1>11. t >= now /\ t # now
  BY <1>2, <1>6
<1> QED
  BY <1>3, <1>5, <1>6, <1>7, <1>8, <1>9, <1>10, <1>11, HandlerStep

\* A response opens a chain only when no StartReel is pending.
LEMMA RequestFeedChain ==
  ASSUME TypeOK, Chain, NEW e \in queue, RequestFeed(e)
  PROVE  Chain'
<1> DEFINE u == e.user
<1>1. Due(e, "RequestFeed")
  BY DEF RequestFeed
<1>2. u \in Users /\ now \in Nat /\ e.type = "RequestFeed" /\ phase = 1
  BY <1>1 DEF Due, EventProcessingPhase, TypeOK, Events
<1>3. online[u] /\ (feed[u] # <<>> => Awaiting(u, "StartReel"))
  BY <1>2 DEF Chain, ChainMatchesState, EventMatches
<1>4. PICK r \in Responses(u) :
        /\ feed' = [feed EXCEPT ![u] = @ \o r]
        /\ Replace(e, IF feed[u] = <<>> /\ r # <<>> THEN <<"StartReel">> ELSE <<>>, now)
  BY DEF RequestFeed, OpensChain
<1> DEFINE types == IF feed[u] = <<>> /\ r # <<>> THEN <<"StartReel">> ELSE <<>>
<1>5. /\ types \in Seq(EventTypes) /\ Len(types) <= 1
      /\ \A k \in 1..Len(types) : types[k] = "StartReel"
      /\ types # <<>> => feed[u] = <<>> /\ r # <<>>
      /\ feed[u] = <<>> /\ r # <<>> => types = <<"StartReel">>
  <2>1. CASE feed[u] = <<>> /\ r # <<>>
    <3>1. types = <<"StartReel">>
      BY <2>1
    <3> HIDE DEF types
    <3> QED
      BY <2>1, <3>1 DEF EventTypes
  <2>2. CASE ~(feed[u] = <<>> /\ r # <<>>)
    <3>1. types = <<>>
      BY <2>2
    <3> HIDE DEF types
    <3> QED
      BY <2>2, <3>1
  <2> QED
    BY <2>1, <2>2
<1>6. Replace(e, types, now)
  BY <1>4
<1>7. /\ outstanding' = [outstanding EXCEPT ![u] = FALSE]
      /\ UNCHANGED <<now, phase, online, open>>
  BY DEF RequestFeed, timeVars, onlineVars, sessionVars
<1>8. feed[u] \in Seq(Reels) /\ r \in Seq(Reels) /\ feed'[u] = feed[u] \o r
  BY <1>2, <1>4, ResponseType DEF TypeOK
<1>9. feed[u] # <<>> \/ r # <<>> => feed'[u] # <<>>
  BY <1>8
<1> HIDE DEF types
<1>10. types = <<>> \/ \A f \in queue : f.user = e.user => f = e
  <2>1. SUFFICES ASSUME types # <<>>, NEW f \in queue, f.user = u, f # e PROVE FALSE
    OBVIOUS
  <2>2. f.type = "StartReel"
    BY <1>2, <2>1 DEF Chain, OneChain
  <2>3. feed[u] # <<>>
    BY <2>1, <2>2 DEF Chain, ChainMatchesState, EventMatches
  <2> QED
    BY <1>5, <2>1, <2>3
<1>11. \A k \in 1..Len(types) : EventProcessingPhase(types[k]) >= phase
  BY <1>2, <1>5 DEF EventProcessingPhase
<1>12. \A v \in Users \ {e.user} :
         /\ online'[v] = online[v] /\ outstanding'[v] = outstanding[v]
         /\ feed'[v] = feed[v] /\ open'[v] = open[v]
  BY <1>4, <1>7 DEF TypeOK
<1>13. ASSUME NEW f \in queue', f.user = e.user PROVE EventMatches(f)'
  <2>1. online'[u] /\ ~outstanding'[u]
    BY <1>2, <1>3, <1>7 DEF TypeOK
  <2>2. CASE f \in queue /\ f # e
    <3>1. f.type = "StartReel"
      BY <1>2, <1>13, <2>2 DEF Chain, OneChain
    <3>2. feed[u] # <<>>
      BY <1>13, <2>2, <3>1 DEF Chain, ChainMatchesState, EventMatches
    <3> QED
      BY <1>9, <1>13, <2>1, <3>1, <3>2 DEF EventMatches
  <2>3. CASE f \in Scheduled(u, types, now)
    <3>1. f.type = "StartReel" /\ types # <<>>
      BY <1>2, <1>5, <2>3, ScheduledFacts
    <3> QED
      BY <1>5, <1>9, <1>13, <2>1, <3>1 DEF EventMatches
  <2> QED
    BY <1>2, <1>5, <1>6, <2>2, <2>3, ReplaceQueue
<1> QED
  <2>1. now >= now
    BY <1>2
  <2> QED
    BY <1>2, <1>5, <1>6, <1>7, <1>10, <1>11, <1>12, <1>13, <2>1, HandlerStep

\* Two singletons make a pair.
LEMMA PairSeq == <<"RequestFeed">> \o <<"StartReel">> = <<"RequestFeed", "StartReel">>
<1> DEFINE a == <<"RequestFeed">>
           b == <<"StartReel">>
           c == <<"RequestFeed", "StartReel">>
<1>1. /\ a \in Seq(EventTypes) /\ Len(a) = 1 /\ a[1] = "RequestFeed"
      /\ b \in Seq(EventTypes) /\ Len(b) = 1 /\ b[1] = "StartReel"
  BY DEF EventTypes
<1>2. /\ c \in Seq(EventTypes) /\ Len(c) = 2
      /\ c[1] = "RequestFeed" /\ c[2] = "StartReel"
  BY DEF EventTypes
<1> HIDE DEF a, b, c
<1>3. /\ a \o b \in Seq(EventTypes) /\ Len(a \o b) = Len(a) + Len(b)
      /\ \A i \in 1..(Len(a) + Len(b)) :
           (a \o b)[i] = IF i <= Len(a) THEN a[i] ELSE b[i - Len(a)]
  BY <1>1, ConcatProperties
<1>4. \A i \in 1..2 : i = 1 \/ i = 2
  OBVIOUS
<1>5. Len(a \o b) = 2 /\ \A i \in 1..2 : (a \o b)[i] = c[i]
  BY <1>1, <1>2, <1>3, <1>4
<1>6. a \o b = c
  BY <1>2, <1>3, <1>5, SeqEqual
<1> QED
  BY <1>6 DEF a, b, c

\* A consumed reel leaves a refill, the next reel, or both at one instant.
LEMMA StartReelContinueChain ==
  ASSUME TypeOK, Chain, NEW e \in queue, StartReelContinue(e)
  PROVE  Chain'
<1> DEFINE u == e.user
           refill == ServingShouldRefill(Len(feed[u]) - 1, outstanding[u])
           more == Len(feed[u]) - 1 > 0
           types == (IF refill THEN <<"RequestFeed">> ELSE <<>>)
                      \o (IF more THEN <<"StartReel">> ELSE <<>>)
<1>1. Due(e, "StartReel")
  BY DEF StartReelContinue
<1>2. u \in Users /\ now \in Nat
  BY <1>1 DEF Due, TypeOK, Events
<1>3. \A f \in queue : f.user = e.user => f = e
  BY <1>1, OnlyEvent
<1>4. feed[u] # <<>> /\ online[u] /\ ~outstanding[u]
  BY <1>1, StartReelFinds
<1>5. PICK watch \in WatchTimes : Replace(e, types, now + watch + BrowseOverhead)
  BY DEF StartReelContinue
<1> DEFINE t == now + watch + BrowseOverhead
<1>6. t \in Nat /\ t >= now /\ t # now
  BY <1>2, TimeAssumption
<1>7. /\ outstanding' = [outstanding EXCEPT ![u] = @ \/ refill]
      /\ feed' = [feed EXCEPT ![u] = Tail(@)]
      /\ open' = [open EXCEPT ![u] = @ + 1]
      /\ UNCHANGED <<now, phase, online>>
  BY DEF StartReelContinue, Impression, timeVars, onlineVars
<1>r. refill \in BOOLEAN
  BY DEF ServingShouldRefill
<1>m. feed'[u] # <<>> <=> more
  <2>1. feed[u] \in Seq(Reels)
    BY <1>2 DEF TypeOK
  <2>2. feed'[u] = Tail(feed[u])
    BY <1>2, <1>7 DEF TypeOK
  <2>3. Tail(feed[u]) \in Seq(Reels) /\ Len(Tail(feed[u])) = Len(feed[u]) - 1
    BY <1>4, <2>1, HeadTailProperties
  <2>4. Tail(feed[u]) = <<>> <=> Len(Tail(feed[u])) = 0
    BY <2>3, EmptySeq
  <2>5. Len(Tail(feed[u])) \in Nat
    BY <2>3
  <2>6. more <=> Len(Tail(feed[u])) > 0
    BY <2>3
  <2>a. Len(Tail(feed[u])) > 0 <=> Len(Tail(feed[u])) # 0
    <3>1. \A n \in Nat : n > 0 <=> n # 0
      OBVIOUS
    <3> QED
      BY <2>5, <3>1, Zenon
  <2> HIDE DEF more
  <2>7. more <=> Tail(feed[u]) # <<>>
    BY <2>4, <2>6, <2>a, Zenon
  <2> QED
    BY <2>2, <2>7
<1> HIDE DEF refill, more
<1>8. /\ types \in Seq(EventTypes)
      /\ Len(types) <= 1 \/ types = <<"RequestFeed", "StartReel">>
      /\ refill => \E k \in 1..Len(types) : types[k] = "RequestFeed"
      /\ more => \E k \in 1..Len(types) : types[k] = "StartReel"
      /\ \A k \in 1..Len(types) : \/ types[k] = "RequestFeed" /\ refill
                                  \/ types[k] = "StartReel" /\ more
  <2> DEFINE pair == <<"RequestFeed", "StartReel">>
  <2>1. CASE refill /\ more
    <3>1. types = pair
      BY <2>1, PairSeq
    <3>2. /\ pair \in Seq(EventTypes) /\ Len(pair) = 2
          /\ pair[1] = "RequestFeed" /\ pair[2] = "StartReel"
      BY DEF EventTypes
    <3> HIDE DEF types, pair
    <3>3. \A k \in 1..Len(types) : k = 1 \/ k = 2
      BY <3>1, <3>2
    <3>4. 1 \in 1..Len(types) /\ 2 \in 1..Len(types)
      BY <3>1, <3>2
    <3>5. types = <<"RequestFeed", "StartReel">>
      BY <3>1 DEF pair
    <3> QED
      BY <2>1, <3>1, <3>2, <3>3, <3>4, <3>5
  <2>2. CASE refill /\ ~more
    <3>1. types = <<"RequestFeed">>
      BY <2>2
    <3> HIDE DEF types
    <3> QED
      BY <2>2, <3>1 DEF EventTypes
  <2>3. CASE ~refill /\ more
    <3>1. types = <<"StartReel">>
      BY <2>3
    <3> HIDE DEF types
    <3> QED
      BY <2>3, <3>1 DEF EventTypes
  <2>4. CASE ~refill /\ ~more
    <3>1. types = <<>>
      BY <2>4
    <3> HIDE DEF types
    <3> QED
      BY <2>4, <3>1
  <2> QED
    BY <1>r, <2>1, <2>2, <2>3, <2>4
<1> HIDE DEF types, t
<1>9. \A v \in Users \ {e.user} :
        /\ online'[v] = online[v] /\ outstanding'[v] = outstanding[v]
        /\ feed'[v] = feed[v] /\ open'[v] = open[v]
  BY <1>7 DEF TypeOK
<1>t. Replace(e, types, t)
  BY <1>5 DEF types, t
<1>10. ASSUME NEW f \in queue', f.user = e.user PROVE EventMatches(f)'
  <2>1. f \in Scheduled(u, types, t)
    BY <1>3, <1>6, <1>8, <1>t, <1>10, ReplaceQueue
  <2>2. \/ f.type = "RequestFeed" /\ refill
        \/ f.type = "StartReel" /\ more
    BY <1>2, <1>6, <1>8, <2>1, ScheduledFacts
  <2>3. InHorizon(t)
    BY <2>1 DEF Scheduled
  <2>4. online'[u] /\ (outstanding'[u] <=> refill)
    BY <1>2, <1>4, <1>7, <1>r DEF TypeOK
  <2>5. refill => Awaiting(u, "RequestFeed")'
    BY <1>6, <1>8, <1>t, <2>3, ScheduledAwaited
  <2>6. more => Awaiting(u, "StartReel")'
    BY <1>6, <1>8, <1>t, <2>3, ScheduledAwaited
  <2> QED
    BY <1>10, <1>m, <2>2, <2>4, <2>5, <2>6 DEF EventMatches
<1> QED
  BY <1>3, <1>6, <1>7, <1>8, <1>9, <1>10, <1>t, HandlerStep

\* The exiting reel leaves the exit only.
LEMMA StartReelExitChain ==
  ASSUME TypeOK, Chain, NEW e \in queue, StartReelExit(e)
  PROVE  Chain'
<1> DEFINE types == <<"ExitApp">>
<1>1. Due(e, "StartReel")
  BY DEF StartReelExit
<1>2. e.user \in Users /\ now \in Nat /\ phase = 2
  BY <1>1 DEF Due, EventProcessingPhase, TypeOK, Events
<1>3. \A f \in queue : f.user = e.user => f = e
  BY <1>1, OnlyEvent
<1>4. online[e.user] /\ ~outstanding[e.user]
  BY <1>1, StartReelFinds
<1>5. PICK watch \in WatchTimes : Replace(e, types, now + watch)
  BY DEF StartReelExit
<1> DEFINE t == now + watch
<1>6. t \in Nat /\ t >= now
  BY <1>2, TimeAssumption
<1>7. /\ types \in Seq(EventTypes) /\ Len(types) <= 1
      /\ \A k \in 1..Len(types) : types[k] = "ExitApp"
  BY DEF EventTypes
<1>8. /\ feed' = [feed EXCEPT ![e.user] = Tail(@)]
      /\ open' = [open EXCEPT ![e.user] = 0]
      /\ UNCHANGED <<now, phase, online, outstanding>>
  BY DEF StartReelExit, CloseSession, Impression, timeVars, onlineVars
<1> HIDE DEF types, t
<1>9. \A k \in 1..Len(types) : EventProcessingPhase(types[k]) >= phase
  BY <1>2, <1>7 DEF EventProcessingPhase
<1>10. \A v \in Users \ {e.user} :
         /\ online'[v] = online[v] /\ outstanding'[v] = outstanding[v]
         /\ feed'[v] = feed[v] /\ open'[v] = open[v]
  BY <1>8 DEF TypeOK
<1>t. Replace(e, types, t)
  BY <1>5 DEF t
<1>11. ASSUME NEW f \in queue', f.user = e.user PROVE EventMatches(f)'
  <2>1. f \in Scheduled(e.user, types, t)
    BY <1>3, <1>6, <1>7, <1>11, <1>t, ReplaceQueue
  <2>2. f.type = "ExitApp"
    BY <1>2, <1>6, <1>7, <2>1, ScheduledFacts
  <2>3. online'[e.user] /\ open'[e.user] = 0 /\ ~outstanding'[e.user]
    BY <1>2, <1>4, <1>8 DEF TypeOK
  <2> QED
    BY <1>11, <2>2, <2>3 DEF EventMatches
<1> QED
  BY <1>3, <1>6, <1>7, <1>8, <1>9, <1>10, <1>11, <1>t, HandlerStep

\* An exit leaves the return only.
LEMMA ExitAppChain ==
  ASSUME TypeOK, Chain, NEW e \in queue, ExitApp(e)
  PROVE  Chain'
<1> DEFINE types == <<"ReturnToApp">>
<1>1. Due(e, "ExitApp")
  BY DEF ExitApp
<1>2. e.user \in Users /\ now \in Nat /\ e.type = "ExitApp"
  BY <1>1 DEF Due, TypeOK, Events
<1>3. \A f \in queue : f.user = e.user => f = e
  BY <1>1, OnlyEvent
<1>4. open[e.user] = 0
  BY <1>2 DEF Chain, ChainMatchesState, EventMatches
<1>5. PICK delay \in ReturnDelays : Replace(e, types, now + delay)
  BY DEF ExitApp
<1> DEFINE t == now + delay
<1>6. t \in Nat /\ t >= now /\ t # now
  BY <1>2, TimeAssumption
<1>7. /\ types \in Seq(EventTypes) /\ Len(types) <= 1
      /\ \A k \in 1..Len(types) : types[k] = "ReturnToApp"
  BY DEF EventTypes
<1>8. /\ online' = [online EXCEPT ![e.user] = FALSE]
      /\ outstanding' = [outstanding EXCEPT ![e.user] = FALSE]
      /\ feed' = [feed EXCEPT ![e.user] = <<>>]
      /\ UNCHANGED <<now, phase, open>>
  BY DEF ExitApp, Leave, timeVars, sessionVars
<1> HIDE DEF types, t
<1>9. \A v \in Users \ {e.user} :
        /\ online'[v] = online[v] /\ outstanding'[v] = outstanding[v]
        /\ feed'[v] = feed[v] /\ open'[v] = open[v]
  BY <1>8 DEF TypeOK
<1>t. Replace(e, types, t)
  BY <1>5 DEF t
<1>10. ASSUME NEW f \in queue', f.user = e.user PROVE EventMatches(f)'
  <2>1. f \in Scheduled(e.user, types, t)
    BY <1>3, <1>6, <1>7, <1>10, <1>t, ReplaceQueue
  <2>2. f.type = "ReturnToApp"
    BY <1>2, <1>6, <1>7, <2>1, ScheduledFacts
  <2>3. /\ ~online'[e.user] /\ open'[e.user] = 0 /\ feed'[e.user] = <<>>
        /\ ~outstanding'[e.user]
    BY <1>2, <1>4, <1>8 DEF TypeOK
  <2> QED
    BY <1>10, <2>2, <2>3 DEF EventMatches
<1> QED
  BY <1>3, <1>6, <1>7, <1>8, <1>9, <1>10, <1>t, HandlerStep

\* A churned user has no event left.
LEMMA ExitAppChurnChain ==
  ASSUME TypeOK, Chain, NEW e \in queue, ExitAppChurn(e)
  PROVE  Chain'
<1> DEFINE types == <<>>
           t == now
<1>1. Due(e, "ExitApp")
  BY DEF ExitAppChurn
<1>2. e.user \in Users /\ t \in Nat /\ t >= now
  BY <1>1 DEF Due, TypeOK, Events
<1>3. \A f \in queue : f.user = e.user => f = e
  BY <1>1, OnlyEvent
<1>4. Replace(e, types, t)
  BY DEF ExitAppChurn
<1>5. types \in Seq(EventTypes) /\ types = <<>> /\ Len(types) = 0 /\ Len(types) <= 1
  OBVIOUS
<1>6. /\ online' = [online EXCEPT ![e.user] = FALSE]
      /\ outstanding' = [outstanding EXCEPT ![e.user] = FALSE]
      /\ feed' = [feed EXCEPT ![e.user] = <<>>]
      /\ UNCHANGED <<now, phase, open>>
  BY DEF ExitAppChurn, Leave, timeVars, sessionVars
<1>7. \A v \in Users \ {e.user} :
        /\ online'[v] = online[v] /\ outstanding'[v] = outstanding[v]
        /\ feed'[v] = feed[v] /\ open'[v] = open[v]
  BY <1>6 DEF TypeOK
<1> HIDE DEF types, t
<1>8. \A f \in queue' : f.user # e.user
  <2>1. SUFFICES ASSUME NEW f \in queue', f.user = e.user PROVE FALSE
    OBVIOUS
  <2>2. f \in Scheduled(e.user, types, t)
    BY <1>2, <1>3, <1>4, <1>5, <2>1, ReplaceQueue
  <2> QED
    BY <1>5, <2>2 DEF Scheduled
<1>9. \A k \in 1..Len(types) : EventProcessingPhase(types[k]) >= phase
  BY <1>5
<1> QED
  BY <1>2, <1>4, <1>5, <1>6, <1>7, <1>8, <1>9, HandlerStep

------------------------------------------------------------------------------
(* The loop's own steps *)

\* The next group is the earliest timestamp: nothing is left before it.
LEMMA BeginGroupChain ==
  ASSUME TypeOK, Chain, BeginGroup
  PROVE  Chain'
<1>1. PICK e \in queue : (\A f \in queue : e.time <= f.time) /\ now' = e.time
  BY DEF BeginGroup
<1>2. phase' = 0 /\ UNCHANGED <<queue, online, outstanding, feed, open>>
  BY DEF BeginGroup, queueVars, onlineVars, feedVars, sessionVars
<1>3. PhaseCascade'
  BY <1>1, <1>2 DEF PhaseCascade, EventProcessingPhase, TypeOK, Events
<1> QED
  BY <1>2, <1>3 DEF Chain, OneChain, ChainMatchesState, EventMatches, Awaiting

\* A phase ends when nothing of the instant belongs to it.
LEMMA EndPhaseChain ==
  ASSUME TypeOK, Chain, EndPhase
  PROVE  Chain'
<1>1. /\ phase' = phase + 1 /\ phase \in 0..2
      /\ UNCHANGED <<now, queue, online, outstanding, feed, open>>
      /\ \A e \in queue : e.time = now => EventProcessingPhase(e.type) # phase
  BY DEF EndPhase, queueVars, onlineVars, feedVars, sessionVars
<1>2. \A type : EventProcessingPhase(type) \in Int
  BY DEF EventProcessingPhase
<1>3. PhaseCascade'
  BY <1>1, <1>2 DEF Chain, PhaseCascade
<1> QED
  BY <1>1, <1>3 DEF Chain, OneChain, ChainMatchesState, EventMatches, Awaiting

\* The drain touches no event.
LEMMA FinishChain ==
  ASSUME TypeOK, Chain, Finish
  PROVE  Chain'
<1>1. /\ UNCHANGED <<now, phase, queue, online, outstanding, feed>>
      /\ open' = [u \in Users |-> 0]
  BY DEF Finish, queueVars, onlineVars, feedVars
<1>2. \A e \in queue : e.user \in Users
  BY DEF TypeOK, Events
<1> QED
  BY <1>1, <1>2 DEF Chain, OneChain, ChainMatchesState, EventMatches, Awaiting, PhaseCascade

\* Every step of the runner keeps the chain invariant.
THEOREM ChainStep == TypeOK /\ Lockstep /\ Chain /\ [Next]_vars => Chain'
<1> SUFFICES ASSUME TypeOK, Lockstep, Chain, [Next]_vars PROVE Chain'
  OBVIOUS
<1>1. CASE BeginGroup
  BY <1>1, BeginGroupChain
<1>2. CASE EndPhase
  BY <1>2, EndPhaseChain
<1>3. CASE Dispatch
  BY <1>3, OpenAppChain, RequestFeedChain, RefetchChain, StartReelContinueChain,
     StartReelExitChain, ExitAppChain, ExitAppChurnChain DEF Dispatch
<1>4. CASE Finish
  BY <1>4, FinishChain
<1>5. CASE UNCHANGED vars
  <2>1. UNCHANGED <<now, phase, queue, online, outstanding, feed, open>>
    BY <1>5 DEF vars, timeVars, queueVars, onlineVars, feedVars, sessionVars
  <2> QED
    BY <2>1 DEF Chain, OneChain, ChainMatchesState, EventMatches, Awaiting, PhaseCascade
<1> QED
  BY <1>1, <1>2, <1>3, <1>4, <1>5 DEF Next, Terminated

\* At first every user has at most its opening event.
LEMMA InitChain == Init => Chain
<1> SUFFICES ASSUME Init PROVE Chain
  OBVIOUS
<1>1. PICK t \in [Users -> OpenTimes] :
        queue = {[time |-> t[u], user |-> u, type |-> "OpenApp", seq |-> 0] :
                   u \in {v \in Users : InHorizon(t[v])}}
  BY DEF Init
<1>2. \A e \in queue : /\ e.user \in Users /\ e.type = "OpenApp" /\ e.time = t[e.user]
                       /\ e.time \in Nat /\ e.seq = 0
                       /\ e = [time |-> t[e.user], user |-> e.user,
                               type |-> "OpenApp", seq |-> 0]
  BY <1>1, TimeAssumption
<1>3. OneChain
  BY <1>2 DEF OneChain
<1>4. now = -1
  BY DEF Init
<1>5. PhaseCascade
  BY <1>2, <1>4 DEF PhaseCascade
<1>6. \A u \in Users : ~online[u] /\ ~outstanding[u] /\ feed[u] = <<>> /\ open[u] = 0
  BY DEF Init
<1>7. ChainMatchesState
  BY <1>2, <1>6 DEF ChainMatchesState, EventMatches
<1> QED
  BY <1>3, <1>5, <1>7 DEF Chain

\* The inductive invariant of the runner's scheduling.
LEMMA SchedulingInvariant == Spec => [](TypeOK /\ Lockstep /\ Chain)
<1>1. Init => TypeOK /\ Lockstep /\ Chain
  BY InitType, InitChain DEF Init, Lockstep
<1>2. TypeOK /\ Lockstep /\ Chain /\ [Next]_vars => (TypeOK /\ Lockstep /\ Chain)'
  BY TypeStep, ChainStep
<1> QED
  BY <1>1, <1>2, PTL DEF Spec

\* A user never has two consumption chains, whatever the thresholds, delays
\* and prefetch depth.
THEOREM OneChainCorrect == Spec => []OneChain
<1>1. Chain => OneChain
  BY DEF Chain
<1> QED
  BY <1>1, SchedulingInvariant, PTL

\* Every handler finds its user in the state it relies on; in particular the
\* defensive branch of StartReel is never taken.
THEOREM ChainMatchesStateCorrect == Spec => []ChainMatchesState
<1>1. Chain => ChainMatchesState
  BY DEF Chain
<1> QED
  BY <1>1, SchedulingInvariant, PTL

\* Nothing is scheduled behind the cascade of phases.
THEOREM PhaseCascadeCorrect == Spec => []PhaseCascade
<1>1. Chain => PhaseCascade
  BY DEF Chain
<1> QED
  BY <1>1, SchedulingInvariant, PTL

\* Together: the consumption chain of every user is sound.
THEOREM ChainSoundCorrect == Spec => []ChainSound
<1>1. Chain => ChainSound
  BY DEF Chain, ChainSound
<1> QED
  BY <1>1, SchedulingInvariant, PTL

\* Time never goes back and no timestamp is processed twice.
THEOREM GroupsAdvanceCorrect == Spec => GroupsAdvance
<1> DEFINE Advance == now' >= now /\ (phase = 3 /\ phase' = 0 => now' > now)
<1>1. TypeOK /\ Chain /\ [Next]_vars => [Advance]_vars
  <2> SUFFICES ASSUME TypeOK, Chain, Next PROVE Advance
    OBVIOUS
  <2>t. now \in Int
    BY DEF TypeOK
  <2>1. CASE BeginGroup
    <3>1. PICK e \in queue : now' = e.time
      BY <2>1 DEF BeginGroup
    <3>2. phase = 3 /\ e.time \in Int
      BY <2>1 DEF BeginGroup, TypeOK, Events
    <3>3. e.time >= now /\ (e.time = now => EventProcessingPhase(e.type) >= 3)
      BY <3>2 DEF Chain, PhaseCascade
    <3>4. ~(EventProcessingPhase(e.type) >= 3)
      BY DEF EventProcessingPhase
    <3> QED
      BY <2>t, <3>1, <3>2, <3>3, <3>4
  <2>2. CASE EndPhase
    <3>1. now' = now /\ phase' = phase + 1 /\ phase \in 0..2
      BY <2>2 DEF EndPhase
    <3> QED
      BY <2>t, <3>1
  <2>3. CASE Dispatch
    <3>1. now' = now /\ phase' = phase
      BY <2>3 DEF Dispatch, OpenApp, RequestFeed, Refetch, StartReelContinue,
                  StartReelExit, ExitApp, ExitAppChurn, timeVars
    <3> QED
      BY <2>t, <3>1
  <2>4. CASE Finish
    <3>1. now' = now /\ phase' = phase
      BY <2>4 DEF Finish
    <3> QED
      BY <2>t, <3>1
  <2>5. CASE Terminated
    <3>1. now' = now /\ phase' = phase
      BY <2>5 DEF Terminated, vars, timeVars
    <3> QED
      BY <2>t, <3>1
  <2> QED
    BY <2>1, <2>2, <2>3, <2>4, <2>5 DEF Next
<1> QED
  BY <1>1, SchedulingInvariant, PTL DEF Spec, GroupsAdvance

(* Equal-timestamp snapshot *)

\* Until consumption starts the counters are those the group began with, and
\* a stamp of this instant was read from them.
Snapshot ==
  /\ phase \in {0, 1} => writes = groupWrites
  /\ \A u \in Users : \A i \in DOMAIN stamps[u] :
       /\ stamps[u][i].requestTime <= now
       /\ stamps[u][i].requestTime = now => stamps[u][i].readAt = groupWrites
  /\ SnapshotConsistency

\* Stamps are only dropped, kept, or made by a request of this instant.
StampOrigin ==
  \A u \in Users : \A i \in DOMAIN stamps'[u] :
    \/ \E j \in DOMAIN stamps[u] : stamps'[u][i] = stamps[u][j]
    \/ /\ phase = 1
       /\ stamps'[u][i].requestTime = now /\ stamps'[u][i].readAt = writes

\* Dropping the oldest stamp, or all of them, makes no new one.
LEMMA DroppedStamps ==
  ASSUME TypeOK, NEW v \in Users,
         \/ stamps' = [stamps EXCEPT ![v] = <<>>]
         \/ stamps[v] # <<>> /\ stamps' = [stamps EXCEPT ![v] = Tail(@)]
  PROVE  StampOrigin
<1> SUFFICES ASSUME NEW u \in Users, NEW i \in DOMAIN stamps'[u]
             PROVE  \E j \in DOMAIN stamps[u] : stamps'[u][i] = stamps[u][j]
  BY DEF StampOrigin
<1>1. CASE u # v
  <2>1. stamps'[u] = stamps[u]
    BY <1>1 DEF TypeOK
  <2> QED
    BY <2>1
<1>2. CASE u = v /\ stamps' = [stamps EXCEPT ![v] = <<>>]
  <2>1. stamps'[u] = <<>>
    BY <1>2 DEF TypeOK
  <2> QED
    BY <2>1
<1>3. CASE u = v /\ stamps[v] # <<>> /\ stamps' = [stamps EXCEPT ![v] = Tail(@)]
  <2>1. stamps'[u] = Tail(stamps[u]) /\ stamps[u] \in Seq(Stamps) /\ stamps[u] # <<>>
    BY <1>3 DEF TypeOK
  <2>2. /\ Tail(stamps[u]) \in Seq(Stamps) /\ Len(Tail(stamps[u])) = Len(stamps[u]) - 1
        /\ \A k \in 1..Len(Tail(stamps[u])) : Tail(stamps[u])[k] = stamps[u][k + 1]
    BY <2>1, HeadTailProperties
  <2>3. i \in 1..Len(Tail(stamps[u])) /\ Len(stamps[u]) \in Nat
    BY <2>1, <2>2
  <2>4. i + 1 \in DOMAIN stamps[u]
    BY <2>1, <2>2, <2>3
  <2> QED
    BY <2>1, <2>2, <2>3, <2>4
<1> QED
  BY <1>1, <1>2, <1>3

\* Only a request makes a stamp, with the counters it reads.
LEMMA StampOriginStep ==
  ASSUME TypeOK, Lockstep, Chain, Next
  PROVE  StampOrigin
<1>1. CASE UNCHANGED stamps
  BY <1>1 DEF StampOrigin
<1>2. ASSUME NEW e \in queue, RequestFeed(e) PROVE StampOrigin
  <2>1. e.user \in Users /\ phase = 1
    BY <1>2 DEF RequestFeed, Due, EventProcessingPhase, TypeOK, Events
  <2> DEFINE stamp == [requestTime |-> now, rankApply |-> applyCount[e.user],
                       readAt |-> writes]
  <2>2. PICK r \in Responses(e.user) :
          stamps' = [stamps EXCEPT ![e.user] = @ \o [i \in 1..Len(r) |-> stamp]]
    BY <1>2 DEF RequestFeed
  <2>3. r \in Seq(Reels) /\ Len(r) \in Nat
    <3>1. r \in Seq(Reels)
      BY <2>1, ResponseType
    <3> QED
      BY <3>1, LenProperties
  <2>4. now \in Nat
    BY <1>2 DEF RequestFeed, Due, TypeOK, Events
  <2>5. stamp \in Stamps /\ stamp.requestTime = now /\ stamp.readAt = writes
    <3>1. applyCount[e.user] \in Nat /\ writes \in Nat
      BY <2>1 DEF TypeOK
    <3> QED
      BY <2>4, <3>1 DEF Stamps
  <2> HIDE DEF stamp
  <2> DEFINE fresh == [i \in 1..Len(r) |-> stamp]
  <2>6. /\ fresh \in Seq(Stamps) /\ Len(fresh) = Len(r)
        /\ \A k \in 1..Len(r) : fresh[k] = stamp
    BY <2>3, <2>5
  <2>7. stamps[e.user] \in Seq(Stamps)
    BY <2>1 DEF TypeOK
  <2>8. stamps' = [stamps EXCEPT ![e.user] = @ \o fresh]
    BY <2>2
  <2> HIDE DEF fresh
  <2>9. /\ stamps[e.user] \o fresh \in Seq(Stamps)
        /\ Len(stamps[e.user] \o fresh) = Len(stamps[e.user]) + Len(fresh)
        /\ \A k \in 1..Len(stamps[e.user]) + Len(fresh) :
             (stamps[e.user] \o fresh)[k] =
               IF k <= Len(stamps[e.user]) THEN stamps[e.user][k]
               ELSE fresh[k - Len(stamps[e.user])]
    BY <2>6, <2>7, ConcatProperties, ZenonT(60)
  <2>10. ASSUME NEW u \in Users, NEW i \in DOMAIN stamps'[u]
         PROVE  \/ \E j \in DOMAIN stamps[u] : stamps'[u][i] = stamps[u][j]
                \/ stamps'[u][i].requestTime = now /\ stamps'[u][i].readAt = writes
    <3>1. CASE u # e.user
      <4>1. stamps'[u] = stamps[u]
        BY <2>8, <3>1 DEF TypeOK
      <4> QED
        BY <4>1
    <3>2. CASE u = e.user
      <4>1. stamps'[u] = stamps[u] \o fresh
        BY <2>8, <3>2 DEF TypeOK
      <4>2. i \in 1..Len(stamps[u]) + Len(fresh) /\ Len(stamps[u]) \in Nat
        BY <2>7, <2>9, <3>2, <4>1
      <4>3. CASE i <= Len(stamps[u])
        <5>1. i \in DOMAIN stamps[u]
          BY <2>7, <3>2, <4>2, <4>3
        <5> QED
          BY <2>9, <3>2, <4>1, <4>2, <4>3, <5>1
      <4>4. CASE ~(i <= Len(stamps[u]))
        <5>1. i - Len(stamps[u]) \in 1..Len(r)
          BY <2>3, <2>6, <4>2, <4>4
        <5>2. stamps'[u][i] = stamp
          BY <2>6, <2>9, <3>2, <4>1, <4>2, <4>4, <5>1
        <5> QED
          BY <2>5, <5>2
      <4> QED
        BY <4>3, <4>4
    <3> QED
      BY <3>1, <3>2
  <2> QED
    BY <2>1, <2>10 DEF StampOrigin
<1>3. ASSUME NEW e \in queue,
             Refetch(e) \/ StartReelContinue(e) \/ StartReelExit(e) \/ ExitApp(e)
               \/ ExitAppChurn(e)
      PROVE  StampOrigin
  <2>1. e.user \in Users
    BY DEF TypeOK, Events
  <2>2. CASE Refetch(e) \/ ExitApp(e) \/ ExitAppChurn(e)
    <3>1. stamps' = [stamps EXCEPT ![e.user] = <<>>]
      BY <2>2 DEF Refetch, ExitApp, ExitAppChurn, Leave
    <3> QED
      BY <2>1, <3>1, DroppedStamps
  <2>3. CASE StartReelContinue(e) \/ StartReelExit(e)
    <3>1. stamps' = [stamps EXCEPT ![e.user] = Tail(@)] /\ feed[e.user] # <<>>
      BY <2>3 DEF StartReelContinue, StartReelExit, Impression
    <3>2. stamps[e.user] # <<>>
      BY <2>1, <3>1 DEF Lockstep, TypeOK
    <3> QED
      BY <2>1, <3>1, <3>2, DroppedStamps
  <2> QED
    BY <1>3, <2>2, <2>3
<1>4. CASE BeginGroup
  BY <1>1, <1>4 DEF BeginGroup, feedVars
<1>5. CASE EndPhase
  BY <1>1, <1>5 DEF EndPhase, feedVars
<1>6. CASE Finish
  BY <1>1, <1>6 DEF Finish, feedVars
<1>7. CASE Terminated
  BY <1>1, <1>7 DEF Terminated, vars, feedVars
<1>8. ASSUME NEW e \in queue, OpenApp(e) PROVE StampOrigin
  BY <1>1, <1>8 DEF OpenApp, feedVars
<1> QED
  BY <1>2, <1>3, <1>4, <1>5, <1>6, <1>7, <1>8 DEF Next, Dispatch

\* The counters stand still while the requests of a group are drained.
LEMMA SnapshotStep ==
  ASSUME TypeOK, Lockstep, Chain, Snapshot, [Next]_vars
  PROVE  Snapshot'
<1>1. CASE BeginGroup
  <2>1. PICK e \in queue : now' = e.time
    BY <1>1 DEF BeginGroup
  <2>2. phase = 3 /\ phase' = 0 /\ groupWrites' = writes /\ UNCHANGED <<stamps, writes>>
    BY <1>1 DEF BeginGroup, feedVars, countVars
  <2>3. now' \in Int /\ now' > now
    <3>1. e.time >= now /\ (e.time = now => EventProcessingPhase(e.type) >= phase)
      BY DEF Chain, PhaseCascade
    <3>2. ~(EventProcessingPhase(e.type) >= 3)
      BY DEF EventProcessingPhase
    <3>3. e.time \in Int /\ now \in Int
      BY DEF TypeOK, Events
    <3> QED
      BY <2>1, <2>2, <3>1, <3>2, <3>3
  <2>4. \A u \in Users : \A i \in DOMAIN stamps[u] : stamps[u][i].requestTime \in Int
    <3>1. SUFFICES ASSUME NEW u \in Users, NEW i \in DOMAIN stamps[u]
                   PROVE  stamps[u][i].requestTime \in Int
      OBVIOUS
    <3>2. stamps[u] \in Seq(Stamps)
      BY DEF TypeOK
    <3>3. stamps[u][i] \in Stamps
      BY <3>2, ElementOfSeq
    <3> QED
      BY <3>3 DEF Stamps
  <2>5. \A u \in Users : \A i \in DOMAIN stamps[u] : stamps[u][i].requestTime < now'
    BY <2>3, <2>4 DEF Snapshot, TypeOK
  <2>6. \A u \in Users : \A i \in DOMAIN stamps'[u] :
          stamps'[u][i].requestTime <= now' /\ stamps'[u][i].requestTime # now'
    BY <2>2, <2>3, <2>4, <2>5
  <2>7. SnapshotConsistency'
    BY <2>2 DEF Snapshot, SnapshotConsistency
  <2> QED
    BY <2>2, <2>6, <2>7 DEF Snapshot
<1>2. CASE EndPhase
  <2>1. UNCHANGED <<now, stamps, writes, groupWrites>> /\ phase' = phase + 1
    BY <1>2 DEF EndPhase, feedVars, countVars
  <2>2. phase \in 0..3
    BY DEF TypeOK
  <2>3. phase' \in {0, 1} => phase \in {0, 1}
    BY <2>1, <2>2
  <2>4. SnapshotConsistency'
    BY <2>1 DEF Snapshot, SnapshotConsistency
  <2> QED
    BY <2>1, <2>3, <2>4 DEF Snapshot
<1>3. CASE Finish \/ UNCHANGED vars
  <2>1. UNCHANGED <<now, phase, stamps, writes, groupWrites>>
    BY <1>3 DEF Finish, vars, timeVars, feedVars, countVars
  <2> QED
    BY <2>1 DEF Snapshot, SnapshotConsistency
<1>4. CASE Dispatch
  <2>1. UNCHANGED <<now, phase, groupWrites>>
    BY <1>4 DEF Dispatch, OpenApp, RequestFeed, Refetch, StartReelContinue,
                StartReelExit, ExitApp, ExitAppChurn, timeVars
  <2>2. phase \in {0, 1} => writes' = writes
    <3>1. SUFFICES ASSUME NEW e \in queue, StartReelContinue(e) \/ StartReelExit(e)
                   PROVE  phase = 2
      BY <1>4 DEF Dispatch, OpenApp, RequestFeed, Refetch, ExitApp, ExitAppChurn, countVars
    <3> QED
      BY <3>1 DEF StartReelContinue, StartReelExit, Due, EventProcessingPhase
  <2>3. StampOrigin
    BY <1>4, StampOriginStep DEF Next
  <2>4. now <= now
    BY DEF TypeOK
  <2>5. \A u \in Users : \A i \in DOMAIN stamps'[u] :
          /\ stamps'[u][i].requestTime <= now
          /\ stamps'[u][i].requestTime = now => stamps'[u][i].readAt = groupWrites
    BY <2>3, <2>4 DEF Snapshot, StampOrigin
  <2>6. SnapshotConsistency'
    <3>1. SUFFICES ASSUME NEW u \in Users, NEW v \in Users,
                          NEW i \in DOMAIN stamps'[u], NEW j \in DOMAIN stamps'[v],
                          stamps'[u][i].requestTime = stamps'[v][j].requestTime
                   PROVE  stamps'[u][i].readAt = stamps'[v][j].readAt
      BY DEF SnapshotConsistency
    <3>2. CASE stamps'[u][i].requestTime = now
      BY <2>5, <3>1, <3>2
    <3>3. CASE stamps'[u][i].requestTime # now
      <4>1. PICK k \in DOMAIN stamps[u] : stamps'[u][i] = stamps[u][k]
        BY <2>3, <3>3 DEF StampOrigin
      <4>2. PICK l \in DOMAIN stamps[v] : stamps'[v][j] = stamps[v][l]
        BY <2>3, <3>1, <3>3 DEF StampOrigin
      <4> QED
        BY <3>1, <4>1, <4>2 DEF Snapshot, SnapshotConsistency
    <3> QED
      BY <3>2, <3>3
  <2> QED
    BY <2>1, <2>2, <2>5, <2>6 DEF Snapshot
<1> QED
  BY <1>1, <1>2, <1>3, <1>4 DEF Next, Terminated

\* All feed requests of one timestamp read the same version of the global
\* counters, for any number of users and any order within the phase.
THEOREM SnapshotCorrect == Spec => []SnapshotConsistency
<1>1. Init => Snapshot
  <2>1. Init => writes = 0 /\ groupWrites = 0 /\ \A u \in Users : stamps[u] = <<>>
    BY DEF Init
  <2> QED
    BY <2>1 DEF Snapshot, SnapshotConsistency
<1>2. (TypeOK /\ Lockstep /\ Chain) /\ Snapshot /\ [Next]_vars => Snapshot'
  BY SnapshotStep
<1>3. Snapshot => SnapshotConsistency
  BY DEF Snapshot
<1> QED
  BY <1>1, <1>2, <1>3, SchedulingInvariant, PTL DEF Spec

------------------------------------------------------------------------------
(* Session records *)

\* After the drain the runner is between groups for good.
Sessions == SessionsConserved /\ (done => phase = 3)

\* An impression is counted once, in the open session or in its record.
LEMMA SessionsStep ==
  ASSUME TypeOK, Lockstep, Sessions, [Next]_vars
  PROVE  Sessions'
<1>1. CASE BeginGroup \/ EndPhase
  <2>1. /\ ~done /\ done' = done
        /\ UNCHANGED <<total, open, sessionId, records, recorded>>
    BY <1>1 DEF BeginGroup, EndPhase, countVars, sessionVars
  <2> QED
    BY <2>1 DEF Sessions, SessionsConserved
<1>2. CASE UNCHANGED vars
  <2>1. UNCHANGED <<done, phase, total, open, sessionId, records, recorded>>
    BY <1>2 DEF vars, timeVars, countVars, sessionVars
  <2> QED
    BY <2>1 DEF Sessions, SessionsConserved
<1>3. CASE Finish
  <2>1. /\ ~done /\ phase = 3 /\ phase' = 3
        /\ UNCHANGED <<total, sessionId>>
        /\ records' = [u \in Users |-> IF open[u] > 0 THEN records[u] + 1 ELSE records[u]]
        /\ recorded' = [u \in Users |-> recorded[u] + open[u]]
        /\ open' = [u \in Users |-> 0]
        /\ done' = TRUE
    BY <1>3 DEF Finish, countVars
  <2>2. ASSUME NEW u \in Users
        PROVE  /\ total'[u] = recorded'[u] + open'[u]
               /\ open'[u] = 0 /\ records'[u] \in {sessionId'[u], sessionId'[u] + 1}
    <3>1. /\ total[u] \in Nat /\ recorded[u] \in Nat /\ open[u] \in Nat
          /\ records[u] \in Nat /\ sessionId[u] \in Nat
      BY DEF TypeOK
    <3>2. total[u] = recorded[u] + open[u] /\ records[u] = sessionId[u]
      BY <2>1 DEF Sessions, SessionsConserved
    <3> QED
      BY <2>1, <3>1, <3>2
  <2> QED
    BY <2>1, <2>2 DEF Sessions, SessionsConserved
<1>4. CASE Dispatch
  <2>1. PICK e \in queue :
          \/ OpenApp(e) \/ RequestFeed(e) \/ Refetch(e) \/ ExitApp(e) \/ ExitAppChurn(e)
          \/ StartReelContinue(e) \/ StartReelExit(e)
    BY <1>4 DEF Dispatch
  <2>2. UNCHANGED <<done, phase>> /\ ~done
    <3>1. UNCHANGED <<done, phase>>
      BY <2>1 DEF OpenApp, RequestFeed, Refetch, StartReelContinue,
                  StartReelExit, ExitApp, ExitAppChurn, timeVars
    <3>2. \E type : EventProcessingPhase(type) = phase
      BY <2>1 DEF OpenApp, RequestFeed, Refetch, StartReelContinue,
                  StartReelExit, ExitApp, ExitAppChurn, Due
    <3>3. phase # 3
      BY <3>2 DEF EventProcessingPhase
    <3> QED
      BY <3>1, <3>3 DEF Sessions
  <2>3. CASE OpenApp(e) \/ RequestFeed(e) \/ Refetch(e) \/ ExitApp(e) \/ ExitAppChurn(e)
    <3>1. UNCHANGED <<total, open, sessionId, records, recorded>>
      BY <2>3 DEF OpenApp, RequestFeed, Refetch, ExitApp, ExitAppChurn, countVars,
                  sessionVars
    <3> QED
      BY <2>2, <3>1 DEF Sessions, SessionsConserved
  <2>4. CASE StartReelContinue(e) \/ StartReelExit(e)
    <3>1. e.user \in Users
      BY DEF TypeOK, Events
    <3>2. total' = [total EXCEPT ![e.user] = @ + 1]
      BY <2>4 DEF StartReelContinue, StartReelExit, Impression
    <3>3. ASSUME NEW v \in Users
          PROVE  total'[v] = recorded'[v] + open'[v] /\ records'[v] = sessionId'[v]
      <4>1. /\ total[v] \in Nat /\ recorded[v] \in Nat /\ open[v] \in Nat
            /\ records[v] \in Nat /\ sessionId[v] \in Nat
        BY DEF TypeOK
      <4>2. total[v] = recorded[v] + open[v] /\ records[v] = sessionId[v]
        BY <2>2 DEF Sessions, SessionsConserved
      <4>3. CASE v # e.user
        <5>1. /\ total'[v] = total[v] /\ recorded'[v] = recorded[v] /\ open'[v] = open[v]
              /\ records'[v] = records[v] /\ sessionId'[v] = sessionId[v]
          BY <2>4, <3>2, <4>3 DEF StartReelContinue, StartReelExit, CloseSession, TypeOK
        <5> QED
          BY <4>2, <5>1
      <4>4. CASE v = e.user /\ StartReelContinue(e)
        <5>1. /\ open' = [open EXCEPT ![v] = @ + 1]
              /\ UNCHANGED <<sessionId, records, recorded>>
          BY <4>4 DEF StartReelContinue
        <5>2. total'[v] = total[v] + 1 /\ open'[v] = open[v] + 1
          BY <3>2, <4>4, <5>1 DEF TypeOK
        <5> QED
          BY <4>1, <4>2, <5>1, <5>2
      <4>5. CASE v = e.user /\ StartReelExit(e)
        <5>1. /\ open' = [open EXCEPT ![v] = 0]
              /\ sessionId' = [sessionId EXCEPT ![v] = @ + 1]
              /\ records' = [records EXCEPT ![v] = @ + 1]
              /\ recorded' = [recorded EXCEPT ![v] = @ + open[v] + 1]
          BY <4>5 DEF StartReelExit, CloseSession
        <5>2. /\ total'[v] = total[v] + 1 /\ open'[v] = 0
              /\ sessionId'[v] = sessionId[v] + 1 /\ records'[v] = records[v] + 1
          BY <3>2, <4>5, <5>1 DEF TypeOK
        <5>3. recorded'[v] = recorded[v] + open[v] + 1
          BY <5>1 DEF TypeOK
        <5> QED
          BY <4>1, <4>2, <5>2, <5>3
      <4> QED
        BY <2>4, <4>3, <4>4, <4>5
    <3> QED
      BY <2>2, <3>3 DEF Sessions, SessionsConserved
  <2> QED
    BY <2>1, <2>3, <2>4
<1> QED
  BY <1>1, <1>2, <1>3, <1>4 DEF Next, Terminated

\* Every impression is in exactly one session record or in the open session,
\* and the drain at the end of the run leaves none open.
THEOREM SessionsConservedCorrect == Spec => []SessionsConserved
<1>1. Init => Sessions
  <2>1. Init => /\ ~done
                /\ \A u \in Users : total[u] = 0 /\ recorded[u] = 0 /\ open[u] = 0
                                    /\ records[u] = 0 /\ sessionId[u] = 0
    BY DEF Init
  <2> QED
    BY <2>1 DEF Sessions, SessionsConserved
<1>2. (TypeOK /\ Lockstep /\ Chain) /\ Sessions /\ [Next]_vars => Sessions'
  BY SessionsStep
<1>3. Sessions => SessionsConserved
  BY DEF Sessions
<1> QED
  BY <1>1, <1>2, <1>3, SchedulingInvariant, PTL DEF Spec
------------------------------------------------------------------------------
(* What a handler leaves its user waiting for *)

\* The events of the user of a handled event, when it was its only one, are
\* those the handler scheduled.
LEMMA AwaitedAfter ==
  ASSUME TypeOK, NEW e \in queue, NEW types \in Seq(EventTypes), NEW t \in Nat,
         Replace(e, types, t), \A f \in queue : f.user = e.user => f = e
  PROVE  /\ \A type : Awaiting(e.user, type)' <=>
              InHorizon(t) /\ \E k \in 1..Len(types) : types[k] = type
         /\ Pending(e.user)' # {} <=> InHorizon(t) /\ types # <<>>
<1>1. e.user \in Users
  BY DEF TypeOK, Events
<1>2. \A f \in queue' : f.user = e.user <=> f \in Scheduled(e.user, types, t)
  BY <1>1, ReplaceQueue, ScheduledFacts
<1>3. \A f \in Scheduled(e.user, types, t) :
        InHorizon(t) /\ \E k \in 1..Len(types) : f.type = types[k]
  BY <1>1, ScheduledFacts DEF Scheduled
<1>4. ASSUME InHorizon(t), NEW k \in 1..Len(types) PROVE Awaiting(e.user, types[k])'
  BY <1>4, ScheduledAwaited
<1>5. \A type : Awaiting(e.user, type)' <=>
        InHorizon(t) /\ \E k \in 1..Len(types) : types[k] = type
  BY <1>2, <1>3, <1>4, ReplaceQueue DEF Awaiting
<1>6. types # <<>> => \E k \in 1..Len(types) : TRUE
  OBVIOUS
<1>7. Pending(e.user)' # {} <=> \E type : Awaiting(e.user, type)'
  BY DEF Pending, Awaiting
<1>8. types = <<>> => ~(\E k \in 1..Len(types) : TRUE)
  OBVIOUS
<1> QED
  BY <1>5, <1>6, <1>7, <1>8

\* Nothing changes for the others.
LEMMA OthersAwait ==
  ASSUME TypeOK, NEW e \in queue, NEW types \in Seq(EventTypes), NEW t \in Nat,
         Replace(e, types, t), NEW v \in Users, v # e.user
  PROVE  /\ \A type : Awaiting(v, type)' <=> Awaiting(v, type)
         /\ Pending(v)' = Pending(v) /\ cut'[v] = cut[v]
         /\ ModeOf(v)' = ModeOf(v)
<1>1. \A f : f.user = v => (f \in queue' <=> f \in queue)
  BY ReplaceQueue
<1>2. \A type : Awaiting(v, type)' <=> Awaiting(v, type)
  BY <1>1 DEF Awaiting
<1>3. Pending(v)' = Pending(v)
  BY <1>1 DEF Pending
<1>4. cut'[v] = cut[v]
  BY DEF Replace, TypeOK
<1> QED
  BY <1>2, <1>3, <1>4 DEF ModeOf

\* What a handler schedules, and when: its user's whole future.
Hands(e, types, t) ==
  /\ types \in Seq(EventTypes) /\ t \in Nat /\ Replace(e, types, t)
  /\ \A f \in queue : f.user = e.user => f = e

\* The mode that follows from what is scheduled.
ModeWith(types, t) ==
  IF ~InHorizon(t) \/ types = <<>> THEN "stopped"
  ELSE IF \E k \in 1..Len(types) : types[k] = "StartReel" THEN "watching"
  ELSE IF \E k \in 1..Len(types) : types[k] = "RequestFeed" THEN "waiting"
  ELSE IF \E k \in 1..Len(types) : types[k] = "ExitApp" THEN "leaving"
  ELSE "away"

\* The mode of a user after its only event was handled.
LEMMA ModeAfter ==
  ASSUME TypeOK, NEW e \in queue, NEW types, NEW t, Hands(e, types, t)
  PROVE  ModeOf(e.user)' = ModeWith(types, t)
<1>1. /\ \A type : Awaiting(e.user, type)' <=>
             InHorizon(t) /\ \E k \in 1..Len(types) : types[k] = type
      /\ Pending(e.user)' # {} <=> InHorizon(t) /\ types # <<>>
  BY AwaitedAfter DEF Hands
<1>2. types = <<>> => \A k \in 1..Len(types) : FALSE
  OBVIOUS
<1> QED
  BY <1>1, <1>2 DEF ModeOf, ModeWith

\* Before its only event is handled a user's mode is that event's.
LEMMA ModeBefore ==
  ASSUME NEW e \in queue, \A f \in queue : f.user = e.user => f = e,
         e.type \in EventTypes
  PROVE  ModeOf(e.user) = CASE e.type = "StartReel" -> "watching"
                            [] e.type = "RequestFeed" -> "waiting"
                            [] e.type = "ExitApp" -> "leaving"
                            [] OTHER -> "away"
<1>1. \A type : Awaiting(e.user, type) <=> type = e.type
  BY DEF Awaiting
<1>2. Pending(e.user) # {}
  BY DEF Pending
<1> QED
  BY <1>1, <1>2 DEF ModeOf

\* An arrival, its user's only event, asks for a feed at once.
LEMMA OpenAppHands ==
  ASSUME TypeOK, Chain, NEW e \in queue, OpenApp(e)
  PROVE  Hands(e, <<"RequestFeed">>, now) /\ ModeOf(e.user) = "away" /\ e.time = now
<1>1. PICK type \in {"OpenApp", "ReturnToApp"} : Due(e, type)
  BY DEF OpenApp
<1>2. e.type = type /\ e.time = now /\ now \in Nat /\ e.type \in EventTypes
  BY <1>1 DEF Due, TypeOK, Events
<1>3. \A f \in queue : f.user = e.user => f = e
  BY <1>1, OnlyEvent
<1>4. <<"RequestFeed">> \in Seq(EventTypes)
  BY DEF EventTypes
<1>5. ModeOf(e.user) = "away"
  BY <1>2, <1>3, ModeBefore
<1> QED
  BY <1>2, <1>3, <1>4, <1>5 DEF OpenApp, Hands

\* An invalidation asks again a while later.
LEMMA RefetchHands ==
  ASSUME TypeOK, Chain, NEW e \in queue, Refetch(e)
  PROVE  /\ Hands(e, <<"RequestFeed">>, now + RefetchDelay)
         /\ ModeOf(e.user) = "watching"
<1>1. Due(e, "StartReel")
  BY DEF Refetch
<1>2. e.type = "StartReel" /\ now \in Nat /\ e.type \in EventTypes
  BY <1>1 DEF Due, TypeOK, Events
<1>3. \A f \in queue : f.user = e.user => f = e
  BY <1>1, OnlyEvent
<1>4. feed[e.user] # <<>> /\ ~outstanding[e.user]
  BY <1>1, StartReelFinds
<1>5. Replace(e, <<"RequestFeed">>, now + RefetchDelay)
  BY <1>4 DEF Refetch, RefetchTime
<1>6. <<"RequestFeed">> \in Seq(EventTypes) /\ now + RefetchDelay \in Nat
  BY <1>2, TimeAssumption DEF EventTypes
<1> QED
  BY <1>2, <1>3, <1>5, <1>6, ModeBefore DEF Hands

\* After an impression of a session that goes on a refill is asked for, or
\* something is left to watch, or both: never neither.
LEMMA ContinueHands ==
  ASSUME TypeOK, Chain, NEW e \in queue, StartReelContinue(e)
  PROVE  /\ ModeOf(e.user) = "watching"
         /\ \E types, t :
              /\ Hands(e, types, t) /\ types # <<>>
              /\ \A k \in 1..Len(types) : types[k] \in {"RequestFeed", "StartReel"}
              /\ (\E k \in 1..Len(types) : types[k] = "RequestFeed")
                   => Len(feed[e.user]) - 1 <= RefillThreshold
<1> DEFINE u == e.user
           refill == ServingShouldRefill(Len(feed[u]) - 1, outstanding[u])
           more == Len(feed[u]) - 1 > 0
           types == (IF refill THEN <<"RequestFeed">> ELSE <<>>)
                      \o (IF more THEN <<"StartReel">> ELSE <<>>)
<1>1. Due(e, "StartReel")
  BY DEF StartReelContinue
<1>2. u \in Users /\ now \in Nat /\ e.type = "StartReel" /\ e.type \in EventTypes
  BY <1>1 DEF Due, TypeOK, Events
<1>3. \A f \in queue : f.user = e.user => f = e
  BY <1>1, OnlyEvent
<1>4. feed[u] # <<>> /\ ~outstanding[u]
  BY <1>1, StartReelFinds
<1>5. PICK watch \in WatchTimes : Replace(e, types, now + watch + BrowseOverhead)
  BY DEF StartReelContinue
<1>6. now + watch + BrowseOverhead \in Nat
  BY <1>2, TimeAssumption
<1>7. refill => Len(feed[u]) - 1 <= RefillThreshold
  BY DEF ServingShouldRefill
<1>8. refill \/ more
  <2>1. Len(feed[u]) \in Nat
    BY <1>2, LenProperties DEF TypeOK
  <2> DEFINE n == Len(feed[u])
  <2>2. n \in Nat /\ (~(n - 1 > 0) => n - 1 <= RefillThreshold)
    <3> HIDE DEF n
    <3>1. n \in Nat
      BY <2>1 DEF n
    <3> QED
      BY <3>1, ServingAssumption
  <2> QED
    BY <1>4, <2>2 DEF ServingShouldRefill
<1>r. refill \in BOOLEAN /\ more \in BOOLEAN
  BY DEF ServingShouldRefill
<1> HIDE DEF refill, more
<1>9. /\ types \in Seq(EventTypes) /\ types # <<>>
      /\ \A k \in 1..Len(types) : types[k] \in {"RequestFeed", "StartReel"}
      /\ (\E k \in 1..Len(types) : types[k] = "RequestFeed") => refill
  <2> DEFINE pair == <<"RequestFeed", "StartReel">>
  <2>1. CASE refill /\ more
    <3>1. types = pair
      BY <2>1, PairSeq
    <3>2. /\ pair \in Seq(EventTypes) /\ Len(pair) = 2
          /\ pair[1] = "RequestFeed" /\ pair[2] = "StartReel"
      BY DEF EventTypes
    <3> HIDE DEF types, pair
    <3>3. \A k \in 1..Len(types) : k = 1 \/ k = 2
      BY <3>1, <3>2
    <3>4. types # <<>>
      BY <3>1, <3>2
    <3> QED
      BY <2>1, <3>1, <3>2, <3>3, <3>4
  <2>2. CASE refill /\ ~more
    <3>1. types = <<"RequestFeed">>
      BY <2>2
    <3> HIDE DEF types
    <3> QED
      BY <2>2, <3>1 DEF EventTypes
  <2>3. CASE ~refill /\ more
    <3>1. types = <<"StartReel">>
      BY <2>3
    <3> HIDE DEF types
    <3> QED
      BY <2>3, <3>1 DEF EventTypes
  <2> QED
    BY <1>8, <1>r, <2>1, <2>2, <2>3
<1> HIDE DEF types
<1>10. Hands(e, types, now + watch + BrowseOverhead)
  BY <1>3, <1>5, <1>6, <1>9 DEF Hands
<1> QED
  BY <1>2, <1>3, <1>7, <1>9, <1>10, ModeBefore

\* The three ways out of watching and of the app.
LEMMA ExitsHand ==
  ASSUME TypeOK, Chain, NEW e \in queue
  PROVE  /\ StartReelExit(e) => /\ ModeOf(e.user) = "watching"
                                /\ \E t : Hands(e, <<"ExitApp">>, t)
         /\ ExitApp(e) => /\ ModeOf(e.user) = "leaving"
                          /\ \E t : Hands(e, <<"ReturnToApp">>, t)
         /\ ExitAppChurn(e) => ModeOf(e.user) = "leaving" /\ Hands(e, <<>>, now)
<1>1. \A n \in Nat : (\A w \in WatchTimes : n + w \in Nat) /\ (\A d \in ReturnDelays : n + d \in Nat)
  BY TimeAssumption
<1>2. /\ <<"ExitApp">> \in Seq(EventTypes) /\ <<"ReturnToApp">> \in Seq(EventTypes)
      /\ <<>> \in Seq(EventTypes)
  BY DEF EventTypes
<1>3. ASSUME NEW type \in {"StartReel", "ExitApp"}, Due(e, type)
      PROVE  /\ now \in Nat /\ \A f \in queue : f.user = e.user => f = e
             /\ ModeOf(e.user) = IF type = "StartReel" THEN "watching" ELSE "leaving"
  <2>1. e.type = type /\ now \in Nat /\ e.type \in EventTypes
    BY <1>3 DEF Due, TypeOK, Events
  <2>2. \A f \in queue : f.user = e.user => f = e
    BY <1>3, OnlyEvent
  <2> QED
    BY <2>1, <2>2, ModeBefore
<1>4. ASSUME StartReelExit(e)
      PROVE  ModeOf(e.user) = "watching" /\ \E t : Hands(e, <<"ExitApp">>, t)
  BY <1>1, <1>2, <1>3, <1>4 DEF StartReelExit, Hands
<1>5. ASSUME ExitApp(e)
      PROVE  ModeOf(e.user) = "leaving" /\ \E t : Hands(e, <<"ReturnToApp">>, t)
  BY <1>1, <1>2, <1>3, <1>5 DEF ExitApp, Hands
<1>6. ASSUME ExitAppChurn(e) PROVE ModeOf(e.user) = "leaving" /\ Hands(e, <<>>, now)
  BY <1>2, <1>3, <1>6 DEF ExitAppChurn, Hands
<1> QED
  BY <1>4, <1>5, <1>6

\* A request that finds reels of an earlier one rides beside the StartReel
\* that consumes them; otherwise it is its user's only event.
LEMMA RequestHands ==
  ASSUME TypeOK, Chain, NEW e \in queue, RequestFeed(e)
  PROVE  \E r \in Responses(e.user) :
           /\ feed' = [feed EXCEPT ![e.user] = @ \o r]
           /\ stamps' = [stamps EXCEPT ![e.user] = @ \o [i \in 1..Len(r) |->
                [requestTime |-> now, rankApply |-> applyCount[e.user], readAt |-> writes]]]
           /\ \/ /\ feed[e.user] # <<>> /\ Replace(e, <<>>, now)
                 /\ ModeOf(e.user) = "watching" /\ ModeOf(e.user)' = "watching"
                 /\ Pending(e.user)' # {} /\ ~Awaiting(e.user, "RequestFeed")'
              \/ /\ feed[e.user] = <<>> /\ ModeOf(e.user) = "waiting"
                 /\ Hands(e, IF r # <<>> THEN <<"StartReel">> ELSE <<>>, now)
                 /\ r = <<>> => starved'[e.user]
<1> DEFINE u == e.user
<1>1. Due(e, "RequestFeed")
  BY DEF RequestFeed
<1>2. u \in Users /\ now \in Nat /\ e.type = "RequestFeed" /\ e.type \in EventTypes
  BY <1>1 DEF Due, TypeOK, Events
<1>3. PICK r \in Responses(u) :
        /\ feed' = [feed EXCEPT ![u] = @ \o r]
        /\ stamps' = [stamps EXCEPT ![u] = @ \o [i \in 1..Len(r) |->
             [requestTime |-> now, rankApply |-> applyCount[u], readAt |-> writes]]]
        /\ Replace(e, IF feed[u] = <<>> /\ r # <<>> THEN <<"StartReel">> ELSE <<>>, now)
        /\ starved' = [starved EXCEPT ![u] = feed[u] = <<>> /\ r = <<>>]
  BY DEF RequestFeed, OpensChain
<1>4. \A f \in queue : f.user = u /\ f # e => f.type = "StartReel"
  BY <1>2 DEF Chain, OneChain
<1>5. <<>> \in Seq(EventTypes) /\ <<"StartReel">> \in Seq(EventTypes)
  BY DEF EventTypes
<1>6. CASE feed[u] # <<>>
  <2>1. PICK f \in queue : f.user = u /\ f.type = "StartReel"
    BY <1>2, <1>6 DEF Chain, ChainMatchesState, EventMatches, Awaiting
  <2>2. Replace(e, <<>>, now)
    BY <1>3, <1>6
  <2>3. f # e
    BY <1>2, <2>1
  <2>4. queue' = queue \ {e}
    <3>1. Scheduled(u, <<>>, now) = {}
      BY DEF Scheduled
    <3> QED
      BY <2>2, <3>1 DEF Replace
  <2>5. f \in queue'
    BY <2>3, <2>4
  <2>6. ~Awaiting(u, "RequestFeed")'
    BY <1>4, <2>4 DEF Awaiting
  <2>7. Pending(u)' # {}
    BY <2>1, <2>5 DEF Pending
  <2>8. ModeOf(u) = "watching"
    BY <2>1 DEF ModeOf, Awaiting
  <2>9. ModeOf(u)' = "watching"
    BY <2>1, <2>5 DEF ModeOf, Awaiting
  <2> QED
    BY <1>3, <1>6, <2>2, <2>6, <2>7, <2>8, <2>9
<1>7. CASE feed[u] = <<>>
  <2>1. \A f \in queue : f.user = u => f = e
    BY <1>4, <1>7 DEF Chain, ChainMatchesState, EventMatches
  <2>2. Replace(e, IF r # <<>> THEN <<"StartReel">> ELSE <<>>, now)
    BY <1>3, <1>7
  <2>3. Hands(e, IF r # <<>> THEN <<"StartReel">> ELSE <<>>, now)
    BY <1>2, <1>5, <2>1, <2>2 DEF Hands
  <2>4. ModeOf(u) = "waiting"
    BY <1>2, <2>1, ModeBefore
  <2>5. r = <<>> => starved'[u]
    BY <1>2, <1>3, <1>7 DEF TypeOK
  <2> QED
    BY <1>3, <1>7, <2>3, <2>4, <2>5
<1> QED
  BY <1>6, <1>7

\* A handler that schedules something leaves its user pending or cut.
LEMMA HandsKeep ==
  ASSUME TypeOK, NEW e \in queue, NEW types, NEW t, Hands(e, types, t), types # <<>>
  PROVE  Pending(e.user)' # {} \/ cut'[e.user]
<1>1. e.user \in Users
  BY DEF TypeOK, Events
<1>2. InHorizon(t) => Pending(e.user)' # {}
  BY AwaitedAfter DEF Hands
<1>3. ~InHorizon(t) => cut'[e.user]
  BY <1>1 DEF Hands, Replace, TypeOK
<1> QED
  BY <1>2, <1>3

\* What every handler does to the queue, whatever it schedules.
LEMMA DispatchReplaces ==
  ASSUME TypeOK, Chain, NEW e \in queue,
         \/ OpenApp(e) \/ RequestFeed(e) \/ Refetch(e) \/ StartReelContinue(e)
         \/ StartReelExit(e) \/ ExitApp(e) \/ ExitAppChurn(e)
  PROVE  \E types, t : types \in Seq(EventTypes) /\ t \in Nat /\ Replace(e, types, t)
<1>1. CASE RequestFeed(e)
  <2>1. now \in Nat /\ <<>> \in Seq(EventTypes)
    BY <1>1 DEF RequestFeed, Due, TypeOK, Events
  <2> QED
    BY <1>1, <2>1, RequestHands DEF Hands
<1>2. CASE StartReelContinue(e)
  BY <1>2, ContinueHands DEF Hands
<1>3. CASE OpenApp(e) \/ Refetch(e)
  BY <1>3, OpenAppHands, RefetchHands DEF Hands
<1>4. CASE StartReelExit(e) \/ ExitApp(e) \/ ExitAppChurn(e)
  BY <1>4, ExitsHand DEF Hands
<1> QED
  BY <1>1, <1>2, <1>3, <1>4

\* No handler forgets its user, and none touches another.
LEMMA NoLostUserStep ==
  ASSUME TypeOK, Chain, NoLostUser, [Next]_vars PROVE NoLostUser'
<1>1. CASE BeginGroup \/ EndPhase \/ Finish \/ UNCHANGED vars
  <2>1. UNCHANGED <<queue, churned, cut, starved>>
    BY <1>1 DEF BeginGroup, EndPhase, Finish, vars, queueVars
  <2> QED
    BY <2>1 DEF NoLostUser, Pending
<1>2. ASSUME NEW e \in queue,
             \/ OpenApp(e) \/ RequestFeed(e) \/ Refetch(e) \/ StartReelContinue(e)
             \/ StartReelExit(e) \/ ExitApp(e) \/ ExitAppChurn(e)
      PROVE  NoLostUser'
  <2>1. e.user \in Users
    BY DEF TypeOK, Events
  <2>2. PICK types, t : types \in Seq(EventTypes) /\ t \in Nat /\ Replace(e, types, t)
    BY <1>2, DispatchReplaces
  <2>3. \A v \in Users : v # e.user => churned'[v] = churned[v] /\ starved'[v] = starved[v]
    <3>1. starved' = starved \/ \E x : starved' = [starved EXCEPT ![e.user] = x]
      BY <1>2 DEF OpenApp, RequestFeed, Refetch, StartReelContinue, StartReelExit, ExitApp,
                  ExitAppChurn
    <3>2. churned' = churned \/ churned' = [churned EXCEPT ![e.user] = TRUE]
      BY <1>2 DEF OpenApp, RequestFeed, Refetch, StartReelContinue, StartReelExit, ExitApp,
                  ExitAppChurn
    <3> QED
      BY <3>1, <3>2 DEF TypeOK
  <2>4. \A v \in Users : v # e.user => Pending(v)' = Pending(v) /\ cut'[v] = cut[v]
    BY <2>2, OthersAwait
  <2>5. Pending(e.user)' = {} => churned'[e.user] \/ cut'[e.user] \/ starved'[e.user]
    <3>1. CASE RequestFeed(e)
      <4>1. <<"StartReel">> # <<>>
        OBVIOUS
      <4> QED
        BY <3>1, <4>1, RequestHands, HandsKeep
    <3>2. CASE StartReelContinue(e)
      BY <3>2, ContinueHands, HandsKeep
    <3>3. CASE OpenApp(e) \/ Refetch(e)
      <4>1. <<"RequestFeed">> # <<>>
        OBVIOUS
      <4> QED
        BY <3>3, <4>1, OpenAppHands, RefetchHands, HandsKeep
    <3>4. CASE StartReelExit(e) \/ ExitApp(e)
      <4>1. <<"ExitApp">> # <<>> /\ <<"ReturnToApp">> # <<>>
        OBVIOUS
      <4> QED
        BY <3>4, <4>1, ExitsHand, HandsKeep
    <3>5. CASE ExitAppChurn(e)
      BY <2>1, <3>5 DEF ExitAppChurn, TypeOK
    <3> QED
      BY <1>2, <3>1, <3>2, <3>3, <3>4, <3>5
  <2> QED
    BY <2>3, <2>4, <2>5 DEF NoLostUser
<1> QED
  BY <1>1, <1>2 DEF Next, Dispatch, Terminated

\* No lost wake-up: a user without a pending event has left, was cut by the
\* horizon, or was answered with nothing while holding nothing.
THEOREM NoLostUserCorrect == Spec => []NoLostUser
<1>1. Init => NoLostUser
  <2> SUFFICES ASSUME Init PROVE NoLostUser
    OBVIOUS
  <2>1. PICK t \in [Users -> OpenTimes] :
          /\ queue = {[time |-> t[u], user |-> u, type |-> "OpenApp", seq |-> 0] :
                        u \in {v \in Users : InHorizon(t[v])}}
          /\ cut = [u \in Users |-> ~InHorizon(t[u])]
    BY DEF Init
  <2>2. ASSUME NEW u \in Users, InHorizon(t[u]) PROVE Pending(u) # {}
    <3>1. [time |-> t[u], user |-> u, type |-> "OpenApp", seq |-> 0] \in queue
      BY <2>1, <2>2
    <3> QED
      BY <3>1 DEF Pending
  <2> QED
    BY <2>1, <2>2 DEF NoLostUser
<1>2. (TypeOK /\ Lockstep /\ Chain) /\ NoLostUser /\ [Next]_vars => NoLostUser'
  BY NoLostUserStep
<1> QED
  BY <1>1, <1>2, SchedulingInvariant, PTL DEF Spec
------------------------------------------------------------------------------
(* The runner implements the lifecycle *)

\* Nothing beyond the horizon is ever queued.
WithinHorizon == \A e \in queue : e.time <= Horizon

\* What lies beyond the horizon is dropped when it is scheduled.
LEMMA HorizonStep ==
  ASSUME TypeOK, Chain, WithinHorizon, [Next]_vars PROVE WithinHorizon'
<1>1. CASE BeginGroup \/ EndPhase \/ Finish \/ UNCHANGED vars
  <2>1. UNCHANGED queue
    BY <1>1 DEF BeginGroup, EndPhase, Finish, vars, queueVars
  <2> QED
    BY <2>1 DEF WithinHorizon
<1>2. ASSUME NEW e \in queue,
             \/ OpenApp(e) \/ RequestFeed(e) \/ Refetch(e) \/ StartReelContinue(e)
             \/ StartReelExit(e) \/ ExitApp(e) \/ ExitAppChurn(e)
      PROVE  WithinHorizon'
  <2>1. PICK types, t : types \in Seq(EventTypes) /\ t \in Nat /\ Replace(e, types, t)
    BY <1>2, DispatchReplaces
  <2>2. \A f \in Scheduled(e.user, types, t) : f.time = t /\ t <= Horizon
    BY DEF Scheduled, InHorizon
  <2> QED
    BY <2>1, <2>2, ReplaceQueue DEF WithinHorizon
<1> QED
  BY <1>1, <1>2 DEF Next, Dispatch, Terminated

\* The user of a handled event moves to the mode of what was scheduled, the
\* others stay in theirs.
LEMMA ModesMove ==
  ASSUME TypeOK, NEW e \in queue, NEW types, NEW t, Hands(e, types, t)
  PROVE  [u \in Users |-> ModeOf(u)]' =
           [[u \in Users |-> ModeOf(u)] EXCEPT ![e.user] = ModeWith(types, t)]
<1>1. e.user \in Users
  BY DEF TypeOK, Events
<1>2. ModeOf(e.user)' = ModeWith(types, t)
  BY ModeAfter
<1>3. \A v \in Users : v # e.user => ModeOf(v)' = ModeOf(v)
  BY OthersAwait DEF Hands
<1> QED
  BY <1>1, <1>2, <1>3

\* Who is in a session follows the counts of its impressions.
LEMMA SessionsMove ==
  ASSUME NEW u \in Users, NEW b \in BOOLEAN,
         \A v \in Users : (open'[v] > 0) = IF v = u THEN b ELSE open[v] > 0
  PROVE  [v \in Users |-> open[v] > 0]' = [[v \in Users |-> open[v] > 0] EXCEPT ![u] = b]
<1> DEFINE p == [v \in Users |-> open[v] > 0]
           q == [v \in Users |-> open'[v] > 0]
           r == [p EXCEPT ![u] = b]
<1>1. \A v \in Users : q[v] = r[v]
  <2> TAKE v \in Users
  <2>1. q[v] = (open'[v] > 0) /\ p[v] = (open[v] > 0) /\ r[v] = IF v = u THEN b ELSE p[v]
    BY Zenon
  <2> QED
    BY <2>1, Zenon
<1>2. q = [v \in Users |-> q[v]] /\ r = [v \in Users |-> r[v]]
  BY Zenon
<1> HIDE DEF q, r
<1>3. q = r
  BY <1>1, <1>2, Zenon
<1> QED
  BY <1>3 DEF q, r

\* Every handler is one move of its user, or none when a refill lands beside
\* the reel being watched.
LEMMA LifecycleDispatch ==
  ASSUME TypeOK, Lockstep, Chain, WithinHorizon, NEW e \in queue,
         \/ OpenApp(e) \/ RequestFeed(e) \/ Refetch(e) \/ StartReelContinue(e)
         \/ StartReelExit(e) \/ ExitApp(e) \/ ExitAppChurn(e)
  PROVE  [Lifecycle!Next]_(Lifecycle!vars)
<1> DEFINE u == e.user
           mode == [v \in Users |-> ModeOf(v)]
           inSession == [v \in Users |-> open[v] > 0]
<1>1. u \in Users
  BY DEF TypeOK, Events
<1>2. mode[u] = ModeOf(u)
  BY <1>1
<1>3. ASSUME NEW types, NEW t, Hands(e, types, t)
      PROVE  mode' = [mode EXCEPT ![u] = ModeWith(types, t)]
  BY <1>3, ModesMove
<1>4. UNCHANGED open => UNCHANGED inSession
  OBVIOUS
<1>w. \A x : /\ Len(<<x>>) = 1 /\ <<x>>[1] = x /\ <<x>> # <<>>
  OBVIOUS
<1>x. /\ \A t : ModeWith(<<"RequestFeed">>, t) = IF InHorizon(t) THEN "waiting" ELSE "stopped"
      /\ \A t : ModeWith(<<"StartReel">>, t) = IF InHorizon(t) THEN "watching" ELSE "stopped"
      /\ \A t : ModeWith(<<"ExitApp">>, t) = IF InHorizon(t) THEN "leaving" ELSE "stopped"
      /\ \A t : ModeWith(<<"ReturnToApp">>, t) = IF InHorizon(t) THEN "away" ELSE "stopped"
      /\ \A t : ModeWith(<<>>, t) = "stopped"
  BY <1>w DEF ModeWith
<1> HIDE DEF mode, inSession
<1>5. CASE OpenApp(e)
  <2>1. Hands(e, <<"RequestFeed">>, now) /\ ModeOf(u) = "away" /\ InHorizon(now)
    BY <1>5, OpenAppHands DEF WithinHorizon, InHorizon
  <2>2. mode' = [mode EXCEPT ![u] = "waiting"] /\ UNCHANGED inSession
    BY <1>3, <1>4, <1>5, <1>x, <2>1 DEF OpenApp, sessionVars
  <2> QED
    BY <1>1, <1>2, <2>1, <2>2 DEF Lifecycle!Next, Lifecycle!Open, Lifecycle!Move, mode, inSession
<1>6. CASE RequestFeed(e)
  <2>0. UNCHANGED inSession
    BY <1>4, <1>6 DEF RequestFeed, sessionVars
  <2>1. CASE /\ Replace(e, <<>>, now)
             /\ ModeOf(u) = "watching" /\ ModeOf(u)' = "watching"
    <3>1. now \in Nat /\ <<>> \in Seq(EventTypes)
      BY <1>6 DEF RequestFeed, Due, TypeOK, Events
    <3>2. \A v \in Users : ModeOf(v)' = ModeOf(v)
      BY <2>1, <3>1, OthersAwait
    <3>3. UNCHANGED mode
      BY <3>2 DEF mode
    <3> QED
      BY <2>0, <3>3 DEF Lifecycle!vars, mode, inSession
  <2>2. CASE \E types \in {<<"StartReel">>, <<>>} :
               ModeOf(u) = "waiting" /\ Hands(e, types, now)
    <3>1. \E m \in {"watching", "stopped"} : mode' = [mode EXCEPT ![u] = m]
      BY <1>3, <1>x, <2>2
    <3> QED
      BY <1>1, <1>2, <2>0, <2>2, <3>1
         DEF Lifecycle!Next, Lifecycle!Land, Lifecycle!Move, mode, inSession
  <2> QED
    BY <1>6, <2>1, <2>2, RequestHands
<1>7. CASE Refetch(e)
  <2>1. Hands(e, <<"RequestFeed">>, now + RefetchDelay) /\ ModeOf(u) = "watching"
    BY <1>7, RefetchHands
  <2>2. \E m \in {"waiting", "stopped"} : mode' = [mode EXCEPT ![u] = m]
    BY <1>3, <1>x, <2>1
  <2>3. UNCHANGED inSession
    BY <1>4, <1>7 DEF Refetch, sessionVars
  <2> QED
    BY <1>1, <1>2, <2>1, <2>2, <2>3
       DEF Lifecycle!Next, Lifecycle!Drop, Lifecycle!Move, mode, inSession
<1>8. CASE StartReelContinue(e)
  <2>1. PICK types, t :
          /\ Hands(e, types, t) /\ types # <<>>
          /\ \A k \in 1..Len(types) : types[k] \in {"RequestFeed", "StartReel"}
    BY <1>8, ContinueHands
  <2>2. \E m \in {"watching", "waiting", "stopped"} : mode' = [mode EXCEPT ![u] = m]
    <3>1. types \in Seq(EventTypes)
      BY <2>1 DEF Hands
    <3>2. 1 \in 1..Len(types)
      BY <2>1, <3>1
    <3>3. ModeWith(types, t) \in {"watching", "waiting", "stopped"}
      BY <2>1, <3>2 DEF ModeWith
    <3> QED
      BY <1>3, <2>1, <3>3
  <2>3. inSession' = [inSession EXCEPT ![u] = TRUE]
    <3>1. open' = [open EXCEPT ![u] = @ + 1] /\ open \in [Users -> Nat]
      BY <1>8 DEF StartReelContinue, TypeOK
    <3>2. ASSUME NEW v \in Users PROVE (open'[v] > 0) = IF v = u THEN TRUE ELSE open[v] > 0
      <4>1. CASE v = u
        <5>1. open'[v] = open[v] + 1 /\ open[v] \in Nat
          BY <3>1, <4>1
        <5>2. (open'[v] > 0) = TRUE
          BY <5>1
        <5> QED
          BY <4>1, <5>2, Zenon
      <4>2. CASE v # u
        <5>1. open'[v] = open[v]
          BY <3>1, <4>2
        <5> QED
          BY <4>2, <5>1, Zenon
      <4> QED
        BY <4>1, <4>2, Zenon
    <3> QED
      BY <1>1, <3>2, SessionsMove DEF inSession
  <2>4. ModeOf(u) = "watching"
    BY <1>8, ContinueHands
  <2> QED
    BY <1>1, <1>2, <2>2, <2>3, <2>4
       DEF Lifecycle!Next, Lifecycle!Watch, Lifecycle!Move, mode, inSession
<1>9. CASE StartReelExit(e)
  <2>1. PICK t : Hands(e, <<"ExitApp">>, t)
    BY <1>9, ExitsHand
  <2>2. ModeOf(u) = "watching"
    BY <1>9, ExitsHand
  <2>3. \E m \in {"leaving", "stopped"} : mode' = [mode EXCEPT ![u] = m]
    BY <1>3, <1>x, <2>1
  <2>4. inSession' = [inSession EXCEPT ![u] = FALSE]
    <3>1. open' = [open EXCEPT ![u] = 0] /\ open \in [Users -> Nat]
      BY <1>9 DEF StartReelExit, CloseSession, TypeOK
    <3>2. ASSUME NEW v \in Users PROVE (open'[v] > 0) = IF v = u THEN FALSE ELSE open[v] > 0
      <4>1. CASE v = u
        <5>1. open'[v] = 0 /\ open[v] \in Nat
          BY <3>1, <4>1
        <5>2. (open'[v] > 0) = FALSE
          BY <5>1
        <5> QED
          BY <4>1, <5>2, Zenon
      <4>2. CASE v # u
        <5>1. open'[v] = open[v]
          BY <3>1, <4>2
        <5> QED
          BY <4>2, <5>1, Zenon
      <4> QED
        BY <4>1, <4>2, Zenon
    <3> QED
      BY <1>1, <3>2, SessionsMove DEF inSession
  <2> QED
    BY <1>1, <1>2, <2>2, <2>3, <2>4
       DEF Lifecycle!Next, Lifecycle!Exit, Lifecycle!Move, mode, inSession
<1>10. CASE ExitApp(e) \/ ExitAppChurn(e)
  <2>1. ModeOf(u) = "leaving" /\ UNCHANGED inSession
    BY <1>4, <1>10, ExitsHand DEF ExitApp, ExitAppChurn, sessionVars
  <2>2. \E types \in {<<"ReturnToApp">>, <<>>} : \E t : Hands(e, types, t)
    BY <1>10, ExitsHand
  <2>3. \E m \in {"away", "stopped"} : mode' = [mode EXCEPT ![u] = m]
    BY <1>3, <1>x, <2>2
  <2> QED
    BY <1>1, <1>2, <2>1, <2>3
       DEF Lifecycle!Next, Lifecycle!Leave, Lifecycle!Move, mode, inSession
<1> QED
  BY <1>5, <1>6, <1>7, <1>8, <1>9, <1>10

\* The run ends with an empty queue: everyone has stopped.
LEMMA LifecycleFinish ==
  ASSUME TypeOK, WithinHorizon, Finish PROVE [Lifecycle!Next]_(Lifecycle!vars)
<1>1. \A e \in queue : e.time > Horizon /\ e.time <= Horizon /\ e.time \in Int
  BY DEF Finish, LoopOver, WithinHorizon, TypeOK, Events
<1>2. queue = {}
  BY <1>1, TimeAssumption
<1>3. UNCHANGED queue /\ open' = [u \in Users |-> 0]
  BY DEF Finish, queueVars
<1>4. \A u \in Users : ModeOf(u) = "stopped" /\ ModeOf(u)' = "stopped"
  BY <1>2, <1>3 DEF ModeOf, Awaiting, Pending
<1>5. [u \in Users |-> open[u] > 0]' = [u \in Users |-> FALSE]
  <2>1. \A u \in Users : (open'[u] > 0) = FALSE
    BY <1>3
  <2> QED
    BY <2>1, Zenon
<1>6. UNCHANGED [u \in Users |-> ModeOf(u)]
  BY <1>4
<1> QED
  BY <1>4, <1>5, <1>6 DEF Lifecycle!Next, Lifecycle!Finish

\* Refinement: whatever the queue, the clock and the feeds do, each user only
\* ever moves as the lifecycle lets it.
THEOREM ImplementsLifecycle == Spec => RefinesLifecycle
<1>1. Init => Lifecycle!Init /\ WithinHorizon
  <2> SUFFICES ASSUME Init PROVE Lifecycle!Init /\ WithinHorizon
    OBVIOUS
  <2>1. PICK t \in [Users -> OpenTimes] :
          queue = {[time |-> t[u], user |-> u, type |-> "OpenApp", seq |-> 0] :
                     u \in {v \in Users : InHorizon(t[v])}}
    BY DEF Init
  <2>2. WithinHorizon /\ \A e \in queue : e.type = "OpenApp"
    BY <2>1 DEF WithinHorizon, InHorizon
  <2>3. \A u \in Users : ModeOf(u) \in {"away", "stopped"}
    BY <2>2 DEF ModeOf, Awaiting, Pending
  <2>4. [u \in Users |-> open[u] > 0] = [u \in Users |-> FALSE]
    <3>1. \A u \in Users : (open[u] > 0) = FALSE
      BY DEF Init
    <3> QED
      BY <3>1, Zenon
  <2> QED
    BY <2>2, <2>3, <2>4 DEF Lifecycle!Init
<1>2. TypeOK /\ Lockstep /\ Chain /\ WithinHorizon /\ [Next]_vars => WithinHorizon'
  BY HorizonStep
<1>3. TypeOK /\ Lockstep /\ Chain /\ WithinHorizon /\ [Next]_vars
        => [Lifecycle!Next]_(Lifecycle!vars)
  <2> SUFFICES ASSUME TypeOK, Lockstep, Chain, WithinHorizon, [Next]_vars
               PROVE  [Lifecycle!Next]_(Lifecycle!vars)
    OBVIOUS
  <2>1. CASE BeginGroup \/ EndPhase \/ UNCHANGED vars
    <3>1. UNCHANGED <<queue, open>>
      BY <2>1 DEF BeginGroup, EndPhase, vars, queueVars, sessionVars
    <3>2. \A u : ModeOf(u)' = ModeOf(u)
      BY <3>1 DEF ModeOf, Awaiting, Pending
    <3> QED
      BY <3>1, <3>2 DEF Lifecycle!vars
  <2>2. CASE Finish
    BY <2>2, LifecycleFinish
  <2>3. CASE Dispatch
    BY <2>3, LifecycleDispatch DEF Dispatch
  <2> QED
    BY <2>1, <2>2, <2>3 DEF Next, Terminated
<1> QED
  BY <1>1, <1>2, <1>3, SchedulingInvariant, PTL DEF Spec, RefinesLifecycle, Lifecycle!Spec
------------------------------------------------------------------------------
(* The client cache *)

\* A user is asked to wait only for what its handler scheduled.
LEMMA HandsAwait ==
  ASSUME TypeOK, NEW e \in queue, NEW types, NEW t, Hands(e, types, t),
         Awaiting(e.user, "RequestFeed")'
  PROVE  \E k \in 1..Len(types) : types[k] = "RequestFeed"
<1>1. /\ types \in Seq(EventTypes) /\ t \in Nat /\ Replace(e, types, t)
      /\ \A f \in queue : f.user = e.user => f = e
  BY DEF Hands
<1>2. \A type : Awaiting(e.user, type)' <=>
        InHorizon(t) /\ \E k \in 1..Len(types) : types[k] = type
  BY <1>1, AwaitedAfter
<1> QED
  BY <1>2

\* What is known of one user's cache.  A request is pending only over a feed
\* at or below the refill threshold.
Cached(u) ==
  /\ Awaiting(u, "RequestFeed") => Len(feed[u]) <= RefillThreshold
  /\ Len(feed[u]) <= RefillThreshold + PrefetchDepth
  /\ \A i \in DOMAIN stamps[u] :
       LET staleness == applyCount[u] - stamps[u][i].rankApply IN
       staleness >= 0 /\ staleness + i <= RefillThreshold + PrefetchDepth

CacheBound == \A u \in Users : Cached(u)

\* Nobody's cache but that of the handled event's user changes.
LEMMA OthersCached ==
  ASSUME TypeOK, Chain, CacheBound, NEW e \in queue,
         \/ OpenApp(e) \/ RequestFeed(e) \/ Refetch(e) \/ StartReelContinue(e)
         \/ StartReelExit(e) \/ ExitApp(e) \/ ExitAppChurn(e),
         NEW v \in Users, v # e.user
  PROVE  /\ Cached(v)' /\ feed'[v] = feed[v] /\ seen'[v] = seen[v]
<1>1. PICK types, t : types \in Seq(EventTypes) /\ t \in Nat /\ Replace(e, types, t)
  BY DispatchReplaces
<1>2. Awaiting(v, "RequestFeed")' <=> Awaiting(v, "RequestFeed")
  BY <1>1, OthersAwait
<1>3. feed' = feed \/ \E x : feed' = [feed EXCEPT ![e.user] = x]
  BY DEF OpenApp, RequestFeed, Refetch, StartReelContinue, StartReelExit, ExitApp,
         ExitAppChurn, Impression, Leave, feedVars
<1>4. stamps' = stamps \/ \E x : stamps' = [stamps EXCEPT ![e.user] = x]
  BY DEF OpenApp, RequestFeed, Refetch, StartReelContinue, StartReelExit, ExitApp,
         ExitAppChurn, Impression, Leave, feedVars
<1>5. /\ applyCount' = applyCount \/ \E x : applyCount' = [applyCount EXCEPT ![e.user] = x]
      /\ seen' = seen \/ \E x : seen' = [seen EXCEPT ![e.user] = x]
  BY DEF OpenApp, RequestFeed, Refetch, StartReelContinue, StartReelExit, ExitApp,
         ExitAppChurn, Impression, Leave, countVars
<1>6. /\ feed'[v] = feed[v] /\ stamps'[v] = stamps[v]
      /\ applyCount'[v] = applyCount[v] /\ seen'[v] = seen[v]
  BY <1>3, <1>4, <1>5 DEF TypeOK
<1> QED
  BY <1>2, <1>6 DEF CacheBound, Cached

\* An empty cache is within every bound.
LEMMA EmptyCached ==
  ASSUME NEW u \in Users, feed'[u] = <<>>, stamps'[u] = <<>> PROVE Cached(u)'
BY ServingAssumption DEF Cached

\* A user arrives with an empty cache.
LEMMA OpenAppCached ==
  ASSUME TypeOK, Lockstep, Chain, NEW e \in queue, OpenApp(e) PROVE Cached(e.user)'
<1>1. e.user \in Users /\ UNCHANGED <<feed, stamps>>
  BY DEF OpenApp, TypeOK, Events, feedVars
<1>2. feed[e.user] = <<>>
  BY DEF OpenApp, Due, Chain, ChainMatchesState, EventMatches
<1>3. stamps[e.user] = <<>>
  BY <1>1, <1>2 DEF Lockstep, TypeOK
<1> QED
  BY <1>1, <1>2, <1>3, EmptyCached

\* Leaving and invalidating empty it.
LEMMA ClearCached ==
  ASSUME TypeOK, NEW e \in queue, Refetch(e) \/ ExitApp(e) \/ ExitAppChurn(e)
  PROVE  Cached(e.user)' /\ feed'[e.user] = <<>>
<1>1. e.user \in Users
  BY DEF TypeOK, Events
<1>2. feed'[e.user] = <<>> /\ stamps'[e.user] = <<>>
  BY <1>1 DEF Refetch, ExitApp, ExitAppChurn, Leave, TypeOK
<1> QED
  BY <1>1, <1>2, EmptyCached

\* A response lands behind what is left, which the threshold bounds; its reels
\* are not stale at all.
LEMMA RequestCached ==
  ASSUME TypeOK, Lockstep, Chain, CacheBound, NEW e \in queue, RequestFeed(e)
  PROVE  Cached(e.user)'
<1> DEFINE u == e.user
           B == RefillThreshold + PrefetchDepth
<1>1. Due(e, "RequestFeed") /\ UNCHANGED applyCount
  BY DEF RequestFeed, countVars
<1>2. u \in Users /\ Awaiting(u, "RequestFeed") /\ now \in Nat
  BY <1>1 DEF Due, TypeOK, Events, Awaiting
<1>3. PICK r \in Responses(u) :
        /\ feed' = [feed EXCEPT ![u] = @ \o r]
        /\ stamps' = [stamps EXCEPT ![u] = @ \o [i \in 1..Len(r) |->
             [requestTime |-> now, rankApply |-> applyCount[u], readAt |-> writes]]]
        /\ \/ ~Awaiting(u, "RequestFeed")'
           \/ Hands(e, <<"StartReel">>, now)
           \/ Hands(e, <<>>, now)
  BY RequestHands
<1>4. ~Awaiting(u, "RequestFeed")'
  <2>1. ASSUME Hands(e, <<"StartReel">>, now) PROVE ~Awaiting(u, "RequestFeed")'
    <3>1. \A k \in 1..Len(<<"StartReel">>) : <<"StartReel">>[k] # "RequestFeed"
      OBVIOUS
    <3> QED
      BY <2>1, <3>1, HandsAwait
  <2>2. ASSUME Hands(e, <<>>, now) PROVE ~Awaiting(u, "RequestFeed")'
    <3>1. \A k \in 1..Len(<<>>) : FALSE
      OBVIOUS
    <3> QED
      BY <2>2, <3>1, HandsAwait
  <2> QED
    BY <1>3, <2>1, <2>2
<1> DEFINE stamp == [requestTime |-> now, rankApply |-> applyCount[u], readAt |-> writes]
           fresh == [i \in 1..Len(r) |-> stamp]
<1>5. applyCount[u] \in Nat /\ writes \in Nat
  BY <1>2 DEF TypeOK
<1>6. stamp \in Stamps /\ stamp.rankApply = applyCount[u]
  BY <1>2, <1>5 DEF Stamps
<1>7. r \in Seq(Reels) /\ Len(r) \in Nat /\ Len(r) <= PrefetchDepth
  <2>1. r \in Seq(Reels) /\ Len(r) <= PrefetchDepth
    BY <1>2, ResponseType
  <2> QED
    BY <2>1, LenProperties
<1>8. /\ feed[u] \in Seq(Reels) /\ stamps[u] \in Seq(Stamps)
      /\ Len(feed[u]) \in Nat /\ Len(stamps[u]) = Len(feed[u])
  BY <1>2 DEF TypeOK, Lockstep
<1> HIDE DEF stamp
<1>9. fresh \in Seq(Stamps) /\ Len(fresh) = Len(r) /\ \A k \in 1..Len(r) : fresh[k] = stamp
  BY <1>6, <1>7
<1>10. feed'[u] = feed[u] \o r /\ stamps'[u] = stamps[u] \o fresh
  BY <1>2, <1>3 DEF TypeOK, stamp
<1> HIDE DEF fresh
<1>11. Len(feed'[u]) = Len(feed[u]) + Len(r)
  BY <1>7, <1>8, <1>10, ConcatProperties
<1>12. /\ stamps'[u] \in Seq(Stamps) /\ Len(stamps'[u]) = Len(feed[u]) + Len(r)
       /\ \A k \in 1..Len(feed[u]) + Len(r) :
            stamps'[u][k] = IF k <= Len(feed[u]) THEN stamps[u][k]
                            ELSE fresh[k - Len(feed[u])]
  <2>1. /\ stamps[u] \o fresh \in Seq(Stamps)
        /\ Len(stamps[u] \o fresh) = Len(stamps[u]) + Len(fresh)
        /\ \A k \in 1..Len(stamps[u]) + Len(fresh) :
             (stamps[u] \o fresh)[k] = IF k <= Len(stamps[u]) THEN stamps[u][k]
                                       ELSE fresh[k - Len(stamps[u])]
    <3>1. stamps[u] \in Seq(Stamps) /\ fresh \in Seq(Stamps)
      BY <1>8, <1>9
    <3> QED
      BY <3>1, ConcatProperties
  <2> QED
    BY <1>8, <1>9, <1>10, <2>1
<1>13. Len(feed[u]) <= RefillThreshold /\ RefillThreshold \in Nat /\ PrefetchDepth \in Nat
  BY <1>2, ServingAssumption DEF CacheBound, Cached
<1>14. Len(feed'[u]) <= B
  BY <1>7, <1>8, <1>11, <1>13
<1>15. ASSUME NEW i \in DOMAIN stamps'[u]
       PROVE  /\ applyCount[u] - stamps'[u][i].rankApply >= 0
              /\ applyCount[u] - stamps'[u][i].rankApply + i <= B
  <2>1. i \in 1..Len(feed[u]) + Len(r)
    BY <1>12, LenProperties
  <2>2. CASE i <= Len(feed[u])
    <3>1. i \in DOMAIN stamps[u]
      BY <1>8, <2>1, <2>2, LenProperties
    <3>2. stamps'[u][i] = stamps[u][i]
      BY <1>12, <2>1, <2>2
    <3> QED
      BY <1>2, <3>1, <3>2 DEF CacheBound, Cached
  <2>3. CASE ~(i <= Len(feed[u]))
    <3>1. i - Len(feed[u]) \in 1..Len(r)
      BY <1>7, <1>8, <2>1, <2>3
    <3>2. stamps'[u][i] = stamp
      BY <1>9, <1>12, <2>1, <2>3, <3>1
    <3>3. applyCount[u] - stamp.rankApply = 0
      BY <1>5, <1>6
    <3> QED
      BY <1>7, <1>8, <1>13, <2>1, <3>2, <3>3
  <2> QED
    BY <2>2, <2>3
<1> QED
  BY <1>1, <1>4, <1>14, <1>15 DEF Cached

\* Consuming the head moves every item one place up and ages it by at most one.
LEMMA ImpressionCached ==
  ASSUME TypeOK, Lockstep, CacheBound, NEW u \in Users, feed[u] # <<>>, Impression(u),
         Awaiting(u, "RequestFeed")' => Len(feed[u]) - 1 <= RefillThreshold
  PROVE  Cached(u)'
<1> DEFINE B == RefillThreshold + PrefetchDepth
<1>1. /\ feed[u] \in Seq(Reels) /\ stamps[u] \in Seq(Stamps)
      /\ Len(stamps[u]) = Len(feed[u]) /\ stamps[u] # <<>> /\ Len(feed[u]) \in Nat
  BY DEF TypeOK, Lockstep
<1>2. feed'[u] = Tail(feed[u]) /\ stamps'[u] = Tail(stamps[u])
  BY DEF Impression, TypeOK
<1>3. /\ Len(feed'[u]) = Len(feed[u]) - 1
      /\ stamps'[u] \in Seq(Stamps) /\ Len(stamps'[u]) = Len(feed[u]) - 1
      /\ \A k \in 1..Len(stamps'[u]) : stamps'[u][k] = stamps[u][k + 1]
  BY <1>1, <1>2, HeadTailProperties
<1>4. applyCount'[u] \in {applyCount[u], applyCount[u] + 1} /\ applyCount[u] \in Nat
  BY DEF Impression, TypeOK
<1>5. ASSUME NEW i \in DOMAIN stamps'[u]
      PROVE  /\ applyCount'[u] - stamps'[u][i].rankApply >= 0
             /\ applyCount'[u] - stamps'[u][i].rankApply + i <= B
  <2>1. i \in 1..Len(stamps'[u]) /\ i \in Nat
    BY <1>3, LenProperties
  <2>2. i + 1 \in DOMAIN stamps[u]
    BY <1>1, <1>3, <2>1, LenProperties
  <2>3. stamps'[u][i] = stamps[u][i + 1] /\ stamps[u][i + 1] \in Stamps
    BY <1>1, <1>3, <2>1, <2>2, ElementOfSeq, LenProperties
  <2>4. stamps'[u][i].rankApply \in Nat
    BY <2>3 DEF Stamps
  <2>5. /\ applyCount[u] - stamps'[u][i].rankApply >= 0
        /\ applyCount[u] - stamps'[u][i].rankApply + (i + 1) <= B
    BY <2>2, <2>3 DEF CacheBound, Cached
  <2>6. B \in Nat
    BY ServingAssumption
  <2> HIDE DEF B
  <2> QED
    BY <1>4, <2>1, <2>4, <2>5, <2>6, SMTT(30)
<1>6. Len(feed'[u]) <= B
  <2>1. Len(feed[u]) <= B /\ B \in Nat
    BY ServingAssumption DEF CacheBound, Cached
  <2> HIDE DEF B
  <2> QED
    BY <1>1, <1>3, <2>1
<1>7. Awaiting(u, "RequestFeed")' => Len(feed'[u]) <= RefillThreshold
  BY <1>3
<1> QED
  BY <1>5, <1>6, <1>7 DEF Cached

\* Every step keeps the bounds of every cache.
LEMMA CacheStep ==
  ASSUME TypeOK, Lockstep, Chain, CacheBound, [Next]_vars PROVE CacheBound'
<1>1. CASE BeginGroup \/ EndPhase \/ Finish \/ UNCHANGED vars
  <2>1. UNCHANGED <<queue, feed, stamps, applyCount>>
    BY <1>1 DEF BeginGroup, EndPhase, Finish, vars, queueVars, feedVars, countVars
  <2> QED
    BY <2>1 DEF CacheBound, Cached, Awaiting
<1>2. ASSUME NEW e \in queue,
             \/ OpenApp(e) \/ RequestFeed(e) \/ Refetch(e) \/ StartReelContinue(e)
             \/ StartReelExit(e) \/ ExitApp(e) \/ ExitAppChurn(e)
      PROVE  CacheBound'
  <2>1. e.user \in Users
    BY DEF TypeOK, Events
  <2>2. CASE StartReelContinue(e)
    <3>1. PICK types, t :
            /\ Hands(e, types, t)
            /\ (\E k \in 1..Len(types) : types[k] = "RequestFeed")
                 => Len(feed[e.user]) - 1 <= RefillThreshold
      BY <2>2, ContinueHands
    <3>2. Awaiting(e.user, "RequestFeed")' => Len(feed[e.user]) - 1 <= RefillThreshold
      BY <3>1, HandsAwait
    <3> QED
      BY <1>2, <2>1, <2>2, <3>2, ImpressionCached, OthersCached
         DEF StartReelContinue, CacheBound
  <2>3. CASE StartReelExit(e)
    <3>1. PICK t : Hands(e, <<"ExitApp">>, t)
      BY <2>3, ExitsHand
    <3>2. \A k \in 1..Len(<<"ExitApp">>) : <<"ExitApp">>[k] # "RequestFeed"
      OBVIOUS
    <3>3. ~Awaiting(e.user, "RequestFeed")'
      BY <3>1, <3>2, HandsAwait
    <3> QED
      BY <1>2, <2>1, <2>3, <3>3, ImpressionCached, OthersCached
         DEF StartReelExit, CacheBound
  <2>4. CASE OpenApp(e)
    BY <1>2, <2>4, OpenAppCached, OthersCached DEF CacheBound
  <2>5. CASE Refetch(e) \/ ExitApp(e) \/ ExitAppChurn(e)
    BY <1>2, <2>5, ClearCached, OthersCached DEF CacheBound
  <2>6. CASE RequestFeed(e)
    BY <1>2, <2>6, RequestCached, OthersCached DEF CacheBound
  <2> QED
    BY <1>2, <2>2, <2>3, <2>4, <2>5, <2>6
<1> QED
  BY <1>1, <1>2 DEF Next, Dispatch, Terminated

\* The bounds hold in every reachable state.
LEMMA CacheInvariant == Spec => [](TypeOK /\ Lockstep /\ Chain /\ CacheBound)
<1>1. Init => CacheBound
  <2> SUFFICES ASSUME Init, NEW u \in Users PROVE Cached(u)
    BY DEF CacheBound
  <2>1. feed[u] = <<>> /\ stamps[u] = <<>>
    BY DEF Init
  <2> QED
    BY <2>1, ServingAssumption DEF Cached
<1>2. (TypeOK /\ Lockstep /\ Chain) /\ CacheBound /\ [Next]_vars => CacheBound'
  BY CacheStep
<1> QED
  BY <1>1, <1>2, SchedulingInvariant, PTL DEF Spec

\* The client cache is bounded, and an item's staleness when it is consumed by
\* its place in it, whatever refills and invalidations did in between.
THEOREM StalenessBoundCorrect == Spec => []StalenessBound
<1>1. Lockstep /\ CacheBound => StalenessBound
  BY DEF Lockstep, CacheBound, Cached, StalenessBound
<1> QED
  BY <1>1, CacheInvariant, PTL

------------------------------------------------------------------------------
(* Without refills nothing is downloaded twice *)

\* Without refills a response lands on an empty cache.
LEMMA NeverServedTwiceStep ==
  ASSUME RefillThreshold = 0, TypeOK, Lockstep, Chain, CacheBound, NeverServedTwice, [Next]_vars
  PROVE  NeverServedTwice'
<1> DEFINE Fresh(u) == \A i, j \in DOMAIN feed[u] :
                         feed[u][i] \notin seen[u] /\ (feed[u][i] = feed[u][j] => i = j)
<1>1. CASE BeginGroup \/ EndPhase \/ Finish \/ UNCHANGED vars
  <2>1. UNCHANGED <<feed, seen>>
    BY <1>1 DEF BeginGroup, EndPhase, Finish, vars, feedVars, countVars
  <2> QED
    BY <2>1 DEF NeverServedTwice
<1>2. ASSUME NEW e \in queue,
             \/ OpenApp(e) \/ RequestFeed(e) \/ Refetch(e) \/ StartReelContinue(e)
             \/ StartReelExit(e) \/ ExitApp(e) \/ ExitAppChurn(e)
      PROVE  NeverServedTwice'
  <2> DEFINE u == e.user
  <2>1. u \in Users
    BY DEF TypeOK, Events
  <2>2. \A v \in Users : v # u => feed'[v] = feed[v] /\ seen'[v] = seen[v]
    BY <1>2, OthersCached
  <2>3. SUFFICES Fresh(u)'
    BY <2>2 DEF NeverServedTwice
  <2>4. CASE OpenApp(e)
    <3>1. UNCHANGED <<feed, seen>>
      BY <2>4 DEF OpenApp, feedVars, countVars
    <3> QED
      BY <2>1, <3>1 DEF NeverServedTwice
  <2>5. CASE Refetch(e) \/ ExitApp(e) \/ ExitAppChurn(e)
    BY <2>5, ClearCached
  <2>6. CASE RequestFeed(e)
    <3>1. Awaiting(u, "RequestFeed") /\ UNCHANGED seen
      BY <2>6 DEF RequestFeed, Due, Awaiting, countVars
    <3>2. feed[u] \in Seq(Reels) /\ Len(feed[u]) <= 0
      BY <2>1, <3>1 DEF CacheBound, Cached, TypeOK
    <3>3. feed[u] = <<>>
      BY <3>2
    <3>4. PICK r \in Responses(u) : feed' = [feed EXCEPT ![u] = @ \o r]
      BY <2>6 DEF RequestFeed
    <3>5. r \in Seq(Reels) /\ r \in Seq(Reels \ seen[u])
      BY <2>1, ResponseType
    <3>6. feed'[u] = r
      BY <2>1, <3>3, <3>4, <3>5 DEF TypeOK
    <3>7. \A i, j \in DOMAIN r : r[i] = r[j] => i = j
      BY DEF Responses
    <3>8. \A i \in DOMAIN r : r[i] \notin seen[u]
      BY <3>5, ElementOfSeq, LenProperties
    <3> QED
      BY <3>1, <3>6, <3>7, <3>8
  <2>7. CASE StartReelContinue(e) \/ StartReelExit(e)
    <3>1. Impression(u) /\ feed[u] # <<>>
      BY <2>7 DEF StartReelContinue, StartReelExit
    <3>2. /\ feed[u] \in Seq(Reels) /\ feed'[u] = Tail(feed[u])
          /\ seen'[u] = seen[u] \cup {Head(feed[u])}
      BY <2>1, <3>1 DEF Impression, TypeOK
    <3>3. /\ feed'[u] \in Seq(Reels) /\ Len(feed'[u]) = Len(feed[u]) - 1
          /\ Head(feed[u]) = feed[u][1] /\ Len(feed[u]) \in Nat
          /\ \A k \in 1..Len(feed'[u]) : feed'[u][k] = feed[u][k + 1]
      BY <3>1, <3>2, HeadTailProperties, LenProperties
    <3>4. /\ DOMAIN feed[u] = 1..Len(feed[u]) /\ DOMAIN feed'[u] = 1..Len(feed'[u])
      BY <3>2, <3>3, LenProperties
    <3>5. \A i, j \in 1..Len(feed[u]) :
            feed[u][i] \notin seen[u] /\ (feed[u][i] = feed[u][j] => i = j)
      BY <2>1, <3>4 DEF NeverServedTwice
    <3>6. ASSUME NEW i \in DOMAIN feed'[u], NEW j \in DOMAIN feed'[u]
          PROVE  feed'[u][i] \notin seen'[u] /\ (feed'[u][i] = feed'[u][j] => i = j)
      <4>1. /\ i \in Nat /\ j \in Nat /\ i + 1 \in 1..Len(feed[u]) /\ j + 1 \in 1..Len(feed[u])
            /\ 1 \in 1..Len(feed[u]) /\ i + 1 # 1
        BY <3>3, <3>4
      <4>2. feed'[u][i] = feed[u][i + 1] /\ feed'[u][j] = feed[u][j + 1]
        BY <3>3, <3>4
      <4>3. feed[u][i + 1] # feed[u][1] /\ feed[u][i + 1] \notin seen[u]
        BY <3>5, <4>1
      <4>4. feed[u][i + 1] = feed[u][j + 1] => i + 1 = j + 1
        BY <3>5, <4>1
      <4> QED
        BY <3>2, <3>3, <4>1, <4>2, <4>3, <4>4
    <3> QED
      BY <3>6
  <2> QED
    BY <1>2, <2>4, <2>5, <2>6, <2>7
<1> QED
  BY <1>1, <1>2 DEF Next, Dispatch, Terminated

\* When the client asks only on an empty cache, the feed a user holds is never
\* one it has consumed, nor downloaded twice.  (With a positive threshold a
\* refill may repeat a reel that is still in the cache.)
THEOREM NeverServedTwiceCorrect ==
  ASSUME RefillThreshold = 0 PROVE Spec => []NeverServedTwice
<1>1. Init => NeverServedTwice
  <2> SUFFICES ASSUME Init, NEW u \in Users PROVE feed[u] = <<>>
    BY DEF NeverServedTwice
  <2> QED
    BY DEF Init
<1>2. (TypeOK /\ Lockstep /\ Chain /\ CacheBound) /\ NeverServedTwice /\ [Next]_vars
        => NeverServedTwice'
  BY NeverServedTwiceStep
<1> QED
  BY <1>1, <1>2, CacheInvariant, PTL DEF Spec
=============================================================================
