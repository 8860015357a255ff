------------------------- MODULE EventRecordingProofs -------------------------
(***************************************************************************)
(* What the observers of an event-driven run record, for any users, reels, *)
(* samples and sizes: the training tables join and read back as what the   *)
(* run trained on, each request is served by the models owed to it, and    *)
(* the day books add up.                                                   *)
(***************************************************************************)
EXTENDS EventRecording, FiniteSetTheorems, SequenceTheorems, TLAPS

Items == [id : Nat, reel : Reels]
RowKeys == Nat \X Reels
Asked == [user : Users, at : Nat, shown : Seq(Reels), version : Nat]
Records == [at : Nat, rows : SUBSET RowKeys]

StreamTyped ==
  /\ now \in -1..Horizon /\ phase \in {"request", "consume", "idle"} /\ ended \in BOOLEAN
  /\ feed \in [Users -> Seq(Items)]
  /\ requests \in Seq(Asked)
  /\ impressions \in Nat
  /\ sessionStart \in [Users -> Int]
  /\ captured \subseteq RowKeys
  /\ retrains \in Seq(Records)

\* Nothing is of a later instant than the one in process, requests are in the
\* order of their times, and what is downloaded belongs to one of them.
Timely ==
  /\ phase # "idle" => now >= 0
  /\ ended => phase = "idle"
  /\ \A i \in 1..Len(requests) : requests[i].at <= now
  /\ \A i, j \in 1..Len(requests) : i <= j => requests[i].at <= requests[j].at
  /\ \A u \in Users : sessionStart[u] \in -1..now
  /\ \A u \in Users : \A i \in 1..Len(feed[u]) : feed[u][i].id <= Len(requests)

StreamInv == StreamTyped /\ Timely

------------------------------------------------------------------------------
(* The stream *)

LEMMA StreamBegins ==
  ASSUME Init PROVE StreamInv
<1>1. /\ now = -1 /\ -1 \in -1..Horizon /\ phase = "idle" /\ ended = FALSE
      /\ feed = [u \in Users |-> <<>>] /\ sessionStart = [u \in Users |-> -1]
      /\ requests = <<>> /\ impressions = 0 /\ captured = {} /\ retrains = <<>>
  BY StreamAssumption DEF Init, StreamInit, LogInit, RetrainInit
<1>2. requests \in Seq(Asked) /\ retrains \in Seq(Records) /\ Len(requests) = 0
      /\ \A u \in Users : feed[u] \in Seq(Items) /\ Len(feed[u]) = 0
  BY <1>1, EmptySeq
<1>3. feed \in [Users -> Seq(Items)] /\ sessionStart \in [Users -> Int]
  BY <1>1, <1>2
<1>4. StreamTyped
  BY <1>1, <1>2, <1>3 DEF StreamTyped
<1>5. Timely
  BY <1>1, <1>2 DEF Timely
<1> QED
  BY <1>4, <1>5 DEF StreamInv

\* The rows trainable, the records after the hook and the version served.
LEMMA HookTypes ==
  ASSUME StreamInv, now \in Nat
  PROVE  /\ Trainable \subseteq RowKeys
         /\ AfterHook(now, Trainable) \in Seq(Records)
         /\ ServingVersion(AfterHook(now, Trainable)) \in Nat
<1>1. Trainable \subseteq RowKeys
  BY DEF StreamInv, StreamTyped, Trainable
<1>2. AfterHook(now, Trainable) \in Seq(Records)
  <2>1. [at |-> now, rows |-> Trainable] \in Records
    BY <1>1 DEF Records
  <2> QED
    BY <2>1, AppendProperties DEF StreamInv, StreamTyped, AfterHook
<1>3. Len(AfterHook(now, Trainable)) \in Nat
  BY <1>2, LenProperties
<1> QED
  BY <1>1, <1>2, <1>3 DEF ServingVersion

\* A request of a user lands at the end of its feed.
LEMMA Landing ==
  ASSUME StreamInv, NEW u \in Users, NEW r \in Feeds, NEW version \in Nat,
         StreamRequest(u, r, version)
  PROVE  LET ask == [user |-> u, at |-> now, shown |-> r, version |-> version]
             n == Len(feed[u])
         IN  /\ now \in Nat /\ r \in Seq(Reels) /\ Range(r) \in SUBSET Reels
             /\ IsFiniteSet(Range(r)) /\ NextId \in Nat /\ NextId = Len(requests) + 1
             /\ requests' = Append(requests, ask) /\ requests' \in Seq(Asked)
             /\ Len(requests') = NextId
             /\ requests'[NextId] = ask
             /\ \A i \in 1..Len(requests) : requests'[i] = requests[i]
             /\ feed' \in [Users -> Seq(Items)]
             /\ \A v \in Users : v # u => feed'[v] = feed[v]
             /\ n \in Nat /\ Len(feed'[u]) = n + Len(r) /\ Len(r) \in Nat
             /\ \A i \in 1..n : feed'[u][i] = feed[u][i]
             /\ \A i \in 1..Len(feed'[u]) : i > n =>
                  /\ i - n \in 1..Len(r) /\ r[i - n] \in Range(r)
                  /\ feed'[u][i] = [id |-> NextId, reel |-> r[i - n]]
<1> DEFINE landed == [i \in DOMAIN r |-> [id |-> NextId, reel |-> r[i]]]
           ask == [user |-> u, at |-> now, shown |-> r, version |-> version]
<1>1. PICK k \in 0..Depth : r \in [1..k -> Reels]
  BY DEF Feeds
<1>2. k \in Nat /\ DOMAIN r = 1..k /\ \A i \in 1..k : r[i] \in Reels
  BY <1>1, StreamAssumption
<1>3. r \in Seq(Reels) /\ Len(r) = k /\ \A i \in 1..k : r[i] \in Range(r)
  BY <1>1, <1>2, IsASeq DEF Range
<1>4. Range(r) \in SUBSET Reels
  BY <1>2 DEF Range
<1>5. IsFiniteSet(Range(r))
  <2>1. r \in Surjection(1..k, Range(r))
    BY <1>1, <1>2 DEF Surjection, Range
  <2> QED
    BY <1>2, <2>1, FS_Surjection, FS_Interval
<1>6. requests \in Seq(Asked) /\ Len(requests) \in Nat
      /\ NextId \in Nat /\ NextId = Len(requests) + 1 /\ now \in Nat
  BY LenProperties DEF StreamInv, StreamTyped, Timely, NextId, StreamRequest
<1>7. ask \in Asked
  BY <1>3, <1>6 DEF Asked
<1>8. requests' = Append(requests, ask)
  BY DEF StreamRequest
<1>9. /\ requests' \in Seq(Asked) /\ Len(requests') = NextId /\ requests'[NextId] = ask
      /\ \A i \in 1..Len(requests) : requests'[i] = requests[i]
  BY <1>6, <1>7, <1>8, AppendProperties
<1>10. landed \in Seq(Items) /\ Len(landed) = k
       /\ \A i \in 1..k : landed[i] = [id |-> NextId, reel |-> r[i]]
  <2>1. \A i \in 1..k : landed[i] = [id |-> NextId, reel |-> r[i]] /\ landed[i] \in Items
    BY <1>2, <1>6 DEF Items
  <2>2. landed = [i \in 1..k |-> landed[i]]
    BY <1>2
  <2> HIDE DEF landed
  <2> QED
    BY <1>2, <2>1, <2>2, IsASeq
<1>11. feed' = [feed EXCEPT ![u] = @ \o landed]
  BY DEF StreamRequest
<1> HIDE DEF landed, ask
<1>12. feed[u] \in Seq(Items) /\ Len(feed[u]) \in Nat /\ feed[u] \o landed \in Seq(Items)
  BY <1>10, ConcatProperties, LenProperties DEF StreamInv, StreamTyped
<1>13. feed' \in [Users -> Seq(Items)] /\ feed'[u] = feed[u] \o landed
       /\ \A v \in Users : v # u => feed'[v] = feed[v]
  BY <1>11, <1>12 DEF StreamInv, StreamTyped
<1>14. /\ Len(feed'[u]) = Len(feed[u]) + k
       /\ \A i \in 1..Len(feed[u]) : feed'[u][i] = feed[u][i]
       /\ \A i \in 1..k : feed'[u][Len(feed[u]) + i] = landed[i]
  <2>1. /\ Len(feed[u] \o landed) = Len(feed[u]) + Len(landed)
        /\ \A i \in 1..Len(feed[u]) + Len(landed) :
             (feed[u] \o landed)[i] = IF i <= Len(feed[u]) THEN feed[u][i]
                                      ELSE landed[i - Len(feed[u])]
    BY <1>10, <1>12, ConcatProperties
  <2>2. ASSUME NEW i \in 1..k PROVE feed'[u][Len(feed[u]) + i] = landed[i]
    <3>1. Len(feed[u]) + i \in 1..Len(feed[u]) + Len(landed) /\ ~(Len(feed[u]) + i <= Len(feed[u]))
          /\ Len(feed[u]) + i - Len(feed[u]) = i
      BY <1>2, <1>10, <1>12
    <3> QED
      BY <1>13, <2>1, <3>1
  <2>3. \A i \in 1..Len(feed[u]) : i \in 1..Len(feed[u]) + Len(landed) /\ i <= Len(feed[u])
    BY <1>2, <1>10, <1>12
  <2> QED
    BY <1>10, <1>13, <2>1, <2>2, <2>3
<1>15. ASSUME NEW i \in 1..Len(feed'[u]), i > Len(feed[u])
       PROVE  /\ i - Len(feed[u]) \in 1..k
              /\ feed'[u][i] = [id |-> NextId, reel |-> r[i - Len(feed[u])]]
  <2>1. i - Len(feed[u]) \in 1..k /\ i = Len(feed[u]) + (i - Len(feed[u]))
    BY <1>2, <1>12, <1>14, <1>15
  <2> QED
    BY <1>10, <1>14, <2>1
<1> QED
  BY <1>2, <1>3, <1>4, <1>5, <1>6, <1>8, <1>9, <1>12, <1>13, <1>14, <1>15 DEF ask

LEMMA StreamAsked ==
  ASSUME StreamInv, NEW u \in Users, RequestFeed(u) PROVE StreamInv'
<1>1. PICK r \in Feeds :
        /\ StreamRequest(u, r, ServingVersion(AfterHook(now, Trainable)))
        /\ RetrainHook(NextId, now, Trainable, Range(r))
        /\ LogRequest(NextId, u, now, Reels, Range(r))
  BY DEF RequestFeed
<1> DEFINE version == ServingVersion(AfterHook(now, Trainable))
           ask == [user |-> u, at |-> now, shown |-> r, version |-> version]
           n == Len(feed[u])
<1>2. /\ now \in Nat /\ r \in Seq(Reels) /\ Range(r) \in SUBSET Reels
      /\ NextId \in Nat /\ NextId = Len(requests) + 1
      /\ requests' \in Seq(Asked)
      /\ Len(requests') = NextId
      /\ requests'[NextId] = ask
      /\ \A i \in 1..Len(requests) : requests'[i] = requests[i]
      /\ feed' \in [Users -> Seq(Items)]
      /\ \A v \in Users : v # u => feed'[v] = feed[v]
      /\ n \in Nat
      /\ \A i \in 1..n : feed'[u][i] = feed[u][i]
      /\ \A i \in 1..Len(feed'[u]) : i > n =>
           feed'[u][i] = [id |-> NextId, reel |-> r[i - n]]
  <2>1. now \in Nat
    BY <1>1 DEF StreamInv, StreamTyped, Timely, StreamRequest
  <2>2. version \in Nat
    BY <2>1, HookTypes
  <2> HIDE DEF version
  <2> QED
    BY <1>1, <2>2, Landing DEF version
<1>3. ask.at = now
  OBVIOUS
<1> HIDE DEF ask, version
<1>4. captured' \subseteq RowKeys
  <2>1. Matrixed(NextId, Range(r)) \subseteq RowKeys
    BY <1>2 DEF Matrixed, RowKeys
  <2> QED
    BY <1>1, <2>1 DEF LogRequest, logVars, matrixVars, StreamInv, StreamTyped
<1>5. retrains' \in Seq(Records)
  BY <1>1, <1>2, HookTypes DEF RetrainHook
<1>6. UNCHANGED <<now, phase, ended, impressions, sessionStart>>
  BY <1>1 DEF StreamRequest
<1>7. StreamTyped'
  BY <1>2, <1>4, <1>5, <1>6 DEF StreamInv, StreamTyped
<1>8. \A i \in 1..Len(requests') : requests'[i].at <= now
  <2> SUFFICES ASSUME NEW i \in 1..Len(requests') PROVE requests'[i].at <= now
    OBVIOUS
  <2>1. CASE i = NextId
    BY <1>2, <1>3, <2>1
  <2>2. CASE i # NextId
    <3>1. i \in 1..Len(requests)
      BY <1>2, <2>2
    <3> QED
      BY <1>2, <3>1 DEF StreamInv, Timely
  <2> QED
    BY <2>1, <2>2
<1>9. \A i, j \in 1..Len(requests') : i <= j => requests'[i].at <= requests'[j].at
  <2> SUFFICES ASSUME NEW i \in 1..Len(requests'), NEW j \in 1..Len(requests'), i <= j
               PROVE  requests'[i].at <= requests'[j].at
    OBVIOUS
  <2>1. CASE j = NextId
    BY <1>2, <1>3, <1>8, <2>1
  <2>2. CASE j # NextId
    <3>1. i \in 1..Len(requests) /\ j \in 1..Len(requests)
      BY <1>2, <2>2
    <3> QED
      BY <1>2, <3>1 DEF StreamInv, Timely
  <2> QED
    BY <2>1, <2>2
<1>10. \A v \in Users : \A i \in 1..Len(feed'[v]) : feed'[v][i].id <= Len(requests')
  <2> SUFFICES ASSUME NEW v \in Users, NEW i \in 1..Len(feed'[v])
               PROVE  feed'[v][i].id <= Len(requests')
    OBVIOUS
  <2>1. CASE v = u /\ i > n
    <3>1. feed'[v][i] = [id |-> NextId, reel |-> r[i - n]]
      BY <1>2, <2>1, Zenon
    <3>2. feed'[v][i].id = NextId
      BY <3>1
    <3> QED
      BY <1>2, <3>2
  <2>2. CASE ~(v = u /\ i > n)
    <3>1. i \in Nat /\ i >= 1
      BY <1>2, LenProperties
    <3>2. i \in 1..Len(feed[v]) /\ feed'[v][i] = feed[v][i]
      BY <1>2, <2>2, <3>1
    <3>3. feed[v][i].id <= Len(requests) /\ feed[v][i] \in Items
      BY <3>2, ElementOfSeq DEF StreamInv, StreamTyped, Timely
    <3>4. feed[v][i].id \in Nat
      BY <3>3 DEF Items
    <3> QED
      BY <1>2, <3>2, <3>3, <3>4
  <2> QED
    BY <2>1, <2>2
<1>11. Timely'
  BY <1>2, <1>6, <1>8, <1>9, <1>10 DEF StreamInv, Timely
<1> QED
  BY <1>7, <1>11 DEF StreamInv

\* The other events take from a feed, empty it, or leave it alone.
LEMMA StreamShortens ==
  ASSUME StreamInv, NEW u \in Users, StartReel(u) \/ ExitApp(u)
  PROVE  /\ UNCHANGED <<now, phase, ended, requests, captured, retrains>>
         /\ feed' \in [Users -> Seq(Items)]
         /\ \A v \in Users : \A i \in 1..Len(feed'[v]) :
              \E j \in 1..Len(feed[v]) : feed'[v][i] = feed[v][j]
<1>1. CASE StartReel(u)
  <2>1. /\ feed[u] # <<>> /\ feed' = [feed EXCEPT ![u] = Tail(@)]
        /\ UNCHANGED <<now, phase, ended, requests, captured, retrains>>
    BY <1>1 DEF StartReel, StreamImpression, LogImpression, retrainVars
  <2>2. /\ Tail(feed[u]) \in Seq(Items) /\ Len(Tail(feed[u])) = Len(feed[u]) - 1
        /\ \A i \in 1..Len(Tail(feed[u])) : Tail(feed[u])[i] = feed[u][i + 1]
        /\ Len(feed[u]) \in Nat
    BY <2>1, HeadTailProperties, LenProperties DEF StreamInv, StreamTyped
  <2>3. /\ feed' \in [Users -> Seq(Items)] /\ feed'[u] = Tail(feed[u])
        /\ \A v \in Users : v # u => feed'[v] = feed[v]
    BY <2>1, <2>2 DEF StreamInv, StreamTyped
  <2>4. ASSUME NEW i \in 1..Len(feed'[u])
        PROVE  \E j \in 1..Len(feed[u]) : feed'[u][i] = feed[u][j]
    <3>1. i + 1 \in 1..Len(feed[u])
      BY <2>2, <2>3
    <3> QED
      BY <2>2, <2>3, <3>1
  <2> QED
    BY <2>1, <2>3, <2>4
<1>2. CASE ExitApp(u)
  <2>1. /\ feed' = [feed EXCEPT ![u] = <<>>]
        /\ UNCHANGED <<now, phase, ended, requests, captured, retrains>>
    BY <1>2 DEF ExitApp, StreamExit, logVars, matrixVars, retrainVars
  <2>2. /\ feed' \in [Users -> Seq(Items)] /\ Len(feed'[u]) = 0
        /\ \A v \in Users : v # u => feed'[v] = feed[v]
    BY <2>1, EmptySeq DEF StreamInv, StreamTyped
  <2> QED
    BY <2>1, <2>2
<1> QED
  BY <1>1, <1>2

LEMMA StreamStep ==
  ASSUME StreamInv, [Next]_vars PROVE StreamInv'
<1>1. CASE BeginGroup
  <2>1. PICK t \in (now + 1)..Horizon : StreamGroup(t)
    BY <1>1 DEF BeginGroup
  <2>2. /\ now' = t /\ phase' = "request" /\ ~ended
        /\ UNCHANGED <<ended, feed, requests, impressions, sessionStart, captured, retrains>>
    BY <1>1, <2>1 DEF BeginGroup, StreamGroup, logVars, matrixVars, retrainVars
  <2>3. now' \in -1..Horizon /\ now' >= now /\ now' >= 0 /\ now \in Int
    BY <2>1, <2>2, StreamAssumption DEF StreamInv, StreamTyped
  <2>4. StreamTyped'
    BY <2>2, <2>3 DEF StreamInv, StreamTyped
  <2>5. \A i \in 1..Len(requests) : requests[i].at <= now'
    <3> SUFFICES ASSUME NEW i \in 1..Len(requests) PROVE requests[i].at <= now'
      OBVIOUS
    <3>1. requests[i] \in Asked
      BY ElementOfSeq DEF StreamInv, StreamTyped
    <3>2. requests[i].at \in Nat /\ requests[i].at <= now
      BY <3>1 DEF Asked, StreamInv, Timely
    <3> QED
      BY <2>3, <3>2
  <2>6. \A u \in Users : sessionStart[u] \in -1..now'
    BY <2>3 DEF StreamInv, Timely
  <2>7. Timely'
    BY <2>2, <2>3, <2>5, <2>6 DEF StreamInv, Timely
  <2> QED
    BY <2>4, <2>7 DEF StreamInv
<1>2. CASE EndPhase
  <2>1. /\ phase \in {"request", "consume"} /\ phase' \in {"consume", "idle"}
        /\ UNCHANGED <<now, ended, feed, requests, impressions, sessionStart, captured,
                       retrains>>
    BY <1>2 DEF EndPhase, StreamPhase, logVars, matrixVars, retrainVars, StreamInv, StreamTyped
  <2> QED
    BY <2>1 DEF StreamInv, StreamTyped, Timely
<1>3. CASE Finish
  <2>1. /\ phase = "idle" /\ ended'
        /\ UNCHANGED <<now, phase, feed, requests, impressions, sessionStart, captured,
                       retrains>>
    BY <1>3 DEF Finish, StreamEnd, LogFinish, matrixVars, retrainVars
  <2> QED
    BY <1>3, <2>1 DEF StreamInv, StreamTyped, Timely, Finish, StreamEnd
<1>4. ASSUME NEW u \in Users, StartReel(u) \/ ExitApp(u) PROVE StreamInv'
  <2>1. /\ UNCHANGED <<now, phase, ended, requests, captured, retrains>>
        /\ feed' \in [Users -> Seq(Items)]
        /\ \A v \in Users : \A i \in 1..Len(feed'[v]) :
             \E j \in 1..Len(feed[v]) : feed'[v][i] = feed[v][j]
    BY <1>4, StreamShortens
  <2>2. impressions' \in Nat /\ sessionStart' \in [Users -> Int]
        /\ \A v \in Users : sessionStart'[v] \in -1..now
    <3>1. now \in Int /\ now >= -1 /\ impressions \in Nat /\ sessionStart \in [Users -> Int]
          /\ \A v \in Users : sessionStart[v] \in -1..now
      BY DEF StreamInv, StreamTyped, Timely
    <3>2. CASE StartReel(u)
      BY <3>1, <3>2 DEF StartReel, StreamImpression
    <3>3. CASE ExitApp(u)
      BY <3>1, <3>3 DEF ExitApp, StreamExit
    <3> QED
      BY <1>4, <3>2, <3>3
  <2>3. StreamTyped'
    BY <2>1, <2>2 DEF StreamInv, StreamTyped
  <2>4. \A v \in Users : \A i \in 1..Len(feed'[v]) : feed'[v][i].id <= Len(requests)
    BY <2>1 DEF StreamInv, Timely
  <2>5. Timely'
    BY <2>1, <2>2, <2>4 DEF StreamInv, Timely
  <2> QED
    BY <2>3, <2>5 DEF StreamInv
<1>5. CASE UNCHANGED vars
  BY <1>5 DEF StreamInv, StreamTyped, Timely, vars, streamVars, logVars, matrixVars, retrainVars
<1> QED
  BY <1>1, <1>2, <1>3, <1>4, <1>5, StreamAsked DEF Next, Terminated

LEMMA StreamCorrect == Spec => []StreamInv
<1>1. Init => StreamInv
  BY StreamBegins
<1>2. StreamInv /\ [Next]_vars => StreamInv'
  BY StreamStep
<1> QED
  BY <1>1, <1>2, PTL DEF Spec

------------------------------------------------------------------------------
(* The parts of a table *)

Part == 0..MaxRowsPerFile

LEMMA ProductIsNat ==
  ASSUME NEW a \in Nat, NEW b \in Nat PROVE a * b \in Nat
OBVIOUS

\* Parts opened for some rows each begin before the rows are used up.
LEMMA OpensForRows ==
  ASSUME NEW b \in Nat, NEW f \in Nat \ {0}
  PROVE  /\ (b + f - 1) \div f \in Nat
         /\ \A r \in Nat : r < (b + f - 1) \div f => r * f < b
<1> DEFINE q == (b + f - 1) \div f
<1>1. q \in Nat /\ f * q <= b + f - 1
  <2>1. b + f - 1 \in Nat
    OBVIOUS
  <2> QED
    BY <2>1
<1> HIDE DEF q
<1>2. ASSUME NEW r \in Nat, r < q PROVE r * f < b
  <2>1. (r + 1) * f <= q * f
    BY <1>1, <1>2
  <2>2. (r + 1) * f = r * f + f /\ r * f \in Nat
    OBVIOUS
  <2>3. q * f = f * q /\ q * f \in Nat
    BY <1>1
  <2> DEFINE x == r * f
             y == q * f
  <2>4. x + f <= y /\ y <= b + f - 1 /\ x \in Nat /\ y \in Nat
    BY <1>1, <2>1, <2>2, <2>3
  <2> HIDE DEF x, y
  <2>5. x < b
    BY <2>4
  <2> QED
    BY <2>5 DEF x
<1> QED
  BY <1>1, <1>2 DEF q

\* The smaller of two numbers.
LEMMA Smaller ==
  ASSUME NEW a \in Int, NEW b \in Int
  PROVE  Min({a, b}) = IF a <= b THEN a ELSE b
<1> DEFINE m == IF a <= b THEN a ELSE b
<1>1. m \in {a, b} /\ \A y \in {a, b} : m <= y
  OBVIOUS
<1>2. \A x \in {a, b} : (\A y \in {a, b} : x <= y) => x = m
  OBVIOUS
<1> QED
  BY <1>1, <1>2 DEF Min

\* Rows written keep every part within its cap.
LEMMA RowsWithinCap ==
  ASSUME NEW parts \in Seq(Part), NEW n \in Nat
  PROVE  RowsLand(parts, n) \in Seq(Part)
<1> DEFINE last == Len(parts)
           room == IF parts = <<>> THEN 0 ELSE MaxRowsPerFile - Last(parts)
           over == n - room
           filled(rows) == [i \in DOMAIN parts |-> IF i = last THEN rows ELSE parts[i]]
           count == (over + MaxRowsPerFile - 1) \div MaxRowsPerFile
           opened == [i \in 1..count |->
                        Min({MaxRowsPerFile, over - (i - 1) * MaxRowsPerFile})]
<1>1. /\ MaxRowsPerFile \in Nat \ {0} /\ last \in Nat /\ DOMAIN parts = 1..last
      /\ \A i \in 1..last : parts[i] \in Part
  BY LogAssumption, LenProperties, ElementOfSeq
<1>2. room \in 0..MaxRowsPerFile /\ (last # 0 => room = MaxRowsPerFile - parts[last])
      /\ (last = 0 => room = 0)
  <2>1. CASE parts = <<>>
    <3>1. last = 0 /\ room = 0
      BY <2>1
    <3> QED
      BY <1>1, <3>1
  <2>2. CASE parts # <<>>
    <3>1. last # 0
      BY <1>1, <2>2, EmptySeq
    <3>2. parts[last] \in Part
      BY <1>1, <3>1
    <3>3. room = MaxRowsPerFile - parts[last]
      BY <2>2 DEF Last
    <3> QED
      BY <1>1, <3>1, <3>2, <3>3 DEF Part
  <2> QED
    BY <2>1, <2>2
<1> HIDE DEF last, room
<1>3. ASSUME NEW rows \in Part PROVE filled(rows) \in Seq(Part)
  <2>1. \A i \in 1..last : filled(rows)[i] \in Part
    BY <1>1, <1>3
  <2>2. filled(rows) = [i \in 1..last |-> filled(rows)[i]]
    BY <1>1
  <2> HIDE DEF filled
  <2> QED
    BY <1>1, <2>1, <2>2, IsASeq
<1>4. RowsLand(parts, n) = IF over <= 0 THEN filled(MaxRowsPerFile - room + n)
                                        ELSE filled(MaxRowsPerFile) \o opened
  BY DEF RowsLand, last, room
<1>5. CASE over <= 0
  <2>1. MaxRowsPerFile - room + n \in Part
    BY <1>1, <1>2, <1>5 DEF Part
  <2> HIDE DEF filled, opened
  <2> QED
    BY <1>3, <1>4, <1>5, <2>1
<1>6. CASE ~(over <= 0)
  <2>1. over \in Nat /\ MaxRowsPerFile \in Part
    BY <1>1, <1>2, <1>6 DEF Part
  <2> HIDE DEF over
  <2>2. count \in Nat /\ \A r \in Nat : r < count => r * MaxRowsPerFile < over
    BY <1>1, <2>1, OpensForRows
  <2> HIDE DEF count
  <2>3. ASSUME NEW i \in 1..count PROVE opened[i] \in Part
    <3> DEFINE before == (i - 1) * MaxRowsPerFile
    <3>1. i - 1 \in Nat /\ i - 1 < count
      BY <2>2
    <3>2. before < over /\ before \in Nat
      <4>1. before < over
        BY <2>2, <3>1
      <4>2. before \in Nat
        BY <1>1, <3>1, ProductIsNat
      <4> QED
        BY <4>1, <4>2
    <3>3. opened[i] = Min({MaxRowsPerFile, over - before})
      OBVIOUS
    <3> HIDE DEF before, opened
    <3>4. opened[i] = IF MaxRowsPerFile <= over - before THEN MaxRowsPerFile ELSE over - before
      BY <1>1, <2>1, <3>2, <3>3, Smaller
    <3> QED
      BY <1>1, <2>1, <3>2, <3>4 DEF Part
  <2>4. opened \in Seq(Part)
    <3>1. opened = [i \in 1..count |-> opened[i]]
      OBVIOUS
    <3> HIDE DEF opened
    <3> QED
      BY <2>2, <2>3, <3>1, IsASeq
  <2>5. filled(MaxRowsPerFile) \in Seq(Part)
    BY <1>3, <2>1
  <2> HIDE DEF filled, opened
  <2> QED
    BY <1>4, <1>6, <2>4, <2>5, ConcatProperties DEF over
<1> QED
  BY <1>5, <1>6

------------------------------------------------------------------------------
(* The tables join *)

\* What is downloaded and sampled has its candidate row and its features.
Captured(item) ==
  item.id \in ShownSampled =>
    /\ [id |-> item.id, reel |-> item.reel, shown |-> TRUE] \in candidateRows
    /\ KeepMatrix => <<item.id, item.reel>> \in captured

Awaited == \A u \in Users : \A i \in 1..Len(feed[u]) : Captured(feed[u][i])

\* An outcome written completes its row, and nothing else does.
Completed ==
  /\ \A o \in outcomeRows :
       [id |-> o.id, reel |-> o.reel, shown |-> TRUE] \in candidateRows
  /\ KeepMatrix => labelled = OutcomeKeys
  /\ labelled \subseteq captured
  /\ IsFiniteSet(labelled) /\ completeRows = Cardinality(labelled)

\* Every candidate row has its request.
Requested == \A c \in candidateRows : \E q \in requestRows : q.id = c.id

\* The answers of the survey are those of the rows captured, which came first.
Surveyed ==
  /\ \A k \in surveyRows : k[1] \in 0..Len(requests)
  /\ rated = surveyRows \cap captured

Capped == candidateParts \in Seq(Part) /\ outcomeParts \in Seq(Part)

JoinInv == Awaited /\ Completed /\ Requested /\ Surveyed /\ Capped

LEMMA JoinBegins ==
  ASSUME Init PROVE JoinInv
<1>1. /\ candidateRows = {} /\ outcomeRows = {} /\ surveyRows = {} /\ labelled = {}
      /\ captured = {} /\ rated = {} /\ completeRows = 0
      /\ candidateParts = <<>> /\ outcomeParts = <<>>
      /\ \A u \in Users : feed[u] = <<>>
  BY DEF Init, StreamInit, LogInit
<1>2. Awaited
  BY <1>1, EmptySeq DEF Awaited
<1>3. Completed
  BY <1>1, FS_EmptySet DEF Completed, OutcomeKeys
<1>4. Requested /\ Surveyed /\ Capped
  BY <1>1, EmptySeq DEF Requested, Surveyed, Capped
<1> QED
  BY <1>2, <1>3, <1>4 DEF JoinInv

\* A request downloads reels that it captures when it is sampled.
LEMMA JoinAsked ==
  ASSUME StreamInv, JoinInv, NEW u \in Users, RequestFeed(u) PROVE JoinInv'
<1>1. PICK r \in Feeds :
        /\ StreamRequest(u, r, ServingVersion(AfterHook(now, Trainable)))
        /\ LogRequest(NextId, u, now, Reels, Range(r))
  BY DEF RequestFeed
<1> DEFINE n == Len(feed[u])
           shown == Range(r)
<1>2. /\ r \in Seq(Reels) /\ shown \in SUBSET Reels /\ IsFiniteSet(shown)
      /\ NextId \in Nat /\ NextId = Len(requests) + 1
      /\ Len(requests') = NextId
      /\ \A v \in Users : v # u => feed'[v] = feed[v]
      /\ n \in Nat
      /\ \A i \in 1..n : feed'[u][i] = feed[u][i]
      /\ \A i \in 1..Len(feed'[u]) : i > n =>
           /\ r[i - n] \in shown
           /\ feed'[u][i] = [id |-> NextId, reel |-> r[i - n]]
  <2>1. now \in Nat
    BY <1>1 DEF StreamInv, StreamTyped, Timely, StreamRequest
  <2>2. ServingVersion(AfterHook(now, Trainable)) \in Nat
    BY <2>1, HookTypes
  <2> QED
    BY <1>1, <2>2, Landing
<1> HIDE DEF shown, n
<1>3. /\ captured \subseteq captured' /\ candidateRows \subseteq candidateRows'
      /\ requestRows \subseteq requestRows'
      /\ UNCHANGED <<outcomeRows, outcomeParts, surveyRows, labelled, rated, completeRows>>
  BY <1>1 DEF LogRequest, logVars, tableVars, matrixVars
<1>4. ASSUME NEW x \in shown, NextId \in ShownSampled
      PROVE  /\ [id |-> NextId, reel |-> x, shown |-> TRUE] \in candidateRows'
             /\ KeepMatrix => <<NextId, x>> \in captured'
  <2>1. /\ candidateRows' = candidateRows \cup
              {[id |-> NextId, reel |-> y, shown |-> y \in shown] :
                 y \in IF NextId \in PoolSampled THEN Reels ELSE shown}
        /\ captured' = captured \cup Matrixed(NextId, shown)
    BY <1>1, <1>4 DEF LogRequest, shown
  <2>2. x \in IF NextId \in PoolSampled THEN Reels ELSE shown
    BY <1>2, <1>4
  <2>3. KeepMatrix => <<NextId, x>> \in Matrixed(NextId, shown)
    BY <1>4, Zenon DEF Matrixed
  <2>4. (x \in shown) = TRUE
    BY <1>4
  <2>5. [id |-> NextId, reel |-> x, shown |-> x \in shown] \in candidateRows'
    BY <2>1, <2>2, Zenon
  <2> QED
    BY <2>1, <2>3, <2>4, <2>5
<1>5. Awaited'
  <2> SUFFICES ASSUME NEW v \in Users, NEW i \in 1..Len(feed'[v])
               PROVE  Captured(feed[v][i])'
    BY DEF Awaited
  <2>1. CASE v = u /\ i > n
    <3>1. r[i - n] \in shown /\ feed'[v][i] = [id |-> NextId, reel |-> r[i - n]]
      BY <1>2, <2>1
    <3>2. feed'[v][i].id = NextId /\ feed'[v][i].reel = r[i - n]
      BY <3>1
    <3> QED
      BY <1>4, <3>1, <3>2 DEF Captured
  <2>2. CASE ~(v = u /\ i > n)
    <3>1. i \in 1..Len(feed[v]) /\ feed'[v][i] = feed[v][i]
      BY <1>2, <2>2 DEF n
    <3>2. Captured(feed[v][i])
      BY <3>1 DEF JoinInv, Awaited
    <3> QED
      BY <1>3, <3>1, <3>2 DEF Captured
  <2> QED
    BY <2>1, <2>2
<1>6. Completed'
  BY <1>3 DEF JoinInv, Completed, OutcomeKeys
<1>7. Requested'
  <2> SUFFICES ASSUME NEW c \in candidateRows', c \notin candidateRows
               PROVE  \E q \in requestRows' : q.id = c.id
    BY <1>3 DEF JoinInv, Requested
  <2>1. /\ requestRows' = requestRows \cup {[id |-> NextId, user |-> u, at |-> now]}
        /\ c.id = NextId
    BY <1>1 DEF LogRequest, logVars, tableVars
  <2>2. [id |-> NextId, user |-> u, at |-> now].id = NextId
    OBVIOUS
  <2> QED
    BY <2>1, <2>2
<1>8. Surveyed'
  <2>1. \A k \in surveyRows : k[1] \in 0..Len(requests)
    BY DEF JoinInv, Surveyed
  <2>2. captured' \ captured \subseteq {<<NextId, x>> : x \in shown}
    BY <1>1 DEF LogRequest, Matrixed, shown, logVars, matrixVars
  <2>3. ASSUME NEW k \in surveyRows, k \in captured' PROVE k \in captured
    <3>1. SUFFICES ASSUME k \notin captured PROVE FALSE
      OBVIOUS
    <3>2. PICK x \in shown : k = <<NextId, x>>
      BY <2>2, <2>3, <3>1
    <3> QED
      BY <1>2, <2>1, <3>2, LenProperties DEF StreamInv, StreamTyped
  <2>4. \A k \in surveyRows : k[1] \in 0..Len(requests')
    BY <1>2, <2>1, LenProperties DEF StreamInv, StreamTyped
  <2> QED
    BY <1>3, <2>3, <2>4 DEF JoinInv, Surveyed
<1>9. Capped'
  <2>1. IsFiniteSet(IF NextId \in PoolSampled THEN Reels ELSE shown)
    BY <1>2, StreamAssumption
  <2>2. Cardinality(IF NextId \in PoolSampled THEN Reels ELSE shown) \in Nat
    BY <2>1, FS_CardinalityType
  <2>3. \/ candidateParts' = candidateParts
        \/ candidateParts' = RowsLand(candidateParts,
              Cardinality(IF NextId \in PoolSampled THEN Reels ELSE shown))
    BY <1>1 DEF LogRequest, shown, logVars, tableVars
  <2> QED
    BY <1>3, <2>2, <2>3, RowsWithinCap DEF JoinInv, Capped
<1> QED
  BY <1>5, <1>6, <1>7, <1>8, <1>9 DEF JoinInv

\* Shorter feeds await no more.
LEMMA ShorterFeeds ==
  ASSUME StreamInv, JoinInv, NEW u \in Users, StartReel(u) \/ ExitApp(u),
         UNCHANGED <<captured, candidateRows>>
  PROVE  Awaited'
<1> SUFFICES ASSUME NEW v \in Users, NEW i \in 1..Len(feed'[v])
             PROVE  Captured(feed[v][i])'
  BY DEF Awaited
<1>1. PICK j \in 1..Len(feed[v]) : feed'[v][i] = feed[v][j]
  BY StreamShortens
<1>2. Captured(feed[v][j])
  BY DEF JoinInv, Awaited
<1> QED
  BY <1>1, <1>2 DEF Captured

\* An outcome completes the row of an item that was downloaded and sampled.
LEMMA JoinShown ==
  ASSUME StreamInv, JoinInv, NEW u \in Users, StartReel(u) PROVE JoinInv'
<1> DEFINE item == Head(feed[u])
           key == <<item.id, item.reel>>
<1>1. PICK surveyed \in BOOLEAN :
        feed[u] # <<>> /\ LogImpression(item.id, item.reel, now, surveyed)
  BY DEF StartReel, StreamImpression
<1>2. /\ item \in Items /\ item = feed[u][1] /\ 1 \in 1..Len(feed[u])
      /\ Len(requests) \in Nat
  BY <1>1, HeadTailProperties, LenProperties, EmptySeq, ElementOfSeq
     DEF StreamInv, StreamTyped
<1>3. item.id \in 0..Len(requests) /\ Captured(item)
  BY <1>2 DEF Items, StreamInv, Timely, JoinInv, Awaited
<1> HIDE DEF item
<1>4. UNCHANGED <<requestRows, candidateRows, candidateParts, captured>>
      /\ requests' = requests
  BY <1>1 DEF LogImpression, StartReel, StreamImpression
<1>5. Awaited'
  BY <1>4, ShorterFeeds
<1>6. Completed'
  <2>1. CASE item.id \notin ShownSampled
    <3>1. UNCHANGED <<labelled, completeRows, outcomeRows>>
      BY <1>1, <2>1 DEF LogImpression, TakesOutcome
    <3> QED
      BY <1>4, <3>1 DEF JoinInv, Completed, OutcomeKeys
  <2>2. CASE item.id \in ShownSampled
    <3> DEFINE row == [id |-> item.id, reel |-> item.reel, at |-> now]
    <3>1. /\ labelled' = IF key \in captured THEN labelled \cup {key} ELSE labelled
          /\ completeRows' = IF key \in captured /\ key \notin labelled
                             THEN completeRows + 1 ELSE completeRows
          /\ outcomeRows' = outcomeRows \cup {row}
      BY <1>1, <2>2 DEF LogImpression, TakesOutcome
    <3>2. /\ [id |-> item.id, reel |-> item.reel, shown |-> TRUE] \in candidateRows
          /\ KeepMatrix => key \in captured
      BY <1>3, <2>2 DEF Captured
    <3>3. OutcomeKeys' = OutcomeKeys \cup {key}
      <4>1. <<row.id, row.reel>> = key
        OBVIOUS
      <4> HIDE DEF row, key
      <4> QED
        BY <3>1, <4>1 DEF OutcomeKeys
    <3>4. \A o \in outcomeRows' :
            [id |-> o.id, reel |-> o.reel, shown |-> TRUE] \in candidateRows'
      <4>1. row.id = item.id /\ row.reel = item.reel
        OBVIOUS
      <4> HIDE DEF row
      <4> QED
        BY <1>4, <3>1, <3>2, <4>1 DEF JoinInv, Completed
    <3> HIDE DEF key, row
    <3>5. IsFiniteSet(labelled') /\ completeRows' = Cardinality(labelled')
      <4>1. IsFiniteSet(labelled) /\ completeRows = Cardinality(labelled)
        BY DEF JoinInv, Completed
      <4>2. IsFiniteSet(labelled \cup {key})
            /\ Cardinality(labelled \cup {key}) = IF key \in labelled THEN Cardinality(labelled)
                                                  ELSE Cardinality(labelled) + 1
        BY <4>1, FS_AddElement
      <4> QED
        BY <3>1, <4>1, <4>2
    <3>6. (KeepMatrix => labelled' = OutcomeKeys') /\ labelled' \subseteq captured'
      BY <1>4, <3>1, <3>2, <3>3 DEF JoinInv, Completed
    <3> QED
      BY <3>4, <3>5, <3>6 DEF Completed
  <2> QED
    BY <2>1, <2>2
<1>7. Requested'
  BY <1>4 DEF JoinInv, Requested
<1>8. Surveyed'
  <2>1. /\ surveyRows' = IF surveyed THEN surveyRows \cup {key} ELSE surveyRows
        /\ rated' = IF surveyed /\ key \in captured THEN rated \cup {key} ELSE rated
    BY <1>1 DEF LogImpression
  <2>2. key[1] = item.id
    OBVIOUS
  <2> HIDE DEF key
  <2> QED
    BY <1>3, <1>4, <2>1, <2>2 DEF JoinInv, Surveyed
<1>9. Capped'
  <2>1. outcomeParts' = outcomeParts \/ outcomeParts' = RowsLand(outcomeParts, 1)
    BY <1>1 DEF LogImpression
  <2> QED
    BY <1>4, <2>1, RowsWithinCap DEF JoinInv, Capped
<1> QED
  BY <1>5, <1>6, <1>7, <1>8, <1>9 DEF JoinInv

\* What the others leave alone.
LEMMA JoinKept ==
  ASSUME StreamInv, JoinInv, UNCHANGED <<logVars, requests>>, Awaited'
  PROVE  JoinInv'
<1>1. Completed' /\ Requested' /\ Surveyed' /\ Capped'
  BY DEF JoinInv, Completed, Requested, Surveyed, Capped, OutcomeKeys,
         logVars, tableVars, matrixVars
<1> QED
  BY <1>1 DEF JoinInv

LEMMA JoinStep ==
  ASSUME StreamInv, JoinInv, [Next]_vars PROVE JoinInv'
<1>1. CASE BeginGroup \/ EndPhase \/ UNCHANGED vars
  <2>1. UNCHANGED <<logVars, requests, feed>>
    BY <1>1 DEF BeginGroup, EndPhase, StreamGroup, StreamPhase, vars, streamVars
  <2>2. Awaited'
    BY <2>1 DEF JoinInv, Awaited, Captured, logVars, tableVars, matrixVars
  <2> QED
    BY <2>1, <2>2, JoinKept
<1>2. CASE Finish
  <2>1. UNCHANGED <<requestRows, candidateRows, outcomeRows, surveyRows, captured, labelled,
                    rated, completeRows, feed, requests>>
    BY <1>2 DEF Finish, LogFinish, StreamEnd, matrixVars
  <2>2. Awaited' /\ Completed' /\ Requested' /\ Surveyed'
    BY <2>1 DEF JoinInv, Awaited, Captured, Completed, Requested, Surveyed, OutcomeKeys
  <2>3. Capped'
    <3>1. 0 \in Part /\ <<0>> \in Seq(Part)
      BY LogAssumption DEF Part
    <3> QED
      BY <1>2, <3>1 DEF Finish, LogFinish, JoinInv, Capped
  <2> QED
    BY <2>2, <2>3 DEF JoinInv
<1>3. ASSUME NEW u \in Users, ExitApp(u) PROVE JoinInv'
  <2>1. UNCHANGED <<logVars, requests, captured, candidateRows>>
    BY <1>3 DEF ExitApp, StreamExit, logVars, tableVars, matrixVars
  <2> QED
    BY <1>3, <2>1, ShorterFeeds, JoinKept
<1> QED
  BY <1>1, <1>2, <1>3, JoinAsked, JoinShown DEF Next, Terminated

LEMMA JoinCorrect == Spec => [](StreamInv /\ JoinInv)
<1>1. Init => StreamInv /\ JoinInv
  BY StreamBegins, JoinBegins
<1>2. StreamInv /\ JoinInv /\ [Next]_vars => (StreamInv /\ JoinInv)'
  BY StreamStep, JoinStep
<1> QED
  BY <1>1, <1>2, PTL DEF Spec

\* When the matrix is kept, the rows to train on are those with an outcome.
LEMMA TrainableRows ==
  ASSUME JoinInv
  PROVE  /\ Trainable = labelled /\ IsFiniteSet(Trainable)
         /\ KeepMatrix => Trainable = OutcomeKeys
BY DEF JoinInv, Completed, Trainable

\* The tables join, the count that gates a retrain is that of the rows it
\* trains on, and no part exceeds its cap (onRequestRanked and
\* onImpressionOutcome of the training logger).
THEOREM TablesJoinCorrect == Spec => []TablesJoin
<1>1. ASSUME StreamInv, JoinInv PROVE TablesJoin
  <2>1. RowsJoined
    BY <1>1 DEF RowsJoined, JoinInv, Completed, Requested, DroppedNoRequest, Joined
  <2>2. CountExact
    BY <1>1, TrainableRows DEF CountExact, JoinInv, Completed
  <2>3. ASSUME NEW parts \in Seq(Part) PROVE \A i \in DOMAIN parts : parts[i] <= MaxRowsPerFile
    <3>1. \A i \in DOMAIN parts : parts[i] \in Part
      BY ElementOfSeq, LenProperties
    <3> QED
      BY <3>1, LogAssumption DEF Part
  <2> QED
    BY <1>1, <2>1, <2>2, <2>3 DEF TablesJoin, JoinInv, Capped
<1> QED
  BY <1>1, JoinCorrect, PTL

------------------------------------------------------------------------------
(* The log reads back as what was trained on *)

RequestRecords == [id : Nat, user : Users, at : Nat]

\* The rows of requests.csv, of which there is a finite number.
Listed == requestRows \subseteq RequestRecords /\ IsFiniteSet(requestRows)

LEMMA ListedStep ==
  ASSUME StreamInv, Listed, [Next]_vars PROVE Listed'
<1>1. ASSUME NEW u \in Users, RequestFeed(u) PROVE Listed'
  <2>1. PICK r \in Feeds :
          StreamRequest(u, r, ServingVersion(AfterHook(now, Trainable)))
            /\ LogRequest(NextId, u, now, Reels, Range(r))
    BY <1>1 DEF RequestFeed
  <2>2. now \in Nat /\ NextId \in Nat
    BY <2>1, LenProperties DEF StreamInv, StreamTyped, Timely, StreamRequest, NextId
  <2> DEFINE row == [id |-> NextId, user |-> u, at |-> now]
  <2>3. row \in RequestRecords
    BY <2>2 DEF RequestRecords
  <2>4. requestRows' \in {requestRows, requestRows \cup {row}}
    BY <2>1 DEF LogRequest, logVars, tableVars
  <2> HIDE DEF row
  <2>5. IsFiniteSet(requestRows \cup {row})
    BY FS_AddElement DEF Listed
  <2> QED
    BY <2>3, <2>4, <2>5 DEF Listed
<1>2. ASSUME UNCHANGED requestRows PROVE Listed'
  BY <1>2 DEF Listed
<1>3. CASE BeginGroup \/ EndPhase \/ Finish \/ UNCHANGED vars
  BY <1>2, <1>3 DEF BeginGroup, EndPhase, Finish, LogFinish, vars, logVars, tableVars
<1>4. ASSUME NEW u \in Users, StartReel(u) \/ ExitApp(u) PROVE Listed'
  BY <1>2, <1>4 DEF StartReel, ExitApp, LogImpression, logVars, tableVars
<1> QED
  BY <1>1, <1>3, <1>4 DEF Next, Terminated

\* An example is a joined candidate with its request.
LEMMA ExampleRows ==
  ASSUME Listed
  PROVE  /\ \A e \in Examples : \E c \in Joined, q \in requestRows :
              /\ e.key = <<c.id, c.reel>> /\ e.key[1] = q.id /\ e.at = q.at
              /\ e.rated = (e.key \in surveyRows)
         /\ \A c \in Joined, q \in requestRows : c.id = q.id =>
              \E e \in Examples : e.key = <<c.id, c.reel>>
                                  /\ e.rated = (<<c.id, c.reel>> \in surveyRows)
<1> DEFINE example(c, q) == [key |-> <<c.id, c.reel>>, at |-> q.at, user |-> q.user,
                             rated |-> <<c.id, c.reel>> \in surveyRows]
<1>1. ASSUME NEW e \in Examples
      PROVE  \E c \in Joined, q \in requestRows : c.id = q.id /\ e = example(c, q)
  <2>1. PICK p \in {p \in Joined \X requestRows : p[1].id = p[2].id} :
          e = example(p[1], p[2])
    BY <1>1 DEF Examples
  <2>2. p[1] \in Joined /\ p[2] \in requestRows /\ p[1].id = p[2].id
    OBVIOUS
  <2> QED
    BY <2>1, <2>2
<1>2. ASSUME NEW c \in Joined, NEW q \in requestRows, c.id = q.id
      PROVE  example(c, q) \in Examples
  <2> DEFINE p == <<c, q>>
  <2>1. p \in Joined \X requestRows /\ p[1] = c /\ p[2] = q
    OBVIOUS
  <2>2. p \in {p_1 \in Joined \X requestRows : p_1[1].id = p_1[2].id}
    BY <1>2, <2>1
  <2>3. example(p[1], p[2]) \in Examples
    BY <2>2 DEF Examples
  <2> QED
    BY <2>1, <2>3
<1>3. ASSUME NEW c, NEW q
      PROVE  /\ example(c, q).key = <<c.id, c.reel>> /\ example(c, q).at = q.at
             /\ example(c, q).rated = (<<c.id, c.reel>> \in surveyRows)
             /\ <<c.id, c.reel>>[1] = c.id
  OBVIOUS
<1> HIDE DEF example
<1>4. ASSUME NEW e \in Examples
      PROVE  \E c \in Joined, q \in requestRows :
              /\ e.key = <<c.id, c.reel>> /\ e.key[1] = q.id /\ e.at = q.at
              /\ e.rated = (e.key \in surveyRows)
  <2>1. PICK c \in Joined, q \in requestRows : c.id = q.id /\ e = example(c, q)
    BY <1>1
  <2> QED
    BY <1>3, <2>1
<1> QED
  BY <1>2, <1>3, <1>4

\* What is read back is what was trained on.
LEMMA ReadBack ==
  ASSUME StreamInv, JoinInv, Listed, KeepMatrix
  PROVE  /\ {e.key : e \in Examples} = Trainable
         /\ {e.key : e \in {x \in Examples : x.rated}} = rated \cap Trainable
<1>1. Trainable = OutcomeKeys /\ rated \cap Trainable = surveyRows \cap OutcomeKeys
  BY TrainableRows DEF JoinInv, Surveyed, Completed
<1>2. \A e \in Examples : e.key \in OutcomeKeys /\ e.rated = (e.key \in surveyRows)
  <2> SUFFICES ASSUME NEW e \in Examples
               PROVE  e.key \in OutcomeKeys /\ e.rated = (e.key \in surveyRows)
    OBVIOUS
  <2>1. PICK c \in Joined : e.key = <<c.id, c.reel>> /\ e.rated = (e.key \in surveyRows)
    BY ExampleRows
  <2> QED
    BY <2>1 DEF Joined
<1>3. \A k \in OutcomeKeys : \E e \in Examples : e.key = k /\ e.rated = (k \in surveyRows)
  <2> SUFFICES ASSUME NEW k \in OutcomeKeys
               PROVE  \E e \in Examples : e.key = k /\ e.rated = (k \in surveyRows)
    OBVIOUS
  <2>1. PICK o \in outcomeRows : k = <<o.id, o.reel>>
    BY DEF OutcomeKeys
  <2> DEFINE c == [id |-> o.id, reel |-> o.reel, shown |-> TRUE]
  <2>2. c \in candidateRows /\ c.shown /\ k = <<c.id, c.reel>>
    BY <2>1 DEF JoinInv, Completed
  <2> HIDE DEF c
  <2>3. c \in Joined
    BY <2>2 DEF Joined
  <2>4. PICK q \in requestRows : q.id = c.id
    BY <2>2 DEF JoinInv, Requested
  <2> QED
    BY <2>2, <2>3, <2>4, ExampleRows
<1> QED
  BY <1>1, <1>2, <1>3

\* Requests of an earlier time have fewer requests before them.
LEMMA EarlierTrains ==
  ASSUME Listed, NEW e \in TrainExamples(Examples),
         NEW f \in Examples \ TrainExamples(Examples)
  PROVE  e.at <= f.at
<1> DEFINE split == SplitRequests(Examples)
           before(x) == {p \in split : Precedes(p, <<x.at, x.key[1]>>)}
           bound == (8 * Cardinality(split)) \div 10
           timed == [q \in requestRows |-> <<q.at, q.id>>]
<1>1. \A x \in Examples : x.at \in Nat /\ \E q \in requestRows :
                             <<x.at, x.key[1]>> = <<q.at, q.id>>
  <2> SUFFICES ASSUME NEW x \in Examples
               PROVE  x.at \in Nat /\ \E q \in requestRows :
                                        <<x.at, x.key[1]>> = <<q.at, q.id>>
    OBVIOUS
  <2>1. PICK q \in requestRows : x.key[1] = q.id /\ x.at = q.at
    BY ExampleRows
  <2>2. q.at \in Nat
    BY DEF Listed, RequestRecords
  <2> QED
    BY <2>1, <2>2
<1>2. split \subseteq Range(timed)
  <2> SUFFICES ASSUME NEW p \in split PROVE p \in Range(timed)
    OBVIOUS
  <2>1. PICK x \in Examples : p = <<x.at, x.key[1]>>
    BY DEF SplitRequests
  <2>2. PICK q \in requestRows : p = <<q.at, q.id>>
    BY <1>1, <2>1
  <2> QED
    BY <2>2 DEF Range
<1>3. IsFiniteSet(split)
  <2>1. timed \in Surjection(requestRows, Range(timed))
    BY DEF Surjection, Range
  <2>2. IsFiniteSet(Range(timed))
    BY <2>1, FS_Surjection DEF Listed
  <2> QED
    BY <1>2, <2>2, FS_Subset
<1>4. \A p \in split : p[1] \in Nat
  BY <1>1 DEF SplitRequests
<1>5. e \in Examples /\ f \in Examples
      /\ Cardinality(before(e)) < bound /\ ~(Cardinality(before(f)) < bound)
  BY DEF TrainExamples
<1>6. e.at \in Nat /\ f.at \in Nat
  BY <1>1, <1>5
<1>7. \A x \in Examples : \A p \in split :
        p \in before(x) <=> p[1] < x.at \/ (p[1] = x.at /\ p[2] < x.key[1])
  BY DEF Precedes
<1> HIDE DEF split, bound
<1>8. IsFiniteSet(before(e)) /\ IsFiniteSet(before(f))
  BY <1>3, FS_Subset
<1>9. Cardinality(before(e)) \in Nat /\ Cardinality(before(f)) \in Nat /\ bound \in Int
  <2>1. Cardinality(split) \in Nat
    BY <1>3, FS_CardinalityType
  <2> QED
    BY <1>8, <2>1, FS_CardinalityType DEF bound
<1>10. SUFFICES ASSUME f.at < e.at PROVE FALSE
  BY <1>6
<1>11. before(f) \subseteq before(e)
  BY <1>4, <1>5, <1>6, <1>7, <1>10
<1> HIDE DEF before
<1>12. Cardinality(before(f)) <= Cardinality(before(e))
  BY <1>8, <1>11, FS_Subset
<1> QED
  BY <1>5, <1>9, <1>12

\* The offline loader reads back the examples the run trained on, with their
\* survey labels, and the temporal split trains on nothing later than it tests
\* on (loadTrainingLog and assignSplit).
THEOREM OfflineMatchesMemoryCorrect == Spec => []OfflineMatchesMemory
<1>1. Init => Listed
  BY FS_EmptySet DEF Init, LogInit, Listed
<1>2. StreamInv /\ Listed /\ [Next]_vars => Listed'
  BY ListedStep
<1>3. StreamInv /\ JoinInv /\ Listed => OfflineMatchesMemory
  BY ReadBack, EarlierTrains DEF OfflineMatchesMemory
<1> QED
  BY <1>1, <1>2, <1>3, JoinCorrect, PTL DEF Spec

------------------------------------------------------------------------------
(* Days, and what they add up to *)

\* A number lies in the chunk its quotient names.
LEMMA Quotient ==
  ASSUME NEW t \in Nat, NEW c \in Nat \ {0}
  PROVE  t \div c \in Nat /\ (t \div c) * c <= t /\ t < (t \div c) * c + c
OBVIOUS

LEMMA MoreChunks ==
  ASSUME NEW a \in Nat, NEW b \in Nat, NEW c \in Nat, a <= b
  PROVE  a * c <= b * c
OBVIOUS

LEMMA OneChunkMore ==
  ASSUME NEW a \in Nat, NEW c \in Nat
  PROVE  (a + 1) * c = a * c + c
OBVIOUS

\* A quotient is at least m exactly when the number is at least m chunks.
LEMMA QuotientReaches ==
  ASSUME NEW t \in Nat, NEW c \in Nat \ {0}, NEW m \in Nat
  PROVE  m <= t \div c <=> m * c <= t
<1> DEFINE q == t \div c
<1>1. q \in Nat /\ q * c <= t /\ t < q * c + c
  BY Quotient
<1> HIDE DEF q
<1>2. m * c \in Nat /\ q * c \in Nat /\ (q + 1) * c = q * c + c
  BY <1>1, ProductIsNat, OneChunkMore
<1>3. ASSUME m <= q PROVE m * c <= t
  BY <1>1, <1>2, <1>3, MoreChunks
<1>4. ASSUME m * c <= t PROVE m <= q
  <2>1. SUFFICES ASSUME q + 1 <= m PROVE FALSE
    BY <1>1
  <2>2. (q + 1) * c <= m * c
    BY <1>1, <2>1, MoreChunks
  <2> QED
    BY <1>1, <1>2, <1>4, <2>2
<1> QED
  BY <1>3, <1>4 DEF q

\* Quotients are in order.
LEMMA QuotientMonotone ==
  ASSUME NEW s \in Nat, NEW t \in Nat, NEW c \in Nat \ {0}, s <= t
  PROVE  s \div c <= t \div c
<1> DEFINE m == s \div c
<1>1. m \in Nat /\ m * c <= s
  BY Quotient
<1> HIDE DEF m
<1>2. m * c \in Nat
  BY <1>1, ProductIsNat
<1>3. m * c <= t
  BY <1>1, <1>2
<1> QED
  BY <1>1, <1>3, QuotientReaches DEF m

LEMMA DayFacts ==
  /\ NumDays \in Nat \ {0} /\ NumDays - 1 \in Days /\ 0 \in Days
  /\ \A t \in 0..Horizon : DayOf(t) \in Days
  /\ \A s, t \in 0..Horizon : s <= t => DayOf(s) <= DayOf(t)
<1>1. Horizon \div DayLength \in Nat
  BY StreamAssumption, Quotient
<1>2. NumDays \in Nat \ {0}
  BY <1>1 DEF NumDays
<1>3. ASSUME NEW t \in 0..Horizon PROVE DayOf(t) = t \div DayLength /\ DayOf(t) \in Days
  <2>1. t \div DayLength \in Nat /\ t \div DayLength <= Horizon \div DayLength
    BY StreamAssumption, Quotient, QuotientMonotone
  <2> DEFINE day == t \div DayLength
             last == Horizon \div DayLength
  <2>2. day \in Nat /\ last \in Nat /\ day <= last /\ NumDays = last + 1
        /\ DayOf(t) = IF day < NumDays THEN day ELSE NumDays - 1
    BY <1>1, <2>1 DEF NumDays, DayOf
  <2> HIDE DEF day, last
  <2>3. DayOf(t) = day /\ day \in 0..NumDays - 1
    BY <2>2
  <2> QED
    BY <2>3 DEF day, Days
<1>4. ASSUME NEW s \in 0..Horizon, NEW t \in 0..Horizon, s <= t PROVE DayOf(s) <= DayOf(t)
  <2>1. DayOf(s) = s \div DayLength /\ DayOf(t) = t \div DayLength
    BY <1>3
  <2>2. s \in Nat /\ t \in Nat
    BY StreamAssumption
  <2> QED
    BY <1>4, <2>1, <2>2, QuotientMonotone, StreamAssumption
<1> QED
  BY <1>2, <1>3, <1>4 DEF Days

LEMMA MarkFacts ==
  ASSUME NEW f \in [Days -> Nat], NEW d \in Days
  PROVE  /\ \A p : p \in Marks(f, d) <=> \E e \in 0..d : \E k \in 1..f[e] : p = <<e, k>>
         /\ IsFiniteSet(Marks(f, d)) /\ SumUpTo(f, d) \in Nat
<1> DEFINE marks == [e \in 0..d |-> {e} \X (1..f[e])]
<1>1. d \in Nat /\ \A e \in 0..d : f[e] \in Nat
  BY DayFacts DEF Days
<1>2. Marks(f, d) = UNION Range(marks)
  BY DEF Marks, Range
<1>3. IsFiniteSet(Range(marks))
  <2>1. marks \in Surjection(0..d, Range(marks))
    BY DEF Surjection, Range
  <2>2. IsFiniteSet(0..d)
    BY <1>1, FS_Interval
  <2> QED
    BY <2>1, <2>2, FS_Surjection
<1>4. \A m \in Range(marks) : IsFiniteSet(m)
  <2> SUFFICES ASSUME NEW m \in Range(marks) PROVE IsFiniteSet(m)
    OBVIOUS
  <2>1. PICK e \in 0..d : m = {e} \X (1..f[e])
    BY DEF Range
  <2>2. IsFiniteSet({e}) /\ IsFiniteSet(1..f[e])
    <3>1. f[e] \in Int /\ 1 \in Int
      BY <1>1
    <3>2. IsFiniteSet(1..f[e])
      BY <3>1, FS_Interval
    <3>3. IsFiniteSet({e})
      BY FS_Singleton
    <3> QED
      BY <3>2, <3>3
  <2> QED
    BY <2>1, <2>2, FS_Product
<1>5. IsFiniteSet(Marks(f, d))
  BY <1>2, <1>3, <1>4, FS_UNION
<1>6. \A p : p \in Marks(f, d) <=> \E e \in 0..d : \E k \in 1..f[e] : p = <<e, k>>
  BY DEF Marks
<1> QED
  BY <1>5, <1>6, FS_CardinalityType DEF SumUpTo

\* One more on a day is one more from that day on.
LEMMA OneMore ==
  ASSUME NEW f \in [Days -> Nat], NEW day \in Days, NEW d \in Days
  PROVE  LET g == [f EXCEPT ![day] = @ + 1]
         IN  /\ g \in [Days -> Nat] /\ g[day] > 0 /\ \A e \in Days : g[e] >= f[e]
             /\ \A e \in Days : e # day => g[e] = f[e]
             /\ SumUpTo(g, d) = IF day <= d THEN SumUpTo(f, d) + 1 ELSE SumUpTo(f, d)
<1> DEFINE g == [f EXCEPT ![day] = @ + 1]
           new == <<day, f[day] + 1>>
<1>1. /\ g \in [Days -> Nat] /\ g[day] = f[day] + 1 /\ f[day] \in Nat
      /\ \A e \in Days : e # day => g[e] = f[e]
  OBVIOUS
<1> HIDE DEF g
<1>2. d \in Nat /\ day \in Nat /\ \A e \in 0..d : e \in Days
  BY DayFacts DEF Days
<1>3. \A p : p \in Marks(f, d) <=> \E e \in 0..d : \E k \in 1..f[e] : p = <<e, k>>
  BY MarkFacts
<1>4. \A p : p \in Marks(g, d) <=> \E e \in 0..d : \E k \in 1..g[e] : p = <<e, k>>
  BY <1>1, MarkFacts
<1>5. CASE day <= d
  <2>1. Marks(g, d) = Marks(f, d) \cup {new}
    <3>1. ASSUME NEW p \in Marks(g, d) PROVE p \in Marks(f, d) \cup {new}
      <4>1. PICK e \in 0..d : \E k \in 1..g[e] : p = <<e, k>>
        BY <1>4
      <4>2. PICK k \in 1..g[e] : p = <<e, k>>
        BY <4>1
      <4>3. CASE e = day /\ k = f[day] + 1
        BY <4>2, <4>3
      <4>4. CASE ~(e = day /\ k = f[day] + 1)
        <5>1. k \in 1..f[e]
          BY <1>1, <1>2, <4>2, <4>4
        <5> QED
          BY <1>3, <4>2, <5>1
      <4> QED
        BY <4>3, <4>4
    <3>2. ASSUME NEW p \in Marks(f, d) PROVE p \in Marks(g, d)
      <4>1. PICK e \in 0..d : \E k \in 1..f[e] : p = <<e, k>>
        BY <1>3
      <4>2. PICK k \in 1..f[e] : p = <<e, k>>
        BY <4>1
      <4>3. k \in 1..g[e]
        BY <1>1, <1>2, <4>2
      <4> QED
        BY <1>4, <4>2, <4>3
    <3>3. new \in Marks(g, d)
      <4>1. day \in 0..d /\ f[day] + 1 \in 1..g[day]
        BY <1>1, <1>2, <1>5
      <4> QED
        BY <1>4, <4>1
    <3> QED
      BY <3>1, <3>2, <3>3
  <2>2. new \notin Marks(f, d)
    <3> SUFFICES ASSUME NEW e \in 0..d, NEW k \in 1..f[e], new = <<e, k>> PROVE FALSE
      BY <1>3
    <3>1. e = day /\ k = f[day] + 1
      OBVIOUS
    <3> QED
      BY <1>1, <3>1
  <2> HIDE DEF new
  <2>3. SumUpTo(g, d) = SumUpTo(f, d) + 1
    BY <2>1, <2>2, MarkFacts, FS_AddElement DEF SumUpTo
  <2> QED
    BY <1>1, <1>5, <2>3 DEF g
<1>6. CASE ~(day <= d)
  <2>1. \A e \in 0..d : g[e] = f[e]
    BY <1>1, <1>2, <1>6
  <2>2. Marks(g, d) = Marks(f, d)
    BY <1>3, <1>4, <2>1
  <2> QED
    BY <1>1, <1>6, <2>2 DEF g, SumUpTo
<1> QED
  BY <1>5, <1>6

\* Days without marks add nothing.
LEMMA EmptyDays ==
  ASSUME NEW f \in [Days -> Nat], NEW c \in Days, NEW d \in Days, c <= d,
         \A e \in Days : e > c => f[e] = 0
  PROVE  SumUpTo(f, c) = SumUpTo(f, d)
<1>1. c \in Nat /\ d \in Nat /\ \A e \in 0..d : e \in Days
  BY DayFacts DEF Days
<1>2. \A p : p \in Marks(f, c) <=> \E e \in 0..c : \E k \in 1..f[e] : p = <<e, k>>
  BY MarkFacts
<1>3. \A p : p \in Marks(f, d) <=> \E e \in 0..d : \E k \in 1..f[e] : p = <<e, k>>
  BY MarkFacts
<1>4. \A e \in 0..d : e \in 0..c \/ 1..f[e] = {}
  <2> SUFFICES ASSUME NEW e \in 0..d, e \notin 0..c PROVE f[e] = 0
    OBVIOUS
  <2> QED
    BY <1>1
<1>5. \A e \in 0..c : e \in 0..d
  BY <1>1
<1>6. Marks(f, c) = Marks(f, d)
  BY <1>2, <1>3, <1>4, <1>5
<1> QED
  BY <1>6 DEF SumUpTo

\* No marks at all.
LEMMA NoMarks ==
  ASSUME NEW d \in Days
  PROVE  SumUpTo([e \in Days |-> 0], d) = 0
<1> DEFINE f == [e \in Days |-> 0]
<1>1. f \in [Days -> Nat] /\ \A e \in 0..d : f[e] = 0
  BY DayFacts DEF Days
<1> HIDE DEF f
<1>2. \A p : p \in Marks(f, d) <=> \E e \in 0..d : \E k \in 1..f[e] : p = <<e, k>>
  BY <1>1, MarkFacts
<1>3. \A e \in 0..d : 1..f[e] = {}
  BY <1>1
<1>4. Marks(f, d) = {}
  BY <1>2, <1>3
<1> QED
  BY <1>4, FS_EmptySet DEF SumUpTo, f

------------------------------------------------------------------------------
(* The day books *)

LedgerTyped ==
  /\ snapshot \in [Days -> Int]
  /\ impressionsBy \in [Days -> Nat] /\ requestsBy \in [Days -> Nat]
  /\ closedBy \in [Days -> Nat] /\ startedBy \in [Days -> Nat]
  /\ processedDay = IF now = -1 THEN -1 ELSE DayOf(now)

\* Nothing is booked on a day to come; an open session has begun on a day with
\* impressions.
Booked ==
  /\ \A d \in Days : d > processedDay => impressionsBy[d] = 0
  /\ \A u \in Users : sessionStart[u] # -1 => impressionsBy[DayOf(sessionStart[u])] > 0

\* The days left behind, and at the end all, have their snapshot.
Settled ==
  \A d \in Days :
    (requests # <<>> /\ d >= DayOf(requests[1].at) /\ (ended \/ d < processedDay))
      => snapshot[d] = SumUpTo(impressionsBy, d)

LedgerInv == LedgerTyped /\ Booked /\ Settled /\ DayBooksBalance

LEMMA LedgerBegins ==
  ASSUME Init PROVE LedgerInv
<1>1. /\ now = -1 /\ processedDay = -1 /\ requests = <<>> /\ impressions = 0 /\ ended = FALSE
      /\ snapshot = [d \in Days |-> -1]
      /\ impressionsBy = [d \in Days |-> 0] /\ requestsBy = [d \in Days |-> 0]
      /\ closedBy = [d \in Days |-> 0] /\ startedBy = [d \in Days |-> 0]
      /\ sessionStart = [u \in Users |-> -1]
  BY DEF Init, StreamInit, Ledger!LedgerInit, Ledger!Day, Days
<1>2. LedgerTyped
  BY <1>1 DEF LedgerTyped
<1>3. Booked /\ Settled
  BY <1>1 DEF Booked, Settled
<1>4. DayBooksBalance
  <2>1. Len(requests) = 0
    BY <1>1
  <2>2. \A d \in Days : SumUpTo([e \in Days |-> 0], d) = 0
    BY NoMarks
  <2>3. NumDays - 1 \in Days
    BY DayFacts
  <2> QED
    BY <1>1, <2>1, <2>2, <2>3 DEF DayBooksBalance
<1> QED
  BY <1>2, <1>3, <1>4 DEF LedgerInv

\* From the day in process on, what is booked is all there is.
LEMMA AllSoFar ==
  ASSUME LedgerInv, NEW d \in Days, d >= processedDay, StreamInv
  PROVE  SumUpTo(impressionsBy, d) = impressions
<1>1. /\ NumDays - 1 \in Days /\ d <= NumDays - 1 /\ impressionsBy \in [Days -> Nat]
      /\ d \in Int /\ NumDays \in Int
  BY DayFacts DEF Days, LedgerInv, LedgerTyped
<1>2. processedDay \in Int
  BY DayFacts DEF Days, LedgerInv, LedgerTyped, StreamInv, StreamTyped
<1>3. \A e \in Days : e > d => impressionsBy[e] = 0
  BY <1>1, <1>2 DEF LedgerInv, Booked, Days
<1>4. SumUpTo(impressionsBy, d) = SumUpTo(impressionsBy, NumDays - 1)
  BY <1>1, <1>3, EmptyDays
<1> QED
  BY <1>4 DEF LedgerInv, DayBooksBalance

\* The first request is of a day in process or behind.
LEMMA FirstDay ==
  ASSUME StreamInv, LedgerInv, requests # <<>>
  PROVE  now \in 0..Horizon /\ processedDay = DayOf(now) /\ DayOf(requests[1].at) <= processedDay
         /\ DayOf(requests[1].at) \in Days
<1>1. 1 \in 1..Len(requests)
  BY EmptySeq, LenProperties DEF StreamInv, StreamTyped
<1>2. requests[1] \in Asked
  BY <1>1, ElementOfSeq DEF StreamInv, StreamTyped
<1>3. requests[1].at \in Nat /\ requests[1].at <= now /\ now \in -1..Horizon
  BY <1>1, <1>2 DEF Asked, StreamInv, StreamTyped, Timely
<1>4. requests[1].at \in 0..Horizon /\ now \in 0..Horizon /\ now # -1
  BY <1>3, StreamAssumption
<1> QED
  BY <1>3, <1>4, DayFacts DEF LedgerInv, LedgerTyped

\* A group begins, perhaps of a later day: those between get their snapshot.
LEMMA LedgerGroup ==
  ASSUME StreamInv, LedgerInv, BeginGroup PROVE LedgerInv'
<1>1. PICK t \in (now + 1)..Horizon :
        StreamGroup(t) /\ Ledger!DayAdvances(DayOf(t), impressions)
  BY DEF BeginGroup
<1> DEFINE day == DayOf(t)
<1>2. /\ t \in 0..Horizon /\ now \in -1..Horizon /\ now <= t /\ now' = t
      /\ day \in Days /\ (now # -1 => now \in 0..Horizon /\ DayOf(now) <= day)
      /\ \A e \in Days : e \in Nat
  BY <1>1, DayFacts, StreamAssumption DEF StreamInv, StreamTyped, StreamGroup, Days
<1> HIDE DEF day
<1>3. /\ processedDay' = day
      /\ snapshot' = IF processedDay # -1 /\ day # processedDay
                     THEN [d \in Days |-> IF processedDay <= d /\ d < day THEN impressions
                                          ELSE snapshot[d]]
                     ELSE snapshot
      /\ UNCHANGED <<impressionsBy, requestsBy, closedBy, startedBy, drained>>
      /\ UNCHANGED <<ended, requests, impressions, sessionStart>> /\ ~ended
  BY <1>1 DEF Ledger!DayAdvances, Ledger!FillDays, Ledger!Day, Days, StreamGroup, day
<1>4. snapshot' \in [Days -> Int] /\ impressions \in Int
  BY <1>3 DEF LedgerInv, LedgerTyped, StreamInv, StreamTyped
<1>5. LedgerTyped'
  <2>1. now' # -1 /\ DayOf(now') = day
    BY <1>2, StreamAssumption DEF day
  <2> QED
    BY <1>3, <1>4, <2>1 DEF LedgerInv, LedgerTyped
<1>6. processedDay \in Int /\ processedDay <= day
  BY <1>2, DayFacts DEF LedgerInv, LedgerTyped
<1>7. Booked'
  <2>1. \A d \in Days : d > day => d > processedDay
    BY <1>2, <1>6
  <2> QED
    BY <1>3, <2>1 DEF LedgerInv, Booked
<1>8. Settled'
  <2> SUFFICES ASSUME NEW d \in Days, requests # <<>>, d >= DayOf(requests[1].at), d < day
               PROVE  snapshot'[d] = SumUpTo(impressionsBy, d)
    BY <1>3 DEF Settled
  <2>1. processedDay = DayOf(now) /\ DayOf(now) \in Days
    BY FirstDay, DayFacts
  <2>2. CASE d < processedDay
    <3>1. snapshot[d] = SumUpTo(impressionsBy, d)
      BY <2>2 DEF LedgerInv, Settled
    <3> QED
      BY <1>2, <1>3, <1>6, <2>2, <3>1 DEF LedgerInv, LedgerTyped
  <2>3. CASE ~(d < processedDay)
    <3>1. snapshot'[d] = impressions
      BY <1>2, <1>3, <1>6, <2>1, <2>3
    <3>2. d >= processedDay
      BY <1>2, <1>6, <2>3
    <3> QED
      BY <3>1, <3>2, AllSoFar
  <2> QED
    BY <2>2, <2>3
<1>9. DayBooksBalance'
  BY <1>3 DEF LedgerInv, DayBooksBalance, SumUpTo, Marks
<1> QED
  BY <1>5, <1>7, <1>8, <1>9 DEF LedgerInv

\* A request is counted on the day in process.
LEMMA LedgerAsked ==
  ASSUME StreamInv, LedgerInv, NEW u \in Users, RequestFeed(u) PROVE LedgerInv'
<1>1. PICK r \in Feeds :
        StreamRequest(u, r, ServingVersion(AfterHook(now, Trainable)))
          /\ Ledger!CountRequest(DayOf(now))
  BY DEF RequestFeed
<1>2. now \in Nat /\ now \in 0..Horizon /\ now # -1 /\ ~ended /\ DayOf(now) \in Days
      /\ processedDay = DayOf(now)
  BY <1>1, DayFacts, StreamAssumption
     DEF StreamInv, StreamTyped, Timely, StreamRequest, LedgerInv, LedgerTyped
<1>3. ServingVersion(AfterHook(now, Trainable)) \in Nat
  BY <1>2, HookTypes
<1>4. /\ Len(requests') = Len(requests) + 1 /\ Len(requests) \in Nat
      /\ \A i \in 1..Len(requests) : requests'[i] = requests[i]
      /\ requests'[Len(requests) + 1].at = now
  <2> DEFINE ask == [user |-> u, at |-> now, shown |-> r,
                     version |-> ServingVersion(AfterHook(now, Trainable))]
  <2>1. /\ Len(requests') = NextId /\ requests'[NextId] = ask
        /\ \A i \in 1..Len(requests) : requests'[i] = requests[i]
    BY <1>1, <1>3, Landing
  <2>2. ask.at = now
    OBVIOUS
  <2> HIDE DEF ask
  <2> QED
    BY <2>1, <2>2, LenProperties DEF NextId, StreamInv, StreamTyped
<1>5. /\ requestsBy' = [requestsBy EXCEPT ![DayOf(now)] = @ + 1]
      /\ UNCHANGED <<processedDay, snapshot, impressionsBy, closedBy, startedBy, drained>>
      /\ UNCHANGED <<now, ended, impressions, sessionStart>>
  BY <1>1 DEF Ledger!CountRequest, StreamRequest
<1>6. requestsBy' \in [Days -> Nat]
      /\ SumUpTo(requestsBy', NumDays - 1) = SumUpTo(requestsBy, NumDays - 1) + 1
  <2>1. NumDays - 1 \in Days /\ DayOf(now) <= NumDays - 1
    BY <1>2, DayFacts DEF Days
  <2>2. requestsBy \in [Days -> Nat]
    BY DEF LedgerInv, LedgerTyped
  <2> QED
    BY <1>2, <1>5, <2>1, <2>2, OneMore
<1>7. LedgerTyped' /\ Booked'
  BY <1>5, <1>6 DEF LedgerInv, LedgerTyped, Booked
<1>8. Settled'
  <2> SUFFICES ASSUME NEW d \in Days, d >= DayOf(requests'[1].at), d < processedDay
               PROVE  snapshot[d] = SumUpTo(impressionsBy, d)
    BY <1>2, <1>5 DEF Settled, SumUpTo, Marks
  <2>1. CASE requests = <<>>
    <3>1. Len(requests) = 0
      BY <2>1
    <3>2. requests'[1].at = now
      BY <1>4, <3>1
    <3>3. d \in Int /\ DayOf(now) \in Int
      BY <1>2, DayFacts DEF Days
    <3> QED
      BY <1>2, <3>2, <3>3
  <2>2. CASE requests # <<>>
    <3>1. 1 \in 1..Len(requests)
      BY <1>4, <2>2, EmptySeq DEF StreamInv, StreamTyped
    <3> QED
      BY <1>4, <2>2, <3>1 DEF LedgerInv, Settled
  <2> QED
    BY <2>1, <2>2
<1>9. DayBooksBalance'
  <2>1. SumUpTo(requestsBy', NumDays - 1) = Len(requests')
    BY <1>4, <1>6 DEF LedgerInv, DayBooksBalance
  <2> QED
    BY <1>2, <1>5, <2>1 DEF LedgerInv, DayBooksBalance, SumUpTo, Marks
<1> QED
  BY <1>7, <1>8, <1>9 DEF LedgerInv

\* An impression is counted on the day in process; when it exits, its session
\* is closed there and counted where it began.
LEMMA LedgerShown ==
  ASSUME StreamInv, LedgerInv, NEW u \in Users, StartReel(u) PROVE LedgerInv'
<1> DEFINE day == DayOf(now)
           start == IF sessionStart[u] = -1 THEN now ELSE sessionStart[u]
           from == DayOf(start)
<1>1. PICK exits \in BOOLEAN :
        StreamImpression(u, exits) /\ Ledger!CountImpression(day, exits, from)
  BY DEF StartReel
<1>2. /\ now \in Nat /\ now \in 0..Horizon /\ now # -1 /\ ~ended /\ day \in Days
      /\ processedDay = day
  BY <1>1, DayFacts, StreamAssumption
     DEF StreamInv, StreamTyped, Timely, StreamImpression, LedgerInv, LedgerTyped
<1>3. start \in 0..Horizon /\ start <= now /\ from \in Days /\ from <= day
  <2>1. sessionStart[u] \in -1..now
    BY DEF StreamInv, Timely
  <2>2. start \in 0..Horizon /\ start <= now
    BY <1>2, <2>1, StreamAssumption
  <2> QED
    BY <1>2, <2>2, DayFacts
<1>4. /\ impressionsBy' = [impressionsBy EXCEPT ![day] = @ + 1]
      /\ closedBy' = IF exits THEN [closedBy EXCEPT ![day] = @ + 1] ELSE closedBy
      /\ startedBy' = IF exits THEN [startedBy EXCEPT ![from] = @ + 1] ELSE startedBy
      /\ UNCHANGED <<processedDay, snapshot, requestsBy, drained>>
      /\ UNCHANGED <<now, ended, requests>> /\ impressions' = impressions + 1
      /\ sessionStart' = [sessionStart EXCEPT ![u] =
                            IF exits THEN -1 ELSE IF @ = -1 THEN now ELSE @]
  BY <1>1 DEF Ledger!CountImpression, StreamImpression
<1>5. /\ impressionsBy \in [Days -> Nat] /\ closedBy \in [Days -> Nat]
      /\ startedBy \in [Days -> Nat] /\ sessionStart \in [Users -> Int]
      /\ NumDays - 1 \in Days /\ \A d \in Days : d \in Nat /\ d <= NumDays - 1
  <2>1. NumDays - 1 \in Days /\ \A d \in Days : d \in Nat /\ d <= NumDays - 1
    BY DayFacts DEF Days
  <2> QED
    BY <2>1 DEF LedgerInv, LedgerTyped, StreamInv, StreamTyped
<1> HIDE DEF day, from
<1>6. /\ impressionsBy' \in [Days -> Nat] /\ impressionsBy'[day] > 0
      /\ \A e \in Days : impressionsBy'[e] >= impressionsBy[e]
      /\ \A e \in Days : e # day => impressionsBy'[e] = impressionsBy[e]
      /\ \A d \in Days : SumUpTo(impressionsBy', d) =
           IF day <= d THEN SumUpTo(impressionsBy, d) + 1 ELSE SumUpTo(impressionsBy, d)
  BY <1>2, <1>4, <1>5, OneMore
<1>7. /\ closedBy' \in [Days -> Nat]
      /\ \A d \in Days : SumUpTo(closedBy', d) =
           IF exits /\ day <= d THEN SumUpTo(closedBy, d) + 1 ELSE SumUpTo(closedBy, d)
  <2>1. CASE exits
    BY <1>2, <1>4, <1>5, <2>1, OneMore
  <2>2. CASE ~exits
    BY <1>4, <1>5, <2>2
  <2> QED
    BY <2>1, <2>2
<1>8. /\ startedBy' \in [Days -> Nat]
      /\ \A e \in Days : startedBy'[e] > 0 => startedBy[e] > 0 \/ (exits /\ e = from)
      /\ \A d \in Days : SumUpTo(startedBy', d) =
           IF exits /\ from <= d THEN SumUpTo(startedBy, d) + 1 ELSE SumUpTo(startedBy, d)
  <2>1. CASE exits
    BY <1>3, <1>4, <1>5, <2>1, OneMore
  <2>2. CASE ~exits
    BY <1>4, <1>5, <2>2
  <2> QED
    BY <2>1, <2>2
<1>9. LedgerTyped'
  BY <1>4, <1>6, <1>7, <1>8 DEF LedgerInv, LedgerTyped
<1>10. impressionsBy'[from] > 0
  <2>1. CASE sessionStart[u] = -1
    BY <1>6, <2>1 DEF day, from
  <2>2. CASE sessionStart[u] # -1
    <3>1. impressionsBy[from] > 0
      BY <2>2 DEF LedgerInv, Booked, from
    <3> QED
      BY <1>3, <1>5, <1>6, <3>1
  <2> QED
    BY <2>1, <2>2
<1>11. Booked'
  <2>1. \A d \in Days : d > processedDay => impressionsBy'[d] = 0
    BY <1>2, <1>5, <1>6 DEF LedgerInv, Booked
  <2>2. ASSUME NEW v \in Users, sessionStart'[v] # -1
        PROVE  impressionsBy'[DayOf(sessionStart'[v])] > 0
    <3>1. CASE v = u
      <4>1. sessionStart'[u] = start
        BY <1>4, <1>5, <2>2, <3>1
      <4> QED
        BY <1>10, <3>1, <4>1 DEF from
    <3>2. CASE v # u
      <4>1. sessionStart'[v] = sessionStart[v]
        BY <1>4, <1>5, <3>2
      <4>2. sessionStart[v] \in 0..Horizon
        <5>1. sessionStart[v] \in -1..now
          BY DEF StreamInv, Timely
        <5> QED
          BY <1>2, <2>2, <4>1, <5>1, StreamAssumption
      <4>3. DayOf(sessionStart[v]) \in Days
        BY <4>2, DayFacts
      <4>4. impressionsBy[DayOf(sessionStart[v])] > 0
        BY <2>2, <4>1 DEF LedgerInv, Booked
      <4> QED
        BY <1>5, <1>6, <4>1, <4>3, <4>4
    <3> QED
      BY <3>1, <3>2
  <2> QED
    BY <1>4, <2>1, <2>2 DEF Booked
<1>12. Settled'
  <2> SUFFICES ASSUME NEW d \in Days, requests # <<>>, d >= DayOf(requests[1].at), d < day
               PROVE  snapshot[d] = SumUpTo(impressionsBy', d)
    BY <1>2, <1>4 DEF Settled, SumUpTo, Marks
  <2>1. snapshot[d] = SumUpTo(impressionsBy, d)
    BY <1>2 DEF LedgerInv, Settled
  <2> QED
    BY <1>2, <1>5, <1>6, <2>1
<1>13. \A d \in Days : /\ SumUpTo(closedBy, d) \in Nat /\ SumUpTo(startedBy, d) \in Nat
                       /\ SumUpTo(impressionsBy, d) \in Nat
  BY <1>5, MarkFacts
<1>14. DayBooksBalance'
  <2>1. ASSUME NEW d \in Days PROVE SumUpTo(closedBy', d) <= SumUpTo(startedBy', d)
    <3>1. SumUpTo(closedBy, d) <= SumUpTo(startedBy, d)
      BY DEF LedgerInv, DayBooksBalance
    <3>2. day <= d => from <= d
      BY <1>2, <1>3, <1>5
    <3> QED
      BY <1>7, <1>8, <1>13, <3>1, <3>2
  <2>2. SumUpTo(closedBy', NumDays - 1) = SumUpTo(startedBy', NumDays - 1)
    BY <1>2, <1>3, <1>5, <1>7, <1>8, <1>13 DEF LedgerInv, DayBooksBalance
  <2>3. \A d \in Days : startedBy'[d] > 0 => impressionsBy'[d] > 0
    BY <1>5, <1>6, <1>8, <1>10 DEF LedgerInv, DayBooksBalance
  <2>4. SumUpTo(impressionsBy', NumDays - 1) = impressions'
    BY <1>2, <1>4, <1>5, <1>6 DEF LedgerInv, DayBooksBalance
  <2>5. SumUpTo(requestsBy', NumDays - 1) = Len(requests') /\ ~ended'
    BY <1>2, <1>4 DEF LedgerInv, DayBooksBalance, SumUpTo, Marks
  <2>6. NumDays' = NumDays /\ Days' = Days
    BY DEF NumDays, Days
  <2> QED
    BY <2>1, <2>2, <2>3, <2>4, <2>5, <2>6 DEF DayBooksBalance, SumUpTo, Marks
<1> QED
  BY <1>9, <1>11, <1>12, <1>14 DEF LedgerInv

\* The run ends: the last day and all after it get the snapshot of now.
LEMMA LedgerEnds ==
  ASSUME StreamInv, LedgerInv, Finish PROVE LedgerInv'
<1> DEFINE first == IF processedDay = -1 THEN 0 ELSE processedDay
<1>1. /\ ~ended /\ ended' = TRUE
      /\ UNCHANGED <<now, requests, impressions, sessionStart, processedDay, impressionsBy,
                     requestsBy, closedBy, startedBy>>
      /\ snapshot' = [d \in Days |-> IF first <= d /\ d < NumDays - 1 + 1
                                     THEN impressions ELSE snapshot[d]]
      /\ drained' = Cardinality({u \in Users : sessionStart[u] # -1})
  BY DEF Finish, StreamEnd, Ledger!CloseLedger, Ledger!FillDays, Ledger!Day, Days
<1>3. \A d \in Days : d \in Nat /\ d < NumDays - 1 + 1
  BY DayFacts DEF Days
<1>4. LedgerTyped' /\ Booked'
  BY <1>1 DEF LedgerInv, LedgerTyped, Booked, StreamInv, StreamTyped
<1>5. Settled'
  <2> SUFFICES ASSUME NEW d \in Days, requests # <<>>, d >= DayOf(requests[1].at)
               PROVE  snapshot'[d] = SumUpTo(impressionsBy, d)
    BY <1>1 DEF Settled, SumUpTo, Marks
  <2>1. processedDay \in Days
    BY FirstDay, DayFacts
  <2>2. first = processedDay
    BY <1>3, <2>1
  <2> HIDE DEF first
  <2>3. CASE d < processedDay
    <3>1. snapshot'[d] = snapshot[d]
      BY <1>1, <1>3, <2>1, <2>2, <2>3
    <3> QED
      BY <2>3, <3>1 DEF LedgerInv, Settled
  <2>4. CASE ~(d < processedDay)
    <3>1. snapshot'[d] = impressions /\ d >= processedDay
      BY <1>1, <1>3, <2>1, <2>2, <2>4
    <3> QED
      BY <3>1, AllSoFar
  <2> QED
    BY <2>3, <2>4
<1>6. DayBooksBalance'
  BY <1>1 DEF LedgerInv, DayBooksBalance, SumUpTo, Marks
<1> QED
  BY <1>4, <1>5, <1>6 DEF LedgerInv

LEMMA LedgerStep ==
  ASSUME StreamInv, LedgerInv, [Next]_vars PROVE LedgerInv'
<1>1. ASSUME UNCHANGED <<now, ended, requests, impressions, sessionStart, ledgerVars>>
      PROVE  LedgerInv'
  <2>1. LedgerTyped' /\ Booked'
    BY <1>1 DEF LedgerInv, LedgerTyped, Booked, ledgerVars
  <2>2. Settled'
    BY <1>1 DEF LedgerInv, Settled, SumUpTo, Marks, ledgerVars
  <2>3. DayBooksBalance'
    BY <1>1 DEF LedgerInv, DayBooksBalance, SumUpTo, Marks, ledgerVars
  <2> QED
    BY <2>1, <2>2, <2>3 DEF LedgerInv
<1>2. CASE EndPhase \/ UNCHANGED vars
  BY <1>1, <1>2 DEF EndPhase, StreamPhase, vars, streamVars
<1>3. ASSUME NEW u \in Users, ExitApp(u) PROVE LedgerInv'
  BY <1>1, <1>3 DEF ExitApp, StreamExit
<1> QED
  BY <1>2, <1>3, LedgerGroup, LedgerAsked, LedgerShown, LedgerEnds DEF Next, Terminated

LEMMA LedgerCorrect == Spec => []LedgerInv
<1>1. Init => LedgerInv
  BY LedgerBegins
<1>2. StreamInv /\ LedgerInv /\ [Next]_vars => LedgerInv'
  BY LedgerStep
<1> QED
  BY <1>1, <1>2, StreamCorrect, PTL DEF Spec

\* The session books agree, and no request or impression is lost between days
\* (the per-day buckets of the event runner and its drain).
THEOREM DayBooksBalanceCorrect == Spec => []DayBooksBalance
<1>1. LedgerInv => DayBooksBalance
  BY DEF LedgerInv
<1> QED
  BY <1>1, LedgerCorrect, PTL

\* A day's snapshot is the population at its end, however many days passed
\* without an event (the day advance of the loop and the final snapshot).
THEOREM SnapshotsAreDayEndCorrect == Spec => []SnapshotsAreDayEnd
<1>1. LedgerInv => SnapshotsAreDayEnd
  BY DEF LedgerInv, Settled, SnapshotsAreDayEnd
<1> QED
  BY <1>1, LedgerCorrect, PTL

------------------------------------------------------------------------------
(* Serving follows learning *)

\* Outcomes are of instants past, and in the request phase of earlier ones.
Observed ==
  \A o \in outcomeRows : o.at \in 0..now /\ (phase = "request" => o.at < now)

LEMMA ObservedStep ==
  ASSUME StreamInv, Observed, [Next]_vars PROVE Observed'
<1>1. CASE BeginGroup
  <2>1. outcomeRows' = outcomeRows /\ now' \in Int /\ now < now' /\ now \in Int
    BY <1>1 DEF BeginGroup, StreamGroup, logVars, tableVars, StreamInv, StreamTyped
  <2> QED
    BY <2>1 DEF Observed
<1>2. CASE EndPhase
  BY <1>2 DEF EndPhase, StreamPhase, logVars, tableVars, Observed
<1>3. CASE Finish \/ UNCHANGED vars
  BY <1>3 DEF Finish, StreamEnd, LogFinish, vars, logVars, tableVars, streamVars, Observed
<1>4. ASSUME NEW u \in Users, RequestFeed(u) \/ ExitApp(u) PROVE Observed'
  BY <1>4 DEF RequestFeed, LogRequest, StreamRequest, ExitApp, StreamExit, logVars, tableVars,
              Observed
<1>5. ASSUME NEW u \in Users, StartReel(u) PROVE Observed'
  <2> DEFINE item == Head(feed[u])
             row == [id |-> item.id, reel |-> item.reel, at |-> now]
  <2>1. /\ phase = "consume" /\ UNCHANGED <<now, phase>>
        /\ outcomeRows' \in {outcomeRows, outcomeRows \cup {row}}
    BY <1>5 DEF StartReel, StreamImpression, LogImpression
  <2>2. row.at = now /\ now \in 0..now
    BY <2>1, StreamAssumption DEF StreamInv, StreamTyped, Timely
  <2> HIDE DEF row
  <2> QED
    BY <2>1, <2>2 DEF Observed
<1> QED
  BY <1>1, <1>2, <1>3, <1>4, <1>5 DEF Next, Terminated

\* What was observed before an instant past does not change.
LEMMA ObservedKept ==
  ASSUME StreamInv, Observed, [Next]_vars, NEW t \in Int, t <= now
  PROVE  {<<o.id, o.reel>> : o \in {x \in outcomeRows' : x.at < t}} = ObservedBefore(t)
<1>1. ASSUME UNCHANGED outcomeRows
      PROVE  {<<o.id, o.reel>> : o \in {x \in outcomeRows' : x.at < t}} = ObservedBefore(t)
  BY <1>1 DEF ObservedBefore
<1>2. CASE BeginGroup \/ EndPhase \/ Finish \/ UNCHANGED vars
  BY <1>1, <1>2 DEF BeginGroup, EndPhase, Finish, LogFinish, vars, logVars, tableVars
<1>3. ASSUME NEW u \in Users, RequestFeed(u) \/ ExitApp(u) PROVE UNCHANGED outcomeRows
  BY <1>3 DEF RequestFeed, LogRequest, ExitApp, logVars, tableVars
<1>4. ASSUME NEW u \in Users, StartReel(u)
      PROVE  {<<o.id, o.reel>> : o \in {x \in outcomeRows' : x.at < t}} = ObservedBefore(t)
  <2> DEFINE item == Head(feed[u])
             row == [id |-> item.id, reel |-> item.reel, at |-> now]
  <2>1. outcomeRows' \in {outcomeRows, outcomeRows \cup {row}}
    BY <1>4 DEF StartReel, LogImpression
  <2>2. row.at = now /\ ~(now < t)
    BY DEF StreamInv, StreamTyped
  <2> HIDE DEF row
  <2>3. {x \in outcomeRows' : x.at < t} = {x \in outcomeRows : x.at < t}
    BY <2>1, <2>2
  <2> QED
    BY <2>3 DEF ObservedBefore
<1> QED
  BY <1>1, <1>2, <1>3, <1>4 DEF Next, Terminated

\* A request trains on all that was observed before its instant.
LEMMA TrainsOnAll ==
  ASSUME StreamInv, JoinInv, Observed, KeepMatrix, phase = "request"
  PROVE  Trainable = ObservedBefore(now)
<1>1. Trainable = OutcomeKeys
  BY TrainableRows
<1>2. {x \in outcomeRows : x.at < now} = outcomeRows
  BY DEF Observed
<1> QED
  BY <1>1, <1>2 DEF OutcomeKeys, ObservedBefore

Interval(t) == t \div RetrainInterval

\* The next boundary ends the interval of the last request that met one.
Boundary ==
  \E b \in Nat \ {0} :
    /\ nextRetrain = b * RetrainInterval
    /\ \A i \in 1..Len(requests) : Interval(requests[i].at) < b
    /\ b = 1 \/ \E i \in 1..Len(requests) : Interval(requests[i].at) = b - 1

\* The retrains are those owed, each on what was observed before it.
Fitted ==
  /\ RetrainInstants = {retrains[k].at : k \in 1..Len(retrains)}
  /\ \A k, l \in 1..Len(retrains) : k < l => retrains[k].at < retrains[l].at
  /\ \A k \in 1..Len(retrains) : /\ retrains[k].rows = ObservedBefore(retrains[k].at)
                                 /\ retrains[k].at <= now

\* A request is served by the last of the retrains until then, the n-th.
ServedBy(i, n) ==
  /\ \A k \in 1..Len(retrains) : retrains[k].at <= requests[i].at <=> k <= n
  /\ requests[i].version =
       IF n # 0 /\ Cardinality(retrains[n].rows) >= MinPositives THEN n ELSE 0

Versioned == \A i \in 1..Len(requests) : \E n \in 0..Len(retrains) : ServedBy(i, n)

RetrainInv == Boundary /\ Fitted /\ Versioned

LEMMA RetrainBegins ==
  ASSUME Init PROVE RetrainInv /\ Observed /\ SampleIsFirstLearned
<1>1. /\ requests = <<>> /\ retrains = <<>> /\ nextRetrain = RetrainInterval
      /\ outcomeRows = {} /\ explained.id = 0
  BY DEF Init, StreamInit, LogInit, RetrainInit
<1>2. Len(requests) = 0 /\ Len(retrains) = 0 /\ DOMAIN requests = {}
  BY <1>1
<1>3. RetrainInterval = 1 * RetrainInterval
  BY RetrainAssumption
<1>4. Boundary
  BY <1>1, <1>2, <1>3 DEF Boundary
<1>5. Fitted /\ Versioned /\ Observed
  BY <1>1, <1>2 DEF Fitted, Versioned, RetrainInstants, Observed
<1>6. SampleIsFirstLearned
  BY <1>1, <1>2 DEF SampleIsFirstLearned
<1> QED
  BY <1>4, <1>5, <1>6 DEF RetrainInv

\* An instant owed is one of the requests'.
First(j) ==
  /\ requests[j].at >= RetrainInterval
  /\ \A k \in 1..Len(requests) : Interval(requests[k].at) = Interval(requests[j].at)
                                   => requests[j].at <= requests[k].at

LEMMA Instants ==
  ASSUME StreamInv
  PROVE  \A f : f \in RetrainInstants <=>
           \E j \in 1..Len(requests) :
             /\ f = requests[j].at /\ First(j)
             /\ Cardinality(ObservedBefore(requests[j].at)) >= MinTrainingRows
<1>1. DOMAIN requests = 1..Len(requests)
  BY LenProperties DEF StreamInv, StreamTyped
<1> QED
  BY <1>1 DEF RetrainInstants, First, Interval

LEMMA RequestTimes ==
  ASSUME StreamInv
  PROVE  \A i \in 1..Len(requests) :
           /\ requests[i] \in Asked /\ requests[i].at \in Nat /\ requests[i].at <= now
           /\ Interval(requests[i].at) \in Nat
<1> SUFFICES ASSUME NEW i \in 1..Len(requests)
             PROVE  /\ requests[i] \in Asked /\ requests[i].at \in Nat /\ requests[i].at <= now
                    /\ Interval(requests[i].at) \in Nat
  OBVIOUS
<1>1. requests[i] \in Asked
  BY ElementOfSeq DEF StreamInv, StreamTyped
<1>2. requests[i].at \in Nat
  BY <1>1 DEF Asked
<1> QED
  BY <1>1, <1>2, Quotient, RetrainAssumption DEF StreamInv, Timely, Interval

LEMMA RetrainTimes ==
  ASSUME StreamInv
  PROVE  /\ Len(retrains) \in Nat /\ Len(requests) \in Nat
         /\ \A k \in 1..Len(retrains) : retrains[k].at \in Nat
<1>1. \A k \in 1..Len(retrains) : retrains[k] \in Records
  BY ElementOfSeq DEF StreamInv, StreamTyped
<1> QED
  BY <1>1, LenProperties DEF StreamInv, StreamTyped, Records

\* A later interval is a later instant.
LEMMA LaterInterval ==
  ASSUME NEW s \in Nat, NEW t \in Nat
  PROVE  /\ Interval(s) \in Nat /\ Interval(t) \in Nat
         /\ s <= t => Interval(s) <= Interval(t)
         /\ Interval(s) < Interval(t) => s < t
         /\ \A b \in Nat : t >= b * RetrainInterval <=> b <= Interval(t)
<1>1. Interval(s) \in Nat /\ Interval(t) \in Nat
  BY Quotient, RetrainAssumption DEF Interval
<1>2. s <= t => Interval(s) <= Interval(t)
  BY QuotientMonotone, RetrainAssumption DEF Interval
<1>3. t <= s => Interval(t) <= Interval(s)
  BY QuotientMonotone, RetrainAssumption DEF Interval
<1>4. \A b \in Nat : t >= b * RetrainInterval <=> b <= Interval(t)
  <2> SUFFICES ASSUME NEW b \in Nat PROVE t >= b * RetrainInterval <=> b <= Interval(t)
    OBVIOUS
  <2>1. b * RetrainInterval \in Nat
    BY ProductIsNat, RetrainAssumption
  <2>2. b <= Interval(t) <=> b * RetrainInterval <= t
    BY QuotientReaches, RetrainAssumption DEF Interval
  <2> QED
    BY <2>1, <2>2
<1> QED
  BY <1>1, <1>2, <1>3, <1>4

\* What a request does to the list of requests and to the retrains.
LEMMA RequestAppends ==
  ASSUME StreamInv, NEW u \in Users, RequestFeed(u)
  PROVE  LET rs == AfterHook(now, Trainable)
             n == Len(requests)
         IN  \E r \in Seq(Reels) :
               /\ phase = "request" /\ now \in Nat /\ rs \in Seq(Records)
               /\ n \in Nat /\ Len(requests') = n + 1
               /\ \A i \in 1..n : requests'[i] = requests[i]
               /\ requests'[n + 1] = [user |-> u, at |-> now, shown |-> r,
                                      version |-> ServingVersion(rs)]
               /\ UNCHANGED <<now, outcomeRows>>
               /\ retrains' = rs
               /\ RetrainHook(n + 1, now, Trainable, Range(r))
<1>1. PICK r \in Feeds :
        /\ StreamRequest(u, r, ServingVersion(AfterHook(now, Trainable)))
        /\ RetrainHook(NextId, now, Trainable, Range(r))
        /\ LogRequest(NextId, u, now, Reels, Range(r))
  BY DEF RequestFeed
<1>2. phase = "request" /\ now \in Nat
  BY <1>1 DEF StreamInv, StreamTyped, Timely, StreamRequest
<1>3. AfterHook(now, Trainable) \in Seq(Records)
      /\ ServingVersion(AfterHook(now, Trainable)) \in Nat
  BY <1>2, HookTypes
<1>4. /\ r \in Seq(Reels)
      /\ Len(requests') = NextId
      /\ requests'[NextId] = [user |-> u, at |-> now, shown |-> r,
                              version |-> ServingVersion(AfterHook(now, Trainable))]
      /\ \A i \in 1..Len(requests) : requests'[i] = requests[i]
  BY <1>1, <1>3, Landing
<1>5. NextId = Len(requests) + 1 /\ Len(requests) \in Nat
  BY RetrainTimes DEF NextId
<1>6. UNCHANGED <<now, outcomeRows>> /\ retrains' = AfterHook(now, Trainable)
  BY <1>1 DEF StreamRequest, LogRequest, RetrainHook, logVars, tableVars
<1> QED
  BY <1>1, <1>2, <1>3, <1>4, <1>5, <1>6

\* A request owes a retrain exactly when it is due and there is enough.
LEMMA InstantsAsked ==
  ASSUME StreamInv, JoinInv, Observed, KeepMatrix, NEW u \in Users, RequestFeed(u), Boundary
  PROVE  /\ BoundaryDue(now, Trainable) => \A i \in 1..Len(requests) : requests[i].at < now
         /\ \A f : f \in RetrainInstants' <=>
                     f \in RetrainInstants \/ (Retrains(now, Trainable) /\ f = now)
<1> DEFINE n == Len(requests)
           enough(t) == Cardinality(ObservedBefore(t)) >= MinTrainingRows
           interval(i) == Interval(requests[i].at)
<1>1. /\ phase = "request" /\ now \in Nat /\ n \in Nat /\ Len(requests') = n + 1
      /\ \A i \in 1..n : requests'[i] = requests[i]
      /\ requests'[n + 1].at = now /\ outcomeRows' = outcomeRows
  <2>1. PICK r \in Seq(Reels) :
          requests'[n + 1] = [user |-> u, at |-> now, shown |-> r,
                              version |-> ServingVersion(AfterHook(now, Trainable))]
    BY RequestAppends
  <2>2. requests'[n + 1].at = now
    BY <2>1
  <2> QED
    BY <2>2, RequestAppends
<1>0. PICK last \in Nat : last = n + 1
  BY <1>1
<1>2. \A i \in 1..n : requests[i].at \in Nat /\ requests[i].at <= now
  BY RequestTimes
<1>3. PICK b \in Nat \ {0} :
        /\ nextRetrain = b * RetrainInterval
        /\ \A i \in 1..n : interval(i) < b
        /\ b = 1 \/ \E i \in 1..n : interval(i) = b - 1
  BY DEF Boundary
<1>4. BoundaryDue(now, Trainable) <=> b <= Interval(now)
  BY <1>1, <1>3, LaterInterval DEF BoundaryDue
<1>5. Interval(now) \in Nat
      /\ \A i \in 1..n : /\ interval(i) \in Nat /\ interval(i) <= Interval(now)
                         /\ interval(i) < Interval(now) => requests[i].at < now
  BY <1>1, <1>2, LaterInterval
<1>6. BoundaryDue(now, Trainable) => \A i \in 1..n : requests[i].at < now
  BY <1>3, <1>4, <1>5
<1>7. ASSUME NEW i \in 1..n
      PROVE  First(i)' <=> First(i)
  <2>1. First(i)' <=> /\ requests[i].at >= RetrainInterval
                      /\ \A k \in 1..n + 1 : Interval(requests'[k].at) = interval(i)
                                               => requests[i].at <= requests'[k].at
    BY <1>0, <1>1 DEF First, Interval
  <2>2. \A k \in 1..n + 1 : k \in 1..n \/ k = n + 1
    BY <1>1
  <2>3. \A k \in 1..n : k \in 1..n + 1
    BY <1>1
  <2>4. requests[i].at <= now
    BY <1>2
  <2> QED
    BY <1>1, <2>1, <2>2, <2>3, <2>4 DEF First
<1>8. First(last)' <=> /\ now >= RetrainInterval
                        /\ \A k \in 1..n : interval(k) = Interval(now) => now <= requests[k].at
  <2>1. First(last)' <=> /\ now >= RetrainInterval
                          /\ \A k \in 1..n + 1 : Interval(requests'[k].at) = Interval(now)
                                                   => now <= requests'[k].at
    BY <1>0, <1>1 DEF First, Interval
  <2>2. \A k \in 1..n + 1 : k \in 1..n \/ k = n + 1
    BY <1>1
  <2>3. \A k \in 1..n : k \in 1..n + 1
    BY <1>1
  <2> QED
    BY <1>0, <1>1, <2>1, <2>2, <2>3
<1>9. now >= RetrainInterval <=> 1 <= Interval(now)
  <2>1. 1 * RetrainInterval = RetrainInterval
    BY RetrainAssumption
  <2>2. now >= 1 * RetrainInterval <=> 1 <= Interval(now)
    BY <1>1, LaterInterval
  <2> QED
    BY <2>1, <2>2
<1>10. BoundaryDue(now, Trainable) => First(last)'
  BY <1>3, <1>4, <1>5, <1>8, <1>9
<1>11. ASSUME ~BoundaryDue(now, Trainable), First(last)'
       PROVE  \E i \in 1..n : requests[i].at = now /\ First(i)
  <2>1. Interval(now) < b /\ 1 <= Interval(now)
    BY <1>3, <1>4, <1>5, <1>8, <1>9, <1>11
  <2>2. PICK i \in 1..n : interval(i) = b - 1
    BY <1>3, <1>5, <2>1
  <2>3. interval(i) = Interval(now)
    BY <1>3, <1>5, <2>1, <2>2
  <2>4. requests[i].at = now
    BY <1>1, <1>2, <1>8, <1>11, <2>3
  <2>5. First(i)
    BY <1>8, <1>11, <2>3, <2>4 DEF First
  <2> QED
    BY <2>4, <2>5
<1>12. enough(now) <=> Cardinality(Trainable) >= MinTrainingRows
  BY <1>1, TrainsOnAll
<1>13. \A f : f \in RetrainInstants <=>
                \E j \in 1..n : f = requests[j].at /\ First(j) /\ enough(requests[j].at)
  BY Instants
<1>14. \A f : f \in RetrainInstants' <=>
                \E j \in 1..n + 1 : f = requests'[j].at /\ First(j)' /\ enough(requests'[j].at)
  <2>1. StreamInv'
    BY StreamAsked
  <2>2. (\A f : f \in RetrainInstants <=>
           \E j \in 1..Len(requests) :
             /\ f = requests[j].at /\ First(j)
             /\ Cardinality(ObservedBefore(requests[j].at)) >= MinTrainingRows)'
    BY <2>1, Instants, PTL
  <2> QED
    BY <1>1, <2>2 DEF ObservedBefore
<1> HIDE DEF enough, n, interval
<1>15. ASSUME NEW f, f \in RetrainInstants'
       PROVE  f \in RetrainInstants \/ (Retrains(now, Trainable) /\ f = now)
  <2>1. PICK j \in 1..n + 1 : f = requests'[j].at /\ First(j)' /\ enough(requests'[j].at)
    BY <1>14, <1>15
  <2>2. CASE j \in 1..n
    BY <1>1, <1>7, <1>13, <2>1, <2>2
  <2>3. CASE j = n + 1
    <3>1. f = now /\ enough(now) /\ First(last)'
      BY <1>0, <1>1, <2>1, <2>3
    <3>2. CASE BoundaryDue(now, Trainable)
      BY <1>12, <3>1, <3>2 DEF Retrains
    <3>3. CASE ~BoundaryDue(now, Trainable)
      BY <1>11, <1>13, <3>1, <3>3
    <3> QED
      BY <3>2, <3>3
  <2> QED
    BY <1>1, <2>2, <2>3
<1>16. ASSUME NEW f, f \in RetrainInstants \/ (Retrains(now, Trainable) /\ f = now)
       PROVE  f \in RetrainInstants'
  <2>1. CASE f \in RetrainInstants
    <3>1. PICK j \in 1..n : f = requests[j].at /\ First(j) /\ enough(requests[j].at)
      BY <1>13, <2>1
    <3>2. j \in 1..n + 1 /\ First(j)' /\ requests'[j] = requests[j]
      BY <1>1, <1>7, <3>1
    <3> QED
      BY <1>14, <3>1, <3>2
  <2>2. CASE Retrains(now, Trainable) /\ f = now
    <3>1. First(last)' /\ enough(now) /\ n + 1 \in 1..n + 1
      BY <1>1, <1>10, <1>12, <2>2 DEF Retrains
    <3> QED
      BY <1>0, <1>1, <1>14, <2>2, <3>1
  <2> QED
    BY <1>16, <2>1, <2>2
<1> QED
  BY <1>6, <1>15, <1>16 DEF n

\* A retrain is one of the requests' instants, so all are past when one is due.
LEMMA RetrainsPast ==
  ASSUME StreamInv, JoinInv, Observed, KeepMatrix, NEW u \in Users, RequestFeed(u),
         Boundary, Fitted, BoundaryDue(now, Trainable)
  PROVE  \A k \in 1..Len(retrains) : retrains[k].at < now
<1> SUFFICES ASSUME NEW k \in 1..Len(retrains) PROVE retrains[k].at < now
  OBVIOUS
<1>1. retrains[k].at \in RetrainInstants
  BY DEF Fitted
<1>2. PICK j \in 1..Len(requests) : retrains[k].at = requests[j].at
  BY <1>1, Instants
<1> QED
  BY <1>2, InstantsAsked

LEMMA RetrainAsked ==
  ASSUME StreamInv, JoinInv, Observed, KeepMatrix, NEW u \in Users, RequestFeed(u), RetrainInv
  PROVE  RetrainInv'
<1> DEFINE rs == AfterHook(now, Trainable)
           m == Len(retrains)
           record == [at |-> now, rows |-> Trainable]
<1>1. PICK n \in Nat : n = Len(requests)
  BY RetrainTimes
<1>2. /\ phase = "request" /\ now \in Nat /\ rs \in Seq(Records)
      /\ Len(requests') = n + 1
      /\ \A i \in 1..n : requests'[i] = requests[i]
      /\ requests'[n + 1].at = now /\ requests'[n + 1].version = ServingVersion(rs)
      /\ UNCHANGED <<now, outcomeRows>> /\ retrains' = rs
      /\ nextRetrain' = IF BoundaryDue(now, Trainable) THEN BoundaryAfter(now)
                                                       ELSE nextRetrain
  <2>1. PICK r \in Seq(Reels) :
          /\ requests'[n + 1] = [user |-> u, at |-> now, shown |-> r,
                                 version |-> ServingVersion(rs)]
          /\ RetrainHook(n + 1, now, Trainable, Range(r))
    BY <1>1, RequestAppends
  <2>2. requests'[n + 1].at = now /\ requests'[n + 1].version = ServingVersion(rs)
    BY <2>1
  <2>3. nextRetrain' = IF BoundaryDue(now, Trainable) THEN BoundaryAfter(now) ELSE nextRetrain
    BY <2>1 DEF RetrainHook
  <2> HIDE DEF rs
  <2> QED
    BY <1>1, <2>2, <2>3, RequestAppends DEF rs
<1>3. /\ m \in Nat /\ \A k \in 1..m : retrains[k].at \in Nat
      /\ \A i \in 1..n : requests[i].at \in Nat /\ requests[i].at <= now
      /\ retrains \in Seq(Records)
  BY <1>1, RetrainTimes, RequestTimes DEF StreamInv, StreamTyped
<1>4. record \in Records /\ record.at = now /\ record.rows = ObservedBefore(now)
  <2>1. Trainable \subseteq RowKeys /\ Trainable = ObservedBefore(now)
    BY <1>2, HookTypes, TrainsOnAll
  <2> QED
    BY <1>2, <2>1 DEF Records
<1>5. /\ Retrains(now, Trainable) => BoundaryDue(now, Trainable)
      /\ Retrains(now, Trainable) =>
           /\ Len(rs) = m + 1 /\ rs[m + 1] = record
           /\ \A k \in 1..m : rs[k] = retrains[k] /\ retrains[k].at < now
      /\ ~Retrains(now, Trainable) => rs = retrains
  <2>1. Retrains(now, Trainable) => BoundaryDue(now, Trainable)
    BY DEF Retrains
  <2>2. ASSUME Retrains(now, Trainable)
        PROVE  \A k \in 1..m : retrains[k].at < now
    BY <2>1, <2>2, RetrainsPast DEF RetrainInv
  <2>3. rs = IF Retrains(now, Trainable) THEN Append(retrains, record) ELSE retrains
    BY DEF AfterHook
  <2> HIDE DEF rs, record
  <2> QED
    BY <1>3, <1>4, <2>1, <2>2, <2>3, AppendProperties
<1>6. /\ BoundaryDue(now, Trainable) => \A i \in 1..n : requests[i].at < now
      /\ \A f : f \in RetrainInstants' <=>
                  f \in RetrainInstants \/ (Retrains(now, Trainable) /\ f = now)
  BY <1>1, InstantsAsked DEF RetrainInv
<1> HIDE DEF rs, record
<1>7. Boundary'
  <2>1. PICK b \in Nat \ {0} :
          /\ nextRetrain = b * RetrainInterval
          /\ \A i \in 1..n : Interval(requests[i].at) < b
          /\ b = 1 \/ \E i \in 1..n : Interval(requests[i].at) = b - 1
    BY <1>1 DEF RetrainInv, Boundary
  <2>2. Interval(now) \in Nat
        /\ \A i \in 1..n : /\ Interval(requests[i].at) \in Nat
                           /\ Interval(requests[i].at) <= Interval(now)
    BY <1>2, <1>3, LaterInterval
  <2>3. BoundaryDue(now, Trainable) <=> b <= Interval(now)
    BY <1>2, <2>1, LaterInterval DEF BoundaryDue
  <2>4. \A i \in 1..n + 1 : i \in 1..n \/ i = n + 1
    OBVIOUS
  <2>5. n + 1 \in 1..n + 1 /\ \A i \in 1..n : i \in 1..n + 1
    OBVIOUS
  <2>6. CASE BoundaryDue(now, Trainable)
    <3> DEFINE c == Interval(now) + 1
    <3>1. nextRetrain' = c * RetrainInterval /\ c \in Nat \ {0}
      BY <1>2, <2>2, <2>6 DEF BoundaryAfter, Interval
    <3>2. \A i \in 1..n + 1 : Interval(requests'[i].at) < c
      BY <1>2, <2>2, <2>4
    <3>3. Interval(requests'[n + 1].at) = c - 1
      BY <1>2, <2>2
    <3>4. PICK d \in Nat \ {0} : d = c
      BY <3>1
    <3> QED
      BY <1>2, <2>5, <3>1, <3>2, <3>3, <3>4 DEF Boundary, Interval
  <2>7. CASE ~BoundaryDue(now, Trainable)
    <3>1. nextRetrain' = b * RetrainInterval /\ Interval(now) < b
      BY <1>2, <2>1, <2>2, <2>3, <2>7
    <3>2. \A i \in 1..n + 1 : Interval(requests'[i].at) < b
      BY <1>2, <2>1, <2>4, <3>1
    <3>3. b = 1 \/ \E i \in 1..n + 1 : Interval(requests'[i].at) = b - 1
      BY <1>2, <2>1, <2>5
    <3> QED
      BY <1>2, <3>1, <3>2, <3>3 DEF Boundary, Interval
  <2> QED
    BY <2>6, <2>7
<1>8. Fitted'
  <2>0. \A f : f \in RetrainInstants <=> \E k \in 1..m : f = retrains[k].at
    BY DEF RetrainInv, Fitted
  <2>1. \A k \in 1..m : retrains[k].rows = ObservedBefore(retrains[k].at)
                        /\ retrains[k].at <= now
    BY DEF RetrainInv, Fitted
  <2>2. \A k, l \in 1..m : k < l => retrains[k].at < retrains[l].at
    BY DEF RetrainInv, Fitted
  <2>3. CASE Retrains(now, Trainable)
    <3>1. /\ Len(rs) = m + 1 /\ rs[m + 1] = record
          /\ \A k \in 1..m : rs[k] = retrains[k] /\ retrains[k].at < now
      BY <1>5, <2>3
    <3>2. (\A k \in 1..m + 1 : k \in 1..m \/ k = m + 1) /\ (\A k \in 1..m : k \in 1..m + 1)
          /\ m + 1 \in 1..m + 1
      BY <1>3
    <3>3. \A f : f \in RetrainInstants' <=> \E k \in 1..m + 1 : f = rs[k].at
      BY <1>4, <1>6, <2>0, <2>3, <3>1, <3>2
    <3>4. \A k, l \in 1..m + 1 : k < l => rs[k].at < rs[l].at
      <4> SUFFICES ASSUME NEW k \in 1..m + 1, NEW l \in 1..m + 1, k < l
                   PROVE  rs[k].at < rs[l].at
        OBVIOUS
      <4>1. k \in 1..m
        BY <1>3
      <4>2. CASE l = m + 1
        BY <1>4, <3>1, <4>1, <4>2
      <4>3. CASE l \in 1..m
        BY <2>2, <3>1, <4>1, <4>3
      <4> QED
        BY <3>2, <4>2, <4>3
    <3>5. \A k \in 1..m + 1 : rs[k].rows = ObservedBefore(rs[k].at) /\ rs[k].at <= now
      BY <1>2, <1>4, <2>1, <3>1, <3>2
    <3> QED
      BY <1>2, <3>1, <3>3, <3>4, <3>5 DEF Fitted, ObservedBefore
  <2>4. CASE ~Retrains(now, Trainable)
    <3>1. retrains' = retrains
      BY <1>2, <1>5, <2>4
    <3>2. RetrainInstants' = RetrainInstants
      BY <1>6, <2>4
    <3> QED
      BY <1>2, <3>1, <3>2 DEF RetrainInv, Fitted, ObservedBefore
  <2> QED
    BY <2>3, <2>4
<1>9. Versioned'
  <2>0. Len(rs) \in Nat /\ m <= Len(rs)
        /\ \A k \in 1..Len(rs) : k \in 1..m \/ (k = m + 1 /\ Retrains(now, Trainable))
    BY <1>3, <1>5
  <2>1. ASSUME NEW i \in 1..n PROVE \E l \in 0..Len(rs) : ServedBy(i, l)'
    <3>1. PICK l \in 0..m : ServedBy(i, l)
      BY <1>1 DEF RetrainInv, Versioned
    <3>2. \A k \in 1..m : rs[k] = retrains[k]
      BY <1>5
    <3>3. \A k \in 1..Len(rs) : rs[k].at <= requests[i].at <=> k <= l
      <4> SUFFICES ASSUME NEW k \in 1..Len(rs)
                   PROVE  rs[k].at <= requests[i].at <=> k <= l
        OBVIOUS
      <4>1. CASE k \in 1..m
        BY <3>1, <3>2, <4>1 DEF ServedBy
      <4>2. CASE k = m + 1 /\ Retrains(now, Trainable)
        <5>1. rs[k].at = now /\ requests[i].at < now
          BY <1>4, <1>5, <1>6, <4>2
        <5> QED
          BY <1>2, <1>3, <4>2, <5>1
      <4> QED
        BY <2>0, <4>1, <4>2
    <3>4. l # 0 => rs[l] = retrains[l]
      BY <1>3, <3>2
    <3>5. l \in 0..Len(rs)
      BY <1>3, <2>0
    <3> QED
      BY <1>2, <3>1, <3>3, <3>4, <3>5 DEF ServedBy
  <2>2. \E l \in 0..Len(rs) : ServedBy(n + 1, l)'
    <3>1. \A k \in 1..Len(rs) : rs[k].at <= now
      <4> SUFFICES ASSUME NEW k \in 1..Len(rs) PROVE rs[k].at <= now
        OBVIOUS
      <4>1. CASE k \in 1..m
        BY <1>5, <4>1 DEF RetrainInv, Fitted
      <4>2. CASE k = m + 1 /\ Retrains(now, Trainable)
        BY <1>2, <1>4, <1>5, <4>2
      <4> QED
        BY <2>0, <4>1, <4>2
    <3>2. PICK l \in 0..Len(rs) : l = Len(rs)
      BY <2>0
    <3>3. rs # <<>> <=> l # 0
      BY <1>2, <3>2, EmptySeq
    <3>4. ServingVersion(rs) = IF l # 0 /\ Cardinality(rs[l].rows) >= MinPositives THEN l ELSE 0
      BY <3>2, <3>3 DEF ServingVersion, ReadyAfter
    <3> QED
      BY <1>2, <3>1, <3>2, <3>4 DEF ServedBy
  <2>3. \A i \in 1..n + 1 : i \in 1..n \/ i = n + 1
    OBVIOUS
  <2> QED
    BY <1>2, <2>1, <2>2, <2>3 DEF Versioned
<1> QED
  BY <1>7, <1>8, <1>9 DEF RetrainInv

\* No other step retrains, and what it observes is of its own instant.
LEMMA RetrainKept ==
  ASSUME StreamInv, Observed, [Next]_vars, StreamInv', RetrainInv,
         UNCHANGED <<requests, retrains, nextRetrain>>, now <= now'
  PROVE  RetrainInv'
<1> DEFINE before(t) == {<<o.id, o.reel>> : o \in {x \in outcomeRows' : x.at < t}}
<1>1. /\ \A t \in Int : t <= now => before(t) = ObservedBefore(t)
      /\ now \in Int /\ now' \in Int
  BY ObservedKept DEF StreamInv, StreamTyped
<1>2. \A i \in 1..Len(requests) : /\ requests[i].at \in Nat /\ requests[i].at <= now
                                  /\ before(requests[i].at) = ObservedBefore(requests[i].at)
  BY <1>1, RequestTimes
<1>3. \A f : f \in RetrainInstants' <=>
        \E j \in 1..Len(requests) :
          /\ f = requests[j].at /\ First(j)
          /\ Cardinality(before(requests[j].at)) >= MinTrainingRows
  <2>1. (\A f : f \in RetrainInstants <=>
           \E j \in 1..Len(requests) :
             /\ f = requests[j].at /\ First(j)
             /\ Cardinality(ObservedBefore(requests[j].at)) >= MinTrainingRows)'
    BY Instants, PTL
  <2>2. \A j \in 1..Len(requests) : First(j)' <=> First(j)
    BY DEF First, Interval
  <2>3. requests' = requests
    OBVIOUS
  <2>4. \A j \in 1..Len(requests) : ObservedBefore(requests[j].at)' = before(requests[j].at)
    BY <2>3 DEF ObservedBefore
  <2> HIDE DEF before
  <2> QED
    BY <2>1, <2>2, <2>3, <2>4
<1>4. \A f : f \in RetrainInstants' <=> f \in RetrainInstants
  <2> HIDE DEF before
  <2> QED
    BY <1>2, <1>3, Instants
<1>5. RetrainInstants' = RetrainInstants
  BY <1>4
<1>6. \A k \in 1..Len(retrains) : /\ retrains[k].at \in Nat /\ retrains[k].at <= now
                                  /\ before(retrains[k].at) = ObservedBefore(retrains[k].at)
  BY <1>1, RetrainTimes DEF RetrainInv, Fitted
<1>7. Fitted'
  BY <1>1, <1>5, <1>6 DEF RetrainInv, Fitted, ObservedBefore
<1>8. Boundary' /\ Versioned'
  BY DEF RetrainInv, Boundary, Versioned, ServedBy, Interval
<1> QED
  BY <1>7, <1>8 DEF RetrainInv

LEMMA RetrainStep ==
  ASSUME StreamInv, JoinInv, Observed, KeepMatrix, [Next]_vars, StreamInv', RetrainInv
  PROVE  RetrainInv'
<1>1. ASSUME NEW u \in Users, RequestFeed(u) PROVE RetrainInv'
  BY <1>1, RetrainAsked
<1>2. CASE BeginGroup
  <2>1. UNCHANGED <<requests, retrains, nextRetrain>> /\ now <= now'
    BY <1>2, StreamAssumption DEF BeginGroup, StreamGroup, retrainVars, StreamInv, StreamTyped
  <2> QED
    BY <2>1, RetrainKept
<1>3. ASSUME \/ EndPhase \/ Finish \/ UNCHANGED vars
             \/ \E u \in Users : StartReel(u) \/ ExitApp(u)
      PROVE  RetrainInv'
  <2>1. UNCHANGED <<requests, retrains, nextRetrain, now>>
    BY <1>3 DEF EndPhase, StreamPhase, Finish, StreamEnd, vars, streamVars, StartReel,
                StreamImpression, ExitApp, StreamExit, retrainVars
  <2>2. now <= now'
    BY <2>1 DEF StreamInv, StreamTyped
  <2> QED
    BY <2>1, <2>2, RetrainKept
<1> QED
  BY <1>1, <1>2, <1>3 DEF Next, Terminated

\* The first sampled of the requests that learned models ranked.
Learned(i) == requests[i].version # 0 /\ requests[i].shown # <<>>

LEMMA SampleMeans ==
  ASSUME StreamInv
  PROVE  SampleIsFirstLearned <=>
           \/ explained.id = 0 /\ \A i \in 1..Len(requests) : ~Learned(i)
           \/ /\ explained.id \in 1..Len(requests) /\ Learned(explained.id)
              /\ \A i \in 1..Len(requests) : Learned(i) => explained.id <= i
              /\ explained.version = requests[explained.id].version
<1>1. DOMAIN requests = 1..Len(requests)
  BY LenProperties DEF StreamInv, StreamTyped
<1> DEFINE learned == {i \in 1..Len(requests) : Learned(i)}
<1>2. SampleIsFirstLearned <=>
        IF learned = {} THEN explained.id = 0
        ELSE /\ explained.id \in learned
             /\ \A i \in learned : explained.id <= i
             /\ explained.version = requests[explained.id].version
  BY <1>1 DEF SampleIsFirstLearned, Learned
<1>3. learned = {} <=> \A i \in 1..Len(requests) : ~Learned(i)
  OBVIOUS
<1>4. \A i : i \in learned <=> i \in 1..Len(requests) /\ Learned(i)
  OBVIOUS
<1> HIDE DEF learned
<1> QED
  BY <1>2, <1>3, <1>4

LEMMA SampleAsked ==
  ASSUME StreamInv, StreamInv', NEW u \in Users, RequestFeed(u), SampleIsFirstLearned
  PROVE  SampleIsFirstLearned'
<1> DEFINE rs == AfterHook(now, Trainable)
<1>1. PICK n \in Nat : n = Len(requests)
  BY RetrainTimes
<1>2. PICK r \in Seq(Reels) :
        /\ rs \in Seq(Records) /\ Len(requests') = n + 1
        /\ \A i \in 1..n : requests'[i] = requests[i]
        /\ requests'[n + 1] = [user |-> u, at |-> now, shown |-> r,
                               version |-> ServingVersion(rs)]
        /\ RetrainHook(n + 1, now, Trainable, Range(r))
  <2> HIDE DEF rs
  <2> QED
    BY <1>1, RequestAppends DEF rs
<1>3. explained' = IF Samples(n + 1, rs, Range(r))
                   THEN [id |-> n + 1, version |-> Len(rs)] ELSE explained
  BY <1>2 DEF RetrainHook
<1>4. Range(r) = {} <=> r = <<>>
  <2>1. DOMAIN r = 1..Len(r) /\ Len(r) \in Nat /\ (r = <<>> <=> Len(r) = 0)
    BY EmptySeq, LenProperties
  <2>2. CASE Len(r) = 0
    BY <2>1, <2>2 DEF Range
  <2>3. CASE Len(r) # 0
    <3>1. 1 \in DOMAIN r
      BY <2>1, <2>3
    <3> QED
      BY <2>1, <2>3, <3>1 DEF Range
  <2> QED
    BY <2>2, <2>3
<1>5. requests'[n + 1].shown = r /\ requests'[n + 1].version = ServingVersion(rs)
  BY <1>2
<1> HIDE DEF rs
<1>6. /\ ServingVersion(rs) # 0 <=> ReadyAfter(rs)
      /\ ReadyAfter(rs) => ServingVersion(rs) = Len(rs)
  BY <1>2, EmptySeq, LenProperties DEF ServingVersion, ReadyAfter
<1>7. PICK last \in Nat : last = n + 1
  BY <1>1
<1>8. \A i \in 1..n : Learned(i)' <=> Learned(i)
  BY <1>2 DEF Learned
<1>9. Samples(last, rs, Range(r)) <=> explained.id = 0 /\ Learned(last)'
  <2>1. Learned(last)' <=> ServingVersion(rs) # 0 /\ r # <<>>
    BY <1>5, <1>7 DEF Learned
  <2> QED
    BY <1>4, <1>6, <2>1 DEF Samples
<1>10. SampleIsFirstLearned' <=>
         \/ explained'.id = 0 /\ \A i \in 1..last : ~Learned(i)'
         \/ /\ explained'.id \in 1..last /\ Learned(explained.id)'
            /\ \A i \in 1..last : Learned(i)' => explained'.id <= i
            /\ explained'.version = requests'[explained'.id].version
  <2>1. (SampleIsFirstLearned <=>
           \/ explained.id = 0 /\ \A i \in 1..Len(requests) : ~Learned(i)
           \/ /\ explained.id \in 1..Len(requests) /\ Learned(explained.id)
              /\ \A i \in 1..Len(requests) : Learned(i) => explained.id <= i
              /\ explained.version = requests[explained.id].version)'
    BY SampleMeans, PTL
  <2> QED
    BY <1>2, <1>7, <2>1
<1>11. \A i \in 1..last : i \in 1..n \/ i = last
  BY <1>7
<1>12. CASE Samples(last, rs, Range(r))
  <2>1. explained'.id = last /\ explained'.version = Len(rs)
    BY <1>3, <1>7, <1>12
  <2>2. Learned(last)' /\ \A i \in 1..n : ~Learned(i)
    BY <1>1, <1>9, <1>12, SampleMeans
  <2>3. Learned(explained.id)'
    BY <2>1, <2>2 DEF Learned
  <2>4. explained'.version = requests'[last].version
    BY <1>5, <1>6, <1>7, <1>12, <2>1 DEF Samples
  <2>5. last \in 1..last /\ \A i \in 1..last : Learned(i)' => last <= i
    BY <1>7, <1>8, <1>11, <2>2
  <2> QED
    BY <1>10, <2>1, <2>3, <2>4, <2>5
<1>13. CASE ~Samples(last, rs, Range(r))
  <2>1. explained' = explained
    BY <1>3, <1>7, <1>13
  <2>2. CASE explained.id = 0
    <3>1. ~Learned(last)' /\ \A i \in 1..n : ~Learned(i)
      BY <1>1, <1>9, <1>13, <2>2, SampleMeans
    <3> QED
      BY <1>8, <1>10, <1>11, <2>1, <2>2, <3>1
  <2>3. CASE explained.id # 0
    <3>1. PICK e \in 1..n : e = explained.id
      BY <1>1, <2>3, SampleMeans
    <3>2. /\ Learned(e) /\ \A i \in 1..n : Learned(i) => e <= i
          /\ explained.version = requests[e].version
      BY <1>1, <2>3, <3>1, SampleMeans
    <3>3. Learned(e)' /\ explained'.id = e
      BY <1>8, <2>1, <3>1, <3>2
    <3>4. Learned(explained.id)'
      BY <3>3 DEF Learned
    <3>5. /\ e \in 1..last /\ explained'.version = requests'[e].version
          /\ \A i \in 1..last : Learned(i)' => e <= i
      BY <1>2, <1>7, <1>8, <1>11, <2>1, <3>2
    <3> QED
      BY <1>10, <3>3, <3>4, <3>5
  <2> QED
    BY <2>2, <2>3
<1> QED
  BY <1>12, <1>13

LEMMA SampleStep ==
  ASSUME StreamInv, StreamInv', [Next]_vars, SampleIsFirstLearned
  PROVE  SampleIsFirstLearned'
<1>1. ASSUME NEW u \in Users, RequestFeed(u) PROVE SampleIsFirstLearned'
  BY <1>1, SampleAsked
<1>2. ASSUME \/ BeginGroup \/ EndPhase \/ Finish \/ UNCHANGED vars
             \/ \E u \in Users : StartReel(u) \/ ExitApp(u)
      PROVE  SampleIsFirstLearned'
  <2>1. UNCHANGED <<requests, explained>>
    BY <1>2 DEF BeginGroup, StreamGroup, EndPhase, StreamPhase, Finish, StreamEnd, vars,
                streamVars, StartReel, StreamImpression, ExitApp, StreamExit, retrainVars
  <2> QED
    BY <2>1 DEF SampleIsFirstLearned
<1> QED
  BY <1>1, <1>2 DEF Next, Terminated

\* Each retrain that was due by the request at t is one of the instants until t.
LEMMA DueInstants ==
  ASSUME StreamInv, RetrainInv, NEW t \in Int, NEW n \in 0..Len(retrains),
         \A k \in 1..Len(retrains) : retrains[k].at <= t <=> k <= n
  PROVE  LET due == {f \in RetrainInstants : f <= t}
         IN  /\ due = {retrains[k].at : k \in 1..n}
             /\ IsFiniteSet(due) /\ Cardinality(due) = n
<1> DEFINE due == {f \in RetrainInstants : f <= t}
           at == [k \in 1..n |-> retrains[k].at]
<1>1. /\ Len(retrains) \in Nat /\ n \in Nat /\ n <= Len(retrains)
      /\ \A k \in 1..Len(retrains) : retrains[k].at \in Nat
  BY RetrainTimes
<1>2. due = {retrains[k].at : k \in 1..n}
  BY <1>1 DEF RetrainInv, Fitted
<1>3. at \in Bijection(1..n, due)
  <2>1. at \in [1..n -> due]
    BY <1>2
  <2>2. \A k, l \in 1..n : k # l => at[k] # at[l]
    <3> SUFFICES ASSUME NEW k \in 1..n, NEW l \in 1..n, k < l PROVE at[k] < at[l]
      <4>1. \A k \in 1..n : at[k] \in Nat
        BY <1>1
      <4> QED
        BY <1>1, <4>1
    <3> QED
      BY <1>1 DEF RetrainInv, Fitted
  <2>3. \A f \in due : \E k \in 1..n : at[k] = f
    BY <1>2
  <2> HIDE DEF at, due
  <2>4. at \in Injection(1..n, due)
    BY <2>1, <2>2 DEF Injection, IsInjective
  <2>5. at \in Surjection(1..n, due)
    BY <2>1, <2>3 DEF Surjection
  <2> QED
    BY <2>4, <2>5 DEF Bijection
<1>4. IsFiniteSet(due) /\ Cardinality(due) = n
  <2>1. IsFiniteSet(1..n) /\ Cardinality(1..n) = n
    BY <1>1, FS_Interval
  <2>2. ExistsBijection(1..n, due)
    BY <1>3 DEF ExistsBijection
  <2> HIDE DEF due
  <2> QED
    BY <2>1, <2>2, FS_Bijection
<1> QED
  BY <1>2, <1>4

LEMMA VersionsExact ==
  ASSUME StreamInv, RetrainInv PROVE ServedVersionExact
<1> DEFINE m == Len(retrains)
           instants == RetrainInstants
<1>1. /\ m \in Nat /\ now \in Int
      /\ DOMAIN requests = 1..Len(requests) /\ DOMAIN retrains = 1..m
      /\ \A k \in 1..m : retrains[k].at \in Nat /\ retrains[k].at <= now
  BY RetrainTimes, LenProperties DEF StreamInv, StreamTyped, RetrainInv, Fitted
<1>2. m = Cardinality(instants)
  <2>1. \A k \in 1..m : retrains[k].at <= now <=> k <= m
    BY <1>1
  <2>2. {f \in instants : f <= now} = instants
    BY <1>1 DEF RetrainInv, Fitted
  <2>3. m \in 0..m
    BY <1>1
  <2>4. Cardinality({f \in instants : f <= now}) = m
    BY <1>1, <2>1, <2>3, DueInstants
  <2> QED
    BY <2>2, <2>4
<1>3. ASSUME NEW i \in 1..Len(requests)
      PROVE  requests[i].version = OwedVersion(requests[i].at, instants)
  <2> DEFINE t == requests[i].at
             due == {f \in instants : f <= t}
             latest(f) == \A g \in due : g <= f
             last == CHOOSE f \in due : latest(f)
  <2>1. PICK n \in 0..m : ServedBy(i, n)
    BY DEF RetrainInv, Versioned
  <2>2. t \in Int /\ \A k \in 1..m : retrains[k].at <= t <=> k <= n
    BY <2>1, RequestTimes DEF ServedBy
  <2>3. due = {retrains[k].at : k \in 1..n} /\ Cardinality(due) = n
    BY <2>2, DueInstants
  <2>4. requests[i].version = IF n # 0 /\ Cardinality(retrains[n].rows) >= MinPositives
                              THEN n ELSE 0
    BY <2>1 DEF ServedBy
  <2>5. OwedVersion(t, instants) = IF due # {} /\ Cardinality(ObservedBefore(last)) >= MinPositives
                                   THEN Cardinality(due) ELSE 0
    BY DEF OwedVersion
  <2>6. n \in Nat /\ \A k \in 1..n : k \in 1..m
    BY <1>1, <2>1
  <2>7. \A k \in 1..m : retrains[k].rows = ObservedBefore(retrains[k].at)
    BY DEF RetrainInv, Fitted
  <2>8. CASE n = 0
    <3>1. due = {}
      BY <2>3, <2>8
    <3> HIDE DEF due, last
    <3> QED
      BY <2>4, <2>5, <2>8, <3>1
  <2>9. CASE n # 0
    <3>1. n \in 1..n /\ n \in 1..m
      BY <2>6, <2>9
    <3>2. retrains[n].at \in due
      BY <2>3, <3>1
    <3>3. \A k \in 1..n : retrains[k].at \in Nat /\ (k # n => retrains[k].at < retrains[n].at)
      BY <1>1, <2>6, <3>1 DEF RetrainInv, Fitted
    <3>4. latest(retrains[n].at)
      BY <2>3, <3>1, <3>3
    <3>5. \A f \in due : latest(f) => f = retrains[n].at
      BY <2>3, <3>2, <3>3
    <3> HIDE DEF due, latest
    <3>6. last = retrains[n].at
      BY <3>2, <3>4, <3>5
    <3>7. ObservedBefore(last) = retrains[n].rows /\ due # {}
      BY <2>7, <3>1, <3>2, <3>6
    <3> HIDE DEF last
    <3> QED
      BY <2>3, <2>4, <2>5, <2>9, <3>7
  <2> QED
    BY <2>8, <2>9
<1> QED
  BY <1>1, <1>2, <1>3 DEF ServedVersionExact, RetrainInv, Fitted

\* When the log keeps its matrix, as it does on the learned arm, the only one
\* with the retraining hook: every request of every run is served by the
\* version owed to it, trained on all the outcomes of earlier instants and
\* nothing else, and the sample explains the first feed learned models ranked.
THEOREM ServingExactCorrect == ASSUME KeepMatrix PROVE Spec => []ServingExact
<1>1. Init => Observed /\ RetrainInv /\ SampleIsFirstLearned
  BY RetrainBegins
<1>2. (StreamInv /\ JoinInv) /\ StreamInv' /\ (Observed /\ RetrainInv /\ SampleIsFirstLearned)
        /\ [Next]_vars => (Observed /\ RetrainInv /\ SampleIsFirstLearned)'
  BY ObservedStep, RetrainStep, SampleStep
<1>3. StreamInv /\ RetrainInv /\ SampleIsFirstLearned => ServingExact
  BY VersionsExact DEF ServingExact
<1> QED
  BY <1>1, <1>2, <1>3, JoinCorrect, PTL DEF Spec

=============================================================================
