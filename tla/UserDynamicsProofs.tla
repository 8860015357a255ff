------------------------- MODULE UserDynamicsProofs --------------------------
(***************************************************************************)
(* The simulator's bookkeeping and the hooks that follow an impression,    *)
(* for any users, reels, times and gates.  The hooks never change what the *)
(* simulator does, and the books only watch both, so what is proved of     *)
(* Simulator holds of the whole composition.  What a user carries from     *)
(* step to step (exposure, felt reactions, habit, estimates, fatigue) is   *)
(* what its own history gives, and the books of the run (sessions by day,  *)
(* health, retention, churn, ecosystem) agree with it and each other.      *)
(*                                                                         *)
(* The books are sums over days, reels and users; Total is the size of a   *)
(* set, so that one more impression is one more element of it and no sum   *)
(* has to be unfolded.                                                     *)
(***************************************************************************)
EXTENDS LongTermBooks, SequenceTheorems, FiniteSetTheorems, TLAPS

------------------------------------------------------------------------------
(* Type correctness *)

\* The simulator starts with the types of its variables.
LEMMA InitType == Init => TypeOK
<1> SUFFICES ASSUME Init PROVE TypeOK
  OBVIOUS
<1>1. NoSession \in Impressions
  BY DEF NoSession, Impressions
<1>2. clock \in Clocks /\ model \in SessionModels /\ drained \in BOOLEAN
  BY DEF Init
<1>3. /\ now \in Nat /\ popped \in Nat /\ ready \in [Users -> Nat]
      /\ sessionId \in [Users -> Nat] /\ length \in [Users -> Nat]
      /\ updatedAt \in [Reels -> Nat]
  BY DEF Init
<1>4. hidden \in [Users -> Impressions]
  BY <1>1 DEF Init
<1>5. targets \in [Users -> Seq(SessionTargets)] /\ records \in [Users -> Seq(Records)]
  BY DEF Init
<1>6. /\ events \in [Users -> Seq([session : Nat, exit : BOOLEAN])]
      /\ trending \in [Reels -> Seq([at : Nat, age : Nat])]
  BY DEF Init
<1> QED
  BY <1>2, <1>3, <1>4, <1>5, <1>6 DEF TypeOK

\* The impression starts no earlier than anything it is measured from.
LEMMA StepTimes ==
  ASSUME TypeOK, NEW u \in Users, NEW r \in Reels, NEW start \in Starts \cup {now},
         NEW watch \in WatchTimes
  PROVE  /\ start \in Nat /\ start + watch \in Nat
         /\ start + watch + BrowseOverhead \in Nat
         /\ start + watch + BrowseOverhead > start
         /\ start + watch >= start
BY SimulatorAssumption DEF TypeOK

\* An impression leaves a hidden session.
LEMMA AccumulatedType ==
  ASSUME TypeOK, NEW u \in Users, NEW start \in Nat, NEW finish \in Nat
  PROVE  Accumulated(u, start, finish) \in Impressions
<1>1. hidden[u] \in Impressions
  BY DEF TypeOK
<1>2. AwayGap(hidden[u], start) \in Nat
  BY <1>1 DEF AwayGap, Impressions
<1>3. StartSession(hidden[u], start) \in Impressions
  BY <1>1, <1>2 DEF StartSession, Impressions
<1>4. ASSUME NEW s \in Impressions
      PROVE  [s EXCEPT !.impressions = @ + 1, !.last = finish] \in Impressions
  <2>1. s.impressions + 1 \in Nat
    BY DEF Impressions
  <2> QED
    BY <2>1 DEF Impressions
<1> QED
  BY <1>1, <1>3, <1>4 DEF Accumulated

\* Counting an impression leaves accumulators and times.
LEMMA CountType ==
  ASSUME TypeOK, NEW r \in Reels, NEW t \in Nat, Count(r, t)
  PROVE  /\ trending' \in [Reels -> Seq([at : Nat, age : Nat])]
         /\ updatedAt' \in [Reels -> Nat]
<1>1. TrendingDecayForward(r, t) \in Nat
  BY DEF TypeOK, TrendingDecayForward
<1> DEFINE aged(c) == [c EXCEPT !.age = @ + TrendingDecayForward(r, t)]
           old == [i \in DOMAIN trending[r] |-> aged(trending[r][i])]
<1>2. trending[r] \in Seq([at : Nat, age : Nat])
  BY DEF TypeOK
<1>3. ASSUME NEW i \in DOMAIN trending[r]
      PROVE  aged(trending[r][i]) \in [at : Nat, age : Nat]
  <2>1. trending[r][i] \in [at : Nat, age : Nat]
    <3>1. i \in 1..Len(trending[r])
      BY <1>2
    <3> QED
      BY <1>2, <3>1, ElementOfSeq
  <2>2. trending[r][i].age + TrendingDecayForward(r, t) \in Nat
    BY <1>1, <2>1
  <2> QED
    BY <2>1, <2>2
<1>4. old \in Seq([at : Nat, age : Nat])
  <2>1. DOMAIN trending[r] = 1..Len(trending[r]) /\ Len(trending[r]) \in Nat
    BY <1>2
  <2> HIDE DEF aged
  <2> QED
    BY <1>3, <2>1, IsASeq
<1>5. trending' = [trending EXCEPT ![r] = Append(old, [at |-> t, age |-> 0])]
  BY DEF Count
<1> HIDE DEF old
<1>6. Append(old, [at |-> t, age |-> 0]) \in Seq([at : Nat, age : Nat])
  BY <1>4
<1> QED
  BY <1>5, <1>6 DEF Count, TypeOK

\* What every step does to clocks, events and accumulators keeps types.
LEMMA AdvanceType ==
  ASSUME TypeOK, NEW u \in Users, NEW r \in Reels, NEW start \in Starts \cup {now},
         NEW watch \in WatchTimes, NEW session \in Nat, NEW exit \in BOOLEAN,
         Advance(u, r, start, watch, session, exit)
  PROVE  /\ now' \in Nat /\ popped' \in Nat /\ ready' \in [Users -> Nat]
         /\ events' \in [Users -> Seq([session : Nat, exit : BOOLEAN])]
         /\ trending' \in [Reels -> Seq([at : Nat, age : Nat])]
         /\ updatedAt' \in [Reels -> Nat]
<1>1. /\ start \in Nat /\ start + watch \in Nat
      /\ start + watch + BrowseOverhead \in Nat
  BY StepTimes
<1>2. start + watch + (IF exit THEN 0 ELSE BrowseOverhead) \in Nat
  BY <1>1
<1>3. now' \in Nat /\ popped' \in Nat
  BY <1>1 DEF Advance
<1>4. ready' \in [Users -> Nat]
  BY <1>2 DEF Advance, TypeOK
<1>5. [session |-> session, exit |-> exit] \in [session : Nat, exit : BOOLEAN]
  OBVIOUS
<1>6. Append(events[u], [session |-> session, exit |-> exit])
        \in Seq([session : Nat, exit : BOOLEAN])
  BY <1>5 DEF TypeOK
<1>7. events' \in [Users -> Seq([session : Nat, exit : BOOLEAN])]
  BY <1>6 DEF Advance, TypeOK
<1>8. Count(r, start + watch + BrowseOverhead)
  BY DEF Advance
<1> QED
  BY <1>1, <1>3, <1>4, <1>7, <1>8, CountType

\* A record is made of a session.
LEMMA RecordType ==
  ASSUME NEW s \in Impressions, NEW id \in Nat, NEW exit \in BOOLEAN
  PROVE  MakeSessionRecord(s, id, exit) \in Records
BY DEF MakeSessionRecord, Impressions, Records

\* A step keeps the types.
LEMMA StepType ==
  ASSUME TypeOK, NEW u \in Users, NEW r \in Reels, NEW start \in Starts \cup {now},
         NEW watch \in WatchTimes, Step(u, r, start, watch)
  PROVE  TypeOK'
<1>1. start \in Nat /\ start + watch \in Nat
  BY StepTimes
<1>2. sessionId[u] \in Nat /\ Len(targets[u]) \in Nat /\ length[u] \in Nat
  BY DEF TypeOK
<1>3. clock' \in Clocks /\ model' \in SessionModels /\ drained' \in BOOLEAN
  BY DEF Step, config, TypeOK
<1>4. CASE StepOpens(u, r, start, watch)
  <2>1. Advance(u, r, start, watch, Len(targets[u]), FALSE)
    BY <1>4 DEF StepOpens
  <2>2. \A n \in SessionTargets : Append(targets[u], n) \in Seq(SessionTargets)
    BY DEF TypeOK
  <2>3. /\ targets' \in [Users -> Seq(SessionTargets)] /\ sessionId' \in [Users -> Nat]
        /\ length' \in [Users -> Nat] /\ hidden' = hidden /\ records' = records
    BY <1>2, <1>4, <2>2 DEF StepOpens, TypeOK
  <2> QED
    BY <1>2, <1>3, <2>1, <2>3, AdvanceType DEF TypeOK
<1>5. CASE StepContinues(u, r, start, watch)
  <2>1. Advance(u, r, start, watch, sessionId[u], FALSE)
    BY <1>5 DEF StepContinues
  <2>2. /\ length' \in [Users -> Nat] /\ sessionId' = sessionId /\ targets' = targets
        /\ hidden' = hidden /\ records' = records
    BY <1>2, <1>5 DEF StepContinues, TypeOK
  <2> QED
    BY <1>2, <1>3, <2>1, <2>2, AdvanceType DEF TypeOK
<1>6. CASE StepV2Stays(u, r, start, watch)
  <2>1. Advance(u, r, start, watch, sessionId[u], FALSE)
    BY <1>6 DEF StepV2Stays
  <2>2. Accumulated(u, start, start + watch) \in Impressions
    BY <1>1, AccumulatedType
  <2>3. /\ length' \in [Users -> Nat] /\ sessionId' = sessionId /\ targets' = targets
        /\ hidden' \in [Users -> Impressions] /\ records' = records
    BY <1>2, <1>6, <2>2 DEF StepV2Stays, TypeOK
  <2> QED
    BY <1>2, <1>3, <2>1, <2>3, AdvanceType DEF TypeOK
<1>7. CASE StepV2Exits(u, r, start, watch)
  <2> DEFINE s == Accumulated(u, start, start + watch)
  <2>1. Advance(u, r, start, watch, sessionId[u], TRUE)
    BY <1>7 DEF StepV2Exits
  <2>2. s \in Impressions
    BY <1>1, AccumulatedType
  <2>3. Closed(s, start + watch) \in Impressions
    BY <1>1, <2>2 DEF Closed, Impressions
  <2>4. /\ hidden' = [hidden EXCEPT ![u] = Closed(s, start + watch)]
        /\ records' = [records EXCEPT ![u] =
                         Append(@, MakeSessionRecord(s, sessionId[u], TRUE))]
    BY <1>7 DEF StepV2Exits
  <2>5. MakeSessionRecord(s, sessionId[u], TRUE) \in Records
    BY <1>2, <2>2, RecordType
  <2> HIDE DEF s
  <2>6. hidden' \in [Users -> Impressions]
    BY <2>3, <2>4 DEF TypeOK
  <2>7. Append(records[u], MakeSessionRecord(s, sessionId[u], TRUE)) \in Seq(Records)
    <3>1. records[u] \in Seq(Records)
      BY DEF TypeOK
    <3> QED
      BY <2>5, <3>1, AppendProperties
  <2>8. records' \in [Users -> Seq(Records)]
    BY <2>4, <2>7 DEF TypeOK
  <2>9. /\ length' \in [Users -> Nat] /\ sessionId' \in [Users -> Nat] /\ targets' = targets
    BY <1>2, <1>7 DEF StepV2Exits, TypeOK
  <2> QED
    BY <1>2, <1>3, <2>1, <2>6, <2>8, <2>9, AdvanceType DEF TypeOK
<1> QED
  BY <1>4, <1>5, <1>6, <1>7 DEF Step

\* The drain keeps the types.
LEMMA DrainType ==
  ASSUME TypeOK, DrainOpenSessions
  PROVE  TypeOK'
<1>1. NoSession \in Impressions
  BY DEF NoSession, Impressions
<1>2. ASSUME NEW u \in Users
      PROVE  Append(records[u], MakeSessionRecord(hidden[u], sessionId[u], FALSE))
               \in Seq(Records)
  <2>1. hidden[u] \in Impressions /\ sessionId[u] \in Nat /\ records[u] \in Seq(Records)
    BY DEF TypeOK
  <2>2. MakeSessionRecord(hidden[u], sessionId[u], FALSE) \in Records
    BY <2>1, RecordType
  <2> QED
    BY <2>1, <2>2, AppendProperties
<1>3. records' \in [Users -> Seq(Records)]
  BY <1>2 DEF DrainOpenSessions, TypeOK
<1> QED
  BY <1>1, <1>3 DEF DrainOpenSessions, TypeOK, config, timeVars, trendVars

\* The variables have their types throughout.
THEOREM TypeCorrect == Spec => []TypeOK
<1>1. TypeOK /\ [Next]_vars => TypeOK'
  <2> SUFFICES ASSUME TypeOK, [Next]_vars PROVE TypeOK'
    OBVIOUS
  <2>1. CASE Next
    BY <2>1, StepType, DrainType DEF Next
  <2>2. CASE UNCHANGED vars
    BY <2>2 DEF vars, config, timeVars, trendVars, TypeOK
  <2> QED
    BY <2>1, <2>2
<1> QED
  BY <1>1, InitType, PTL DEF Spec
------------------------------------------------------------------------------
(* Trending accumulators *)

\* With the shared clock no accumulator was updated later than now.
TrendInv ==
  clock = "shared" => \A r \in Reels : updatedAt[r] <= now /\ Exact(r)

\* Bringing one contribution forward by d seconds.
LEMMA AgedContribution ==
  ASSUME NEW c \in [at : Nat, age : Nat], NEW d \in Nat
  PROVE  LET a == [c EXCEPT !.age = @ + d] IN
         a \in [at : Nat, age : Nat] /\ a.at + a.age = c.at + c.age + d
<1>1. c.age + d \in Nat /\ c.at \in Nat /\ c.age \in Nat
  OBVIOUS
<1>2. [c EXCEPT !.age = @ + d] = [at |-> c.at, age |-> c.age + d]
  OBVIOUS
<1> QED
  BY <1>1, <1>2

\* An update no earlier than the last keeps the accumulators exact.
LEMMA CountExact ==
  ASSUME TypeOK, NEW r \in Reels, NEW t \in Nat, Count(r, t),
         \A q \in Reels : updatedAt[q] <= t /\ Exact(q)
  PROVE  \A q \in Reels : updatedAt'[q] <= t /\ Exact(q)'
<1> DEFINE aged(c) == [c EXCEPT !.age = @ + TrendingDecayForward(r, t)]
           old == [i \in DOMAIN trending[r] |-> aged(trending[r][i])]
<1>1. /\ trending' = [trending EXCEPT ![r] = Append(old, [at |-> t, age |-> 0])]
      /\ updatedAt' = [updatedAt EXCEPT ![r] = t]
  BY DEF Count
<1>2. ASSUME NEW q \in Reels, q # r
      PROVE  updatedAt'[q] <= t /\ Exact(q)'
  <2>1. trending'[q] = trending[q] /\ updatedAt'[q] = updatedAt[q]
    BY <1>1, <1>2 DEF TypeOK
  <2> QED
    BY <2>1 DEF Exact
<1>3. updatedAt'[r] = t /\ trending'[r] = Append(old, [at |-> t, age |-> 0])
  BY <1>1 DEF TypeOK
<1>4. updatedAt[r] \in Nat /\ trending[r] \in Seq([at : Nat, age : Nat])
  BY DEF TypeOK
<1>5. TrendingDecayForward(r, t) = t - updatedAt[r]
  BY <1>4 DEF TrendingDecayForward
<1>6. DOMAIN trending[r] = 1..Len(trending[r]) /\ Len(trending[r]) \in Nat
  BY <1>4
<1>7. \A i \in 1..Len(trending[r]) :
        /\ aged(trending[r][i]) \in [at : Nat, age : Nat]
        /\ aged(trending[r][i]).at + aged(trending[r][i]).age = t
  <2> SUFFICES ASSUME NEW i \in 1..Len(trending[r])
               PROVE  /\ aged(trending[r][i]) \in [at : Nat, age : Nat]
                      /\ aged(trending[r][i]).at + aged(trending[r][i]).age = t
    OBVIOUS
  <2>1. trending[r][i] \in [at : Nat, age : Nat]
    BY <1>4, ElementOfSeq
  <2>2. trending[r][i].at + trending[r][i].age = updatedAt[r]
    BY <1>6 DEF Exact
  <2>3. t - updatedAt[r] \in Nat
    BY <1>4
  <2>4. aged(trending[r][i]) =
          [trending[r][i] EXCEPT !.age = @ + (t - updatedAt[r])]
    BY <1>5
  <2> HIDE DEF aged
  <2>5. /\ aged(trending[r][i]) \in [at : Nat, age : Nat]
        /\ aged(trending[r][i]).at + aged(trending[r][i]).age
             = trending[r][i].at + trending[r][i].age + (t - updatedAt[r])
    BY <2>1, <2>3, <2>4, AgedContribution
  <2> QED
    BY <1>4, <2>2, <2>5
<1> HIDE DEF aged
<1>8. /\ old \in Seq([at : Nat, age : Nat])
      /\ Len(old) = Len(trending[r])
      /\ \A i \in 1..Len(trending[r]) : old[i] = aged(trending[r][i])
  <2>1. old = [i \in 1..Len(trending[r]) |-> aged(trending[r][i])]
    BY <1>6
  <2>2. old \in Seq([at : Nat, age : Nat])
    BY <1>6, <1>7, <2>1, IsASeq
  <2> HIDE DEF old
  <2>3. Len(old) = Len(trending[r])
    BY <1>6, <2>1, <2>2
  <2> QED
    BY <2>1, <2>2, <2>3
<1> HIDE DEF old
<1>9. ASSUME NEW i \in DOMAIN trending'[r]
      PROVE  trending'[r][i].at + trending'[r][i].age = t
  <2>1. /\ Len(trending'[r]) = Len(old) + 1
        /\ \A j \in 1..Len(old) : trending'[r][j] = old[j]
        /\ trending'[r][Len(old) + 1] = [at |-> t, age |-> 0]
        /\ trending'[r] \in Seq([at : Nat, age : Nat])
    <3>1. [at |-> t, age |-> 0] \in [at : Nat, age : Nat]
      OBVIOUS
    <3> QED
      BY <1>3, <1>8, <3>1, AppendProperties
  <2>2. i \in 1..Len(old) + 1
    BY <2>1
  <2>3. CASE i \in 1..Len(old)
    BY <1>7, <1>8, <2>1, <2>3
  <2>4. CASE i = Len(old) + 1
    <3>1. trending'[r][i] = [at |-> t, age |-> 0]
      BY <2>1, <2>4
    <3> QED
      BY <3>1
  <2>5. Len(old) \in Nat
    BY <1>6, <1>8
  <2>6. i \in 1..Len(old) \/ i = Len(old) + 1
    BY <2>2, <2>5
  <2> QED
    BY <2>3, <2>4, <2>6
<1>10. updatedAt'[r] <= t /\ Exact(r)'
  BY <1>3, <1>9 DEF Exact
<1> QED
  BY <1>2, <1>10

\* Under the shared clock every step leaves the accumulators exact.
LEMMA TrendStep ==
  ASSUME TypeOK, TrendInv, [Next]_vars
  PROVE  TrendInv'
<1> SUFFICES ASSUME clock' = "shared"
             PROVE  \A r \in Reels : updatedAt'[r] <= now' /\ Exact(r)'
  BY DEF TrendInv
<1>1. clock = "shared"
  BY DEF Next, Step, DrainOpenSessions, vars, config
<1>2. \A r \in Reels : updatedAt[r] <= now /\ Exact(r)
  BY <1>1 DEF TrendInv
<1>3. ASSUME NEW u \in Users, NEW r \in Reels, NEW start \in Starts \cup {now},
             NEW watch \in WatchTimes, Step(u, r, start, watch)
      PROVE  \A q \in Reels : updatedAt'[q] <= now' /\ Exact(q)'
  <2> DEFINE t == start + watch + BrowseOverhead
  <2>1. Count(r, t) /\ now' = t
    BY <1>3 DEF Step, StepOpens, StepContinues, StepV2Stays, StepV2Exits, Advance
  <2>2. start = now
    BY <1>1, <1>3 DEF Step, StartsAt
  <2>3. t \in Nat /\ t >= now
    BY <2>2, StepTimes DEF TypeOK
  <2>4. \A q \in Reels : updatedAt[q] <= t /\ Exact(q)
    BY <1>2, <2>3 DEF TypeOK
  <2> HIDE DEF t
  <2> QED
    BY <2>1, <2>3, <2>4, CountExact
<1>4. ASSUME updatedAt' = updatedAt, trending' = trending, now' = now
      PROVE  \A r \in Reels : updatedAt'[r] <= now' /\ Exact(r)'
  BY <1>2, <1>4 DEF Exact
<1>5. CASE DrainOpenSessions \/ UNCHANGED vars
  BY <1>4, <1>5 DEF DrainOpenSessions, vars, timeVars, trendVars
<1> QED
  BY <1>3, <1>5 DEF Next

\* While the steps keep the clock, what an impression added to a reel's
\* trending accumulators has decayed by exactly the time since (Simulator::step
\* and stepV2, step 6b).
THEOREM TrendingDecayedForwardCorrect == Spec => []TrendingDecayedForward
<1>1. Init => TrendInv
  <2> SUFFICES ASSUME Init, NEW r \in Reels
               PROVE  updatedAt[r] <= now /\ Exact(r)
    BY DEF TrendInv
  <2>1. updatedAt[r] = 0 /\ now = 0 /\ trending[r] = <<>>
    BY DEF Init
  <2> QED
    BY <2>1 DEF Exact
<1>2. TypeOK /\ TrendInv /\ [Next]_vars => TrendInv'
  BY TrendStep
<1>3. TrendInv => TrendingDecayedForward
  BY DEF TrendInv, TrendingDecayedForward
<1> QED
  BY <1>1, <1>2, <1>3, TypeCorrect, PTL DEF Spec
------------------------------------------------------------------------------
(* Sessions *)

\* No later event of u starts before this.
Floor(u) == IF clock = "shared" THEN now ELSE ready[u]

\* The away gap of a session beginning at t after one that ended at p.
GapAfter(p, t) == IF p = 0 THEN 0 ELSE t - p

\* Before the drain: the ids count the records, whose sessions all ended by an
\* exit, the last at previousEnd; what is open began after it.
Remembered(u) ==
  /\ model = "dynamics" => Len(records[u]) = sessionId[u]
  /\ model # "dynamics" => records[u] = <<>> /\ hidden[u].impressions = 0
  /\ \A k \in DOMAIN records[u] : records[u][k].exit
  /\ hidden[u].previousEnd = IF records[u] = <<>> THEN 0 ELSE Last(records[u]).end
  /\ hidden[u].previousEnd <= Floor(u)

Opened(u) ==
  hidden[u].impressions > 0 =>
    /\ hidden[u].previousEnd <= hidden[u].start
    /\ hidden[u].start <= hidden[u].last
    /\ hidden[u].last <= Floor(u)
    /\ hidden[u].gap = GapAfter(hidden[u].previousEnd, hidden[u].start)

SessionInv ==
  /\ SessionsDisjoint
  /\ ~drained => \A u \in Users : Remembered(u) /\ Opened(u)
  /\ drained => \A u \in Users : hidden[u].impressions = 0

\* A record of a session begun after the last one ended extends the chain.
LEMMA ChainAppend ==
  ASSUME NEW recs \in Seq(Records), NEW rec \in Records,
         Chain(recs), rec.session = Len(recs), rec.start <= rec.end,
         \A k \in DOMAIN recs : recs[k].exit,
         recs # <<>> => recs[Len(recs)].end <= rec.start
  PROVE  /\ Chain(Append(recs, rec))
         /\ Append(recs, rec) # <<>>
         /\ Len(Append(recs, rec)) = Len(recs) + 1
         /\ Last(Append(recs, rec)) = rec
         /\ rec.exit => \A k \in DOMAIN Append(recs, rec) : Append(recs, rec)[k].exit
<1> DEFINE new == Append(recs, rec)
<1>1. /\ new \in Seq(Records) /\ new # <<>> /\ Len(new) = Len(recs) + 1
      /\ \A i \in 1..Len(recs) : new[i] = recs[i]
      /\ new[Len(recs) + 1] = rec
  BY AppendProperties
<1>2. Len(recs) \in Nat /\ DOMAIN recs = 1..Len(recs)
  OBVIOUS
<1> HIDE DEF new
<1>3. DOMAIN new = 1..Len(recs) + 1
  BY <1>1, <1>2
<1>4. ASSUME NEW k \in DOMAIN new
      PROVE  /\ new[k].session = k - 1
             /\ new[k].start <= new[k].end
             /\ k > 1 => new[k - 1].end <= new[k].start /\ new[k - 1].exit
  <2>1. CASE k \in 1..Len(recs)
    <3>1. new[k] = recs[k] /\ (k > 1 => new[k - 1] = recs[k - 1])
      BY <1>1, <1>2, <2>1
    <3> QED
      BY <1>2, <2>1, <3>1 DEF Chain
  <2>2. CASE k = Len(recs) + 1
    <3>1. new[k] = rec /\ k - 1 = Len(recs)
      BY <1>1, <1>2, <2>2
    <3>2. ASSUME k > 1
          PROVE  new[k - 1] = recs[Len(recs)] /\ Len(recs) \in DOMAIN recs /\ recs # <<>>
      BY <1>1, <1>2, <2>2, <3>2
    <3> QED
      BY <3>1, <3>2
  <2>3. k \in 1..Len(recs) \/ k = Len(recs) + 1
    BY <1>2, <1>3
  <2> QED
    BY <2>1, <2>2, <2>3
<1>5. Last(new) = rec
  BY <1>1 DEF Last
<1>6. ASSUME rec.exit, NEW k \in DOMAIN new
      PROVE  new[k].exit
  <2>1. k \in 1..Len(recs) \/ k = Len(recs) + 1
    BY <1>2, <1>3
  <2>2. CASE k \in 1..Len(recs)
    BY <1>1, <1>2, <2>2
  <2>3. CASE k = Len(recs) + 1
    BY <1>1, <1>6, <2>3
  <2> QED
    BY <2>1, <2>2, <2>3
<1>7. Chain(new)
  BY <1>4 DEF Chain
<1> QED
  BY <1>1, <1>5, <1>6, <1>7 DEF new

\* The hidden session after an impression that starts no earlier than Floor.
LEMMA AccumulatedFacts ==
  ASSUME TypeOK, NEW u \in Users, Remembered(u), Opened(u),
         NEW start \in Nat, NEW finish \in Nat, start >= Floor(u), start <= finish
  PROVE  LET a == Accumulated(u, start, finish) IN
         /\ a \in Impressions
         /\ a.impressions > 0 /\ a.last = finish
         /\ a.previousEnd = hidden[u].previousEnd
         /\ a.previousEnd <= a.start /\ a.start <= finish
         /\ a.gap = GapAfter(a.previousEnd, a.start)
<1> DEFINE a == Accumulated(u, start, finish)
           s == hidden[u]
<1>1. a \in Impressions
  BY AccumulatedType
<1>2. s \in Impressions /\ s.previousEnd \in Nat /\ s.impressions \in Nat
  BY DEF TypeOK, Impressions
<1>3. Floor(u) \in Nat /\ s.previousEnd <= Floor(u)
  BY DEF Floor, Remembered, TypeOK
<1>4. CASE s.impressions = 0
  <2>1. a = [StartSession(s, start) EXCEPT !.impressions = @ + 1, !.last = finish]
    BY <1>4 DEF Accumulated
  <2>2. StartSession(s, start) =
          [s EXCEPT !.impressions = 0, !.start = start, !.last = start, !.gap = AwayGap(s, start)]
    BY DEF StartSession
  <2>3. /\ a.impressions = 1 /\ a.last = finish /\ a.previousEnd = s.previousEnd
        /\ a.start = start /\ a.gap = AwayGap(s, start)
    BY <1>2, <2>1, <2>2 DEF Impressions
  <2>4. AwayGap(s, start) = GapAfter(s.previousEnd, start)
    BY <1>2, <1>3 DEF AwayGap, GapAfter
  <2> QED
    BY <1>1, <1>2, <1>3, <2>3, <2>4
<1>5. CASE s.impressions # 0
  <2>1. a = [s EXCEPT !.impressions = @ + 1, !.last = finish]
    BY <1>5 DEF Accumulated
  <2>2. /\ a.impressions = s.impressions + 1 /\ a.last = finish
        /\ a.previousEnd = s.previousEnd /\ a.start = s.start /\ a.gap = s.gap
    BY <1>2, <2>1 DEF Impressions
  <2>3. /\ s.previousEnd <= s.start /\ s.start <= s.last /\ s.last <= Floor(u)
        /\ s.gap = GapAfter(s.previousEnd, s.start)
    BY <1>2, <1>5 DEF Opened
  <2>4. s.start \in Nat /\ s.last \in Nat
    BY <1>2 DEF Impressions
  <2> QED
    BY <1>1, <1>2, <1>3, <2>2, <2>3, <2>4
<1> QED
  BY <1>4, <1>5

\* An impression starts at or after Floor and moves it past its finish.
LEMMA FloorStep ==
  ASSUME TypeOK, NEW u \in Users, NEW r \in Reels, NEW start \in Starts \cup {now},
         NEW watch \in WatchTimes, Step(u, r, start, watch)
  PROVE  /\ start >= Floor(u)
         /\ Floor(u)' >= start + watch
         /\ \A v \in Users : Floor(v)' >= Floor(v)
<1>1. /\ start \in Nat /\ start + watch \in Nat
      /\ start + watch + BrowseOverhead \in Nat
      /\ start + watch + BrowseOverhead >= start + watch /\ start + watch >= start
  BY StepTimes, SimulatorAssumption DEF TypeOK
<1>2. clock' = clock /\ StartsAt(u, start)
  BY DEF Step, config
<1>3. PICK exit \in BOOLEAN :
        /\ now' = start + watch + BrowseOverhead
        /\ ready' = [ready EXCEPT ![u] = start + watch + (IF exit THEN 0 ELSE BrowseOverhead)]
  BY DEF Step, StepOpens, StepContinues, StepV2Stays, StepV2Exits, Advance
<1>4. CASE clock = "shared"
  BY <1>1, <1>2, <1>3, <1>4 DEF StartsAt, Floor, TypeOK
<1>5. CASE clock # "shared"
  <2>1. start >= ready[u] /\ ready[u] \in Nat
    BY <1>2, <1>5 DEF StartsAt, TypeOK
  <2>2. ready'[u] >= start + watch
    BY <1>1, <1>3 DEF TypeOK
  <2>3. \A v \in Users : v # u => ready'[v] = ready[v]
    BY <1>3 DEF TypeOK
  <2>4. ASSUME NEW v \in Users
        PROVE  ready'[v] >= ready[v]
    <3>1. ready[v] \in Nat /\ ready'[u] \in Nat
      BY <1>1, <1>3 DEF TypeOK
    <3>2. ready'[u] >= ready[u]
      BY <1>1, <2>1, <2>2, <3>1
    <3> QED
      BY <2>3, <3>1, <3>2
  <2> QED
    BY <1>2, <1>5, <2>1, <2>2, <2>4 DEF Floor
<1> QED
  BY <1>4, <1>5

\* What a step leaves of the users it does not touch.
LEMMA OthersKept ==
  ASSUME TypeOK, SessionInv, ~drained, NEW v \in Users,
         records'[v] = records[v], hidden'[v] = hidden[v],
         sessionId'[v] = sessionId[v], model' = model, Floor(v)' >= Floor(v),
         Floor(v)' \in Nat
  PROVE  Chain(records[v])' /\ Remembered(v)' /\ Opened(v)'
<1>1. Chain(records[v]) /\ Remembered(v) /\ Opened(v)
  BY DEF SessionInv, SessionsDisjoint
<1>2. Floor(v) \in Nat /\ hidden[v].previousEnd \in Nat /\ hidden[v].last \in Nat
  BY DEF Floor, TypeOK, Impressions
<1>3. Chain(records[v])'
  BY <1>1 DEF Chain
<1>4. Remembered(v)'
  <2>1. hidden'[v].previousEnd <= Floor(v)'
    BY <1>1, <1>2 DEF Remembered
  <2> QED
    BY <1>1, <2>1 DEF Remembered, Last
<1>5. Opened(v)'
  <2>1. ASSUME hidden'[v].impressions > 0
        PROVE  hidden'[v].last <= Floor(v)'
    BY <1>1, <1>2, <2>1 DEF Opened
  <2> QED
    BY <1>1, <2>1 DEF Opened, GapAfter
<1> QED
  BY <1>3, <1>4, <1>5

\* A step extends the open session or closes it after the last record.
LEMMA SessionStep ==
  ASSUME TypeOK, SessionInv, NEW u \in Users, NEW r \in Reels,
         NEW start \in Starts \cup {now}, NEW watch \in WatchTimes, Step(u, r, start, watch)
  PROVE  SessionInv'
<1> DEFINE a == Accumulated(u, start, start + watch)
<1>1. /\ start \in Nat /\ start + watch \in Nat /\ start + watch >= start
  BY StepTimes
<1>2. /\ start >= Floor(u) /\ Floor(u)' >= start + watch
      /\ \A v \in Users : Floor(v)' >= Floor(v)
  BY FloorStep
<1>3. ~drained /\ ~drained' /\ model' = model
  BY DEF Step, config
<1>4. TypeOK'
  BY StepType
<1>5. \A v \in Users : Floor(v)' \in Nat
  BY <1>4 DEF Floor, TypeOK
<1>6. Chain(records[u]) /\ Remembered(u) /\ Opened(u)
  BY <1>3 DEF SessionInv, SessionsDisjoint
<1>7. /\ a \in Impressions
      /\ a.impressions > 0 /\ a.last = start + watch
      /\ a.previousEnd = hidden[u].previousEnd
      /\ a.previousEnd <= a.start /\ a.start <= start + watch
      /\ a.gap = GapAfter(a.previousEnd, a.start)
  BY <1>1, <1>2, <1>6, AccumulatedFacts
<1> HIDE DEF a
<1>8. SUFFICES ASSUME NEW v \in Users
               PROVE  Chain(records[v])' /\ Remembered(v)' /\ Opened(v)'
  BY <1>3 DEF SessionInv, SessionsDisjoint
<1>9. CASE v # u
  <2>1. records'[v] = records[v] /\ hidden'[v] = hidden[v] /\ sessionId'[v] = sessionId[v]
    BY <1>9 DEF Step, StepOpens, StepContinues, StepV2Stays, StepV2Exits, TypeOK
  <2> QED
    BY <1>2, <1>3, <1>5, <2>1, OthersKept
<1>10. CASE v = u /\ (StepOpens(u, r, start, watch) \/ StepContinues(u, r, start, watch))
  <2>1. records' = records /\ hidden' = hidden /\ model = "rotation"
    BY <1>10 DEF StepOpens, StepContinues
  <2>2. model' # "dynamics" /\ records'[u] = <<>> /\ hidden'[u].impressions = 0
    BY <1>3, <1>6, <2>1 DEF Remembered
  <2>3. hidden'[u].previousEnd = 0
    BY <1>6, <2>1, <2>2 DEF Remembered
  <2>4. Remembered(u)'
    BY <1>5, <2>2, <2>3 DEF Remembered
  <2> QED
    BY <1>6, <1>10, <2>1, <2>2, <2>4 DEF Opened, Chain
<1>11. CASE v = u /\ StepV2Stays(u, r, start, watch)
  <2>1. records' = records /\ sessionId' = sessionId /\ model = "dynamics"
    BY <1>11 DEF StepV2Stays
  <2>2. hidden'[u] = a
    BY <1>11 DEF StepV2Stays, TypeOK, a
  <2>3. Floor(u) \in Nat /\ Floor(u)' \in Nat /\ hidden[u].previousEnd \in Nat
    BY <1>5 DEF Floor, TypeOK, Impressions
  <2>4. hidden'[u].previousEnd <= Floor(u)'
    BY <1>2, <1>6, <1>7, <2>2, <2>3 DEF Remembered
  <2>5. Remembered(u)'
    BY <1>3, <1>6, <1>7, <2>1, <2>2, <2>4 DEF Remembered, Last
  <2>6. Opened(u)'
    BY <1>2, <1>7, <2>2 DEF Opened, GapAfter
  <2> QED
    BY <1>6, <1>11, <2>1, <2>5, <2>6 DEF Chain
<1>12. CASE v = u /\ StepV2Exits(u, r, start, watch)
  <2> DEFINE rec == MakeSessionRecord(a, sessionId[u], TRUE)
  <2>1. model = "dynamics" /\ sessionId'[u] = sessionId[u] + 1
    BY <1>12 DEF StepV2Exits, TypeOK
  <2>2. records'[u] = Append(records[u], rec)
    BY <1>12 DEF StepV2Exits, TypeOK, a
  <2>3. hidden'[u] = Closed(a, start + watch)
    BY <1>12 DEF StepV2Exits, TypeOK, a
  <2>4. /\ sessionId[u] \in Nat /\ records[u] \in Seq(Records)
        /\ rec \in Records /\ rec.exit /\ rec.session = sessionId[u]
        /\ rec.start = a.start /\ rec.end = start + watch
    BY <1>7, RecordType DEF TypeOK, MakeSessionRecord
  <2>5. records[u] # <<>> => records[u][Len(records[u])].end <= rec.start
    BY <1>6, <1>7, <2>4 DEF Remembered, Last
  <2>6. /\ Len(records[u]) = sessionId[u] /\ \A k \in DOMAIN records[u] : records[u][k].exit
    BY <1>6, <2>1 DEF Remembered
  <2> HIDE DEF rec
  <2>7. /\ Chain(records'[u]) /\ records'[u] # <<>>
        /\ Len(records'[u]) = sessionId[u] + 1 /\ Last(records'[u]) = rec
        /\ \A k \in DOMAIN records'[u] : records'[u][k].exit
    BY <1>6, <1>7, <2>2, <2>4, <2>5, <2>6, ChainAppend
  <2>8. hidden'[u].previousEnd = start + watch /\ hidden'[u].impressions = 0
    BY <1>7, <2>3 DEF Closed, Impressions
  <2>9. Remembered(u)'
    BY <1>2, <1>3, <2>1, <2>4, <2>7, <2>8 DEF Remembered
  <2> QED
    BY <1>12, <2>7, <2>8, <2>9 DEF Opened, Chain
<1> QED
  BY <1>9, <1>10, <1>11, <1>12 DEF Step

\* The drain appends the open sessions to the chains.
LEMMA SessionDrain ==
  ASSUME TypeOK, SessionInv, DrainOpenSessions
  PROVE  SessionInv'
<1>1. ~drained /\ drained'
  BY DEF DrainOpenSessions
<1>2. \A u \in Users : hidden'[u].impressions = 0
  BY DEF DrainOpenSessions, NoSession
<1>3. ASSUME NEW u \in Users
      PROVE  Chain(records'[u])
  <2>1. Chain(records[u]) /\ Remembered(u) /\ Opened(u)
    BY <1>1 DEF SessionInv, SessionsDisjoint
  <2>2. CASE u \notin OpenUsers
    BY <2>1, <2>2 DEF DrainOpenSessions
  <2>3. CASE u \in OpenUsers
    <3> DEFINE rec == MakeSessionRecord(hidden[u], sessionId[u], FALSE)
    <3>1. records'[u] = Append(records[u], rec)
      BY <2>3 DEF DrainOpenSessions
    <3>2. hidden[u] \in Impressions /\ sessionId[u] \in Nat /\ records[u] \in Seq(Records)
      BY DEF TypeOK
    <3>3. hidden[u].impressions > 0
      BY <2>3 DEF OpenUsers
    <3>4. /\ hidden[u].previousEnd <= hidden[u].start
          /\ hidden[u].start <= hidden[u].last
      BY <2>1, <3>3 DEF Opened
    <3>5. /\ rec \in Records /\ rec.session = sessionId[u]
          /\ rec.start = hidden[u].start /\ rec.end = hidden[u].last
      BY <3>2, RecordType DEF MakeSessionRecord
    <3>6. model = "dynamics"
      BY <2>1, <3>3 DEF Remembered
    <3>7. /\ Len(records[u]) = sessionId[u] /\ \A k \in DOMAIN records[u] : records[u][k].exit
      BY <2>1, <3>6 DEF Remembered
    <3>8. records[u] # <<>> => records[u][Len(records[u])].end <= rec.start
      BY <2>1, <3>4, <3>5 DEF Remembered, Last
    <3> HIDE DEF rec
    <3> QED
      BY <2>1, <3>1, <3>2, <3>4, <3>5, <3>7, <3>8, ChainAppend
  <2> QED
    BY <2>2, <2>3
<1>4. SessionsDisjoint'
  BY <1>3 DEF SessionsDisjoint, Chain
<1> QED
  BY <1>1, <1>2, <1>4 DEF SessionInv

\* Sessions stay chained and the open one begins after them.
LEMMA SessionInvariant == Spec => []SessionInv
<1>1. Init => SessionInv
  <2> SUFFICES ASSUME Init PROVE SessionInv
    OBVIOUS
  <2>1. ASSUME NEW u \in Users
        PROVE  /\ records[u] = <<>> /\ hidden[u] = NoSession /\ sessionId[u] = 0
               /\ ready[u] = 0 /\ now = 0 /\ ~drained
    BY <2>1 DEF Init
  <2>2. \A u \in Users : Remembered(u) /\ Opened(u) /\ Chain(records[u])
    BY <2>1 DEF Remembered, Opened, Floor, Chain, NoSession
  <2>3. ~drained
    BY DEF Init
  <2> QED
    BY <2>2, <2>3 DEF SessionInv, SessionsDisjoint
<1>2. TypeOK /\ SessionInv /\ [Next]_vars => SessionInv'
  <2> SUFFICES ASSUME TypeOK, SessionInv, [Next]_vars PROVE SessionInv'
    OBVIOUS
  <2>1. CASE Next
    BY <2>1, SessionStep, SessionDrain DEF Next
  <2>2. CASE UNCHANGED vars
    BY <2>2 DEF vars, config, timeVars, trendVars, SessionInv, SessionsDisjoint, Chain,
                Remembered, Opened, Floor, GapAfter, Last
  <2> QED
    BY <2>1, <2>2
<1> QED
  BY <1>1, <1>2, TypeCorrect, PTL DEF Spec

\* Sessions of a user never overlap and their records count them, whichever
\* runner keeps the clock and however users interleave (stepV2's lifecycle).
THEOREM SessionsDisjointCorrect == Spec => []SessionsDisjoint
<1>1. SessionInv => SessionsDisjoint
  BY DEF SessionInv
<1> QED
  BY <1>1, SessionInvariant, PTL

\* The decay a session starts with is over the time the user was away
\* (startSession).
THEOREM AwayGapExactCorrect == Spec => []AwayGapExact
<1>1. TypeOK /\ SessionInv => AwayGapExact
  <2> SUFFICES ASSUME TypeOK, SessionInv, NEW u \in Users, hidden[u].impressions > 0
               PROVE  hidden[u].gap =
                        IF records[u] = <<>> \/ Last(records[u]).end = 0 THEN 0
                        ELSE hidden[u].start - Last(records[u]).end
    BY DEF AwayGapExact
  <2>1. Remembered(u) /\ Opened(u)
    BY DEF SessionInv, TypeOK, Impressions
  <2> QED
    BY <2>1 DEF Remembered, Opened, GapAfter
<1> QED
  BY <1>1, TypeCorrect, SessionInvariant, PTL

\* Session times are a user's own: no session overlaps another and the away
\* gap is the true one (startSession, makeSessionRecord).
THEOREM SessionTimesExactCorrect == Spec => []SessionTimesExact
BY SessionsDisjointCorrect, AwayGapExactCorrect, PTL DEF SessionTimesExact

------------------------------------------------------------------------------
(* The simulator under the hooks *)

\* The hooks start where the simulator does.
LEMMA DynInitSimulates == DynInit => Init
BY DEF DynInit

\* A step with the hooks is a step of the simulator or leaves it alone.
LEMMA DynStepSimulates == [DynNext]_dynVars => [Next]_vars
<1> SUFFICES ASSUME [DynNext]_dynVars PROVE [Next]_vars
  OBVIOUS
<1>1. ASSUME NEW u \in Users, NEW r \in Reels, NEW start \in Starts \cup {now},
             NEW watch \in WatchTimes, Impression(u, r, start, watch)
      PROVE  Next
  BY <1>1 DEF Impression, Next
<1>2. ASSUME NEW u \in Users, NEW delay \in ReturnDelays, ExitApp(u, delay)
      PROVE  UNCHANGED vars
  BY <1>2 DEF ExitApp
<1>3. CASE DrainSessions
  BY <1>3 DEF DrainSessions, Next
<1>4. CASE UNCHANGED dynVars
  BY <1>4 DEF dynVars
<1> QED
  BY <1>1, <1>2, <1>3, <1>4 DEF DynNext

\* Every run with the hooks of evolution, retention, learning and tolerance is
\* a run of the simulator: what they write it never reads.
THEOREM ImplementsSimulator == DynSpec => Spec
BY DynInitSimulates, DynStepSimulates, PTL DEF DynSpec, Spec

\* Sessions follow each other in time and start with the fatigue of the one
\* before also when users leave, return late or churn.
THEOREM DynSessionTimes == DynSpec => []SessionTimesExact
BY ImplementsSimulator, SessionTimesExactCorrect, PTL

\* Trending accumulators decay once under the shared clock, with the hooks.
THEOREM DynTrending == DynSpec => []TrendingDecayedForward
BY ImplementsSimulator, TrendingDecayedForwardCorrect, PTL
------------------------------------------------------------------------------
(* Exposure decays by the user's own time *)

Exposures == [reel : Reels, at : Nat, age : Nat]
Watches == [reel : Reels, watch : WatchTimes, at : Nat]

ExposureType ==
  /\ watched \in [Users -> Seq(Watches)]
  /\ exposure \in [Users -> Seq(Exposures)]
  /\ touchedAt \in [Users -> Nat]

\* What is there has decayed to the last touch, the user's last impression.
Decayed(u) ==
  /\ Len(exposure[u]) = Len(watched[u])
  /\ \A i \in 1..Len(exposure[u]) :
       /\ exposure[u][i].reel = watched[u][i].reel
       /\ exposure[u][i].at = watched[u][i].at
       /\ exposure[u][i].at + exposure[u][i].age = touchedAt[u]
  /\ watched[u] # <<>> => touchedAt[u] = watched[u][Len(watched[u])].at
  /\ touchedAt[u] <= Floor(u)

ExposureInv == ExposureType /\ ("evolution" \in gates => \A u \in Users : Decayed(u))

\* What an addition leaves in a decayed quantity.
LEMMA AddedFacts ==
  ASSUME NEW list \in Seq(Exposures), NEW gap \in Nat, NEW entry \in Exposures
  PROVE  LET longer == Added(list, gap, entry) IN
         /\ longer \in Seq(Exposures) /\ Len(longer) = Len(list) + 1
         /\ longer[Len(list) + 1] = entry
         /\ \A i \in 1..Len(list) :
              /\ longer[i].reel = list[i].reel /\ longer[i].at = list[i].at
              /\ longer[i].age = list[i].age + gap
<1> DEFINE older == [i \in DOMAIN list |-> [list[i] EXCEPT !.age = @ + gap]]
<1>1. DOMAIN list = 1..Len(list) /\ Len(list) \in Nat
  OBVIOUS
<1>2. ASSUME NEW i \in 1..Len(list)
      PROVE  /\ older[i] \in Exposures
             /\ older[i].reel = list[i].reel /\ older[i].at = list[i].at
             /\ older[i].age = list[i].age + gap
  <2>1. list[i] \in Exposures
    BY <1>2, ElementOfSeq
  <2>2. list[i].age + gap \in Nat
    BY <2>1 DEF Exposures
  <2> QED
    BY <1>1, <2>1, <2>2 DEF Exposures
<1>3. older = [i \in 1..Len(list) |-> older[i]]
  BY <1>1
<1> HIDE DEF older
<1>4. older \in Seq(Exposures)
  BY <1>1, <1>2, <1>3, IsASeq
<1>5. Len(older) = Len(list)
  BY <1>1, <1>3, <1>4
<1>6. Added(list, gap, entry) = Append(older, entry)
  BY DEF Added, older
<1> QED
  BY <1>1, <1>2, <1>4, <1>5, <1>6

\* When an impression is evolved: after the user's floor, and no later than
\* what the step makes of it.
LEMMA EvolvedInTime ==
  ASSUME TypeOK, NEW u \in Users, NEW r \in Reels, NEW start \in Starts \cup {now},
         NEW watch \in WatchTimes, Step(u, r, start, watch)
  PROVE  /\ ImpressionTime(start, watch) \in Nat
         /\ Floor(u) \in Nat /\ Floor(u) <= ImpressionTime(start, watch)
         /\ Floor(u)' >= ImpressionTime(start, watch)
         /\ \A v \in Users : Floor(v) \in Nat /\ Floor(v)' \in Nat /\ Floor(v)' >= Floor(v)
<1>1. /\ start \in Nat /\ start + watch \in Nat
      /\ start + watch + BrowseOverhead \in Nat
      /\ start + watch + BrowseOverhead > start /\ start + watch >= start
  BY StepTimes
<1>2. /\ start >= Floor(u) /\ Floor(u)' >= start + watch
      /\ \A v \in Users : Floor(v)' >= Floor(v)
  BY FloorStep
<1>3. TypeOK'
  BY StepType
<1>4. \A v \in Users : Floor(v) \in Nat /\ Floor(v)' \in Nat
  BY <1>3 DEF Floor, TypeOK
<1>5. clock = "event" \/ (clock = "shared" /\ clock' = "shared")
  BY SimulatorAssumption DEF TypeOK, Step, config
<1>6. now' = start + watch + BrowseOverhead
  BY DEF Step, StepOpens, StepContinues, StepV2Stays, StepV2Exits, Advance
<1>7. CASE clock = "event"
  BY <1>1, <1>2, <1>4, <1>7 DEF ImpressionTime
<1>8. CASE clock = "shared" /\ clock' = "shared"
  BY <1>1, <1>2, <1>4, <1>6, <1>8 DEF ImpressionTime, Floor
<1> QED
  BY <1>5, <1>7, <1>8

\* An impression decays its user's exposure to now and adds itself.
LEMMA ImpressionExposure ==
  ASSUME TypeOK, ExposureInv, NEW u \in Users, NEW r \in Reels,
         NEW start \in Starts \cup {now}, NEW watch \in WatchTimes,
         Impression(u, r, start, watch)
  PROVE  ExposureInv'
<1> DEFINE t == ImpressionTime(start, watch)
           gap == IF exposure[u] = <<>> THEN 0 ELSE Elapsed(touchedAt[u], t)
           seen == [reel |-> r, watch |-> watch, at |-> t]
           entry == [reel |-> r, at |-> t, age |-> 0]
<1>1. /\ Step(u, r, start, watch)
      /\ watched' = [watched EXCEPT ![u] = Append(@, seen)]
      /\ ApplyImpression(u, r, t)
      /\ gates' = gates
  BY DEF Impression
<1>2. /\ t \in Nat /\ Floor(u) \in Nat /\ Floor(u) <= t /\ Floor(u)' >= t
      /\ \A v \in Users : Floor(v) \in Nat /\ Floor(v)' \in Nat /\ Floor(v)' >= Floor(v)
  BY <1>1, EvolvedInTime
<1> HIDE DEF t
<1>3. /\ watched[u] \in Seq(Watches) /\ exposure[u] \in Seq(Exposures)
      /\ touchedAt[u] \in Nat
  BY DEF ExposureInv, ExposureType
<1>4. /\ seen \in Watches /\ entry \in Exposures /\ gap \in Nat
  BY <1>2, <1>3 DEF Watches, Exposures, Elapsed
<1>5. watched' \in [Users -> Seq(Watches)]
  BY <1>1, <1>3, <1>4 DEF ExposureInv, ExposureType
<1> HIDE DEF gap, seen, entry
<1>6. CASE "evolution" \notin gates
  BY <1>1, <1>5, <1>6 DEF ApplyImpression, ExposureInv, ExposureType
<1>7. CASE "evolution" \in gates
  <2> DEFINE longer == Added(exposure[u], gap, entry)
  <2>1. /\ exposure' = [exposure EXCEPT ![u] = longer]
        /\ touchedAt' = [touchedAt EXCEPT ![u] = t]
    BY <1>1, <1>7 DEF ApplyImpression, Anchor, gap, entry
  <2>2. /\ longer \in Seq(Exposures) /\ Len(longer) = Len(exposure[u]) + 1
        /\ longer[Len(exposure[u]) + 1] = entry
        /\ \A i \in 1..Len(exposure[u]) :
             /\ longer[i].reel = exposure[u][i].reel /\ longer[i].at = exposure[u][i].at
             /\ longer[i].age = exposure[u][i].age + gap
    BY <1>3, <1>4, AddedFacts
  <2> HIDE DEF longer
  <2>3. ExposureType'
    BY <1>2, <1>5, <2>1, <2>2 DEF ExposureInv, ExposureType
  <2>4. Decayed(u)'
    <3>1. Decayed(u)
      BY <1>7 DEF ExposureInv
    <3>2. /\ exposure'[u] = longer /\ touchedAt'[u] = t
          /\ watched'[u] = Append(watched[u], seen)
      BY <1>1, <2>1 DEF ExposureInv, ExposureType
    <3>3. /\ Len(watched'[u]) = Len(watched[u]) + 1
          /\ Len(exposure'[u]) = Len(exposure[u]) + 1
          /\ watched'[u][Len(watched[u]) + 1] = seen
          /\ \A i \in 1..Len(watched[u]) : watched'[u][i] = watched[u][i]
      BY <1>3, <1>4, <2>2, <3>2
    <3>4. ASSUME NEW i \in 1..Len(exposure[u])
          PROVE  /\ longer[i].reel = watched'[u][i].reel
                 /\ longer[i].at = watched'[u][i].at
                 /\ longer[i].at + longer[i].age = t
      <4>1. exposure[u][i] \in Exposures /\ exposure[u] # <<>>
        BY <1>3, ElementOfSeq
      <4>2. gap = t - touchedAt[u]
        BY <1>2, <1>3, <3>1, <4>1 DEF gap, Elapsed, Decayed
      <4>3. exposure[u][i].at + exposure[u][i].age = touchedAt[u]
        BY <3>1 DEF Decayed
      <4>4. exposure[u][i].at \in Nat /\ exposure[u][i].age \in Nat
        BY <4>1 DEF Exposures
      <4>5. longer[i].at = exposure[u][i].at /\ longer[i].age = exposure[u][i].age + gap
        BY <2>2
      <4>6. longer[i].at + longer[i].age = t
        BY <1>2, <1>3, <4>2, <4>3, <4>4, <4>5, SMTT(30)
      <4> QED
        BY <2>2, <3>1, <3>3, <4>6 DEF Decayed
    <3>5. LET n == Len(exposure[u]) + 1 IN
          /\ longer[n].reel = watched'[u][n].reel
          /\ longer[n].at = watched'[u][n].at
          /\ longer[n].at + longer[n].age = t
      BY <1>2, <2>2, <3>1, <3>3 DEF Decayed, entry, seen
    <3>6. ASSUME NEW i \in 1..Len(exposure'[u])
          PROVE  i \in 1..Len(exposure[u]) \/ i = Len(exposure[u]) + 1
      BY <1>3, <3>3
    <3>7. touchedAt'[u] = watched'[u][Len(watched'[u])].at
      BY <3>2, <3>3 DEF seen
    <3> QED
      BY <1>2, <3>1, <3>2, <3>3, <3>4, <3>5, <3>6, <3>7 DEF Decayed
  <2>5. ASSUME NEW v \in Users, v # u
        PROVE  Decayed(v)'
    <3>1. Decayed(v) /\ touchedAt[v] \in Nat
      BY <1>7 DEF ExposureInv, ExposureType
    <3>2. /\ exposure'[v] = exposure[v] /\ touchedAt'[v] = touchedAt[v]
          /\ watched'[v] = watched[v]
      BY <1>1, <2>1, <2>5 DEF ExposureInv, ExposureType
    <3>3. touchedAt'[v] <= Floor(v)'
      BY <1>2, <3>1, <3>2 DEF Decayed
    <3> QED
      BY <3>1, <3>2, <3>3 DEF Decayed
  <2> QED
    BY <2>3, <2>4, <2>5 DEF ExposureInv
<1> QED
  BY <1>6, <1>7

\* Steps without an impression leave the exposure alone and the clocks too.
LEMMA KeptExposure ==
  ASSUME ExposureInv, UNCHANGED <<watched, exposure, touchedAt, gates, clock, now, ready>>
  PROVE  ExposureInv'
<1>1. \A u \in Users : Decayed(u) => Decayed(u)'
  BY DEF Decayed, Floor
<1> QED
  BY <1>1 DEF ExposureInv, ExposureType

\* No other step touches an exposure or a user's time.
LEMMA ExposureStep ==
  ASSUME TypeOK, ExposureInv, [DynNext]_dynVars
  PROVE  ExposureInv'
<1>1. ASSUME NEW u \in Users, NEW r \in Reels, NEW start \in Starts \cup {now},
             NEW watch \in WatchTimes, Impression(u, r, start, watch)
      PROVE  ExposureInv'
  BY <1>1, ImpressionExposure
<1>2. ASSUME NEW u \in Users, NEW delay \in ReturnDelays, ExitApp(u, delay)
      PROVE  ExposureInv'
  BY <1>2, KeptExposure DEF ExitApp, vars, config, timeVars, hiddenVars
<1>3. CASE DrainSessions
  BY <1>3, KeptExposure DEF DrainSessions, DrainOpenSessions, config, timeVars, hiddenVars
<1>4. CASE UNCHANGED dynVars
  BY <1>4, KeptExposure DEF dynVars, vars, config, timeVars, hiddenVars
<1> QED
  BY <1>1, <1>2, <1>3, <1>4 DEF DynNext

\* Exposure stays decayed to the user's last impression.
LEMMA ExposureInvariant == DynSpec => [](TypeOK /\ ExposureInv)
<1>1. DynInit => ExposureInv
  BY DEF DynInit, Init, ExposureInv, ExposureType, Decayed, Floor
<1>2. DynSpec => []TypeOK
  BY ImplementsSimulator, TypeCorrect, PTL
<1>3. TypeOK /\ ExposureInv /\ [DynNext]_dynVars => ExposureInv'
  BY ExposureStep
<1> QED
  BY <1>1, <1>2, <1>3, PTL DEF DynSpec

\* The exposure a user has accumulated decays by exactly the user's own time,
\* once per impression, though the event clock steps back between users and
\* the shared clock runs on with them.
THEOREM ExposureDecayedOnceCorrect == DynSpec => []ExposureDecayedOnce
<1>1. ExposureInv => ExposureDecayedOnce
  <2> SUFFICES ASSUME ExposureInv, "evolution" \in gates, NEW u \in Users,
                      NEW i \in DOMAIN exposure[u]
               PROVE  /\ Len(exposure[u]) = Len(watched[u])
                      /\ exposure[u][i].reel = watched[u][i].reel
                      /\ exposure[u][i].at = watched[u][i].at
                      /\ exposure[u][i].age = watched[u][Len(watched[u])].at - watched[u][i].at
    <3>1. \A u \in Users : "evolution" \in gates /\ ExposureInv
                             => Len(exposure[u]) = Len(watched[u])
      BY DEF ExposureInv, Decayed
    <3> QED
      BY <3>1 DEF ExposureDecayedOnce
  <2>1. Decayed(u) /\ exposure[u] \in Seq(Exposures) /\ watched[u] \in Seq(Watches)
    BY DEF ExposureInv, ExposureType
  <2>2. i \in 1..Len(exposure[u]) /\ exposure[u][i] \in Exposures
    BY <2>1, ElementOfSeq
  <2>3. watched[u] # <<>> /\ touchedAt[u] = watched[u][Len(watched[u])].at
    BY <2>1, <2>2 DEF Decayed
  <2>4. /\ exposure[u][i].at \in Nat /\ exposure[u][i].age \in Nat
        /\ exposure[u][i].at + exposure[u][i].age = touchedAt[u]
    BY <2>1, <2>2 DEF Decayed, Exposures
  <2>5. touchedAt[u] \in Nat
    BY DEF ExposureInv, ExposureType
  <2>6. exposure[u][i].age = touchedAt[u] - exposure[u][i].at
    BY <2>4, <2>5
  <2> QED
    BY <2>1, <2>2, <2>3, <2>6 DEF Decayed
<1> QED
  BY <1>1, ExposureInvariant, PTL
------------------------------------------------------------------------------
(* What a step adds to a user's history *)

Event == [session : Nat, exit : BOOLEAN]

\* Without session dynamics the open session is the last one drawn.
RotationIds == model = "rotation" =>
  \A u \in Users : sessionId[u] = IF targets[u] = <<>> THEN 0 ELSE Len(targets[u]) - 1

\* An event of the session the user is in, or of the one the step opens; an
\* exit comes with a record of the session it closes, and only an exit does.
Outcome(u, e) ==
  /\ events' = [events EXCEPT ![u] = Append(@, e)]
  /\ sessionId[u] <= e.session /\ e.session <= sessionId'[u]
  /\ \A v \in Users : v # u => sessionId'[v] = sessionId[v]
  /\ IF e.exit
     THEN \E rec \in Records : rec.exit /\ records' = [records EXCEPT ![u] = Append(@, rec)]
     ELSE records' = records

\* Every step adds one event to the history of its user.
LEMMA StepOutcome ==
  ASSUME TypeOK, RotationIds, NEW u \in Users, NEW r \in Reels,
         NEW start \in Starts \cup {now}, NEW watch \in WatchTimes, Step(u, r, start, watch)
  PROVE  RotationIds' /\ \E e \in Event : Outcome(u, e)
<1>1. /\ sessionId \in [Users -> Nat] /\ targets[u] \in Seq(SessionTargets)
      /\ targets \in [Users -> Seq(SessionTargets)]
      /\ start \in Nat /\ start + watch \in Nat
  BY StepTimes DEF TypeOK
<1>2. model' = model /\ model \in {"rotation", "dynamics"}
  BY SimulatorAssumption DEF Step, config, TypeOK
<1>3. CASE StepOpens(u, r, start, watch)
  <2> DEFINE n == Len(targets[u])
             e == [session |-> n, exit |-> FALSE]
  <2>1. n \in Nat /\ e \in Event /\ (targets[u] # <<>> => n > 0)
    BY <1>1 DEF Event
  <2>2. /\ model = "rotation" /\ records' = records
        /\ sessionId' = [sessionId EXCEPT ![u] = n]
        /\ events' = [events EXCEPT ![u] = Append(@, e)]
    BY <1>3 DEF StepOpens, Advance
  <2>3. PICK t \in SessionTargets : targets' = [targets EXCEPT ![u] = Append(@, t)]
    BY <1>3 DEF StepOpens
  <2>4. sessionId[u] <= n
    BY <1>1, <2>1, <2>2 DEF RotationIds
  <2>5. targets'[u] = Append(targets[u], t) /\ Len(Append(targets[u], t)) = n + 1 /\ Append(targets[u], t) # <<>>
    BY <1>1, <2>3
  <2>6. RotationIds'
    <3>1. ASSUME NEW v \in Users, v # u
          PROVE  targets'[v] = targets[v] /\ sessionId'[v] = sessionId[v]
      BY <1>1, <2>2, <2>3, <3>1
    <3>2. sessionId'[u] = n
      BY <1>1, <2>2
    <3> QED
      BY <1>2, <2>1, <2>2, <2>5, <3>1, <3>2 DEF RotationIds
  <2>7. Outcome(u, e)
    <3>1. sessionId'[u] = n /\ e.session = n /\ ~e.exit
      BY <1>1, <2>2
    <3>2. \A v \in Users : v # u => sessionId'[v] = sessionId[v]
      BY <1>1, <2>2
    <3> HIDE DEF e, n
    <3> QED
      BY <2>1, <2>2, <2>4, <3>1, <3>2 DEF Outcome
  <2> QED
    BY <2>1, <2>6, <2>7
<1>4. CASE StepContinues(u, r, start, watch) \/ StepV2Stays(u, r, start, watch)
  <2> DEFINE e == [session |-> sessionId[u], exit |-> FALSE]
  <2>1. e \in Event
    BY <1>1 DEF Event
  <2>2. /\ events' = [events EXCEPT ![u] = Append(@, e)]
        /\ UNCHANGED <<sessionId, targets, records>>
    BY <1>4 DEF StepContinues, StepV2Stays, Advance
  <2>3. Outcome(u, e)
    <3>1. e.session = sessionId[u] /\ ~e.exit
      OBVIOUS
    <3> HIDE DEF e
    <3> QED
      BY <1>1, <2>2, <3>1 DEF Outcome
  <2>4. RotationIds'
    BY <1>2, <2>2 DEF RotationIds
  <2> QED
    BY <2>1, <2>3, <2>4
<1>5. CASE StepV2Exits(u, r, start, watch)
  <2> DEFINE e == [session |-> sessionId[u], exit |-> TRUE]
             rec == MakeSessionRecord(Accumulated(u, start, start + watch), sessionId[u], TRUE)
  <2>1. e \in Event
    BY <1>1 DEF Event
  <2>2. /\ events' = [events EXCEPT ![u] = Append(@, e)]
        /\ sessionId' = [sessionId EXCEPT ![u] = @ + 1]
        /\ records' = [records EXCEPT ![u] = Append(@, rec)]
        /\ model = "dynamics"
    BY <1>5 DEF StepV2Exits, Advance
  <2>3. rec \in Records /\ rec.exit
    BY <1>1, AccumulatedType, RecordType DEF MakeSessionRecord
  <2>4. Outcome(u, e)
    <3>1. e.session = sessionId[u] /\ e.exit
      OBVIOUS
    <3>2. sessionId[u] <= sessionId'[u] /\ \A v \in Users : v # u => sessionId'[v] = sessionId[v]
      BY <1>1, <2>2
    <3>3. \E x \in Records : x.exit /\ records' = [records EXCEPT ![u] = Append(@, x)]
      BY <2>2, <2>3
    <3> HIDE DEF e, rec
    <3>4. sessionId[u] <= e.session /\ e.session <= sessionId'[u]
      BY <1>1, <3>1, <3>2
    <3>5. events' = [events EXCEPT ![u] = Append(@, e)]
      BY <2>2
    <3> QED
      BY <3>1, <3>2, <3>3, <3>4, <3>5, Zenon DEF Outcome
  <2>5. RotationIds'
    BY <1>2, <2>2 DEF RotationIds
  <2> QED
    BY <2>1, <2>4, <2>5
<1> QED
  BY <1>3, <1>4, <1>5 DEF Step

\* Moving one addition along with the decay of the rest.
LEMMA Shifted ==
  ASSUME NEW a \in Nat, NEW b \in Nat, NEW c \in Nat, NEW d \in Nat, a + b = c
  PROVE  a + (d - c) + b = d
OBVIOUS

\* An addition at the end of a user's history leaves the rest in place.
LEMMA Appended ==
  ASSUME NEW S, NEW h \in [Users -> Seq(S)], NEW u \in Users, NEW x \in S,
         NEW k, k = [h EXCEPT ![u] = Append(@, x)]
  PROVE  /\ k \in [Users -> Seq(S)]
         /\ Len(h[u]) \in Nat /\ Len(k[u]) = Len(h[u]) + 1
         /\ k[u][Len(h[u]) + 1] = x /\ k[u] # <<>>
         /\ DOMAIN k[u] = 1..Len(h[u]) + 1 /\ DOMAIN h[u] = 1..Len(h[u])
         /\ \A i \in 1..Len(h[u]) : k[u][i] = h[u][i]
         /\ \A v \in Users : v # u => k[v] = h[v]
<1>1. h[u] \in Seq(S) /\ k[u] = Append(h[u], x)
  OBVIOUS
<1>2. /\ Append(h[u], x) \in Seq(S) /\ Len(Append(h[u], x)) = Len(h[u]) + 1
      /\ Append(h[u], x)[Len(h[u]) + 1] = x
      /\ \A i \in 1..Len(h[u]) : Append(h[u], x)[i] = h[u][i]
      /\ Append(h[u], x) # <<>> /\ Len(h[u]) \in Nat
      /\ DOMAIN Append(h[u], x) = 1..Len(h[u]) + 1 /\ DOMAIN h[u] = 1..Len(h[u])
  BY <1>1
<1>4. k \in [Users -> Seq(S)] /\ \A v \in Users : v # u => k[v] = h[v]
  BY <1>2
<1> QED
  BY <1>1, <1>2, <1>4

------------------------------------------------------------------------------
(* Felt exposure *)

FeltInv == felt \in [Users -> SUBSET Nat] /\ FeltBefore

\* What dulls an impression is the exposure of its reel that was there before.
LEMMA FeltStep ==
  ASSUME TypeOK, ExposureInv, FeltInv, [DynNext]_dynVars
  PROVE  FeltInv'
<1>1. ASSUME NEW u \in Users, NEW r \in Reels, NEW start \in Starts \cup {now},
             NEW watch \in WatchTimes, Impression(u, r, start, watch)
      PROVE  FeltInv'
  <2> DEFINE t == ImpressionTime(start, watch)
             seen == [reel |-> r, watch |-> watch, at |-> t]
             n == Len(watched[u])
  <2>1. /\ Step(u, r, start, watch) /\ gates' = gates
        /\ watched' = [watched EXCEPT ![u] = Append(@, seen)]
        /\ ApplyImpression(u, r, t)
    BY <1>1 DEF Impression
  <2>2. t \in Nat
    BY <2>1, EvolvedInTime
  <2> HIDE DEF t
  <2>3. seen \in Watches /\ seen.reel = r
    BY <2>2 DEF Watches
  <2>4. /\ watched \in [Users -> Seq(Watches)] /\ exposure[u] \in Seq(Exposures)
    BY DEF ExposureInv, ExposureType
  <2> HIDE DEF seen
  <2>5. /\ n \in Nat /\ Len(watched'[u]) = n + 1 /\ watched'[u][n + 1].reel = r
        /\ \A i \in 1..n : watched'[u][i] = watched[u][i]
        /\ \A v \in Users : v # u => watched'[v] = watched[v]
    BY <2>1, <2>3, <2>4, Appended
  <2>6. CASE "evolution" \notin gates
    BY <2>1, <2>6 DEF FeltInv, FeltBefore, ApplyImpression
  <2>7. CASE "evolution" \in gates
    <3>1. felt' = [felt EXCEPT ![u] = {i \in DOMAIN exposure[u] : exposure[u][i].reel = r}]
      BY <2>1, <2>7 DEF ApplyImpression, ExposureFelt
    <3>2. /\ DOMAIN exposure[u] = 1..n
          /\ \A i \in 1..n : exposure[u][i].reel = watched[u][i].reel
      BY <2>4, <2>7 DEF ExposureInv, Decayed
    <3>3. felt'[u] = {i \in 1..n : watched'[u][i].reel = watched'[u][n + 1].reel}
      BY <2>5, <3>1, <3>2 DEF FeltInv
    <3>4. felt' \in [Users -> SUBSET Nat]
      BY <2>5, <3>1, <3>2 DEF FeltInv
    <3>5. \A v \in Users : v # u => felt'[v] = felt[v]
      BY <3>1 DEF FeltInv
    <3>6. FeltBefore'
      <4>1. ASSUME NEW v \in Users
            PROVE  felt'[v] = {i \in 1..(Len(watched'[v]) - 1) :
                                 watched'[v][i].reel = watched'[v][Len(watched'[v])].reel}
        <5>1. CASE v = u
          <6>1. n + 1 - 1 = n
            BY <2>5
          <6> QED
            BY <2>5, <3>3, <5>1, <6>1
        <5>2. CASE v # u
          BY <2>5, <2>7, <3>5, <5>2 DEF FeltInv, FeltBefore
        <5> QED
          BY <5>1, <5>2
      <4> QED
        BY <4>1 DEF FeltBefore
    <3> QED
      BY <3>4, <3>6 DEF FeltInv
  <2> QED
    BY <2>6, <2>7
<1>2. ASSUME UNCHANGED <<felt, watched, gates>>
      PROVE  FeltInv'
  BY <1>2 DEF FeltInv, FeltBefore
<1> QED
  BY <1>1, <1>2 DEF DynNext, ExitApp, DrainSessions, dynVars, hiddenVars

\* A reel dulls the impressions after it and not its own (simulate reads the
\* exposure before applyImpression adds to it).
THEOREM FeltBeforeCorrect == DynSpec => []FeltBefore
<1>1. DynInit => FeltInv
  <2> SUFFICES ASSUME DynInit PROVE FeltInv
    OBVIOUS
  <2>1. \A u \in Users : watched[u] = <<>> /\ felt[u] = {}
    BY DEF DynInit
  <2>2. \A u \in Users : Len(watched[u]) = 0
    BY <2>1
  <2>3. 1..(0 - 1) = {}
    OBVIOUS
  <2>4. FeltBefore
    BY <2>1, <2>2, <2>3 DEF FeltBefore
  <2> QED
    BY <2>4 DEF DynInit, FeltInv
<1>2. FeltInv => FeltBefore
  BY DEF FeltInv
<1> QED
  BY <1>1, <1>2, FeltStep, ExposureInvariant, PTL DEF DynSpec
------------------------------------------------------------------------------
(* Habit *)

Habits == [impressions : Nat, at : Nat, age : Nat]

HabitType == habit \in [Users -> Seq(Habits)] /\ lastExitAt \in [Users -> Nat]

\* The habit of u holds the sessions it ended, decayed to the last end; before
\* the drain that is every record.
Formed(u) ==
  /\ \A k \in 1..Len(records[u]) : records[u][k].exit <=> k <= Len(habit[u])
  /\ Len(habit[u]) <= Len(records[u])
  /\ \A k \in 1..Len(habit[u]) :
       /\ habit[u][k].impressions = records[u][k].impressions
       /\ habit[u][k].age + records[u][k].end = lastExitAt[u]
  /\ Len(habit[u]) > 0 => lastExitAt[u] = records[u][Len(habit[u])].end
  /\ ~drained => Len(habit[u]) = Len(records[u])

\* A user that is away for a while or for good left by an exit.
LeftByExit == \A u \in Users : u \in leaving \cup churned => Last(events[u]).exit

HabitInv ==
  /\ HabitType
  /\ "retention" \in gates => \A u \in Users : Formed(u)
  /\ LeftByExit

\* What a session's end leaves in the habit.
LEMMA HabitAdded ==
  ASSUME NEW list \in Seq(Habits), NEW gap \in Nat, NEW entry \in Habits
  PROVE  LET longer == Added(list, gap, entry) IN
         /\ longer \in Seq(Habits) /\ Len(longer) = Len(list) + 1
         /\ longer[Len(list) + 1] = entry
         /\ \A i \in 1..Len(list) :
              /\ longer[i].impressions = list[i].impressions
              /\ longer[i].age = list[i].age + gap
<1> DEFINE older == [i \in DOMAIN list |-> [list[i] EXCEPT !.age = @ + gap]]
<1>1. DOMAIN list = 1..Len(list) /\ Len(list) \in Nat
  OBVIOUS
<1>2. ASSUME NEW i \in 1..Len(list)
      PROVE  /\ older[i] \in Habits
             /\ older[i].impressions = list[i].impressions
             /\ older[i].age = list[i].age + gap
  <2>1. list[i] \in Habits
    BY <1>2, ElementOfSeq
  <2>2. list[i].age + gap \in Nat
    BY <2>1, SMTT(30) DEF Habits
  <2> QED
    BY <1>1, <2>1, <2>2 DEF Habits
<1>3. older = [i \in 1..Len(list) |-> older[i]]
  BY <1>1
<1> HIDE DEF older
<1>4. older \in Seq(Habits)
  BY <1>1, <1>2, <1>3, IsASeq
<1>5. Len(older) = Len(list)
  BY <1>1, <1>3, <1>4
<1>6. Added(list, gap, entry) = Append(older, entry)
  BY DEF Added, older
<1> QED
  BY <1>1, <1>2, <1>4, <1>5, <1>6

\* An exit moves the habit of its user by the session it closed.
LEMMA ExitForms ==
  ASSUME TypeOK, SessionInv, SessionInv', ~drained, ~drained', HabitType, "retention" \in gates,
         NEW u \in Users, Formed(u),
         NEW rec \in Records, rec.exit, records' = [records EXCEPT ![u] = Append(@, rec)],
         OnSessionEnd(u, Last(records'[u]))
  PROVE  HabitType' /\ Formed(u)' /\ \A v \in Users : v # u =>
           habit'[v] = habit[v] /\ lastExitAt'[v] = lastExitAt[v] /\ records'[v] = records[v]
<1> DEFINE n == Len(records[u])
           gap == IF habit[u] = <<>> THEN 0 ELSE Elapsed(lastExitAt[u], rec.end)
           entry == [impressions |-> rec.impressions, at |-> rec.end, age |-> 0]
           longer == Added(habit[u], gap, entry)
<1>1. /\ records \in [Users -> Seq(Records)] /\ habit[u] \in Seq(Habits)
      /\ habit \in [Users -> Seq(Habits)] /\ lastExitAt \in [Users -> Nat]
      /\ rec.end \in Nat /\ rec.impressions \in Nat
  BY DEF TypeOK, HabitType, Records
<1>2. /\ records' \in [Users -> Seq(Records)]
      /\ n \in Nat /\ Len(records'[u]) = n + 1 /\ records'[u][n + 1] = rec
      /\ DOMAIN records'[u] = 1..n + 1
      /\ \A i \in 1..n : records'[u][i] = records[u][i]
      /\ \A v \in Users : v # u => records'[v] = records[v]
  BY <1>1, Appended
<1>3. /\ habit' = [habit EXCEPT ![u] = longer]
      /\ lastExitAt' = [lastExitAt EXCEPT ![u] = rec.end]
  <2>1. Last(records'[u]) = rec
    BY <1>2 DEF Last
  <2> QED
    BY <2>1 DEF OnSessionEnd
<1>4. gap \in Nat /\ entry \in Habits
  BY <1>1 DEF Elapsed, Habits
<1> HIDE DEF gap
<1>5. /\ longer \in Seq(Habits) /\ Len(longer) = Len(habit[u]) + 1
      /\ longer[Len(habit[u]) + 1] = entry
      /\ \A i \in 1..Len(habit[u]) :
           /\ longer[i].impressions = habit[u][i].impressions
           /\ longer[i].age = habit[u][i].age + gap
  BY <1>1, <1>4, HabitAdded
<1> HIDE DEF longer
<1>6. HabitType' /\ \A v \in Users : v # u => habit'[v] = habit[v] /\ lastExitAt'[v] = lastExitAt[v]
  BY <1>1, <1>3, <1>5 DEF HabitType
<1>7. habit'[u] = longer /\ lastExitAt'[u] = rec.end /\ Len(habit[u]) = n
  BY <1>1, <1>3 DEF Formed
<1>8. n > 0 => gap = rec.end - lastExitAt[u]
  <2> SUFFICES ASSUME n > 0 PROVE gap = rec.end - lastExitAt[u]
    OBVIOUS
  <2>1. habit[u] # <<>> /\ lastExitAt[u] = records[u][n].end
    BY <1>7 DEF Formed
  <2>2. Chain(records'[u])
    BY DEF SessionInv, SessionsDisjoint
  <2>3. n \in 1..n /\ n + 1 \in DOMAIN records'[u] /\ n + 1 > 1 /\ n + 1 - 1 = n
    BY <1>2
  <2>4. records'[u][n].end <= rec.start /\ rec.start <= rec.end
    BY <1>2, <2>2, <2>3 DEF Chain
  <2>5. records[u][n].end \in Nat /\ rec.start \in Nat
    <3>1. records[u] \in Seq(Records) /\ n \in 1..Len(records[u])
      BY <1>1, <2>3
    <3>2. records[u][n] \in Records
      BY <3>1, ElementOfSeq
    <3> QED
      BY <3>2 DEF Records
  <2>6. lastExitAt[u] <= rec.end
    BY <1>1, <1>2, <2>1, <2>3, <2>4, <2>5
  <2> QED
    BY <1>1, <2>1, <2>6 DEF gap, Elapsed
<1>9. ASSUME NEW k \in 1..Len(records'[u])
      PROVE  /\ records'[u][k].exit <=> k <= Len(habit'[u])
             /\ habit'[u][k].impressions = records'[u][k].impressions
             /\ habit'[u][k].age + records'[u][k].end = lastExitAt'[u]
  <2>1. k \in 1..n \/ k = n + 1
    BY <1>2
  <2>2. CASE k \in 1..n
    <3>1. n > 0 /\ k <= n /\ records'[u][k] = records[u][k]
      BY <1>2, <2>2
    <3>2. /\ records[u][k].exit /\ habit[u][k].impressions = records[u][k].impressions
          /\ habit[u][k].age + records[u][k].end = lastExitAt[u]
      BY <1>7, <2>2, <3>1 DEF Formed
    <3>3. habit[u][k] \in Habits /\ records[u][k] \in Records
      BY <1>1, <1>7, <2>2, ElementOfSeq
    <3>4. longer[k].age + records[u][k].end = rec.end
      <4>1. longer[k].age = habit[u][k].age + gap
        BY <1>5, <1>7, <2>2
      <4>2. habit[u][k].age \in Nat /\ records[u][k].end \in Nat /\ lastExitAt[u] \in Nat
        BY <1>1, <3>3 DEF Habits, Records
      <4> DEFINE a == habit[u][k].age
                 b == records[u][k].end
                 c == lastExitAt[u]
                 d == rec.end
      <4>3. a \in Nat /\ b \in Nat /\ c \in Nat /\ d \in Nat /\ a + b = c
        BY <1>1, <3>2, <4>2
      <4>4. longer[k].age = a + (d - c)
        <5>1. gap = d - c
          BY <1>8, <3>1
        <5> QED
          BY <4>1, <5>1
      <4> HIDE DEF a, b, c, d, n
      <4>5. a + (d - c) + b = d
        BY <4>3, Shifted
      <4> QED
        BY <4>4, <4>5 DEF b, d
    <3>5. longer[k].impressions = habit[u][k].impressions
      BY <1>5, <1>7, <2>2
    <3>6. k <= Len(habit'[u])
      BY <1>2, <1>5, <1>7, <3>1
    <3> QED
      BY <1>7, <3>1, <3>2, <3>4, <3>5, <3>6
  <2>3. CASE k = n + 1
    <3>1. habit'[u][k] = entry /\ records'[u][k] = rec /\ k <= Len(habit'[u])
      BY <1>2, <1>5, <1>7, <2>3
    <3> QED
      BY <1>1, <1>7, <3>1
  <2> QED
    BY <2>1, <2>2, <2>3
<1>10. Len(habit'[u]) = Len(records'[u]) /\ lastExitAt'[u] = records'[u][Len(habit'[u])].end
  BY <1>2, <1>5, <1>7
<1> QED
  BY <1>2, <1>6, <1>9, <1>10 DEF Formed

\* A session the run ends is recorded and forms no habit.
LEMMA DrainForms ==
  ASSUME TypeOK, HabitType, DrainOpenSessions, UNCHANGED <<habit, lastExitAt>>,
         NEW u \in Users, Formed(u)
  PROVE  Formed(u)'
<1> DEFINE rec == MakeSessionRecord(hidden[u], sessionId[u], FALSE)
<1>1. ~drained /\ drained'
  BY DEF DrainOpenSessions
<1>2. CASE records'[u] = records[u]
  BY <1>1, <1>2 DEF Formed
<1>3. CASE records'[u] = Append(records[u], rec)
  <2>1. ~rec.exit
    BY DEF MakeSessionRecord
  <2>2. records[u] \in Seq(Records) /\ habit[u] \in Seq(Habits)
    BY DEF TypeOK, HabitType
  <2> HIDE DEF rec
  <2> DEFINE n == Len(records[u])
  <2>3. /\ n \in Nat /\ Len(records'[u]) = n + 1 /\ records'[u][n + 1] = rec
        /\ \A i \in 1..n : records'[u][i] = records[u][i]
    BY <1>3, <2>2
  <2>4. Len(habit[u]) = n /\ habit' = habit /\ lastExitAt' = lastExitAt
    BY <1>1 DEF Formed
  <2>5. ASSUME NEW k \in 1..n + 1
        PROVE  records'[u][k].exit <=> k <= n
    <3>1. CASE k \in 1..n
      BY <2>3, <2>4, <3>1 DEF Formed
    <3>2. CASE k = n + 1
      BY <2>1, <2>3, <3>2
    <3> QED
      BY <2>3, <3>1, <3>2
  <2>6. \A k \in 1..n : /\ habit[u][k].impressions = records'[u][k].impressions
                        /\ habit[u][k].age + records'[u][k].end = lastExitAt[u]
    BY <2>3, <2>4 DEF Formed
  <2>7. n > 0 => lastExitAt[u] = records'[u][n].end
    BY <2>3, <2>4 DEF Formed
  <2> HIDE DEF n
  <2> QED
    BY <1>1, <2>3, <2>4, <2>5, <2>6, <2>7 DEF Formed
<1> QED
  BY <1>2, <1>3 DEF DrainOpenSessions

\* Exits form habits and nothing else does; users away left by an exit.
LEMMA HabitStep ==
  ASSUME TypeOK, SessionInv, RotationIds, HabitInv, [DynNext]_dynVars
  PROVE  HabitInv'
<1>1. ASSUME NEW u \in Users, NEW r \in Reels, NEW start \in Starts \cup {now},
             NEW watch \in WatchTimes, Impression(u, r, start, watch)
      PROVE  HabitInv'
  <2>1. /\ Step(u, r, start, watch) /\ u \notin leaving \cup churned
        /\ gates' = gates /\ churned' = churned
        /\ IF Last(events'[u]).exit
           THEN /\ OnSessionEnd(u, Last(records'[u]))
                /\ leaving' \subseteq leaving \cup {u}
           ELSE UNCHANGED <<habit, lastExitAt, leaving>>
    BY <1>1 DEF Impression
  <2>2. PICK e \in Event : Outcome(u, e)
    BY <2>1, StepOutcome
  <2>3. SessionInv' /\ ~drained /\ drained' = drained
    BY <2>1, SessionStep DEF Step
  <2>4. /\ Last(events'[u]) = e
        /\ \A v \in Users : v # u => events'[v] = events[v]
    <3>1. events \in [Users -> Seq(Event)] /\ events' = [events EXCEPT ![u] = Append(@, e)]
      BY <2>2 DEF TypeOK, Event, Outcome
    <3> QED
      <4>1. Len(events[u]) \in Nat /\ Len(events'[u]) = Len(events[u]) + 1
            /\ events'[u][Len(events[u]) + 1] = e /\ \A v \in Users : v # u => events'[v] = events[v]
        BY <3>1, Appended
      <4> QED
        BY <4>1 DEF Last
  <2>5. LeftByExit'
    BY <2>1, <2>4 DEF HabitInv, LeftByExit
  <2>6. CASE "retention" \notin gates
    BY <2>1, <2>5, <2>6 DEF OnSessionEnd, HabitInv, HabitType
  <2>7. CASE "retention" \in gates /\ e.exit
    <3>1. PICK rec \in Records : rec.exit /\ records' = [records EXCEPT ![u] = Append(@, rec)]
      BY <2>2, <2>7 DEF Outcome
    <3>2. OnSessionEnd(u, Last(records'[u]))
      BY <2>1, <2>4, <2>7
    <3>3. /\ HabitType' /\ Formed(u)'
          /\ \A v \in Users : v # u =>
               habit'[v] = habit[v] /\ lastExitAt'[v] = lastExitAt[v] /\ records'[v] = records[v]
      BY <2>3, <2>7, <3>1, <3>2, ExitForms DEF HabitInv
    <3>4. \A v \in Users : v # u => Formed(v)'
      BY <2>3, <2>7, <3>3 DEF HabitInv, Formed
    <3> QED
      BY <2>5, <3>3, <3>4 DEF HabitInv
  <2>8. CASE "retention" \in gates /\ ~e.exit
    <3>1. UNCHANGED <<habit, lastExitAt, records, drained>>
      BY <2>1, <2>2, <2>3, <2>4, <2>8 DEF Outcome
    <3> QED
      BY <2>1, <2>5, <3>1 DEF HabitInv, HabitType, Formed
  <2> QED
    BY <2>6, <2>7, <2>8
<1>2. ASSUME NEW u \in Users, NEW delay \in ReturnDelays, ExitApp(u, delay)
      PROVE  HabitInv'
  <2>1. /\ leaving' \cup churned' \subseteq leaving \cup churned \/ u \in leaving
        /\ leaving' \subseteq leaving /\ churned' \subseteq churned \cup {u} /\ u \in leaving
    BY <1>2 DEF ExitApp
  <2>2. UNCHANGED <<habit, lastExitAt, records, drained, events, gates>>
    BY <1>2 DEF ExitApp, vars, hiddenVars
  <2> QED
    BY <2>1, <2>2 DEF HabitInv, HabitType, Formed, LeftByExit
<1>3. CASE DrainSessions
  <2>1. /\ DrainOpenSessions /\ UNCHANGED <<habit, lastExitAt, gates, leaving, churned, events>>
    BY <1>3 DEF DrainSessions, DrainOpenSessions, hiddenVars, awayVars
  <2>2. "retention" \in gates => \A u \in Users : Formed(u)'
    BY <2>1, DrainForms DEF HabitInv
  <2> QED
    BY <2>1, <2>2 DEF HabitInv, HabitType, LeftByExit
<1>4. CASE UNCHANGED dynVars
  BY <1>4 DEF dynVars, vars, hiddenVars, awayVars, HabitInv, HabitType, Formed, LeftByExit
<1> QED
  BY <1>1, <1>2, <1>3, <1>4 DEF DynNext

\* Session ids count the targets drawn, under the hooks too.
LEMMA RotationStep ==
  ASSUME TypeOK, RotationIds, [DynNext]_dynVars
  PROVE  RotationIds'
<1>1. ASSUME NEW u \in Users, NEW r \in Reels, NEW start \in Starts \cup {now},
             NEW watch \in WatchTimes, Impression(u, r, start, watch)
      PROVE  RotationIds'
  BY <1>1, StepOutcome DEF Impression
<1>2. ASSUME UNCHANGED <<model, sessionId, targets>>
      PROVE  RotationIds'
  BY <1>2 DEF RotationIds
<1> QED
  BY <1>1, <1>2 DEF DynNext, ExitApp, DrainSessions, DrainOpenSessions, dynVars, vars, config

\* Session ids and the invariants of the simulator under the hooks.
LEMMA DynSessions == DynSpec => [](TypeOK /\ SessionInv /\ RotationIds)
<1>1. DynSpec => []TypeOK
  BY ImplementsSimulator, TypeCorrect, PTL
<1>2. DynSpec => []SessionInv
  BY ImplementsSimulator, SessionInvariant, PTL
<1>3. DynInit => RotationIds
  BY DEF DynInit, Init, RotationIds
<1> QED
  BY <1>1, <1>2, <1>3, RotationStep, PTL DEF DynSpec

\* Habit holds what the user's own exits put there, each decayed by the time
\* since, and a user that churned left by an exit (onSessionEnd).
THEOREM HabitExactCorrect == DynSpec => []HabitExact
<1>1. DynInit => HabitInv
  BY DEF DynInit, Init, HabitInv, HabitType, Formed, LeftByExit
<1>2. ASSUME TypeOK, HabitInv PROVE HabitExact
  <2> SUFFICES ASSUME "retention" \in gates, NEW u \in Users
               PROVE  /\ DOMAIN habit[u] = {k \in DOMAIN records[u] : records[u][k].exit}
                      /\ \A k \in DOMAIN habit[u] :
                           /\ habit[u][k].impressions = records[u][k].impressions
                           /\ habit[u][k].age = records[u][Len(habit[u])].end - records[u][k].end
                      /\ u \in churned => Last(events[u]).exit
    BY DEF HabitExact
  <2>1. /\ Formed(u) /\ habit[u] \in Seq(Habits) /\ records[u] \in Seq(Records)
        /\ lastExitAt[u] \in Nat
    BY <1>2 DEF HabitInv, HabitType, TypeOK
  <2>2. DOMAIN habit[u] = 1..Len(habit[u]) /\ DOMAIN records[u] = 1..Len(records[u])
        /\ Len(habit[u]) \in Nat /\ Len(records[u]) \in Nat
    BY <2>1
  <2>3. DOMAIN habit[u] = {k \in DOMAIN records[u] : records[u][k].exit}
    BY <2>1, <2>2 DEF Formed
  <2>4. ASSUME NEW k \in DOMAIN habit[u]
        PROVE  /\ habit[u][k].impressions = records[u][k].impressions
               /\ habit[u][k].age = records[u][Len(habit[u])].end - records[u][k].end
    <3>1. habit[u][k] \in Habits /\ records[u][k] \in Records
      BY <2>1, <2>2, <2>3, ElementOfSeq
    <3>2. habit[u][k].age \in Nat /\ records[u][k].end \in Nat
      BY <3>1 DEF Habits, Records
    <3>3. /\ habit[u][k].impressions = records[u][k].impressions
          /\ habit[u][k].age + records[u][k].end = lastExitAt[u]
          /\ lastExitAt[u] = records[u][Len(habit[u])].end
      BY <2>1, <2>2 DEF Formed
    <3>4. habit[u][k].age = lastExitAt[u] - records[u][k].end
      BY <2>1, <3>2, <3>3
    <3> QED
      BY <3>3, <3>4
  <2> QED
    BY <1>2, <2>3, <2>4 DEF HabitInv, LeftByExit
<1> QED
  BY <1>1, <1>2, HabitStep, DynSessions, PTL DEF DynSpec

\* What a user carries hidden from one impression to the next is a function of
\* its own past, whatever the other users do to the clock.
THEOREM HiddenStateExactCorrect == DynSpec => []HiddenStateExact
BY ExposureDecayedOnceCorrect, FeltBeforeCorrect, HabitExactCorrect, PTL DEF HiddenStateExact
------------------------------------------------------------------------------
(* Estimates *)

Interactions == [reel : Reels, session : Nat]
Tired == [reel : Reels, age : Nat, relaxed : Nat]

\* How many of n interactions the window holds.
Kept(n) == IF n > RecentWindow THEN RecentWindow ELSE n

\* The window is the last interactions of u, in order.
WindowOf(seen, past, window, n) ==
  /\ Len(past) = n /\ Len(seen) = n
  /\ Len(window) = Kept(n)
  /\ \A i \in 1..Kept(n) :
       /\ window[i].reel = seen[n - Kept(n) + i].reel
       /\ window[i].session = past[n - Kept(n) + i].session

Windowed(u) == WindowOf(watched[u], events[u], recent[u], Len(events[u]))

\* Sessions follow each other in the history of u, up to the one it is in.
Ordered(u) ==
  /\ \A i, j \in 1..Len(events[u]) : i <= j => events[u][i].session <= events[u][j].session
  /\ \A i \in 1..Len(events[u]) : events[u][i].session <= sessionId[u]

HistoryInv ==
  /\ watched \in [Users -> Seq(Watches)] /\ recent \in [Users -> Seq(Interactions)]
  /\ \A u \in Users : Windowed(u) /\ Ordered(u)

\* One more interaction moves the window by one.
LEMMA WindowStep ==
  ASSUME TypeOK, TypeOK', HistoryInv, NEW u \in Users, NEW seen \in Watches, NEW e \in Event,
         watched' = [watched EXCEPT ![u] = Append(@, seen)],
         Outcome(u, e), Remember(u, seen.reel, e.session)
  PROVE  HistoryInv'
<1> DEFINE n == Len(events[u])
           x == [reel |-> seen.reel, session |-> e.session]
           longer == Append(recent[u], x)
<1>1. /\ events \in [Users -> Seq(Event)] /\ watched \in [Users -> Seq(Watches)]
      /\ recent \in [Users -> Seq(Interactions)] /\ sessionId \in [Users -> Nat]
      /\ RecentWindow \in Nat \ {0} /\ x \in Interactions
  BY DynamicsAssumption DEF TypeOK, HistoryInv, Event, Interactions, Watches
<1>2. /\ n \in Nat /\ Len(events'[u]) = n + 1 /\ events'[u][n + 1] = e
      /\ \A i \in 1..n : events'[u][i] = events[u][i]
      /\ \A v \in Users : v # u => events'[v] = events[v]
  BY <1>1, Appended DEF Outcome
<1>3. Windowed(u) /\ Ordered(u)
  BY DEF HistoryInv
<1>4. /\ watched' \in [Users -> Seq(Watches)]
      /\ Len(watched'[u]) = n + 1 /\ watched'[u][n + 1] = seen
      /\ \A i \in 1..n : watched'[u][i] = watched[u][i]
      /\ \A v \in Users : v # u => watched'[v] = watched[v]
  <2>1. Len(watched[u]) = n
    BY <1>3 DEF Windowed, WindowOf
  <2>2. /\ watched' \in [Users -> Seq(Watches)]
        /\ Len(watched'[u]) = Len(watched[u]) + 1 /\ watched'[u][Len(watched[u]) + 1] = seen
        /\ \A i \in 1..Len(watched[u]) : watched'[u][i] = watched[u][i]
        /\ \A v \in Users : v # u => watched'[v] = watched[v]
    BY <1>1, Appended
  <2> QED
    BY <2>1, <2>2
<1>5. recent' = [recent EXCEPT ![u] = IF Len(longer) > RecentWindow THEN Tail(longer) ELSE longer]
  BY DEF Remember
<1>6. /\ Len(recent[u]) = Kept(n) /\ Kept(n) \in Nat /\ Kept(n) <= n
      /\ longer \in Seq(Interactions) /\ Len(longer) = Kept(n) + 1 /\ longer # <<>>
      /\ longer[Kept(n) + 1] = x
      /\ \A i \in 1..Kept(n) : longer[i] = recent[u][i]
  <2>1. Len(recent[u]) = Kept(n) /\ recent[u] \in Seq(Interactions)
    BY <1>1, <1>3 DEF Windowed, WindowOf
  <2>2. Kept(n) \in Nat /\ Kept(n) <= n
    BY <1>1, <1>2 DEF Kept
  <2> HIDE DEF x, n
  <2> QED
    BY <1>1, <2>1, <2>2
<1> HIDE DEF x
\* Position i of longer is interaction n - Kept(n) + i of the longer history.
<1>7. ASSUME NEW i \in 1..Kept(n) + 1
      PROVE  /\ longer[i].reel = watched'[u][n - Kept(n) + i].reel
             /\ longer[i].session = events'[u][n - Kept(n) + i].session
  <2>1. CASE i \in 1..Kept(n)
    <3>1. n - Kept(n) + i \in 1..n
      BY <1>2, <1>6, <2>1
    <3>2. /\ recent[u][i].reel = watched[u][n - Kept(n) + i].reel
          /\ recent[u][i].session = events[u][n - Kept(n) + i].session
      BY <1>3, <2>1 DEF Windowed, WindowOf
    <3> QED
      BY <1>2, <1>4, <1>6, <2>1, <3>1, <3>2
  <2>2. CASE i = Kept(n) + 1
    <3>1. n - Kept(n) + i = n + 1
      BY <1>2, <1>6, <2>2
    <3> QED
      BY <1>2, <1>4, <1>6, <2>2, <3>1 DEF x
  <2>3. i \in 1..Kept(n) \/ i = Kept(n) + 1
    <3> DEFINE k == Kept(n)
    <3>1. k \in Nat /\ i \in 1..k + 1
      BY <1>6
    <3> HIDE DEF k
    <3>2. i \in 1..k \/ i = k + 1
      BY <3>1
    <3> QED
      BY <3>2 DEF k
  <2> QED
    BY <2>1, <2>2, <2>3
<1>8. recent' \in [Users -> Seq(Interactions)] /\ \A v \in Users : v # u => recent'[v] = recent[v]
  <2>1. Tail(longer) \in Seq(Interactions)
    BY <1>6
  <2> HIDE DEF longer
  <2> QED
    BY <1>1, <1>5, <1>6, <2>1
<1>9. Windowed(u)'
  <2> HIDE DEF longer
  <2>1. CASE Kept(n) + 1 > RecentWindow
    <3>1. Kept(n) = RecentWindow /\ Kept(n + 1) = RecentWindow /\ n >= RecentWindow
      BY <1>1, <1>2, <2>1 DEF Kept
    <3>2. recent'[u] = Tail(longer)
      BY <1>1, <1>5, <1>6, <2>1
    <3>3. /\ Len(Tail(longer)) = RecentWindow
          /\ \A i \in 1..RecentWindow : Tail(longer)[i] = longer[i + 1]
      BY <1>1, <1>6, <3>1
    <3>4. WindowOf(watched'[u], events'[u], recent'[u], n + 1)
      <4> DEFINE m == n + 1
                 w == watched'[u]
                 p == events'[u]
                 q == recent'[u]
      <4>1. /\ Len(w) = m /\ Len(p) = m /\ Len(q) = RecentWindow /\ Kept(m) = RecentWindow
            /\ \A i \in 1..RecentWindow : q[i].reel = w[m - RecentWindow + i].reel
                                          /\ q[i].session = p[m - RecentWindow + i].session
        <5>1. Len(w) = m /\ Len(p) = m /\ Len(q) = RecentWindow /\ Kept(m) = RecentWindow
          BY <1>2, <1>4, <3>1, <3>2, <3>3
        <5>2. ASSUME NEW i \in 1..RecentWindow
              PROVE  q[i].reel = w[m - RecentWindow + i].reel
                     /\ q[i].session = p[m - RecentWindow + i].session
          <6>1. i + 1 \in 1..Kept(n) + 1 /\ n - Kept(n) + (i + 1) = m - RecentWindow + i
            BY <1>1, <1>2, <3>1
          <6>2. q[i] = longer[i + 1]
            BY <3>2, <3>3
          <6> HIDE DEF m
          <6> QED
            BY <1>7, <6>1, <6>2
        <5> QED
          BY <5>1, <5>2
      <4> HIDE DEF m, w, p, q
      <4>2. WindowOf(w, p, q, m)
        BY <4>1 DEF WindowOf
      <4> QED
        BY <4>2 DEF m, w, p, q
    <3> QED
      BY <1>2, <3>4 DEF Windowed
  <2>2. CASE Kept(n) + 1 <= RecentWindow
    <3>1. Kept(n) = n /\ Kept(n + 1) = n + 1
      BY <1>1, <1>2, <2>2 DEF Kept
    <3>2. recent'[u] = longer
      BY <1>1, <1>5, <1>6, <2>2
    <3>3. ASSUME NEW i \in 1..n + 1
          PROVE  /\ recent'[u][i].reel = watched'[u][n + 1 - (n + 1) + i].reel
                 /\ recent'[u][i].session = events'[u][n + 1 - (n + 1) + i].session
      <4>1. n - n + i = n + 1 - (n + 1) + i
        BY <1>2
      <4> QED
        BY <1>7, <3>1, <3>2, <4>1
    <3>4. WindowOf(watched'[u], events'[u], recent'[u], n + 1)
      <4> DEFINE m == n + 1
                 w == watched'[u]
                 p == events'[u]
                 q == recent'[u]
      <4>1. /\ Len(w) = m /\ Len(p) = m /\ Len(q) = m /\ Kept(m) = m
            /\ \A i \in 1..m : q[i].reel = w[m - m + i].reel
                              /\ q[i].session = p[m - m + i].session
        BY <1>2, <1>4, <1>6, <3>1, <3>2, <3>3
      <4> HIDE DEF m, w, p, q
      <4>2. WindowOf(w, p, q, m)
        BY <4>1 DEF WindowOf
      <4> QED
        BY <4>2 DEF m, w, p, q
    <3> QED
      BY <1>2, <3>4 DEF Windowed
  <2> QED
    BY <1>1, <1>6, <2>1, <2>2
<1>10. Ordered(u)'
  <2>1. sessionId[u] <= e.session /\ e.session <= sessionId'[u] /\ sessionId[u] \in Nat
    BY <1>1 DEF Outcome
  <2>2. e.session \in Nat /\ (\A i \in 1..n : events[u][i].session \in Nat)
    <3>1. events[u] \in Seq(Event)
      BY <1>1
    <3>2. ASSUME NEW i \in 1..n PROVE events[u][i] \in Event
      BY <3>1, ElementOfSeq
    <3> QED
      BY <3>2 DEF Event
  <2>6. sessionId'[u] \in Int
    BY DEF TypeOK
  <2>3. ASSUME NEW i \in 1..n + 1
        PROVE  /\ events'[u][i].session <= e.session
               /\ events'[u][i].session <= sessionId'[u]
    <3>1. CASE i = n + 1
      <4>1. events'[u][i].session = e.session
        BY <1>2, <3>1
      <4> QED
        BY <2>1, <2>2, <4>1
    <3>2. CASE i \in 1..n
      <4>1. events'[u][i].session = events[u][i].session /\ events[u][i].session <= sessionId[u]
        BY <1>2, <1>3, <3>2 DEF Ordered
      <4>2. events[u][i].session \in Nat
        BY <2>2, <3>2
      <4> QED
        BY <2>1, <2>2, <2>6, <4>1, <4>2
    <3> QED
      BY <1>2, <2>3, <3>1, <3>2
  <2>4. ASSUME NEW i \in 1..n + 1, NEW j \in 1..n + 1, i <= j
        PROVE  events'[u][i].session <= events'[u][j].session
    <3>1. CASE j = n + 1
      BY <1>2, <2>3, <3>1
    <3>2. CASE j # n + 1
      <4>1. j \in 1..n /\ i \in 1..n
        BY <1>2, <2>4, <3>2
      <4> QED
        BY <1>2, <1>3, <2>4, <4>1 DEF Ordered
    <3> QED
      BY <3>1, <3>2
  <2> QED
    BY <1>2, <2>3, <2>4 DEF Ordered
<1>11. ASSUME NEW v \in Users, v # u
       PROVE  Windowed(v)' /\ Ordered(v)'
  <2>1. sessionId'[v] = sessionId[v] /\ Windowed(v) /\ Ordered(v)
    BY <1>11 DEF Outcome, HistoryInv
  <2> QED
    BY <1>2, <1>4, <1>8, <1>11, <2>1 DEF Windowed, Ordered
<1> QED
  BY <1>4, <1>8, <1>9, <1>10, <1>11 DEF HistoryInv

\* The events of a session in a window, each with the number of newer ones.
Discounted(window, session) ==
  LET own == {i \in DOMAIN window : window[i].session = session}
  IN {[reel |-> window[i].reel, newer |-> Cardinality({j \in own : j > i})] : i \in own}

\* The last n's session in a history of n, as far back as the window goes.
Recalled(seen, past, n) ==
  {[reel |-> seen[k].reel, newer |-> n - k] :
     k \in {k \in 1..n : k > n - RecentWindow /\ past[k].session = past[n].session}}

\* In a history whose sessions follow each other, the window's events of the
\* last session are its newest, so that an event is discounted once for every
\* later interaction of the user.
LEMMA SessionSuffix ==
  ASSUME NEW past \in Seq(Event), NEW seen \in Seq(Watches), NEW window \in Seq(Interactions),
         NEW n \in Nat \ {0}, WindowOf(seen, past, window, n),
         \A i, j \in 1..n : i <= j => past[i].session <= past[j].session
  PROVE  Discounted(window, past[n].session) = Recalled(seen, past, n)
<1> DEFINE own == {i \in DOMAIN window : window[i].session = past[n].session}
           fresh == {k \in 1..n : k > n - RecentWindow /\ past[k].session = past[n].session}
           K == Kept(n)
           item(i) == [reel |-> window[i].reel, newer |-> Cardinality({j \in own : j > i})]
           term(k) == [reel |-> seen[k].reel, newer |-> n - k]
<1>1. RecentWindow \in Nat \ {0} /\ K \in Nat /\ K <= n /\ K <= RecentWindow
      /\ (K = n \/ K = RecentWindow)
  BY DynamicsAssumption DEF Kept
<1>2. DOMAIN window = 1..K
  BY DEF WindowOf
<1>3. \A k \in 1..n : past[k].session \in Nat
  <2>1. ASSUME NEW k \in 1..n PROVE past[k] \in Event
    BY ElementOfSeq DEF WindowOf
  <2> QED
    BY <2>1 DEF Event
<1>4. ASSUME NEW i \in 1..K
      PROVE  /\ n - K + i \in 1..n /\ n - K + i > n - RecentWindow
             /\ window[i].reel = seen[n - K + i].reel
             /\ window[i].session = past[n - K + i].session
  <2>1. n - K + i \in 1..n /\ n - K + i > n - RecentWindow
    <3> HIDE DEF K
    <3> QED
      BY <1>1
  <2> QED
    BY <2>1 DEF WindowOf
<1>5. ASSUME NEW i \in own
      PROVE  /\ i \in 1..K /\ n - K + i \in fresh
             /\ item(i) = term(n - K + i)
  <2>1. i \in 1..K /\ window[i].session = past[n].session
    BY <1>2
  <2>2. n - K + i \in fresh
    BY <1>4, <2>1
  <2>3. {j \in own : j > i} = (i + 1)..K
    <3>1. ASSUME NEW j \in (i + 1)..K PROVE j \in own /\ j > i
      <4>1. j \in 1..K /\ j > i /\ n - K + i <= n - K + j /\ n - K + j <= n /\ n \in 1..n
        <5> HIDE DEF K
        <5> QED
          BY <1>1, <2>1
      <4>2. /\ past[n - K + i].session <= past[n - K + j].session
            /\ past[n - K + j].session <= past[n].session
        BY <1>4, <2>1, <4>1
      <4>3. window[j].session = past[n].session
        <5>1. /\ past[n - K + i].session = past[n].session
              /\ past[n - K + i].session \in Nat /\ past[n - K + j].session \in Nat
              /\ past[n].session \in Nat
          BY <1>3, <1>4, <2>1, <4>1
        <5>2. past[n - K + j].session = past[n].session
          BY <4>2, <5>1
        <5> QED
          BY <1>4, <4>1, <5>2
      <4> QED
        BY <1>2, <4>1, <4>3
    <3>2. ASSUME NEW j \in own, j > i PROVE j \in (i + 1)..K
      <4>1. j \in 1..K
        BY <1>2
      <4> HIDE DEF K, own
      <4> QED
        BY <1>1, <2>1, <3>2, <4>1
    <3> QED
      BY <3>1, <3>2
  <2>4. Cardinality((i + 1)..K) = K - i /\ n - (n - K + i) = K - i
    <3> HIDE DEF K
    <3>1. Cardinality((i + 1)..K) = IF i + 1 > K THEN 0 ELSE K - (i + 1) + 1
      BY <1>1, <2>1, FS_Interval
    <3> QED
      BY <1>1, <2>1, <3>1
  <2>5. item(i).newer = n - (n - K + i)
    BY <2>3, <2>4
  <2>6. window[i].reel = seen[n - K + i].reel
    BY <1>4, <2>1
  <2> QED
    BY <2>1, <2>2, <2>5, <2>6
<1>6. ASSUME NEW k \in fresh
      PROVE  k - (n - K) \in own /\ n - K + (k - (n - K)) = k
  <2>1. k \in 1..n /\ k > n - RecentWindow /\ past[k].session = past[n].session
    OBVIOUS
  <2>2. k - (n - K) \in 1..K /\ n - K + (k - (n - K)) = k
    <3> HIDE DEF K, fresh
    <3> QED
      BY <1>1, <2>1
  <2> QED
    BY <1>2, <1>4, <2>1, <2>2
<1>7. \A k \in fresh : \E i \in own : item(i) = term(k)
  <2> SUFFICES ASSUME NEW k \in fresh PROVE \E i \in own : item(i) = term(k)
    OBVIOUS
  <2> DEFINE i == k - (n - K)
  <2>1. i \in own /\ n - K + i = k
    BY <1>6
  <2> HIDE DEF i, K
  <2>2. item(i) = term(n - K + i)
    BY <1>5, <2>1
  <2> HIDE DEF item, term, own
  <2> QED
    BY <2>1, <2>2
<1>8. \A i \in own : \E k \in fresh : item(i) = term(k)
  <2> HIDE DEF item, term, own, fresh
  <2> QED
    BY <1>5
<1> HIDE DEF item, term, own, fresh
<1>9. {item(i) : i \in own} = {term(k) : k \in fresh}
  BY <1>7, <1>8
<1> QED
  BY <1>9 DEF item, term, own, fresh, Discounted, Recalled

EstimateInv == DOMAIN estimate = Users /\ SessionVectorFresh

\* The session vector is recomputed from the window at each interaction.
LEMMA EstimateStep ==
  ASSUME TypeOK, TypeOK', HistoryInv', EstimateInv, gates' = gates, NEW u \in Users, NEW e \in Event,
         Outcome(u, e), UpdateEstimates(u, e.session),
         \A v \in Users : v # u => watched'[v] = watched[v]
  PROVE  EstimateInv'
<1>1. CASE "learning" \notin gates
  BY <1>1 DEF UpdateEstimates, EstimateInv, SessionVectorFresh
<1>2. CASE "learning" \in gates
  <2> DEFINE n == Len(events[u])
  <2>1. /\ n \in Nat /\ Len(events'[u]) = n + 1 /\ events'[u][n + 1] = e
        /\ \A v \in Users : v # u => events'[v] = events[v]
    <3>1. events \in [Users -> Seq(Event)] /\ events' = [events EXCEPT ![u] = Append(@, e)]
      BY DEF TypeOK, Event, Outcome
    <3> QED
      BY <3>1, Appended
  <2>2. estimate' = [estimate EXCEPT ![u] = SessionEvents(u, e.session)]
    BY <1>2 DEF UpdateEstimates
  <2> DEFINE past == events'[u]
             seen == watched'[u]
             window == recent'[u]
             m == n + 1
  <2>3. /\ past \in Seq(Event) /\ seen \in Seq(Watches) /\ window \in Seq(Interactions)
        /\ m \in Nat \ {0} /\ WindowOf(seen, past, window, m)
        /\ \A i, j \in 1..m : i <= j => past[i].session <= past[j].session
        /\ past[m].session = e.session /\ Len(past) = m
    <3>1. events' \in [Users -> Seq(Event)] /\ watched' \in [Users -> Seq(Watches)]
          /\ recent' \in [Users -> Seq(Interactions)]
      BY DEF TypeOK, Event, HistoryInv
    <3>2. m \in Nat \ {0} /\ Len(past) = m /\ past[m].session = e.session
      BY <2>1
    <3>3. Windowed(u)' /\ Ordered(u)'
      BY DEF HistoryInv
    <3>4. WindowOf(seen, past, window, m)
      BY <3>2, <3>3 DEF Windowed
    <3>5. \A i, j \in 1..m : i <= j => past[i].session <= past[j].session
      BY <3>2, <3>3 DEF Ordered
    <3> QED
      BY <3>1, <3>2, <3>4, <3>5
  <2>4. SessionEvents(u, e.session) = Discounted(window, e.session)
    BY DEF SessionEvents, Discounted
  <2>5. estimate'[u] = SessionEvents(u, e.session)
    BY <2>2 DEF EstimateInv
  <2> HIDE DEF past, seen, window, m
  <2>6. SessionEvents(u, e.session) = Recalled(seen, past, m)
    BY <2>3, <2>4, SessionSuffix
  <2>7. ASSUME NEW v \in Users, Len(events'[v]) > 0
        PROVE  estimate'[v] = Recalled(watched'[v], events'[v], Len(events'[v]))
    <3>1. CASE v = u
      <4>1. Len(events'[u]) = m
        BY <2>3 DEF past
      <4> QED
        BY <2>5, <2>6, <3>1, <4>1 DEF past, seen
    <3>2. CASE v # u
      <4>1. estimate'[v] = estimate[v] /\ events'[v] = events[v] /\ watched'[v] = watched[v]
        BY <2>1, <2>2, <3>2
      <4> QED
        BY <1>2, <2>7, <4>1 DEF EstimateInv, SessionVectorFresh, Recalled
    <3> QED
      BY <3>1, <3>2
  <2>8. DOMAIN estimate' = Users
    BY <2>2 DEF EstimateInv
  <2> QED
    BY <2>7, <2>8 DEF EstimateInv, SessionVectorFresh, Recalled
<1> QED
  BY <1>1, <1>2
------------------------------------------------------------------------------
(* Fatigue *)

\* Every entry is about a reel of the history that came back within the window,
\* and has relaxed as often as it came back since.
Repeated(list, seen) ==
  \A i \in 1..Len(list) :
    LET met == Len(seen) - list[i].age IN
    /\ met > 1 /\ seen[met].reel = list[i].reel
    /\ \E j \in (met - RecentWindow + 1)..(met - 1) : j > 0 /\ seen[j].reel = list[i].reel
    /\ list[i].relaxed = Recurrences(seen, met, list[i].reel)

\* One more interaction is a recurrence of its own reel alone.
LEMMA RecurrencesGrow ==
  ASSUME NEW seen \in Seq(Watches), NEW longer \in Seq(Watches), Len(longer) = Len(seen) + 1,
         \A k \in 1..Len(seen) : longer[k] = seen[k],
         NEW met \in 1..Len(seen), NEW r, NEW more \in {0, 1},
         more = 1 <=> longer[Len(longer)].reel = r
  PROVE  Recurrences(longer, met, r) = Recurrences(seen, met, r) + more
<1> DEFINE n == Len(seen)
           A == {j \in (met + 1)..n : seen[j].reel = r}
           B == {j \in (met + 1)..(n + 1) : longer[j].reel = r}
<1>1. n \in Nat /\ met \in Int /\ met + 1 \in Int /\ met >= 1 /\ met <= n
  OBVIOUS
<1>2. IsFiniteSet((met + 1)..n) /\ A \in SUBSET ((met + 1)..n)
  BY <1>1, FS_Interval
<1>3. IsFiniteSet(A) /\ Cardinality(A) \in Nat
  BY <1>2, FS_Subset, FS_CardinalityType
<1>4. \A j \in (met + 1)..n : longer[j] = seen[j]
  BY <1>1
<1>5. (met + 1)..(n + 1) = ((met + 1)..n) \cup {n + 1} /\ n + 1 \notin (met + 1)..n
  BY <1>1
<1>8. Recurrences(longer, met, r) = Cardinality(B) /\ Recurrences(seen, met, r) = Cardinality(A)
  BY DEF Recurrences
<1>6. CASE more = 1
  <2>1. B = A \cup {n + 1} /\ n + 1 \notin A
    BY <1>4, <1>5, <1>6
  <2>2. Cardinality(B) = Cardinality(A) + 1
    BY <2>1, <1>3, FS_AddElement
  <2> QED
    BY <2>2, <1>6, <1>8
<1>7. CASE more = 0
  <2>1. B = A
    BY <1>4, <1>5, <1>7
  <2> HIDE DEF A, B
  <2> QED
    BY <2>1, <1>3, <1>7, <1>8
<1> QED
  BY <1>6, <1>7

\* Entries weather with every interaction and stay about the same ones.
LEMMA OlderRepeated ==
  ASSUME NEW list \in Seq(Tired), NEW seen \in Seq(Watches), NEW longer \in Seq(Watches),
         Repeated(list, seen), Len(longer) = Len(seen) + 1,
         \A k \in 1..Len(seen) : longer[k] = seen[k],
         NEW r, longer[Len(longer)].reel = r
  PROVE  Weathered(list, r) \in Seq(Tired) /\ Repeated(Weathered(list, r), longer)
<1> DEFINE older == Weathered(list, r)
           again(i) == IF list[i].reel = r THEN 1 ELSE 0
<1>1. DOMAIN list = 1..Len(list) /\ Len(list) \in Nat /\ RecentWindow \in Nat \ {0} /\ Len(seen) \in Nat
  BY DynamicsAssumption
<1>2. ASSUME NEW i \in 1..Len(list)
      PROVE  /\ list[i].age \in Nat /\ older[i] \in Tired
             /\ older[i].reel = list[i].reel /\ older[i].age = list[i].age + 1
             /\ older[i].relaxed = list[i].relaxed + again(i)
  <2>1. list[i] \in Tired
    BY <1>2, ElementOfSeq
  <2>2. /\ list[i].reel \in Reels /\ list[i].age \in Nat /\ list[i].age + 1 \in Nat
        /\ list[i].relaxed \in Nat /\ again(i) \in Nat
    BY <2>1 DEF Tired
  <2>3. older[i] = [reel |-> list[i].reel, age |-> list[i].age + 1,
                    relaxed |-> list[i].relaxed + again(i)]
    BY <1>1 DEF Weathered
  <2> HIDE DEF again, older
  <2>4. list[i].relaxed + again(i) \in Nat
    BY <2>2
  <2> QED
    BY <2>2, <2>3, <2>4 DEF Tired
<1>3. older = [i \in 1..Len(list) |-> older[i]]
  BY <1>1 DEF Weathered
<1> HIDE DEF older
<1>4. older \in Seq(Tired)
  BY <1>1, <1>2, <1>3, IsASeq
<1>5. Len(older) = Len(list)
  BY <1>1, <1>3, <1>4
<1>6. ASSUME NEW i \in 1..Len(older)
      PROVE  LET met == Len(longer) - older[i].age IN
             /\ met > 1 /\ longer[met].reel = older[i].reel
             /\ \E j \in (met - RecentWindow + 1)..(met - 1) : j > 0 /\ longer[j].reel = older[i].reel
             /\ older[i].relaxed = Recurrences(longer, met, older[i].reel)
  <2> DEFINE met == Len(seen) - list[i].age
  <2>1. i \in 1..Len(list)
    BY <1>5
  <2>2. /\ met > 1 /\ seen[met].reel = list[i].reel
        /\ \E j \in (met - RecentWindow + 1)..(met - 1) : j > 0 /\ seen[j].reel = list[i].reel
        /\ list[i].relaxed = Recurrences(seen, met, list[i].reel)
    BY <2>1 DEF Repeated
  <2>3. Len(longer) - older[i].age = met /\ met \in 1..Len(seen)
    <3> DEFINE a == list[i].age
               n == Len(seen)
    <3>1. a \in Nat /\ older[i].age = a + 1 /\ n \in Nat /\ Len(longer) = n + 1 /\ met = n - a /\ met > 1
      BY <1>1, <1>2, <2>1, <2>2
    <3> HIDE DEF a, n, met
    <3>2. n + 1 - (a + 1) = met /\ met \in 1..n
      BY <3>1
    <3> QED
      BY <3>1, <3>2 DEF n
  <2> HIDE DEF met
  <2>4. longer[met] = seen[met] /\ older[i].reel = list[i].reel
    BY <1>2, <2>1, <2>3
  <2>5. PICK j \in (met - RecentWindow + 1)..(met - 1) : j > 0 /\ seen[j].reel = list[i].reel
    BY <2>2
  <2>6. j \in 1..Len(seen)
    BY <1>1, <2>3, <2>5
  <2>7. again(i) \in {0, 1} /\ (again(i) = 1 <=> longer[Len(longer)].reel = list[i].reel)
    OBVIOUS
  <2> HIDE DEF again
  <2>8. Recurrences(longer, met, list[i].reel) = Recurrences(seen, met, list[i].reel) + again(i)
    BY <2>3, <2>7, RecurrencesGrow
  <2>9. older[i].relaxed = Recurrences(longer, met, older[i].reel)
    BY <1>2, <2>1, <2>2, <2>4, <2>8
  <2> QED
    BY <2>2, <2>3, <2>4, <2>5, <2>6, <2>9
<1> QED
  BY <1>4, <1>6 DEF Repeated, older

\* A new entry is about the last interaction, whose reel the window had.
LEMMA MoreRepeated ==
  ASSUME NEW list \in Seq(Tired), NEW seen \in Seq(Watches), NEW r \in Reels,
         Repeated(list, seen), Len(seen) > 1, seen[Len(seen)].reel = r,
         NEW j \in (Len(seen) - RecentWindow + 1)..(Len(seen) - 1), j > 0, seen[j].reel = r
  PROVE  LET more == Append(list, [reel |-> r, age |-> 0, relaxed |-> 0]) IN
         more \in Seq(Tired) /\ Repeated(more, seen)
<1> DEFINE entry == [reel |-> r, age |-> 0, relaxed |-> 0]
           more == Append(list, entry)
           n == Len(seen)
<1>1. entry \in Tired
  BY DEF Tired
<1> HIDE DEF entry
<1>2. /\ more \in Seq(Tired) /\ Len(more) = Len(list) + 1 /\ more[Len(list) + 1] = entry
      /\ \A i \in 1..Len(list) : more[i] = list[i]
  BY <1>1
<1> HIDE DEF more
<1>3. /\ n \in Nat /\ n - 0 = n /\ entry.age = 0 /\ entry.reel = r /\ entry.relaxed = 0
      /\ Recurrences(seen, n, r) = 0
  <2>1. n \in Nat /\ n - 0 = n
    OBVIOUS
  <2>2. {k \in (n + 1)..n : seen[k].reel = r} = {}
    BY <2>1
  <2>3. Recurrences(seen, n, r) = 0
    BY <2>2, FS_EmptySet DEF Recurrences
  <2> QED
    BY <2>1, <2>3 DEF entry
<1>4. ASSUME NEW i \in 1..Len(more)
      PROVE  LET met == n - more[i].age IN
             /\ met > 1 /\ seen[met].reel = more[i].reel
             /\ \E k \in (met - RecentWindow + 1)..(met - 1) : k > 0 /\ seen[k].reel = more[i].reel
             /\ more[i].relaxed = Recurrences(seen, met, more[i].reel)
  <2>1. CASE i \in 1..Len(list)
    BY <1>2, <2>1 DEF Repeated
  <2>2. CASE i = Len(list) + 1
    <3>1. more[i].reel = r /\ n - more[i].age = n /\ more[i].relaxed = Recurrences(seen, n, r)
      BY <1>2, <1>3, <2>2
    <3> QED
      BY <3>1
  <2> QED
    BY <1>2, <2>1, <2>2
<1> QED
  BY <1>2, <1>4 DEF Repeated, more, entry

FatigueInv ==
  /\ fatigue \in [Users -> Seq(Tired)]
  /\ "personalized" \notin gates => \A u \in Users : fatigue[u] = <<>>
  /\ \A u \in Users : Repeated(fatigue[u], watched[u])

\* Tiredness is added only about a reel that the window before had.
LEMMA FatigueStep ==
  ASSUME HistoryInv, HistoryInv', FatigueInv, gates' = gates, NEW u \in Users, NEW seen \in Watches,
         NEW watch, NEW exit, watched' = [watched EXCEPT ![u] = Append(@, seen)],
         Len(events'[u]) = Len(watched[u]) + 1,
         UpdateFatigue(u, seen.reel, watch, exit)
  PROVE  FatigueInv'
<1> DEFINE n == Len(watched[u])
           m == n + 1
           past == watched[u]
           new == watched'[u]
           window == recent'[u]
           prior == PriorWindow(u)
           r == seen.reel
<1>1. /\ RecentWindow \in Nat \ {0}
      /\ past \in Seq(Watches) /\ watched \in [Users -> Seq(Watches)] /\ new \in Seq(Watches)
      /\ window \in Seq(Interactions) /\ fatigue[u] \in Seq(Tired)
      /\ n \in Nat /\ m \in Nat \ {0} /\ r \in Reels
  <2>1. /\ RecentWindow \in Nat \ {0} /\ watched \in [Users -> Seq(Watches)]
        /\ watched' \in [Users -> Seq(Watches)] /\ recent' \in [Users -> Seq(Interactions)]
        /\ fatigue \in [Users -> Seq(Tired)]
    BY DynamicsAssumption DEF HistoryInv, FatigueInv
  <2>2. past \in Seq(Watches) /\ new \in Seq(Watches) /\ window \in Seq(Interactions)
        /\ fatigue[u] \in Seq(Tired) /\ r \in Reels
    BY <2>1 DEF Watches
  <2>3. n \in Nat /\ m \in Nat \ {0}
    BY <2>2
  <2> HIDE DEF past, new, window, n, m, r
  <2> QED
    BY <2>1, <2>2, <2>3
<1>2. /\ Len(new) = m /\ new[m] = seen
      /\ \A k \in 1..n : new[k] = past[k]
      /\ \A v \in Users : v # u => watched'[v] = watched[v]
  BY <1>1, Appended
<1>3. Len(window) = Kept(m) /\ \A i \in 1..Kept(m) : window[i].reel = new[m - Kept(m) + i].reel
  <2>1. WindowOf(new, events'[u], window, Len(events'[u]))
    BY DEF HistoryInv, Windowed
  <2>2. Len(events'[u]) = m
    OBVIOUS
  <2> HIDE DEF m, new, window
  <2> QED
    BY <2>1, <2>2 DEF WindowOf
<1>4. Kept(m) \in Nat \ {0} /\ Kept(m) <= m /\ Kept(m) <= RecentWindow /\ (Kept(m) = m \/ Kept(m) = RecentWindow)
  <2> HIDE DEF m
  <2> QED
    BY <1>1 DEF Kept
<1>5. /\ prior = SubSeq(window, 1, Kept(m) - 1)
      /\ Len(prior) = Kept(m) - 1 /\ DOMAIN prior = 1..Kept(m) - 1
      /\ \A i \in 1..Kept(m) - 1 : prior[i] = window[i]
  <2>1. prior = SubSeq(window, 1, Len(window) - 1)
    BY DEF PriorWindow, Front
  <2> HIDE DEF window, prior, m
  <2> DEFINE K == Kept(m)
  <2>2. K \in Nat \ {0} /\ Len(window) = K /\ prior = SubSeq(window, 1, K - 1)
    BY <1>3, <1>4, <2>1
  <2> HIDE DEF K
  <2>3. Len(prior) = K - 1 /\ DOMAIN prior = 1..K - 1 /\ \A i \in 1..K - 1 : prior[i] = window[i]
    BY <1>1, <2>2
  <2> QED
    BY <2>2, <2>3 DEF K
<1>6. Repeated(fatigue[u], past)
  BY DEF FatigueInv
<1>7. CASE "personalized" \notin gates
  <2>1. fatigue' = fatigue /\ \A v \in Users : fatigue[v] = <<>>
    BY <1>7 DEF UpdateFatigue, FatigueInv
  <2>2. Len(<<>>) = 0
    OBVIOUS
  <2> QED
    BY <1>7, <2>1, <2>2 DEF FatigueInv, Repeated
<1>8. CASE "personalized" \in gates /\ prior = <<>>
  <2>1. fatigue' = fatigue
    BY <1>8 DEF UpdateFatigue
  <2>2. Kept(m) = 1
    BY <1>4, <1>5, <1>8
  <2>3. Len(fatigue[u]) = 0
    <3> SUFFICES ASSUME Len(fatigue[u]) # 0 PROVE FALSE
      OBVIOUS
    <3> DEFINE met == n - fatigue[u][1].age
    <3>1. 1 \in 1..Len(fatigue[u])
      BY <1>1
    <3>2. met > 1 /\ \E j \in (met - RecentWindow + 1)..(met - 1) : j > 0
      BY <1>6, <3>1 DEF Repeated
    <3>3. fatigue[u][1].age \in Nat
      <4>1. fatigue[u][1] \in Tired
        BY <1>1, <3>1, ElementOfSeq
      <4> QED
        BY <4>1 DEF Tired
    <3>4. met \in Int /\ met <= n
      BY <1>1, <3>3
    <3> HIDE DEF met
    <3>5. m = 1 \/ RecentWindow = 1
      BY <1>4, <2>2
    <3> QED
      BY <1>1, <3>2, <3>4, <3>5
  <2>4. Repeated(fatigue[u], new)
    BY <2>3 DEF Repeated
  <2> QED
    BY <1>2, <1>8, <2>1, <2>4 DEF FatigueInv
<1>9. CASE "personalized" \in gates /\ prior # <<>>
  <2> DEFINE aged == Weathered(fatigue[u], r)
             sat == ComputeSat(watch, exit, (100 * Cardinality({i \in DOMAIN prior : prior[i].reel = r}))
                                              \div Max({1, Len(prior)}))
             tired == Cardinality({i \in DOMAIN prior : prior[i].reel = r}) > 0 /\ sat < 100
             list == IF tired THEN Append(aged, [reel |-> r, age |-> 0, relaxed |-> 0]) ELSE aged
  <2>1. fatigue' = [fatigue EXCEPT ![u] = list]
    BY <1>9 DEF UpdateFatigue
  <2>2. aged \in Seq(Tired) /\ Repeated(aged, new)
    <3>1. /\ Len(new) = Len(past) + 1 /\ \A k \in 1..Len(past) : new[k] = past[k]
          /\ new[Len(new)].reel = r
      BY <1>2
    <3> HIDE DEF past, new
    <3> QED
      BY <1>1, <1>6, <3>1, OlderRepeated
  <2> HIDE DEF aged, sat
  <2>3. list \in Seq(Tired) /\ Repeated(list, new)
    <3>1. CASE ~tired
      BY <2>2, <3>1
    <3>2. CASE tired
      <4>1. \E i \in DOMAIN prior : prior[i].reel = r
        <5> SUFFICES ASSUME {i \in DOMAIN prior : prior[i].reel = r} = {} PROVE FALSE
          OBVIOUS
        <5>1. Cardinality({}) > 0
          BY <3>2
        <5> QED
          BY <5>1, FS_EmptySet
      <4>2. PICK i \in 1..Kept(m) - 1 : prior[i].reel = r
        BY <1>5, <4>1
      <4> DEFINE j == m - Kept(m) + i
                 K == Kept(m)
      <4>3. new[j].reel = r
        <5>1. i \in 1..K
          <6>1. K \in Nat /\ i \in 1..K - 1
            BY <1>4
          <6> HIDE DEF K
          <6> QED
            BY <6>1
        <5> QED
          BY <1>3, <1>5, <4>2, <5>1
      <4>4. m > 1 /\ j \in (m - RecentWindow + 1)..(m - 1) /\ j > 0
        <5>1. K \in Nat /\ K <= m /\ K <= RecentWindow /\ i \in 1..K - 1 /\ j = m - K + i /\ m \in Nat
          BY <1>1, <1>4
        <5> HIDE DEF K, m, j
        <5> QED
          BY <1>1, <5>1
      <4>5. new[m].reel = r /\ Len(new) = m
        BY <1>2
      <4> HIDE DEF j, m, new, r
      <4>6. Append(aged, [reel |-> r, age |-> 0, relaxed |-> 0]) \in Seq(Tired)
            /\ Repeated(Append(aged, [reel |-> r, age |-> 0, relaxed |-> 0]), new)
        BY <1>1, <2>2, <4>3, <4>4, <4>5, MoreRepeated
      <4> QED
        BY <3>2, <4>6
    <3> QED
      BY <3>1, <3>2
  <2> HIDE DEF list
  <2> QED
    BY <1>2, <1>9, <2>1, <2>3 DEF FatigueInv
<1> QED
  BY <1>7, <1>8, <1>9

LearnedInv == HistoryInv /\ EstimateInv /\ FatigueInv

\* Window, session vector and tiredness follow the history together.
LEMMA LearnedStep ==
  ASSUME TypeOK, TypeOK', RotationIds, LearnedInv, [DynNext]_dynVars
  PROVE  LearnedInv'
<1>1. ASSUME NEW u \in Users, NEW r \in Reels, NEW start \in Starts \cup {now},
             NEW watch \in WatchTimes, Impression(u, r, start, watch)
      PROVE  LearnedInv'
  <2> DEFINE t == ImpressionTime(start, watch)
             seen == [reel |-> r, watch |-> watch, at |-> t]
             event == Last(events'[u])
  <2>1. /\ Step(u, r, start, watch) /\ gates' = gates
        /\ watched' = [watched EXCEPT ![u] = Append(@, seen)]
        /\ Remember(u, r, event.session) /\ UpdateEstimates(u, event.session)
        /\ UpdateFatigue(u, r, watch, event.exit)
    BY <1>1 DEF Impression
  <2>2. t \in Nat
    BY <2>1, EvolvedInTime
  <2> HIDE DEF t
  <2>3. seen \in Watches /\ seen.reel = r
    BY <2>2 DEF Watches
  <2> HIDE DEF seen
  <2>4. PICK e \in Event : Outcome(u, e)
    BY <2>1, StepOutcome
  <2>5. Len(events[u]) \in Nat /\ Len(events'[u]) = Len(events[u]) + 1 /\ event = e
    <3>1. events \in [Users -> Seq(Event)] /\ events' = [events EXCEPT ![u] = Append(@, e)]
      BY <2>4 DEF TypeOK, Event, Outcome
    <3>2. Len(events[u]) \in Nat /\ Len(events'[u]) = Len(events[u]) + 1
          /\ events'[u][Len(events[u]) + 1] = e
      BY <3>1, Appended
    <3> QED
      BY <3>2 DEF Last
  <2> HIDE DEF event
  <2>6. HistoryInv'
    BY <2>1, <2>3, <2>4, <2>5, WindowStep DEF LearnedInv
  <2>7. \A v \in Users : v # u => watched'[v] = watched[v]
    BY <2>1 DEF LearnedInv, HistoryInv
  <2>8. EstimateInv'
    BY <2>1, <2>4, <2>5, <2>6, <2>7, EstimateStep DEF LearnedInv
  <2>9. Len(watched[u]) = Len(events[u])
    BY DEF LearnedInv, HistoryInv, Windowed, WindowOf
  <2>10. FatigueInv'
    BY <2>1, <2>3, <2>5, <2>6, <2>9, FatigueStep DEF LearnedInv
  <2> QED
    BY <2>6, <2>8, <2>10 DEF LearnedInv
<1>2. ASSUME UNCHANGED <<gates, watched, events, sessionId, recent, estimate, fatigue>>
      PROVE  LearnedInv'
  BY <1>2 DEF LearnedInv, HistoryInv, Windowed, Ordered, EstimateInv, SessionVectorFresh, FatigueInv
<1>3. ASSUME NEW u \in Users, NEW delay \in ReturnDelays, ExitApp(u, delay)
      PROVE  LearnedInv'
  BY <1>2, <1>3 DEF ExitApp, vars, learnedVars
<1>4. CASE DrainSessions
  BY <1>2, <1>4 DEF DrainSessions, DrainOpenSessions, learnedVars
<1>5. CASE UNCHANGED dynVars
  BY <1>2, <1>5 DEF dynVars, vars, learnedVars
<1> QED
  BY <1>1, <1>3, <1>4, <1>5 DEF DynNext

\* What the recommender learns of a user is of the session of its last
\* interaction and of its window: no other session reaches the session vector,
\* and tiredness is of a topic that came back (OnlineUserStateUpdater::apply,
\* ToleranceEstimator::apply).
THEOREM LearnedStateExactCorrect == DynSpec => []LearnedStateExact
<1>1. DynInit => LearnedInv
  <2> SUFFICES ASSUME DynInit PROVE LearnedInv
    OBVIOUS
  <2>1. /\ \A u \in Users : watched[u] = <<>> /\ events[u] = <<>> /\ recent[u] = <<>> /\ fatigue[u] = <<>>
        /\ watched = [u \in Users |-> <<>>] /\ recent = [u \in Users |-> <<>>]
        /\ fatigue = [u \in Users |-> <<>>] /\ estimate = [u \in Users |-> {}]
    BY DEF DynInit, Init
  <2>2. Len(<<>>) = 0 /\ Kept(0) = 0
    BY DynamicsAssumption DEF Kept
  <2>3. \A u \in Users : Windowed(u) /\ Ordered(u)
    BY <2>1, <2>2 DEF Windowed, WindowOf, Ordered
  <2>4. EstimateInv
    BY <2>1, <2>2 DEF EstimateInv, SessionVectorFresh
  <2>5. FatigueInv
    BY <2>1, <2>2 DEF FatigueInv, Repeated
  <2> QED
    BY <2>1, <2>3, <2>4, <2>5 DEF LearnedInv, HistoryInv
<1>2. ASSUME LearnedInv PROVE LearnedStateExact
  <2>1. SessionVectorFresh
    BY <1>2 DEF LearnedInv, EstimateInv
  <2>2. FatigueNeedsRepetition
    <3> SUFFICES ASSUME NEW u \in Users, NEW i \in DOMAIN fatigue[u]
                 PROVE  LET met == Len(watched[u]) - fatigue[u][i].age
                            Same(j) == watched[u][j].reel = fatigue[u][i].reel
                        IN /\ met > 1 /\ Same(met)
                           /\ \E j \in (met - RecentWindow + 1)..(met - 1) : j > 0 /\ Same(j)
                           /\ fatigue[u][i].relaxed = Recurrences(watched[u], met, fatigue[u][i].reel)
      BY DEF FatigueNeedsRepetition
    <3>1. fatigue[u] \in Seq(Tired) /\ Repeated(fatigue[u], watched[u])
      BY <1>2 DEF LearnedInv, FatigueInv
    <3>2. i \in 1..Len(fatigue[u])
      BY <3>1
    <3> QED
      BY <3>1, <3>2 DEF Repeated
  <2> QED
    BY <2>1, <2>2 DEF LearnedStateExact
<1>3. TypeOK /\ RotationIds /\ LearnedInv /\ [DynNext]_dynVars /\ TypeOK' => LearnedInv'
  BY LearnedStep
<1> QED
  BY <1>1, <1>2, <1>3, DynSessions, PTL DEF DynSpec
------------------------------------------------------------------------------
(* The books only watch the run *)

\* The books start beside the users' own state.
LEMMA BooksInitDynamics == BooksInit => DynInit
BY DEF BooksInit

\* A step that keeps books is a step of the users' dynamics.
LEMMA BooksStepDynamics == [BooksNext]_booksVars => [DynNext]_dynVars
<1> SUFFICES ASSUME [BooksNext]_booksVars PROVE [DynNext]_dynVars
  OBVIOUS
<1>1. ASSUME NEW u \in Users, NEW r \in Reels, NEW start \in Starts \cup {now},
             NEW watch \in WatchTimes, BookImpression(u, r, start, watch)
      PROVE  DynNext
  BY <1>1 DEF BookImpression, DynNext
<1>2. ASSUME NEW u \in Users, NEW delay \in ReturnDelays, BookExit(u, delay)
      PROVE  DynNext
  BY <1>2 DEF BookExit, DynNext
<1>3. CASE CloseBooks
  BY <1>3 DEF CloseBooks, DynNext
<1>4. CASE NoBooks
  BY <1>4 DEF NoBooks
<1>5. CASE UNCHANGED booksVars
  BY <1>5 DEF booksVars
<1> QED
  BY <1>1, <1>2, <1>3, <1>4, <1>5 DEF BooksNext

\* Every run with its books is a run without them: the long-term and the
\* ecosystem tallies, and the horizon that cuts the run, decide nothing that
\* happens before.
THEOREM ImplementsDynamics == BooksSpec => DynSpec
BY BooksInitDynamics, BooksStepDynamics, PTL DEF BooksSpec, DynSpec

\* The sessions that the books date never overlap and start with the fatigue
\* of the user's own last one, for any day length and horizon.
THEOREM BooksSessionTimes == BooksSpec => []SessionTimesExact
BY ImplementsDynamics, DynSessionTimes, PTL

\* Trending accumulators decay once under the shared clock, in the whole
\* composition.
THEOREM BooksTrending == BooksSpec => []TrendingDecayedForward
BY ImplementsDynamics, DynTrending, PTL

\* Hidden exposure, felt reactions and habit are what the user's own history
\* gives, and exposure decays by the user's own time, in the whole composition.
THEOREM BooksHiddenState == BooksSpec => []HiddenStateExact
BY ImplementsDynamics, HiddenStateExactCorrect, PTL

\* The session vector and the fatigue estimate come from the user's own recent
\* impressions in the whole composition.
THEOREM BooksLearnedState == BooksSpec => []LearnedStateExact
BY ImplementsDynamics, LearnedStateExactCorrect, PTL
------------------------------------------------------------------------------
(* Sums as sizes of sets *)

\* The marks of a finite set are finitely many.
LEMMA TotalFacts ==
  ASSUME NEW S, IsFiniteSet(S), NEW c, \A x \in S : c[x] \in Nat
  PROVE  /\ \A p : p \in Marks(c, S) <=> \E x \in S : \E k \in 1..c[x] : p = <<x, k>>
         /\ IsFiniteSet(Marks(c, S)) /\ Total(c, S) \in Nat
<1> DEFINE marks == [x \in S |-> {x} \X (1..c[x])]
           all == {marks[x] : x \in S}
<1>1. Marks(c, S) = UNION all
  BY DEF Marks
<1>2. IsFiniteSet(all)
  <2>1. marks \in Surjection(S, all)
    BY DEF Surjection
  <2> HIDE DEF marks, all
  <2> QED
    BY <2>1, FS_Surjection
<1>3. \A m \in all : IsFiniteSet(m)
  <2> SUFFICES ASSUME NEW x \in S PROVE IsFiniteSet({x} \X (1..c[x]))
    OBVIOUS
  <2>1. c[x] \in Int /\ 1 \in Int
    OBVIOUS
  <2>2. IsFiniteSet(1..c[x])
    BY <2>1, FS_Interval
  <2>3. IsFiniteSet({x})
    BY FS_Singleton
  <2> QED
    BY <2>2, <2>3, FS_Product
<1>4. IsFiniteSet(Marks(c, S))
  BY <1>1, <1>2, <1>3, FS_UNION
<1>5. \A p : p \in Marks(c, S) <=> \E x \in S : \E k \in 1..c[x] : p = <<x, k>>
  BY DEF Marks
<1> QED
  BY <1>4, <1>5, FS_CardinalityType DEF Total

\* What counts alike has the same total.
LEMMA TotalSame ==
  ASSUME NEW S, IsFiniteSet(S), NEW c, NEW d, \A x \in S : c[x] \in Nat /\ d[x] = c[x]
  PROVE  Total(d, S) = Total(c, S)
<1>1. Marks(d, S) = Marks(c, S)
  <2>1. \A p : p \in Marks(c, S) <=> \E x \in S : \E k \in 1..c[x] : p = <<x, k>>
    BY TotalFacts
  <2>2. \A p : p \in Marks(d, S) <=> \E x \in S : \E k \in 1..d[x] : p = <<x, k>>
    BY TotalFacts
  <2> QED
    BY <2>1, <2>2
<1> QED
  BY <1>1 DEF Total

\* No marks at all.
LEMMA TotalZero ==
  ASSUME NEW S, IsFiniteSet(S), NEW c, \A x \in S : c[x] = 0
  PROVE  Total(c, S) = 0
<1>1. \A p : p \in Marks(c, S) <=> \E x \in S : \E k \in 1..c[x] : p = <<x, k>>
  BY TotalFacts
<1>2. Marks(c, S) = {}
  BY <1>1
<1> QED
  BY <1>2, FS_EmptySet DEF Total

\* More marks, larger total.
LEMMA TotalMonotone ==
  ASSUME NEW S, IsFiniteSet(S), NEW c, NEW d,
         \A x \in S : c[x] \in Nat /\ d[x] \in Nat /\ c[x] <= d[x]
  PROVE  Total(c, S) <= Total(d, S)
<1>1. \A p : p \in Marks(c, S) <=> \E x \in S : \E k \in 1..c[x] : p = <<x, k>>
  BY TotalFacts
<1>2. \A p : p \in Marks(d, S) <=> \E x \in S : \E k \in 1..d[x] : p = <<x, k>>
  BY TotalFacts
<1>3. \A x \in S : \A k \in 1..c[x] : k \in 1..d[x]
  OBVIOUS
<1>4. Marks(c, S) \in SUBSET Marks(d, S)
  BY <1>1, <1>2, <1>3
<1>5. IsFiniteSet(Marks(d, S))
  BY TotalFacts
<1> QED
  BY <1>4, <1>5, FS_Subset DEF Total

\* No element counts more than all.
LEMMA TotalAtLeast ==
  ASSUME NEW S, IsFiniteSet(S), NEW c, NEW x \in S, \A y \in S : c[y] \in Nat
  PROVE  c[x] <= Total(c, S)
<1> DEFINE own == {x} \X (1..c[x])
<1>1. \A p : p \in Marks(c, S) <=> \E y \in S : \E k \in 1..c[y] : p = <<y, k>>
  BY TotalFacts
<1>2. own \in SUBSET Marks(c, S)
  BY <1>1
<1>3. Cardinality(own) = c[x]
  <2>1. c[x] \in Nat /\ c[x] \in Int /\ 1 \in Int
    OBVIOUS
  <2>2. IsFiniteSet(1..c[x]) /\ Cardinality(1..c[x]) = c[x]
    <3>1. /\ IsFiniteSet(1..c[x])
          /\ Cardinality(1..c[x]) = IF 1 > c[x] THEN 0 ELSE c[x] - 1 + 1
      BY <2>1, FS_Interval
    <3> QED
      BY <2>1, <3>1
  <2>3. IsFiniteSet({x}) /\ Cardinality({x}) = 1
    BY FS_Singleton
  <2>4. Cardinality(own) = Cardinality({x}) * Cardinality(1..c[x])
    BY <2>2, <2>3, FS_Product
  <2> QED
    BY <2>1, <2>2, <2>3, <2>4
<1>4. IsFiniteSet(Marks(c, S))
  BY TotalFacts
<1> HIDE DEF own
<1> QED
  BY <1>2, <1>3, <1>4, FS_Subset DEF Total

\* One element counts n more.
LEMMA TotalMore ==
  ASSUME NEW S, IsFiniteSet(S), NEW c, NEW d, NEW x \in S, NEW n \in Nat,
         \A y \in S : c[y] \in Nat /\ (y # x => d[y] = c[y]), d[x] = c[x] + n
  PROVE  Total(d, S) = Total(c, S) + n
<1> DEFINE new == {x} \X (c[x] + 1..c[x] + n)
<1>1. c[x] \in Nat /\ \A y \in S : d[y] \in Nat
  OBVIOUS
<1>2. \A p : p \in Marks(c, S) <=> \E y \in S : \E k \in 1..c[y] : p = <<y, k>>
  BY TotalFacts
<1>3. \A p : p \in Marks(d, S) <=> \E y \in S : \E k \in 1..d[y] : p = <<y, k>>
  BY <1>1, TotalFacts
<1>4. \A k : k \in 1..d[x] <=> k \in 1..c[x] \/ k \in c[x] + 1..c[x] + n
  BY <1>1
<1>5. Marks(d, S) = Marks(c, S) \cup new
  <2>1. ASSUME NEW p \in Marks(d, S) PROVE p \in Marks(c, S) \cup new
    <3>1. PICK y \in S : \E k \in 1..d[y] : p = <<y, k>>
      BY <1>3
    <3>2. PICK k \in 1..d[y] : p = <<y, k>>
      BY <3>1
    <3>3. k \in 1..c[y] \/ (y = x /\ k \in c[x] + 1..c[x] + n)
      BY <1>4, <3>2
    <3> QED
      BY <1>2, <3>2, <3>3
  <2>2. ASSUME NEW p \in Marks(c, S) PROVE p \in Marks(d, S)
    <3>1. PICK y \in S : \E k \in 1..c[y] : p = <<y, k>>
      BY <1>2
    <3>2. PICK k \in 1..c[y] : p = <<y, k>>
      BY <3>1
    <3>3. k \in 1..d[y]
      BY <1>4, <3>2
    <3> QED
      BY <1>3, <3>2, <3>3
  <2>3. ASSUME NEW p \in new PROVE p \in Marks(d, S)
    <3>1. PICK k \in c[x] + 1..c[x] + n : p = <<x, k>>
      OBVIOUS
    <3>2. k \in 1..d[x]
      BY <1>4
    <3> QED
      BY <1>3, <3>1, <3>2
  <2> QED
    BY <2>1, <2>2, <2>3
<1>6. Marks(c, S) \cap new = {}
  <2> SUFFICES ASSUME NEW y \in S, NEW k \in 1..c[y], <<y, k>> \in new PROVE FALSE
    BY <1>2
  <2>1. y = x /\ k \in c[x] + 1..c[x] + n
    OBVIOUS
  <2> QED
    BY <1>1, <2>1
<1>7. IsFiniteSet(new) /\ Cardinality(new) = n
  <2> DEFINE a == c[x] + 1
             b == c[x] + n
  <2>1. a \in Int /\ b \in Int /\ (IF a > b THEN 0 ELSE b - a + 1) = n
    BY <1>1
  <2>2. IsFiniteSet(a..b) /\ Cardinality(a..b) = n
    <3> HIDE DEF a, b
    <3> QED
      BY <2>1, FS_Interval
  <2>3. IsFiniteSet({x}) /\ Cardinality({x}) = 1
    BY FS_Singleton
  <2>4. IsFiniteSet({x} \X (a..b)) /\ Cardinality({x} \X (a..b)) = Cardinality({x}) * Cardinality(a..b)
    <3> HIDE DEF a, b
    <3> QED
      BY <2>2, <2>3, FS_Product
  <2> QED
    BY <2>2, <2>3, <2>4
<1>8. IsFiniteSet(Marks(c, S)) /\ Total(c, S) \in Nat
  BY TotalFacts
<1> HIDE DEF new
<1>9. Cardinality(Marks(c, S) \cup new)
        = Cardinality(Marks(c, S)) + Cardinality(new) - Cardinality(Marks(c, S) \cap new)
  BY <1>7, <1>8, FS_Union
<1>10. Cardinality(Marks(c, S) \cap new) = 0
  BY <1>6, FS_EmptySet
<1> QED
  BY <1>5, <1>7, <1>8, <1>9, <1>10 DEF Total

\* What counts nothing may be left out.
LEMMA TotalOver ==
  ASSUME NEW T, IsFiniteSet(T), NEW S \in SUBSET T, NEW c, NEW d,
         \A x \in S : c[x] \in Nat /\ d[x] = c[x], \A x \in T \ S : d[x] = 0
  PROVE  Total(d, T) = Total(c, S)
<1>1. \A x \in T : d[x] \in Nat
  OBVIOUS
<1>2. IsFiniteSet(S)
  BY FS_Subset
<1>3. \A p : p \in Marks(c, S) <=> \E x \in S : \E k \in 1..c[x] : p = <<x, k>>
  BY <1>2, TotalFacts
<1>4. \A p : p \in Marks(d, T) <=> \E x \in T : \E k \in 1..d[x] : p = <<x, k>>
  BY <1>1, TotalFacts
<1>5. \A x \in T \ S : 1..d[x] = {}
  OBVIOUS
<1>6. Marks(d, T) = Marks(c, S)
  BY <1>3, <1>4, <1>5
<1> QED
  BY <1>6 DEF Total

\* One more entry adds what it counts.
LEMMA TotalAppended ==
  ASSUME NEW n \in Nat, NEW c, NEW d, \A i \in 1..n : c[i] \in Nat /\ d[i] = c[i],
         d[n + 1] \in Nat
  PROVE  Total(d, 1..n + 1) = Total(c, 1..n) + d[n + 1]
<1> DEFINE T == 1..n + 1
           e == [i \in T |-> IF i = n + 1 THEN 0 ELSE c[i]]
<1>1. IsFiniteSet(T) /\ 1..n \in SUBSET T /\ n + 1 \in T /\ \A i \in T : i \in 1..n \/ i = n + 1
  <2>1. 1 \in Int /\ n + 1 \in Int
    OBVIOUS
  <2> QED
    BY <2>1, FS_Interval
<1>2. \A i \in 1..n : c[i] \in Nat /\ e[i] = c[i]
  OBVIOUS
<1>3. e[n + 1] = 0 /\ \A i \in T \ 1..n : e[i] = 0
  OBVIOUS
<1> HIDE DEF T, e
<1>4. Total(e, T) = Total(c, 1..n)
  BY <1>1, <1>2, <1>3, TotalOver
<1>5. \A i \in T : e[i] \in Nat /\ (i # n + 1 => d[i] = e[i])
  BY <1>1, <1>2, <1>3
<1>6. d[n + 1] = e[n + 1] + d[n + 1]
  BY <1>3
<1>7. Total(d, T) = Total(e, T) + d[n + 1]
  <2> DEFINE m == n + 1
             k == d[m]
  <2>1. /\ m \in T /\ k \in Nat /\ d[m] = e[m] + k
        /\ \A i \in T : e[i] \in Nat /\ (i # m => d[i] = e[i])
    BY <1>1, <1>5, <1>6
  <2> HIDE DEF k
  <2>2. Total(d, T) = Total(e, T) + k
    <3> HIDE DEF m
    <3> QED
      BY <1>1, <2>1, TotalMore
  <2> QED
    BY <2>2 DEF k
<1> QED
  BY <1>4, <1>7 DEF T

\* Several elements count one more.
LEMMA TotalEachMore ==
  ASSUME NEW S, IsFiniteSet(S), NEW A \in SUBSET S, NEW c, NEW d,
         \A x \in S : c[x] \in Nat /\ d[x] = c[x] + (IF x \in A THEN 1 ELSE 0)
  PROVE  Total(d, S) = Total(c, S) + Cardinality(A)
<1> DEFINE f == [x \in A |-> <<x, c[x] + 1>>]
           new == {f[x] : x \in A}
<1>1. \A x \in S : d[x] \in Nat
  OBVIOUS
<1>2. \A p : p \in Marks(c, S) <=> \E y \in S : \E k \in 1..c[y] : p = <<y, k>>
  BY TotalFacts
<1>3. \A p : p \in Marks(d, S) <=> \E y \in S : \E k \in 1..d[y] : p = <<y, k>>
  BY <1>1, TotalFacts
<1>4. \A x \in S : \A k : k \in 1..d[x] <=> k \in 1..c[x] \/ (x \in A /\ k = c[x] + 1)
  OBVIOUS
<1>5. Marks(d, S) = Marks(c, S) \cup new
  <2>1. ASSUME NEW p \in Marks(d, S) PROVE p \in Marks(c, S) \cup new
    <3>1. PICK y \in S : \E k \in 1..d[y] : p = <<y, k>>
      BY <1>3
    <3>2. PICK k \in 1..d[y] : p = <<y, k>>
      BY <3>1
    <3>3. k \in 1..c[y] \/ (y \in A /\ k = c[y] + 1)
      BY <1>4, <3>2
    <3> QED
      BY <1>2, <3>2, <3>3
  <2>2. ASSUME NEW p \in Marks(c, S) PROVE p \in Marks(d, S)
    <3>1. PICK y \in S : \E k \in 1..c[y] : p = <<y, k>>
      BY <1>2
    <3>2. PICK k \in 1..c[y] : p = <<y, k>>
      BY <3>1
    <3>3. k \in 1..d[y]
      BY <1>4, <3>2
    <3> QED
      BY <1>3, <3>2, <3>3
  <2>3. ASSUME NEW x \in A PROVE f[x] \in Marks(d, S)
    <3>1. c[x] + 1 \in 1..d[x] /\ x \in S
      BY <1>4
    <3> QED
      BY <1>3, <3>1
  <2> QED
    BY <2>1, <2>2, <2>3
<1>6. Marks(c, S) \cap new = {}
  <2> SUFFICES ASSUME NEW y \in S, NEW k \in 1..c[y], <<y, k>> \in new PROVE FALSE
    BY <1>2
  <2>1. y \in A /\ k = c[y] + 1
    OBVIOUS
  <2> QED
    BY <2>1
<1>7. IsFiniteSet(A)
  BY FS_Subset
<1>8. IsFiniteSet(new) /\ Cardinality(new) = Cardinality(A)
  <2>1. f \in Bijection(A, new)
    BY DEF Bijection, Injection, IsInjective, Surjection
  <2>2. ExistsBijection(A, new)
    BY <2>1 DEF ExistsBijection
  <2> HIDE DEF new, f
  <2> QED
    BY <1>7, <2>2, FS_Bijection
<1>9. IsFiniteSet(Marks(c, S)) /\ Total(c, S) \in Nat /\ Cardinality(A) \in Nat
  BY <1>7, TotalFacts, FS_CardinalityType
<1> HIDE DEF new
<1>10. Cardinality(Marks(c, S) \cup new)
         = Cardinality(Marks(c, S)) + Cardinality(new) - Cardinality(Marks(c, S) \cap new)
  BY <1>8, <1>9, FS_Union
<1> QED
  BY <1>5, <1>6, <1>8, <1>9, <1>10, FS_EmptySet DEF Total
------------------------------------------------------------------------------
(* Every impression is recorded once *)

RecordedImpressions(recs) ==
  Total([k \in DOMAIN recs |-> recs[k].impressions], DOMAIN recs)

\* One more record holds its impressions.
LEMMA RecordedAppended ==
  ASSUME NEW recs \in Seq(Records), NEW rec \in Records
  PROVE  /\ RecordedImpressions(recs) \in Nat
         /\ RecordedImpressions(Append(recs, rec)) = RecordedImpressions(recs) + rec.impressions
<1> DEFINE n == Len(recs)
           new == Append(recs, rec)
           c == [k \in DOMAIN recs |-> recs[k].impressions]
           d == [k \in DOMAIN new |-> new[k].impressions]
<1>1. /\ n \in Nat /\ DOMAIN recs = 1..n /\ DOMAIN new = 1..n + 1 /\ new[n + 1] = rec
      /\ \A i \in 1..n : new[i] = recs[i] /\ recs[i] \in Records
  BY AppendProperties, ElementOfSeq
<1>2. /\ \A i \in 1..n : c[i] \in Nat /\ d[i] = c[i]
      /\ d[n + 1] = rec.impressions /\ rec.impressions \in Nat
  <2>1. \A x \in Records : x.impressions \in Nat
    BY DEF Records
  <2>2. n + 1 \in DOMAIN new
    BY <1>1
  <2> HIDE DEF n, new
  <2> QED
    BY <1>1, <2>1, <2>2
<1>3. IsFiniteSet(1..n)
  <2>1. n \in Int /\ 1 \in Int
    BY <1>1
  <2> QED
    BY <2>1, FS_Interval
<1>4. RecordedImpressions(recs) = Total(c, 1..n) /\ RecordedImpressions(new) = Total(d, 1..n + 1)
  BY <1>1 DEF RecordedImpressions
<1> HIDE DEF n, new, c, d
<1>5. Total(c, 1..n) \in Nat
  BY <1>2, <1>3, TotalFacts
<1>6. Total(d, 1..n + 1) = Total(c, 1..n) + d[n + 1]
  <2>1. d[n + 1] \in Nat
    BY <1>2
  <2> QED
    BY <1>1, <1>2, <2>1, TotalAppended
<1> QED
  BY <1>2, <1>4, <1>5, <1>6 DEF new

\* An impression of the hidden session is one more.
LEMMA AccumulatedMore ==
  ASSUME TypeOK, NEW u \in Users, NEW start \in Nat, NEW finish \in Nat
  PROVE  LET a == Accumulated(u, start, finish) IN
         /\ a \in Impressions /\ hidden[u] \in Impressions
         /\ a.impressions = hidden[u].impressions + 1
         /\ a.start = IF hidden[u].impressions = 0 THEN start ELSE hidden[u].start
<1> DEFINE a == Accumulated(u, start, finish)
           s == hidden[u]
<1>1. a \in Impressions
  BY AccumulatedType
<1>2. s \in Impressions /\ s.impressions \in Nat
  BY DEF TypeOK, Impressions
<1>3. CASE s.impressions = 0
  <2>1. a = [StartSession(s, start) EXCEPT !.impressions = @ + 1, !.last = finish]
    BY <1>3 DEF Accumulated
  <2>2. StartSession(s, start) =
          [s EXCEPT !.impressions = 0, !.start = start, !.last = start, !.gap = AwayGap(s, start)]
    BY DEF StartSession
  <2>3. a.impressions = 1 /\ a.start = start
    BY <1>2, <2>1, <2>2 DEF Impressions
  <2> QED
    BY <1>1, <1>2, <1>3, <2>3
<1>4. CASE s.impressions # 0
  <2>1. a = [s EXCEPT !.impressions = @ + 1, !.last = finish]
    BY <1>4 DEF Accumulated
  <2>2. a.impressions = s.impressions + 1 /\ a.start = s.start
    BY <1>2, <2>1 DEF Impressions
  <2> QED
    BY <1>1, <1>2, <1>4, <2>2
<1> QED
  BY <1>3, <1>4

\* What an impression does to the session of its user with session dynamics:
\* it goes on, or it is recorded and closed.
Extended(u, a) ==
  /\ hidden' = [hidden EXCEPT ![u] = a] /\ records' = records /\ sessionId' = sessionId
  /\ length' = [length EXCEPT ![u] = @ + 1]
  /\ events' = [events EXCEPT ![u] = Append(@, [session |-> sessionId[u], exit |-> FALSE])]

Ended(u, a, finish) ==
  /\ hidden' = [hidden EXCEPT ![u] = Closed(a, finish)]
  /\ records' = [records EXCEPT ![u] = Append(@, MakeSessionRecord(a, sessionId[u], TRUE))]
  /\ sessionId' = [sessionId EXCEPT ![u] = @ + 1]
  /\ length' = [length EXCEPT ![u] = 0]
  /\ events' = [events EXCEPT ![u] = Append(@, [session |-> sessionId[u], exit |-> TRUE])]

LEMMA DynamicsStep ==
  ASSUME TypeOK, model = "dynamics", NEW u \in Users, NEW r \in Reels,
         NEW start \in Starts \cup {now}, NEW watch \in WatchTimes, Step(u, r, start, watch)
  PROVE  LET a == Accumulated(u, start, start + watch) IN
         /\ start \in Nat /\ start + watch \in Nat /\ start <= start + watch
         /\ a \in Impressions /\ hidden[u] \in Impressions
         /\ a.impressions = hidden[u].impressions + 1
         /\ a.start = IF hidden[u].impressions = 0 THEN start ELSE hidden[u].start
         /\ MakeSessionRecord(a, sessionId[u], TRUE) \in Records
         /\ Extended(u, a) \/ Ended(u, a, start + watch)
         /\ ~drained /\ drained' = drained /\ model' = model
<1>1. start \in Nat /\ start + watch \in Nat /\ start <= start + watch
  BY StepTimes
<1>2. sessionId[u] \in Nat
  BY DEF TypeOK
<1>3. ~drained /\ drained' = drained /\ model' = model
  BY DEF Step, config
<1> DEFINE a == Accumulated(u, start, start + watch)
<1>4. /\ a \in Impressions /\ hidden[u] \in Impressions
      /\ a.impressions = hidden[u].impressions + 1
      /\ a.start = IF hidden[u].impressions = 0 THEN start ELSE hidden[u].start
  BY <1>1, AccumulatedMore
<1>5. MakeSessionRecord(a, sessionId[u], TRUE) \in Records
  BY <1>2, <1>4, RecordType
<1>6. CASE StepV2Stays(u, r, start, watch)
  BY <1>1, <1>3, <1>4, <1>5, <1>6 DEF StepV2Stays, Advance, Extended
<1>7. CASE StepV2Exits(u, r, start, watch)
  BY <1>1, <1>3, <1>4, <1>5, <1>7 DEF StepV2Exits, Advance, Ended
<1>8. "dynamics" # "rotation"
  OBVIOUS
<1> QED
  BY <1>6, <1>7, <1>8 DEF Step, StepOpens, StepContinues

\* Impressions add to the open session, and its end moves them to a record.
LEMMA RecordedStep ==
  ASSUME TypeOK, EveryImpressionRecorded, [Next]_vars
  PROVE  EveryImpressionRecorded'
<1> DEFINE Balance(recs, open, evs) == RecordedImpressions(recs) + open = Len(evs)
<1>1. \A u \in Users : /\ records[u] \in Seq(Records) /\ events[u] \in Seq(Event)
                       /\ hidden[u] \in Impressions /\ hidden[u].impressions \in Nat
                       /\ sessionId[u] \in Nat
  BY DEF TypeOK, Event, Impressions
<1>2. EveryImpressionRecorded <=>
        (model = "dynamics" => \A u \in Users : Balance(records[u], hidden[u].impressions, events[u]))
  BY DEF EveryImpressionRecorded, RecordedImpressions
<1>3. EveryImpressionRecorded' <=>
        (model' = "dynamics" => \A u \in Users : Balance(records'[u], hidden'[u].impressions, events'[u]))
  BY DEF EveryImpressionRecorded, RecordedImpressions
<1>4. model' = model
  BY DEF Next, Step, DrainOpenSessions, vars, config
<1>5. SUFFICES ASSUME model = "dynamics", NEW v \in Users,
                      Balance(records[v], hidden[v].impressions, events[v])
               PROVE  Balance(records'[v], hidden'[v].impressions, events'[v])
  <2> HIDE DEF Balance
  <2> QED
    BY <1>2, <1>3, <1>4
<1>6. ASSUME NEW u \in Users, NEW r \in Reels, NEW start \in Starts \cup {now},
             NEW watch \in WatchTimes, Step(u, r, start, watch)
      PROVE  Balance(records'[v], hidden'[v].impressions, events'[v])
  <2> DEFINE a == Accumulated(u, start, start + watch)
             rec == MakeSessionRecord(a, sessionId[u], TRUE)
  <2>1. /\ a \in Impressions /\ a.impressions = hidden[u].impressions + 1
        /\ rec \in Records
        /\ Extended(u, a) \/ Ended(u, a, start + watch)
    BY <1>5, <1>6, DynamicsStep
  <2>2. rec.impressions = a.impressions
    BY DEF MakeSessionRecord
  <2> HIDE DEF a
  <2>3. CASE v # u
    BY <2>1, <2>3, <1>5 DEF Extended, Ended, TypeOK
  <2>4. CASE v = u
    <3>1. PICK e \in Event : events' = [events EXCEPT ![u] = Append(@, e)]
      BY <1>1, <2>1 DEF Extended, Ended, Event
    <3>2. Len(events'[u]) = Len(events[u]) + 1 /\ Len(events[u]) \in Nat
      BY <1>1, <3>1 DEF TypeOK, Event
    <3>3. CASE Extended(u, a)
      <4>1. hidden'[u].impressions = hidden[u].impressions + 1 /\ records'[u] = records[u]
        BY <2>1, <3>3 DEF Extended, TypeOK
      <4>2. RecordedImpressions(records[u]) \in Nat
        BY <1>1, <2>1, RecordedAppended
      <4>3. RecordedImpressions(records[u]) + hidden[u].impressions = Len(events[u])
        BY <1>5, <2>4
      <4>4. RecordedImpressions(records'[u]) + hidden'[u].impressions = Len(events'[u])
        <5>1. hidden[u].impressions \in Nat
          BY <1>1
        <5> QED
          BY <3>2, <4>1, <4>2, <4>3, <5>1
      <4> QED
        BY <2>4, <4>4
    <3>4. CASE Ended(u, a, start + watch)
      <4>1. hidden'[u] = Closed(a, start + watch) /\ records'[u] = Append(records[u], rec)
        BY <3>4 DEF Ended, TypeOK
      <4>2. hidden'[u].impressions = 0
        BY <2>1, <4>1 DEF Closed, Impressions
      <4> HIDE DEF rec
      <4>3. /\ RecordedImpressions(records[u]) \in Nat
            /\ RecordedImpressions(records'[u]) = RecordedImpressions(records[u]) + rec.impressions
        BY <1>1, <2>1, <4>1, RecordedAppended
      <4>4. RecordedImpressions(records[u]) + hidden[u].impressions = Len(events[u])
        BY <1>5, <2>4
      <4>5. RecordedImpressions(records'[u]) + hidden'[u].impressions = Len(events'[u])
        <5>1. hidden[u].impressions \in Nat /\ rec.impressions = hidden[u].impressions + 1
          BY <1>1, <2>1, <2>2
        <5> QED
          BY <3>2, <4>2, <4>3, <4>4, <5>1
      <4> QED
        BY <2>4, <4>5
    <3> QED
      BY <2>1, <3>3, <3>4
  <2> QED
    BY <2>3, <2>4
<1>7. CASE DrainOpenSessions
  <2> DEFINE rec == MakeSessionRecord(hidden[v], sessionId[v], FALSE)
  <2>1. /\ events' = events /\ hidden'[v].impressions = 0
        /\ records'[v] = IF v \in OpenUsers THEN Append(records[v], rec) ELSE records[v]
    BY <1>7 DEF DrainOpenSessions, NoSession
  <2>2. v \in OpenUsers <=> hidden[v].impressions > 0
    BY DEF OpenUsers
  <2>3. rec \in Records /\ rec.impressions = hidden[v].impressions
    BY <1>1, RecordType DEF MakeSessionRecord
  <2> HIDE DEF rec
  <2>4. /\ RecordedImpressions(records[v]) \in Nat
        /\ RecordedImpressions(Append(records[v], rec)) = RecordedImpressions(records[v]) + rec.impressions
    BY <1>1, <2>3, RecordedAppended
  <2> QED
    BY <1>1, <1>5, <2>1, <2>2, <2>3, <2>4
<1>8. CASE UNCHANGED vars
  BY <1>5, <1>8 DEF vars
<1> QED
  BY <1>6, <1>7, <1>8 DEF Next

\* With session dynamics each impression of a user is in one of its records or
\* in the session still open, and after the drain every one is recorded
\* (makeSessionRecord, drainOpenSessions).
THEOREM EveryImpressionRecordedCorrect == Spec => []EveryImpressionRecorded
<1>1. Init => EveryImpressionRecorded
  <2> SUFFICES ASSUME Init, NEW u \in Users
               PROVE  RecordedImpressions(records[u]) + hidden[u].impressions = Len(events[u])
    BY DEF EveryImpressionRecorded, RecordedImpressions
  <2>1. records[u] = <<>> /\ hidden[u].impressions = 0 /\ Len(events[u]) = 0
    BY DEF Init, NoSession
  <2>2. DOMAIN records[u] = {}
    BY <2>1
  <2>3. RecordedImpressions(records[u]) = 0
    BY <2>2, TotalZero, FS_EmptySet DEF RecordedImpressions
  <2> QED
    BY <2>1, <2>3
<1> QED
  BY <1>1, RecordedStep, TypeCorrect, PTL DEF Spec
------------------------------------------------------------------------------
(* The sessions the recommender is shown *)

OfSession(evs, s) == {i \in DOMAIN evs : evs[i].session = s}

\* With session dynamics the ids follow the exits.
Numbered(evs, next) ==
  /\ \A k \in 1..Len(evs) - 1 :
       evs[k + 1].session = evs[k].session + (IF evs[k].exit THEN 1 ELSE 0)
  /\ evs # <<>> => next = evs[Len(evs)].session + (IF evs[Len(evs)].exit THEN 1 ELSE 0)

\* Without, the events fill the targets in order: the last is being filled.
Filled(evs, aims, n) ==
  /\ aims = <<>> => evs = <<>>
  /\ \A i \in DOMAIN evs : evs[i].session < Len(aims)
  /\ \A k \in 1..Len(aims) - 1 : Cardinality(OfSession(evs, k - 1)) = aims[k]
  /\ aims # <<>> => /\ Cardinality(OfSession(evs, Len(aims) - 1)) = n
                    /\ n <= aims[Len(aims)]

VisibleInv ==
  /\ RotationIds
  /\ \A u \in Users :
       /\ model = "dynamics" => /\ Numbered(events[u], sessionId[u])
                                /\ ~drained => length[u] = hidden[u].impressions
       /\ model = "rotation" => Filled(events[u], targets[u], length[u])

\* An event is one more of its session.
LEMMA OfSessionAppended ==
  ASSUME NEW evs \in Seq(Event), NEW e \in Event, NEW s
  PROVE  /\ Cardinality(OfSession(evs, s)) \in Nat
         /\ Cardinality(OfSession(Append(evs, e), s))
              = Cardinality(OfSession(evs, s)) + (IF e.session = s THEN 1 ELSE 0)
<1> DEFINE n == Len(evs)
           new == Append(evs, e)
<1>1. /\ n \in Nat /\ DOMAIN evs = 1..n /\ DOMAIN new = 1..n + 1 /\ new[n + 1] = e
      /\ \A i \in 1..n : new[i] = evs[i]
  BY AppendProperties
<1>2. IsFiniteSet(1..n) /\ n + 1 \notin 1..n
  <2>1. n \in Int /\ 1 \in Int
    BY <1>1
  <2> QED
    BY <2>1, FS_Interval
<1> HIDE DEF n, new
<1>3. OfSession(evs, s) \in SUBSET (1..n)
  BY <1>1 DEF OfSession
<1>4. IsFiniteSet(OfSession(evs, s)) /\ n + 1 \notin OfSession(evs, s)
  BY <1>2, <1>3, FS_Subset
<1>5. Cardinality(OfSession(evs, s)) \in Nat
  BY <1>4, FS_CardinalityType
<1>6. \A i : i \in 1..n + 1 <=> i \in 1..n \/ i = n + 1
  BY <1>1
<1>7. CASE e.session = s
  <2>1. OfSession(new, s) = OfSession(evs, s) \cup {n + 1}
    BY <1>1, <1>6, <1>7 DEF OfSession
  <2>2. Cardinality(OfSession(evs, s) \cup {n + 1}) = Cardinality(OfSession(evs, s)) + 1
    BY <1>4, FS_AddElement
  <2> QED
    BY <1>5, <1>7, <2>1, <2>2 DEF new
<1>8. CASE e.session # s
  <2>1. OfSession(new, s) = OfSession(evs, s)
    BY <1>1, <1>2, <1>6, <1>8 DEF OfSession
  <2> QED
    BY <1>5, <1>8, <2>1 DEF new
<1> QED
  BY <1>7, <1>8

\* The next event is of the next session, the one after an exit.
LEMMA NumberedAppended ==
  ASSUME NEW evs \in Seq(Event), NEW id \in Nat, NEW exit \in BOOLEAN, Numbered(evs, id)
  PROVE  Numbered(Append(evs, [session |-> id, exit |-> exit]), id + (IF exit THEN 1 ELSE 0))
<1> DEFINE n == Len(evs)
           e == [session |-> id, exit |-> exit]
           new == Append(evs, e)
<1>1. e \in Event /\ e.session = id /\ e.exit = exit
  BY DEF Event
<1> HIDE DEF e
<1>2. /\ n \in Nat /\ Len(new) = n + 1 /\ new[n + 1] = e /\ new # <<>>
      /\ \A i \in 1..n : new[i] = evs[i]
  BY <1>1, AppendProperties
<1> HIDE DEF new, n
<1>3. ASSUME NEW k \in 1..Len(new) - 1
      PROVE  new[k + 1].session = new[k].session + (IF new[k].exit THEN 1 ELSE 0)
  <2>1. k \in 1..n
    BY <1>2
  <2>2. CASE k = n
    <3>1. evs # <<>> /\ new[k] = evs[n] /\ new[k + 1] = e
      BY <1>2, <2>1, <2>2 DEF n
    <3> QED
      BY <1>1, <3>1 DEF Numbered, n
  <2>3. CASE k # n
    <3>1. k \in 1..n - 1 /\ k + 1 \in 1..n
      BY <1>2, <2>1, <2>3
    <3> QED
      BY <1>2, <2>1, <3>1 DEF Numbered, n
  <2> QED
    BY <2>2, <2>3
<1>4. id + (IF exit THEN 1 ELSE 0)
        = new[Len(new)].session + (IF new[Len(new)].exit THEN 1 ELSE 0)
  BY <1>1, <1>2
<1>5. Numbered(new, id + (IF exit THEN 1 ELSE 0))
  BY <1>3, <1>4 DEF Numbered
<1> QED
  BY <1>5 DEF new, e

\* A session that has reached its target is followed by the next.
LEMMA FilledOpens ==
  ASSUME NEW evs \in Seq(Event), NEW aims \in Seq(SessionTargets), NEW n \in Nat,
         NEW t \in SessionTargets, Filled(evs, aims, n), aims # <<>> => n >= aims[Len(aims)]
  PROVE  Filled(Append(evs, [session |-> Len(aims), exit |-> FALSE]), Append(aims, t), 1)
<1> DEFINE m == Len(aims)
           e == [session |-> m, exit |-> FALSE]
           new == Append(evs, e)
           more == Append(aims, t)
<1>1. /\ m \in Nat /\ Len(more) = m + 1 /\ more[m + 1] = t /\ more # <<>>
      /\ \A k \in 1..m : more[k] = aims[k] /\ aims[k] \in SessionTargets
  BY AppendProperties, ElementOfSeq
<1>2. e \in Event /\ e.session = m
  BY <1>1 DEF Event
<1> HIDE DEF e, m, more
<1>3. t \in Nat /\ t >= 1 /\ \A k \in 1..m : aims[k] \in Nat
  <2>1. \A x \in SessionTargets : x \in Nat /\ x >= 1
    BY SimulatorAssumption
  <2> QED
    BY <1>1, <2>1
<1>4. /\ DOMAIN evs = 1..Len(evs) /\ DOMAIN new = 1..Len(evs) + 1 /\ Len(evs) \in Nat
      /\ new[Len(evs) + 1] = e /\ \A i \in 1..Len(evs) : new[i] = evs[i] /\ evs[i] \in Event
  BY <1>2, AppendProperties, ElementOfSeq
<1>5. \A s : /\ Cardinality(OfSession(evs, s)) \in Nat
             /\ Cardinality(OfSession(new, s))
                  = Cardinality(OfSession(evs, s)) + (IF m = s THEN 1 ELSE 0)
  BY <1>2, OfSessionAppended
<1>6. \A i \in DOMAIN new : new[i].session < Len(more)
  <2>1. \A i \in 1..Len(evs) : evs[i].session < m /\ evs[i].session \in Nat
    BY <1>4 DEF Filled, m, Event
  <2>2. \A i \in DOMAIN new : i \in 1..Len(evs) \/ i = Len(evs) + 1
    BY <1>4
  <2> QED
    BY <1>1, <1>2, <1>4, <2>1, <2>2
<1> HIDE DEF new
<1>7. ASSUME NEW k \in 1..Len(more) - 1
      PROVE  Cardinality(OfSession(new, k - 1)) = more[k]
  <2>1. k \in 1..m /\ k - 1 # m
    BY <1>1
  <2>2. Cardinality(OfSession(evs, k - 1)) = aims[k]
    <3>1. CASE k = m
      <4>1. m >= 1 /\ aims # <<>>
        BY <1>1, <2>1, <3>1 DEF m
      <4>2. n = aims[m] /\ Cardinality(OfSession(evs, m - 1)) = n
        BY <1>3, <2>1, <3>1, <4>1 DEF Filled, m
      <4> QED
        BY <3>1, <4>2
    <3>2. CASE k # m
      <4>1. k \in 1..m - 1
        BY <1>1, <2>1, <3>2
      <4> QED
        BY <4>1 DEF Filled, m
    <3> QED
      BY <3>1, <3>2
  <2> QED
    BY <1>1, <1>5, <2>1, <2>2
<1>8. Cardinality(OfSession(new, m)) = 1
  <2>1. OfSession(evs, m) = {}
    <3>1. \A i \in 1..Len(evs) : evs[i].session < m /\ evs[i].session \in Nat
      BY <1>4 DEF Filled, m, Event
    <3> QED
      BY <1>1, <1>4, <3>1 DEF OfSession
  <2>2. Cardinality(OfSession(evs, m)) = 0
    BY <2>1, FS_EmptySet
  <2> QED
    BY <1>5, <2>2
<1>9. Filled(new, more, 1)
  <2>1. Len(more) - 1 = m /\ more[Len(more)] = t
    BY <1>1
  <2> QED
    BY <1>1, <1>3, <1>6, <1>7, <1>8, <2>1 DEF Filled
<1> QED
  BY <1>9 DEF new, more, e, m

\* A session that has not goes on.
LEMMA FilledContinues ==
  ASSUME NEW evs \in Seq(Event), NEW aims \in Seq(SessionTargets), NEW n \in Nat,
         Filled(evs, aims, n), aims # <<>>, n < aims[Len(aims)]
  PROVE  Filled(Append(evs, [session |-> Len(aims) - 1, exit |-> FALSE]), aims, n + 1)
<1> DEFINE m == Len(aims)
           e == [session |-> m - 1, exit |-> FALSE]
           new == Append(evs, e)
<1>1. m \in Nat /\ m >= 1 /\ aims[m] \in Nat
  <2>1. m \in Nat /\ m >= 1
    BY EmptySeq
  <2>2. aims[m] \in SessionTargets
    <3> HIDE DEF m
    <3>1. m \in 1..m
      BY <2>1
    <3> QED
      BY <3>1, ElementOfSeq DEF m
  <2> QED
    BY <2>1, <2>2, SimulatorAssumption
<1>2. e \in Event /\ e.session = m - 1
  BY <1>1 DEF Event
<1> HIDE DEF e, m
<1>3. /\ DOMAIN evs = 1..Len(evs) /\ DOMAIN new = 1..Len(evs) + 1 /\ Len(evs) \in Nat
      /\ new[Len(evs) + 1] = e /\ \A i \in 1..Len(evs) : new[i] = evs[i]
  BY <1>2, AppendProperties
<1>4. \A s : /\ Cardinality(OfSession(evs, s)) \in Nat
             /\ Cardinality(OfSession(new, s))
                  = Cardinality(OfSession(evs, s)) + (IF m - 1 = s THEN 1 ELSE 0)
  BY <1>2, OfSessionAppended
<1>5. \A i \in DOMAIN new : new[i].session < m
  <2>1. \A i \in 1..Len(evs) : evs[i].session < m
    BY <1>3 DEF Filled, m
  <2>2. \A i \in DOMAIN new : i \in 1..Len(evs) \/ i = Len(evs) + 1
    BY <1>3
  <2> QED
    BY <1>1, <1>2, <1>3, <2>1, <2>2
<1> HIDE DEF new
<1>6. ASSUME NEW k \in 1..m - 1
      PROVE  Cardinality(OfSession(new, k - 1)) = aims[k]
  <2>1. k - 1 # m - 1
    BY <1>1
  <2>2. Cardinality(OfSession(evs, k - 1)) = aims[k]
    BY DEF Filled, m
  <2> QED
    BY <1>4, <2>1, <2>2
<1>7. Cardinality(OfSession(new, m - 1)) = n + 1
  <2>1. Cardinality(OfSession(evs, m - 1)) = n
    BY DEF Filled, m
  <2> QED
    BY <1>4, <2>1
<1>8. Filled(new, aims, n + 1)
  <2>1. n + 1 <= aims[m]
    BY <1>1 DEF m
  <2> QED
    BY <1>5, <1>6, <1>7, <2>1 DEF Filled, m
<1> QED
  BY <1>8 DEF new, e, m

\* Events keep the numbering of their user's sessions.
LEMMA VisibleStep ==
  ASSUME TypeOK, VisibleInv, [Next]_vars
  PROVE  VisibleInv'
<1>1. \A u \in Users : /\ events[u] \in Seq(Event) /\ sessionId[u] \in Nat
                       /\ targets[u] \in Seq(SessionTargets) /\ length[u] \in Nat
                       /\ hidden[u] \in Impressions
  BY DEF TypeOK, Event
<1>2. ASSUME NEW u \in Users, NEW r \in Reels, NEW start \in Starts \cup {now},
             NEW watch \in WatchTimes, Step(u, r, start, watch)
      PROVE  VisibleInv'
  <2>1. RotationIds' /\ model' = model /\ ~drained /\ drained' = drained
    BY <1>2, StepOutcome DEF VisibleInv, Step, config
  <2>2. SUFFICES ASSUME NEW v \in Users
                 PROVE  /\ model = "dynamics" => /\ Numbered(events'[v], sessionId'[v])
                                                 /\ length'[v] = hidden'[v].impressions
                        /\ model = "rotation" => Filled(events'[v], targets'[v], length'[v])
    BY <2>1 DEF VisibleInv
  <2>3. CASE v # u
    <3>1. /\ events'[v] = events[v] /\ sessionId'[v] = sessionId[v] /\ length'[v] = length[v]
          /\ hidden'[v] = hidden[v] /\ targets'[v] = targets[v]
      BY <1>2, <2>3 DEF Step, StepOpens, StepContinues, StepV2Stays, StepV2Exits, Advance, TypeOK
    <3> QED
      BY <2>1, <3>1 DEF VisibleInv
  <2>4. CASE v = u /\ model = "dynamics"
    <3> DEFINE a == Accumulated(u, start, start + watch)
    <3>1. /\ a \in Impressions /\ a.impressions = hidden[u].impressions + 1
          /\ Extended(u, a) \/ Ended(u, a, start + watch)
      BY <1>2, <2>4, DynamicsStep
    <3>2. Numbered(events[u], sessionId[u]) /\ length[u] = hidden[u].impressions
      BY <2>1, <2>4 DEF VisibleInv
    <3> HIDE DEF a
    <3>3. CASE Extended(u, a)
      <4>1. /\ events'[u] = Append(events[u], [session |-> sessionId[u], exit |-> FALSE])
            /\ sessionId'[u] = sessionId[u] /\ length'[u] = length[u] + 1 /\ hidden'[u] = a
        BY <3>3 DEF Extended, TypeOK
      <4>2. Numbered(events'[u], sessionId'[u])
        <5>1. sessionId[u] + (IF FALSE THEN 1 ELSE 0) = sessionId[u]
          BY <1>1
        <5> QED
          BY <1>1, <3>2, <4>1, <5>1, NumberedAppended
      <4> QED
        BY <2>4, <3>1, <3>2, <4>1, <4>2
    <3>4. CASE Ended(u, a, start + watch)
      <4>1. /\ events'[u] = Append(events[u], [session |-> sessionId[u], exit |-> TRUE])
            /\ sessionId'[u] = sessionId[u] + 1 /\ length'[u] = 0
            /\ hidden'[u] = Closed(a, start + watch)
        BY <3>4 DEF Ended, TypeOK
      <4>2. Numbered(events'[u], sessionId'[u])
        <5>1. sessionId[u] + (IF TRUE THEN 1 ELSE 0) = sessionId[u] + 1
          OBVIOUS
        <5> QED
          BY <1>1, <3>2, <4>1, <5>1, NumberedAppended
      <4>3. hidden'[u].impressions = 0
        BY <3>1, <4>1 DEF Closed, Impressions
      <4> QED
        BY <2>4, <4>1, <4>2, <4>3
    <3> QED
      BY <3>1, <3>3, <3>4
  <2>5. CASE v = u /\ model = "rotation"
    <3>1. Filled(events[u], targets[u], length[u])
      BY <2>5 DEF VisibleInv
    <3>2. CASE StepOpens(u, r, start, watch)
      <4>1. PICK t \in SessionTargets : targets' = [targets EXCEPT ![u] = Append(@, t)]
        BY <3>2 DEF StepOpens
      <4>2. /\ events'[u] = Append(events[u], [session |-> Len(targets[u]), exit |-> FALSE])
            /\ length'[u] = 1 /\ targets'[u] = Append(targets[u], t)
            /\ targets[u] # <<>> => length[u] >= targets[u][Len(targets[u])]
        BY <3>2, <4>1 DEF StepOpens, Advance, TypeOK, TargetReached, Last
      <4>3. Filled(events'[u], targets'[u], length'[u])
        BY <1>1, <3>1, <4>2, FilledOpens
      <4> QED
        BY <2>5, <4>3
    <3>3. CASE StepContinues(u, r, start, watch)
      <4>1. /\ events'[u] = Append(events[u], [session |-> sessionId[u], exit |-> FALSE])
            /\ length'[u] = length[u] + 1 /\ targets'[u] = targets[u]
            /\ targets[u] # <<>> /\ ~(length[u] >= targets[u][Len(targets[u])])
        BY <3>3 DEF StepContinues, Advance, TypeOK, TargetReached, Last
      <4>2. sessionId[u] = Len(targets[u]) - 1
        BY <2>5, <4>1 DEF VisibleInv, RotationIds
      <4>3. length[u] < targets[u][Len(targets[u])]
        <5>1. Len(targets[u]) \in 1..Len(targets[u])
          BY <1>1, <4>1, EmptySeq
        <5>2. targets[u][Len(targets[u])] \in SessionTargets
          BY <1>1, <5>1, ElementOfSeq
        <5>3. targets[u][Len(targets[u])] \in Nat
          BY <5>2, SimulatorAssumption
        <5>4. length[u] \in Nat
          BY <1>1
        <5> QED
          BY <4>1, <5>3, <5>4
      <4>4. Filled(events'[u], targets'[u], length'[u])
        BY <1>1, <3>1, <4>1, <4>2, <4>3, FilledContinues
      <4> QED
        BY <2>5, <4>4
    <3> QED
      BY <1>2, <2>5, <3>2, <3>3 DEF Step, StepV2Stays, StepV2Exits
  <2>6. model \in {"rotation", "dynamics"}
    BY SimulatorAssumption DEF TypeOK
  <2> QED
    BY <2>3, <2>4, <2>5, <2>6
<1>3. ASSUME UNCHANGED <<model, events, sessionId, length, targets>>,
             drained' \/ (drained' = drained /\ hidden' = hidden)
      PROVE  VisibleInv'
  BY <1>3 DEF VisibleInv, RotationIds
<1>4. CASE DrainOpenSessions
  BY <1>3, <1>4 DEF DrainOpenSessions, config
<1>5. CASE UNCHANGED vars
  BY <1>3, <1>5 DEF vars, config
<1> QED
  BY <1>2, <1>4, <1>5 DEF Next

\* What the recommender is shown of sessions is what happened: with session
\* dynamics the id moves on after an exit and nowhere else, and without them
\* every session but the last lasts its drawn number of impressions, for any
\* targets (step, stepV2).
THEOREM VisibleSessionsCorrect == Spec => []VisibleSessions
<1>1. Init => VisibleInv
  BY DEF Init, VisibleInv, RotationIds, Numbered, Filled, NoSession
<1>2. ASSUME TypeOK, VisibleInv PROVE VisibleSessions
  BY <1>2 DEF VisibleSessions, VisibleInv, Numbered, Filled, OfSession
<1> QED
  BY <1>1, <1>2, VisibleStep, TypeCorrect, PTL DEF Spec

\* Sessions account for every impression, whichever model closes them.
THEOREM SessionsAccountedCorrect == Spec => []SessionsAccounted
BY EveryImpressionRecordedCorrect, VisibleSessionsCorrect, PTL DEF SessionsAccounted
------------------------------------------------------------------------------
(* The session-health books *)

Kinds == {"closed", "open", "linked"}

\* What the tally of a record of each of these users adds to a count.
Tally(who, kind, k) ==
  CASE k = "linked" -> Cardinality({u \in who : records[u] # <<>>})
    [] k = kind -> Cardinality(who)
    [] OTHER -> 0

LEMMA TalliedFacts ==
  ASSUME NEW h \in [Kinds -> Nat], NEW who \in SUBSET Users, NEW kind \in {"closed", "open"}
  PROVE  /\ Tallied(h, who, kind) \in [Kinds -> Nat]
         /\ \A k \in Kinds : Tally(who, kind, k) \in Nat
         /\ \A k \in Kinds : Tallied(h, who, kind)[k] = h[k] + Tally(who, kind, k)
<1> DEFINE n == Cardinality(who)
           m == Cardinality({u \in who : records[u] # <<>>})
<1>1. n \in Nat /\ m \in Nat
  <2>1. IsFiniteSet(Users)
    BY SimulatorAssumption
  <2>2. IsFiniteSet(who)
    BY <2>1, FS_Subset
  <2>3. {u \in who : records[u] # <<>>} \in SUBSET who
    OBVIOUS
  <2>4. IsFiniteSet({u \in who : records[u] # <<>>})
    BY <2>2, <2>3, FS_Subset
  <2> QED
    BY <2>2, <2>4, FS_CardinalityType
<1>2. \A k \in Kinds : Tally(who, kind, k) = IF k = "linked" THEN m ELSE IF k = kind THEN n ELSE 0
  BY DEF Tally
<1>3. Tallied(h, who, kind) = [h EXCEPT ![kind] = @ + n, !["linked"] = @ + m]
  BY DEF Tallied
<1>4. kind \in Kinds /\ "linked" \in Kinds /\ kind # "linked"
  BY DEF Kinds
<1> HIDE DEF n, m
<1> QED
  BY <1>1, <1>2, <1>3, <1>4

HealthInv == health \in [Kinds -> Nat] /\ HealthBooksBalance

\* The users with a record, and those whose last one the run has ended.
Seen == {u \in Users : records[u] # <<>>}
EndedByRun == {u \in Users : records[u] # <<>> /\ ~Last(records[u]).exit}
AllRecords == Total([u \in Users |-> Len(records[u])], Users)

\* Before the drain no record is of an open session.
LEMMA NoneOpen ==
  ASSUME TypeOK, SessionInv, ~drained
  PROVE  EndedByRun = {}
<1> SUFFICES ASSUME NEW u \in Users, records[u] # <<>> PROVE Last(records[u]).exit
  BY DEF EndedByRun
<1>1. records[u] \in Seq(Records) /\ \A k \in DOMAIN records[u] : records[u][k].exit
  BY DEF TypeOK, SessionInv, Remembered
<1>2. Len(records[u]) \in DOMAIN records[u]
  BY <1>1, EmptySeq
<1> QED
  BY <1>1, <1>2 DEF Last

\* A step that records something of each user of who, by exits or by the drain,
\* keeps the books in balance.
LEMMA HealthMoves ==
  ASSUME TypeOK, HealthInv, NEW who \in SUBSET Users, NEW kind \in {"closed", "open"},
         EndedByRun = {},
         \A u \in who : Len(records'[u]) = Len(records[u]) + 1,
         \A u \in Users \ who : records'[u] = records[u],
         EndedByRun' = IF kind = "open" THEN who ELSE {},
         health' = Tallied(health, who, kind)
  PROVE  HealthInv'
<1>1. IsFiniteSet(Users) /\ IsFiniteSet(who) /\ Cardinality(who) \in Nat
  BY SimulatorAssumption, FS_Subset, FS_CardinalityType
<1>2. \A u \in Users : Len(records[u]) \in Nat /\ (records[u] = <<>> <=> Len(records[u]) = 0)
  BY EmptySeq DEF TypeOK
<1>3. AllRecords \in Nat /\ AllRecords' = AllRecords + Cardinality(who)
  <2> DEFINE c == [u \in Users |-> Len(records[u])]
             d == [u \in Users |-> Len(records'[u])]
  <2>1. \A u \in Users : c[u] \in Nat /\ d[u] = c[u] + (IF u \in who THEN 1 ELSE 0)
    <3> SUFFICES ASSUME NEW u \in Users
                 PROVE  c[u] \in Nat /\ d[u] = c[u] + (IF u \in who THEN 1 ELSE 0)
      OBVIOUS
    <3>1. c[u] = Len(records[u]) /\ d[u] = Len(records'[u]) /\ c[u] \in Nat
      BY <1>2
    <3>2. CASE u \in who
      BY <3>1, <3>2
    <3>3. CASE u \notin who
      BY <3>1, <3>3
    <3> QED
      BY <3>2, <3>3
  <2>2. AllRecords = Total(c, Users) /\ AllRecords' = Total(d, Users)
    BY DEF AllRecords
  <2> HIDE DEF c, d
  <2> QED
    BY <1>1, <2>1, <2>2, TotalEachMore, TotalFacts
<1> DEFINE linked == {u \in who : records[u] # <<>>}
<1>4. Seen' = Seen \cup who
  <2>1. \A u \in who : records'[u] # <<>>
    <3>1. \A u \in who : Len(records'[u]) # 0
      BY <1>2
    <3> QED
      BY <3>1
  <2> QED
    BY <2>1 DEF Seen
<1>5. /\ Cardinality(Seen) \in Nat
      /\ Cardinality(Seen') = Cardinality(Seen) + Cardinality(who) - Cardinality(linked)
      /\ Cardinality(linked) \in Nat
  <2>1. Seen \in SUBSET Users /\ Seen \cap who = linked
    BY DEF Seen
  <2>2. IsFiniteSet(Seen) /\ IsFiniteSet(linked)
    BY <1>1, <2>1, FS_Subset
  <2>3. Cardinality(Seen \cup who) = Cardinality(Seen) + Cardinality(who) - Cardinality(Seen \cap who)
    BY <1>1, <2>2, FS_Union
  <2> QED
    BY <1>4, <2>1, <2>2, <2>3, FS_CardinalityType
<1>6. /\ health' \in [Kinds -> Nat] /\ \A k \in Kinds : health[k] \in Nat
      /\ health'["linked"] = health["linked"] + Cardinality(linked)
      /\ health'["closed"] = health["closed"] + (IF kind = "closed" THEN Cardinality(who) ELSE 0)
      /\ health'["open"] = health["open"] + (IF kind = "open" THEN Cardinality(who) ELSE 0)
  <2>1. health \in [Kinds -> Nat] /\ "linked" \in Kinds /\ "closed" \in Kinds /\ "open" \in Kinds
    BY DEF HealthInv, Kinds
  <2> HIDE DEF linked
  <2>2. /\ Tally(who, kind, "linked") = Cardinality(linked)
        /\ Tally(who, kind, "closed") = IF kind = "closed" THEN Cardinality(who) ELSE 0
        /\ Tally(who, kind, "open") = IF kind = "open" THEN Cardinality(who) ELSE 0
    BY DEF Tally, linked
  <2>3. /\ Tallied(health, who, kind) \in [Kinds -> Nat]
        /\ \A k \in Kinds : Tallied(health, who, kind)[k] = health[k] + Tally(who, kind, k)
    BY <2>1, TalliedFacts
  <2>4. \A k \in Kinds : health'[k] = health[k] + Tally(who, kind, k)
    BY <2>3
  <2> QED
    BY <2>1, <2>2, <2>3, <2>4
<1>7. /\ health["open"] = 0 /\ health["closed"] = AllRecords
      /\ health["linked"] = AllRecords - Cardinality(Seen)
  <2>1. /\ health["open"] = Cardinality(EndedByRun)
        /\ health["closed"] = AllRecords - Cardinality(EndedByRun)
        /\ health["linked"] = AllRecords - Cardinality(Seen)
    BY DEF HealthInv, HealthBooksBalance, EndedByRun, AllRecords, Seen
  <2>2. Cardinality(EndedByRun) = 0
    BY FS_EmptySet
  <2> QED
    BY <1>3, <2>1, <2>2
<1>8. Cardinality(EndedByRun') = IF kind = "open" THEN Cardinality(who) ELSE 0
  BY FS_EmptySet
<1> HIDE DEF linked
<1>9. /\ health'["open"] = Cardinality(EndedByRun')
      /\ health'["closed"] = AllRecords' - Cardinality(EndedByRun')
      /\ health'["linked"] = AllRecords' - Cardinality(Seen')
  <2>1. kind = "closed" \/ kind = "open"
    OBVIOUS
  <2>2. health'["linked"] = AllRecords' - Cardinality(Seen')
    BY <1>1, <1>3, <1>5, <1>6, <1>7
  <2>3. CASE kind = "closed"
    BY <1>1, <1>3, <1>6, <1>7, <1>8, <2>2, <2>3
  <2>4. CASE kind = "open"
    BY <1>1, <1>3, <1>6, <1>7, <1>8, <2>2, <2>4
  <2> QED
    BY <2>1, <2>3, <2>4
<1> QED
  BY <1>6, <1>9 DEF HealthInv, HealthBooksBalance, EndedByRun, AllRecords, Seen

\* Exits and the drain are tallied as they are recorded.
LEMMA HealthStep ==
  ASSUME TypeOK, SessionInv, RotationIds, HealthInv, [DynNext]_dynVars
  PROVE  HealthInv'
<1>1. ASSUME UNCHANGED <<health, records>> PROVE HealthInv'
  BY <1>1 DEF HealthInv, HealthBooksBalance
<1>2. ASSUME NEW u \in Users, NEW r \in Reels, NEW start \in Starts \cup {now},
             NEW watch \in WatchTimes, Impression(u, r, start, watch)
      PROVE  HealthInv'
  <2>1. /\ Step(u, r, start, watch)
        /\ IF Last(events'[u]).exit THEN health' = Tallied(health, {u}, "closed")
                                    ELSE health' = health
    BY <1>2 DEF Impression
  <2>2. PICK e \in Event : Outcome(u, e)
    BY <2>1, StepOutcome
  <2>3. Last(events'[u]) = e
    <3>1. events \in [Users -> Seq(Event)] /\ events' = [events EXCEPT ![u] = Append(@, e)]
      BY <2>2 DEF TypeOK, Event, Outcome
    <3>2. Len(events'[u]) = Len(events[u]) + 1 /\ events'[u][Len(events[u]) + 1] = e
      BY <3>1, Appended
    <3> QED
      BY <3>2 DEF Last
  <2>4. ~drained /\ ~drained' /\ SessionInv' /\ TypeOK'
    BY <2>1, StepType, SessionStep DEF Step
  <2>5. EndedByRun = {} /\ EndedByRun' = {}
    <3>1. EndedByRun = {}
      BY <2>4, NoneOpen
    <3>2. (TypeOK /\ SessionInv /\ ~drained => EndedByRun = {})'
      BY NoneOpen, PTL
    <3> QED
      BY <2>4, <3>1, <3>2
  <2>6. CASE ~e.exit
    BY <1>1, <2>1, <2>2, <2>3, <2>6 DEF Outcome
  <2>7. CASE e.exit
    <3>1. PICK rec \in Records : records' = [records EXCEPT ![u] = Append(@, rec)]
      BY <2>2, <2>7 DEF Outcome
    <3>2. records \in [Users -> Seq(Records)]
      BY DEF TypeOK
    <3>3. Len(records'[u]) = Len(records[u]) + 1 /\ \A v \in Users : v # u => records'[v] = records[v]
      BY <3>1, <3>2, Appended
    <3>4. health' = Tallied(health, {u}, "closed")
      BY <2>1, <2>3, <2>7
    <3> DEFINE who == {u}
               kind == "closed"
    <3>5. /\ who \in SUBSET Users /\ kind \in {"closed", "open"}
          /\ \A v \in who : Len(records'[v]) = Len(records[v]) + 1
          /\ \A v \in Users \ who : records'[v] = records[v]
          /\ EndedByRun' = IF kind = "open" THEN who ELSE {}
          /\ health' = Tallied(health, who, kind)
      BY <2>5, <3>3, <3>4
    <3> HIDE DEF who, kind
    <3> QED
      BY <2>5, <3>5, HealthMoves
  <2> QED
    BY <2>6, <2>7
<1>3. CASE DrainSessions
  <2>1. /\ ~drained /\ health' = Tallied(health, OpenUsers, "open")
        /\ records' = [u \in Users |->
                         IF u \in OpenUsers
                         THEN Append(records[u], MakeSessionRecord(hidden[u], sessionId[u], FALSE))
                         ELSE records[u]]
    BY <1>3 DEF DrainSessions, DrainOpenSessions
  <2>2. EndedByRun = {}
    BY <2>1, NoneOpen
  <2>3. \A u \in OpenUsers : /\ Len(records'[u]) = Len(records[u]) + 1 /\ records'[u] # <<>>
                             /\ ~Last(records'[u]).exit
    <3> SUFFICES ASSUME NEW u \in OpenUsers
                 PROVE  /\ Len(records'[u]) = Len(records[u]) + 1 /\ records'[u] # <<>>
                        /\ ~Last(records'[u]).exit
      OBVIOUS
    <3> DEFINE rec == MakeSessionRecord(hidden[u], sessionId[u], FALSE)
    <3>1. u \in Users
      BY DEF OpenUsers
    <3>2. hidden[u] \in Impressions /\ sessionId[u] \in Nat /\ records[u] \in Seq(Records)
      BY <3>1 DEF TypeOK
    <3>3. rec \in Records /\ ~rec.exit /\ records'[u] = Append(records[u], rec)
      BY <2>1, <3>1, <3>2, RecordType DEF MakeSessionRecord
    <3> HIDE DEF rec
    <3>4. /\ Len(records'[u]) = Len(records[u]) + 1 /\ Len(records[u]) \in Nat
          /\ records'[u][Len(records[u]) + 1] = rec
      BY <3>2, <3>3
    <3>5. Last(records'[u]) = rec
      BY <3>4 DEF Last
    <3>6. records'[u] # <<>>
      BY <3>2, <3>3
    <3> QED
      BY <3>3, <3>4, <3>5, <3>6
  <2>4. \A u \in Users \ OpenUsers : records'[u] = records[u]
    BY <2>1
  <2>5. EndedByRun' = OpenUsers
    <3>1. \A u \in Users : u \in EndedByRun <=> records[u] # <<>> /\ ~Last(records[u]).exit
      BY DEF EndedByRun
    <3>2. \A u \in Users : u \in EndedByRun' <=> records'[u] # <<>> /\ ~Last(records'[u]).exit
      BY DEF EndedByRun
    <3>3. EndedByRun' \subseteq Users /\ OpenUsers \subseteq Users
      BY DEF EndedByRun, OpenUsers
    <3> QED
      BY <2>2, <2>3, <2>4, <3>1, <3>2, <3>3
  <2> DEFINE kind == "open"
  <2>6. PICK who : who = OpenUsers
    OBVIOUS
  <2>7. /\ who \in SUBSET Users /\ kind \in {"closed", "open"}
        /\ \A u \in who : Len(records'[u]) = Len(records[u]) + 1
        /\ \A u \in Users \ who : records'[u] = records[u]
        /\ EndedByRun' = IF kind = "open" THEN who ELSE {}
        /\ health' = Tallied(health, who, kind)
    <3>1. OpenUsers \subseteq Users
      BY DEF OpenUsers
    <3> QED
      BY <2>1, <2>3, <2>4, <2>5, <2>6, <3>1
  <2> HIDE DEF kind
  <2> QED
    BY <2>2, <2>7, HealthMoves
<1>4. ASSUME NEW u \in Users, NEW delay \in ReturnDelays, ExitApp(u, delay)
      PROVE  HealthInv'
  BY <1>1, <1>4 DEF ExitApp, vars
<1>5. CASE UNCHANGED dynVars
  BY <1>1, <1>5 DEF dynVars, vars
<1> QED
  BY <1>2, <1>3, <1>4, <1>5 DEF DynNext

\* Nothing is booked before anything is recorded.
LEMMA HealthInitially == DynInit => HealthInv
<1> SUFFICES ASSUME DynInit PROVE HealthInv
  OBVIOUS
<1>1. /\ health \in [Kinds -> Nat] /\ \A k \in Kinds : health[k] = 0
      /\ \A u \in Users : records[u] = <<>>
  BY DEF DynInit, Init, NoHealth, Kinds
<1>2. AllRecords = 0
  <2> DEFINE c == [u \in Users |-> Len(records[u])]
  <2>1. \A u \in Users : c[u] = 0
    BY <1>1
  <2> HIDE DEF c
  <2>2. Total(c, Users) = 0
    BY <2>1, SimulatorAssumption, TotalZero
  <2> QED
    BY <2>2 DEF AllRecords, c
<1>3. Cardinality(Seen) = 0 /\ Cardinality(EndedByRun) = 0
  <2>1. Seen = {} /\ EndedByRun = {}
    BY <1>1 DEF Seen, EndedByRun
  <2> QED
    BY <2>1, FS_EmptySet
<1>4. health["open"] = 0 /\ health["closed"] = 0 /\ health["linked"] = 0
  BY <1>1 DEF Kinds
<1>5. /\ health["open"] = Cardinality(EndedByRun)
      /\ health["closed"] = AllRecords - Cardinality(EndedByRun)
      /\ health["linked"] = AllRecords - Cardinality(Seen)
  BY <1>2, <1>3, <1>4
<1> QED
  BY <1>1, <1>5 DEF HealthInv, HealthBooksBalance, EndedByRun, AllRecords, Seen

\* Every session is in the health books once, those the run ended apart, and
\* one is linked to the session before exactly when its user had one, however
\* exits and the drain interleave (SessionHealthMetrics.add, openShare).
THEOREM HealthBooksBalanceCorrect == DynSpec => []HealthBooksBalance
<1>2. HealthInv => HealthBooksBalance
  BY DEF HealthInv
<1> QED
  BY <1>2, HealthInitially, HealthStep, DynSessions, PTL DEF DynSpec

\* Sessions account for every impression, and the health books for every
\* session, with all the hooks in place.
THEOREM SessionsBookedCorrect == DynSpec => []SessionsBooked
<1>1. DynSpec => []SessionsAccounted
  BY ImplementsSimulator, SessionsAccountedCorrect, PTL
<1> QED
  BY <1>1, HealthBooksBalanceCorrect, PTL DEF SessionsBooked
------------------------------------------------------------------------------
(* Days *)

\* A number lies in the day its quotient names.
LEMMA Quotient ==
  ASSUME NEW t \in Nat, NEW c \in Nat \ {0}
  PROVE  t \div c \in Nat /\ (t \div c) * c <= t /\ t < (t \div c) * c + c
OBVIOUS

LEMMA ProductIsNat ==
  ASSUME NEW a \in Nat, NEW c \in Nat
  PROVE  a * c \in Nat
OBVIOUS

LEMMA MoreDays ==
  ASSUME NEW a \in Nat, NEW b \in Nat, NEW c \in Nat, a <= b
  PROVE  a * c <= b * c
OBVIOUS

LEMMA OneDayMore ==
  ASSUME NEW a \in Nat, NEW b \in Nat, NEW c \in Nat
  PROVE  (a + b) * c = a * c + b * c
OBVIOUS

\* A time is on day m or later exactly when m days have passed.
LEMMA QuotientReaches ==
  ASSUME NEW t \in Nat, NEW c \in Nat \ {0}, NEW m \in Nat
  PROVE  m <= t \div c <=> m * c <= t
<1> DEFINE q == t \div c
<1>1. q \in Nat /\ q * c <= t /\ t < q * c + c
  BY Quotient
<1> HIDE DEF q
<1>2. m * c \in Nat /\ q * c \in Nat /\ (q + 1) * c = q * c + c
  <2>1. (q + 1) * c = q * c + 1 * c /\ 1 * c = c
    BY <1>1, OneDayMore
  <2> QED
    BY <1>1, <2>1, ProductIsNat
<1>3. ASSUME m <= q PROVE m * c <= t
  BY <1>1, <1>2, <1>3, MoreDays
<1>4. ASSUME m * c <= t PROVE m <= q
  <2>1. SUFFICES ASSUME q + 1 <= m PROVE FALSE
    BY <1>1
  <2>2. (q + 1) * c <= m * c
    BY <1>1, <2>1, MoreDays
  <2> QED
    BY <1>1, <1>2, <1>4, <2>2
<1> QED
  BY <1>3, <1>4 DEF q

\* Days follow their times, up to the last one, which takes the rest.
LEMMA DayFacts ==
  /\ NumDays \in Nat \ {0} /\ NumDays - 1 \in Days /\ IsFiniteSet(Days) /\ Days \subseteq Nat
  /\ \A t \in Nat : DayOf(t) \in Days
  /\ \A s, t \in Nat : s <= t => DayOf(s) <= DayOf(t)
  /\ \A t \in Nat : t <= Horizon => DayOf(t) = t \div DayLength
<1>1. \A t \in Nat : t \div DayLength \in Nat
  BY BooksAssumption, Quotient
<1>2. \A s, t \in Nat : s <= t => s \div DayLength <= t \div DayLength
  <2> SUFFICES ASSUME NEW s \in Nat, NEW t \in Nat, s <= t
               PROVE  s \div DayLength <= t \div DayLength
    OBVIOUS
  <2> DEFINE m == s \div DayLength
  <2>1. m \in Nat /\ m * DayLength <= s
    BY BooksAssumption, Quotient
  <2> HIDE DEF m
  <2>2. m * DayLength \in Nat
    BY <2>1, ProductIsNat, BooksAssumption
  <2>3. m * DayLength <= t
    BY <2>1, <2>2
  <2> QED
    BY <2>1, <2>3, QuotientReaches, BooksAssumption DEF m
<1> DEFINE Q(t) == t \div DayLength
           last == Q(Horizon)
<1>3. last \in Nat /\ NumDays = last + 1 /\ NumDays - 1 = last /\ Days = 0..last
  BY <1>1, BooksAssumption DEF NumDays, Days
<1>4. \A t \in Nat : DayOf(t) = IF Q(t) <= last THEN Q(t) ELSE last
  <2> SUFFICES ASSUME NEW t \in Nat PROVE DayOf(t) = IF Q(t) <= last THEN Q(t) ELSE last
    OBVIOUS
  <2>1. DayOf(t) = Min({Q(t), last})
    BY <1>3 DEF DayOf
  <2>2. Q(t) \in Nat /\ last \in Nat
    BY <1>1, <1>3
  <2> HIDE DEF Q, last
  <2> QED
    BY <2>1, <2>2 DEF Min
<1>5. \A t \in Nat : Q(t) \in Nat
  BY <1>1
<1>6. \A s, t \in Nat : s <= t => Q(s) <= Q(t)
  BY <1>2
<1>7. Horizon \in Nat
  BY BooksAssumption
<1>8. IsFiniteSet(0..last)
  <2>1. 0 \in Int /\ last \in Int
    BY <1>3
  <2> HIDE DEF last
  <2> QED
    BY <2>1, FS_Interval
<1>9. \A t \in Nat : t <= Horizon => Q(t) <= last
  BY <1>6, <1>7
<1> SUFFICES /\ \A t \in Nat : DayOf(t) \in 0..last
             /\ \A s, t \in Nat : s <= t => DayOf(s) <= DayOf(t)
             /\ \A t \in Nat : t <= Horizon => DayOf(t) = Q(t)
  BY <1>3, <1>8
<1> HIDE DEF Q, last
<1> QED
  BY <1>3, <1>4, <1>5, <1>6, <1>9

------------------------------------------------------------------------------
(* What the handlers book *)

EcosystemRows == [impressions : Nat, creators : [Reels -> Nat], niche : Nat, matches : Nat]

BooksType ==
  /\ healthDay \in [Days -> [Kinds -> Nat]]
  /\ longTermDay \in [Days -> [sessions : Nat, active : SUBSET Users]]
  /\ userSessions \in [Users -> Seq(Nat)]
  /\ churnDay \in [Users -> -1..NumDays - 1]
  /\ returnDelays \in Nat
  /\ ecosystemDay \in [Days -> EcosystemRows]

\* Who is away is away once, and the report comes with the drain.
AwayInv ==
  /\ clock = "event" => model = "dynamics"
  /\ leaving \subseteq Users /\ churned \subseteq Users /\ leaving \cap churned = {}
  /\ clock # "event" => leaving = {} /\ churned = {}
  /\ report # <<>> => drained /\ clock = "event"

BaseInv == BooksType /\ AwayInv

\* An impression of u at start, in a session that began at b and that it may
\* end, and what it books.
BooksSession(u, b, start, exit) ==
  IF exit
  THEN /\ health' = Tallied(health, {u}, "closed")
       /\ healthDay' = [healthDay EXCEPT ![DayOf(start)] = Tallied(@, {u}, "closed")]
       /\ IF LongTermGate
          THEN /\ longTermDay' = [longTermDay EXCEPT ![DayOf(b)] =
                                    [sessions |-> @.sessions + 1, active |-> @.active \cup {u}]]
               /\ userSessions' = [userSessions EXCEPT ![u] = Append(@, b)]
          ELSE UNCHANGED <<longTermDay, userSessions>>
  ELSE UNCHANGED <<health, healthDay, longTermDay, userSessions>>

MovesUser(u, b, start, exit) ==
  /\ popped <= start /\ popped' = start
  /\ ready[u] <= start /\ start <= ready'[u] /\ \A v \in Users : v # u => ready'[v] = ready[v]
  /\ u \notin leaving \cup churned
  /\ leaving' = IF exit THEN leaving \cup {u} ELSE leaving
  /\ b = IF hidden[u].impressions = 0 THEN start ELSE hidden[u].start
  /\ exit => hidden'[u].impressions = 0
  /\ ~exit => hidden'[u].start = b
  /\ \A v \in Users : v # u => hidden'[v] = hidden[v]
  /\ Len(events'[u]) = Len(events[u]) + 1
  /\ \A v \in Users : v # u => events'[v] = events[v]

BooksStepOf(u, r, b, start, exit) ==
  /\ ~drained /\ start \in Nat /\ start <= Horizon /\ b \in Nat /\ b <= start
  /\ MovesUser(u, b, start, exit) /\ BooksSession(u, b, start, exit)
  /\ CountEcosystem(u, r, DayOf(start))
  /\ UNCHANGED <<clock, model, gates, drained, churned, churnDay, returnDelays, report>>

LEMMA BookImpressionFacts ==
  ASSUME TypeOK, SessionInv, BaseInv, clock = "event", NEW u \in Users, NEW r \in Reels,
         NEW start \in Starts \cup {now}, NEW watch \in WatchTimes,
         BookImpression(u, r, start, watch)
  PROVE  \E b \in Nat, exit \in BOOLEAN : BooksStepOf(u, r, b, start, exit)
<1>1. /\ start <= Horizon /\ Impression(u, r, start, watch) /\ CountEcosystem(u, r, DayOf(start))
      /\ IF Last(events'[u]).exit
         THEN /\ BookSession(u, Last(records'[u]))
              /\ healthDay' = [healthDay EXCEPT ![DayOf(start)] = Tallied(@, {u}, "closed")]
         ELSE UNCHANGED <<longTermDay, userSessions, healthDay>>
      /\ UNCHANGED <<churnDay, returnDelays, report>>
  BY DEF BookImpression
<1>2. /\ Step(u, r, start, watch) /\ u \notin leaving \cup churned
      /\ IF Last(events'[u]).exit
         THEN /\ health' = Tallied(health, {u}, "closed") /\ leaving' = leaving \cup {u}
         ELSE UNCHANGED <<health, leaving>>
      /\ UNCHANGED <<gates, churned>>
  BY <1>1 DEF Impression
<1>3. model = "dynamics"
  BY DEF BaseInv, AwayInv
<1> DEFINE a == Accumulated(u, start, start + watch)
           b == a.start
<1>4. /\ start \in Nat /\ start + watch \in Nat /\ start <= start + watch
      /\ a \in Impressions /\ hidden[u] \in Impressions
      /\ a.impressions = hidden[u].impressions + 1
      /\ b = IF hidden[u].impressions = 0 THEN start ELSE hidden[u].start
      /\ Extended(u, a) \/ Ended(u, a, start + watch)
      /\ ~drained /\ drained' = drained /\ model' = model
      /\ MakeSessionRecord(a, sessionId[u], TRUE) \in Records
  BY <1>2, <1>3, DynamicsStep
<1>5. /\ StartsAt(u, start) /\ clock' = clock
      /\ popped' = start
      /\ \E exit \in BOOLEAN :
           ready' = [ready EXCEPT ![u] = start + watch + (IF exit THEN 0 ELSE BrowseOverhead)]
  BY <1>2 DEF Step, config, StepOpens, StepContinues, StepV2Stays, StepV2Exits, Advance
<1>6. b \in Nat /\ b <= start
  <2>1. b \in Nat
    BY <1>4 DEF Impressions
  <2>2. CASE hidden[u].impressions = 0
    BY <1>4, <2>2
  <2>3. CASE hidden[u].impressions # 0
    <3>1. hidden[u].impressions > 0 /\ hidden[u].start \in Nat /\ hidden[u].last \in Nat
      BY <1>4, <2>3 DEF Impressions
    <3>2. Opened(u)
      BY <1>4 DEF SessionInv
    <3>3. hidden[u].start <= hidden[u].last /\ hidden[u].last <= ready[u]
      BY <3>1, <3>2 DEF Opened, Floor
    <3>4. ready[u] <= start /\ ready[u] \in Nat
      BY <1>5 DEF StartsAt, TypeOK
    <3> QED
      BY <1>4, <2>3, <3>1, <3>3, <3>4
  <2> QED
    BY <2>1, <2>2, <2>3
<1>7. /\ popped <= start /\ ready[u] <= start /\ start <= ready'[u]
      /\ \A v \in Users : v # u => ready'[v] = ready[v]
  <2>1. PICK gap \in Nat : ready' = [ready EXCEPT ![u] = start + watch + gap]
    BY <1>5, SimulatorAssumption
  <2>2. popped <= start /\ ready[u] <= start
    BY <1>5 DEF StartsAt
  <2>3. ready'[u] = start + watch + gap
    BY <2>1 DEF TypeOK
  <2>4. start <= ready'[u]
    BY <1>4, <2>3
  <2> QED
    BY <2>1, <2>2, <2>4 DEF TypeOK
<1>8. events \in [Users -> Seq(Event)]
  BY DEF TypeOK, Event
<1> HIDE DEF a
<1>9. CASE Extended(u, a)
  <2> DEFINE e == [session |-> sessionId[u], exit |-> FALSE]
  <2>1. e \in Event /\ events' = [events EXCEPT ![u] = Append(@, e)]
    BY <1>9 DEF Extended, TypeOK, Event
  <2>2. /\ Len(events'[u]) = Len(events[u]) + 1 /\ events'[u][Len(events[u]) + 1] = e
        /\ \A v \in Users : v # u => events'[v] = events[v]
    <3> HIDE DEF e
    <3> QED
      BY <1>8, <2>1, Appended
  <2>3. ~Last(events'[u]).exit
    BY <2>2 DEF Last
  <2>4. hidden'[u].start = b /\ \A v \in Users : v # u => hidden'[v] = hidden[v]
    BY <1>9 DEF Extended, TypeOK
  <2>5. MovesUser(u, b, start, FALSE)
    <3> HIDE DEF b
    <3> QED
      BY <1>2, <1>4, <1>5, <1>7, <2>2, <2>3, <2>4 DEF MovesUser
  <2>6. BooksSession(u, b, start, FALSE)
    BY <1>1, <1>2, <2>3 DEF BooksSession
  <2>7. BooksStepOf(u, r, b, start, FALSE)
    <3> HIDE DEF b
    <3> QED
      BY <1>1, <1>2, <1>4, <1>5, <1>6, <2>5, <2>6 DEF BooksStepOf
  <2> QED
    BY <1>6, <2>7
<1>10. CASE Ended(u, a, start + watch)
  <2> DEFINE e == [session |-> sessionId[u], exit |-> TRUE]
             rec == MakeSessionRecord(a, sessionId[u], TRUE)
  <2>1. /\ e \in Event /\ events' = [events EXCEPT ![u] = Append(@, e)]
        /\ rec \in Records /\ rec.start = b /\ records' = [records EXCEPT ![u] = Append(@, rec)]
    BY <1>4, <1>10 DEF Ended, TypeOK, Event, MakeSessionRecord
  <2>2. /\ Len(events'[u]) = Len(events[u]) + 1 /\ events'[u][Len(events[u]) + 1] = e
        /\ \A v \in Users : v # u => events'[v] = events[v]
    <3> HIDE DEF e
    <3> QED
      BY <1>8, <2>1, Appended
  <2>3. Last(events'[u]).exit
    BY <2>2 DEF Last
  <2>4. hidden'[u].impressions = 0 /\ \A v \in Users : v # u => hidden'[v] = hidden[v]
    <3>1. hidden'[u] = Closed(a, start + watch) /\ \A v \in Users : v # u => hidden'[v] = hidden[v]
      BY <1>10 DEF Ended, TypeOK
    <3> QED
      BY <1>4, <3>1 DEF Closed, Impressions
  <2>5. MovesUser(u, b, start, TRUE)
    <3> HIDE DEF b
    <3> QED
      BY <1>2, <1>4, <1>5, <1>7, <2>2, <2>3, <2>4 DEF MovesUser
  <2>6. Last(records'[u]).start = b
    <3> HIDE DEF rec, b
    <3>1. records \in [Users -> Seq(Records)]
      BY DEF TypeOK
    <3>2. Len(records'[u]) = Len(records[u]) + 1 /\ records'[u][Len(records[u]) + 1] = rec
      BY <2>1, <3>1, Appended
    <3> QED
      BY <2>1, <3>2 DEF Last
  <2>7. BooksSession(u, b, start, TRUE)
    BY <1>1, <1>2, <2>3, <2>6 DEF BooksSession, BookSession, DatedAt
  <2>8. BooksStepOf(u, r, b, start, TRUE)
    <3> HIDE DEF b
    <3> QED
      BY <1>1, <1>2, <1>4, <1>5, <1>6, <2>5, <2>7 DEF BooksStepOf
  <2> QED
    BY <1>6, <2>8
<1> QED
  BY <1>4, <1>9, <1>10

\* What an impression changes in the ecosystem book of its day, and no other.
LEMMA EcosystemMoves ==
  ASSUME ecosystemDay \in [Days -> EcosystemRows], NEW u, NEW r \in Reels, NEW day \in Days,
         CountEcosystem(u, r, day)
  PROVE  /\ ecosystemDay' \in [Days -> EcosystemRows]
         /\ \A d \in Days : d # day => ecosystemDay'[d] = ecosystemDay[d]
         /\ ecosystemDay'[day].impressions = ecosystemDay[day].impressions + 1
         /\ \E n \in {0, 1} : \E m \in 0..n :
              /\ ecosystemDay'[day].niche = ecosystemDay[day].niche + n
              /\ ecosystemDay'[day].matches = ecosystemDay[day].matches + m
<1> DEFINE n == IF r \in NicheReels THEN 1 ELSE 0
           m == IF r \in NicheReels /\ u \in Cohort THEN 1 ELSE 0
           old == ecosystemDay[day]
           row == [impressions |-> old.impressions + 1,
                   creators |-> [old.creators EXCEPT ![r] = @ + 1],
                   niche |-> old.niche + n, matches |-> old.matches + m]
<1>1. ecosystemDay' = [ecosystemDay EXCEPT ![day] = row]
  BY DEF CountEcosystem
<1>2. old \in EcosystemRows /\ n \in {0, 1} /\ m \in 0..n
  OBVIOUS
<1> HIDE DEF old, n, m
<1>3. row \in EcosystemRows
  BY <1>2 DEF EcosystemRows
<1>4. row.impressions = old.impressions + 1 /\ row.niche = old.niche + n /\ row.matches = old.matches + m
  OBVIOUS
<1> HIDE DEF row
<1>5. /\ ecosystemDay' \in [Days -> EcosystemRows] /\ ecosystemDay'[day] = row
      /\ \A d \in Days : d # day => ecosystemDay'[d] = ecosystemDay[d]
  BY <1>1, <1>3
<1> QED
  BY <1>2, <1>4, <1>5 DEF old

\* The books keep their types; who has left is gone once.
LEMMA BaseStep ==
  ASSUME TypeOK, SessionInv, BaseInv, health \in [Kinds -> Nat], [BooksNext]_booksVars
  PROVE  BaseInv'
<1>1. /\ healthDay \in [Days -> [Kinds -> Nat]]
      /\ longTermDay \in [Days -> [sessions : Nat, active : SUBSET Users]]
      /\ userSessions \in [Users -> Seq(Nat)]
      /\ churnDay \in [Users -> -1..NumDays - 1]
      /\ returnDelays \in Nat
      /\ ecosystemDay \in [Days -> EcosystemRows]
  BY DEF BaseInv, BooksType
<1>2. ASSUME NEW u \in Users, NEW r \in Reels, NEW start \in Starts \cup {now},
             NEW watch \in WatchTimes, clock = "event", BookImpression(u, r, start, watch)
      PROVE  BaseInv'
  <2>1. PICK b \in Nat, exit \in BOOLEAN : BooksStepOf(u, r, b, start, exit)
    BY <1>2, BookImpressionFacts
  <2>2. start \in Nat /\ DayOf(start) \in Days /\ DayOf(b) \in Days
    BY <2>1, DayFacts DEF BooksStepOf
  <2>3. healthDay' \in [Days -> [Kinds -> Nat]]
    <3>1. Tallied(healthDay[DayOf(start)], {u}, "closed") \in [Kinds -> Nat]
      <4>1. healthDay[DayOf(start)] \in [Kinds -> Nat]
        BY <1>1, <2>2
      <4> QED
        BY <4>1, TalliedFacts
    <3>2. healthDay' = healthDay
            \/ healthDay' = [healthDay EXCEPT ![DayOf(start)] = Tallied(healthDay[DayOf(start)], {u}, "closed")]
      BY <2>1 DEF BooksStepOf, BooksSession
    <3> QED
      BY <1>1, <3>1, <3>2
  <2>4. longTermDay' \in [Days -> [sessions : Nat, active : SUBSET Users]]
    <3> DEFINE row == [sessions |-> longTermDay[DayOf(b)].sessions + 1,
                       active |-> longTermDay[DayOf(b)].active \cup {u}]
    <3>1. longTermDay[DayOf(b)] \in [sessions : Nat, active : SUBSET Users]
      BY <1>1, <2>2
    <3>2. row \in [sessions : Nat, active : SUBSET Users]
      BY <3>1
    <3>3. longTermDay' = longTermDay \/ longTermDay' = [longTermDay EXCEPT ![DayOf(b)] = row]
      BY <2>1 DEF BooksStepOf, BooksSession
    <3> HIDE DEF row
    <3> QED
      BY <1>1, <3>2, <3>3
  <2>5. userSessions' \in [Users -> Seq(Nat)]
    <3>1. Append(userSessions[u], b) \in Seq(Nat)
      BY <1>1
    <3>2. userSessions' = userSessions
            \/ userSessions' = [userSessions EXCEPT ![u] = Append(userSessions[u], b)]
      BY <2>1 DEF BooksStepOf, BooksSession
    <3> QED
      BY <1>1, <3>1, <3>2
  <2>6. ecosystemDay' \in [Days -> EcosystemRows]
    <3>1. CountEcosystem(u, r, DayOf(start))
      BY <2>1 DEF BooksStepOf
    <3> QED
      BY <1>1, <2>2, <3>1, EcosystemMoves
  <2>7. AwayInv'
    BY <1>2, <2>1 DEF BooksStepOf, MovesUser, BaseInv, AwayInv
  <2>8. churnDay' = churnDay /\ returnDelays' = returnDelays
    BY <2>1 DEF BooksStepOf
  <2> QED
    BY <1>1, <2>3, <2>4, <2>5, <2>6, <2>7, <2>8 DEF BaseInv, BooksType
<1>3. ASSUME NEW u \in Users, NEW delay \in ReturnDelays, clock = "event", BookExit(u, delay)
      PROVE  BaseInv'
  <2>1. /\ u \in leaving /\ leaving' = leaving \ {u}
        /\ churned' = churned \cup {u} \/ churned' = churned
        /\ UNCHANGED <<clock, model, drained, report>>
        /\ UNCHANGED <<healthDay, longTermDay, userSessions, ecosystemDay>>
    BY <1>3 DEF BookExit, ExitApp, vars, config
  <2>2. returnDelays' \in Nat
    BY <1>1, <1>3 DEF BookExit
  <2>3. churnDay' \in [Users -> -1..NumDays - 1]
    <3>1. DayOf(ready[u]) \in -1..NumDays - 1
      <4>1. DayOf(ready[u]) \in Days /\ NumDays \in Nat
        BY DayFacts DEF TypeOK
      <4> QED
        BY <4>1 DEF Days
    <3> QED
      BY <1>1, <1>3, <3>1 DEF BookExit
  <2>4. AwayInv'
    BY <1>3, <2>1 DEF BaseInv, AwayInv
  <2> QED
    BY <1>1, <2>1, <2>2, <2>3, <2>4 DEF BaseInv, BooksType
<1>4. CASE clock = "event" /\ CloseBooks
  <2>1. /\ drained' /\ UNCHANGED <<clock, model, leaving, churned>>
        /\ UNCHANGED <<longTermDay, userSessions, churnDay, returnDelays, ecosystemDay>>
        /\ healthDay' = [healthDay EXCEPT ![NumDays - 1] = Tallied(@, OpenUsers, "open")]
    BY <1>4 DEF CloseBooks, DrainSessions, DrainOpenSessions, config, awayVars
  <2>2. healthDay' \in [Days -> [Kinds -> Nat]]
    <3>1. NumDays - 1 \in Days /\ OpenUsers \in SUBSET Users
      BY DayFacts DEF OpenUsers
    <3>2. Tallied(healthDay[NumDays - 1], OpenUsers, "open") \in [Kinds -> Nat]
      <4>1. healthDay[NumDays - 1] \in [Kinds -> Nat]
        BY <1>1, <3>1
      <4> QED
        BY <3>1, <4>1, TalliedFacts
    <3> QED
      BY <1>1, <2>1, <3>2
  <2>3. AwayInv'
    BY <1>4, <2>1 DEF BaseInv, AwayInv
  <2> QED
    BY <1>1, <2>1, <2>2, <2>3 DEF BaseInv, BooksType
<1>5. CASE NoBooks \/ UNCHANGED booksVars
  <2>1. UNCHANGED books
    BY <1>5 DEF NoBooks, booksVars
  <2>2. clock' = clock /\ model' = model
    <3>1. [Next]_vars
      BY BooksStepDynamics, DynStepSimulates
    <3> QED
      BY <3>1 DEF Next, Step, DrainOpenSessions, vars, config
  <2>3. AwayInv'
    <3>1. CASE UNCHANGED booksVars
      BY <3>1 DEF booksVars, books, dynVars, vars, config, awayVars, BaseInv, AwayInv
    <3>2. CASE NoBooks
      <4>1. clock # "event" /\ leaving = {} /\ churned = {} /\ report = <<>> /\ report' = report
        BY <2>1, <3>2 DEF NoBooks, books, BaseInv, AwayInv
      <4>2. leaving' = leaving /\ churned' = churned
        BY <3>2, <4>1 DEF NoBooks, DynNext, Impression, ExitApp, DrainSessions, awayVars
      <4> QED
        BY <2>2, <4>1, <4>2 DEF BaseInv, AwayInv
    <3> QED
      BY <1>5, <3>1, <3>2
  <2> QED
    BY <1>1, <2>1, <2>3 DEF books, BaseInv, BooksType
<1> QED
  BY <1>2, <1>3, <1>4, <1>5 DEF BooksNext

\* What every later step may assume of the one before.
BooksBase == TypeOK /\ SessionInv /\ HealthInv /\ BaseInv

LEMMA BooksBaseInvariant == BooksSpec => []BooksBase
<1>1. BooksInit => BaseInv
  <2> SUFFICES ASSUME BooksInit PROVE BaseInv
    OBVIOUS
  <2>1. -1 \in -1..NumDays - 1
    BY DayFacts
  <2>2. NoHealth \in [Kinds -> Nat]
    BY DEF NoHealth, Kinds
  <2>3. BooksType
    <3>1. [r \in Reels |-> 0] \in [Reels -> Nat]
      OBVIOUS
    <3>2. [impressions |-> 0, creators |-> [r \in Reels |-> 0], niche |-> 0, matches |-> 0] \in EcosystemRows
      BY <3>1 DEF EcosystemRows
    <3>3. [sessions |-> 0, active |-> {}] \in [sessions : Nat, active : SUBSET Users]
      OBVIOUS
    <3> QED
      BY <2>1, <2>2, <3>2, <3>3 DEF BooksInit, BooksType
  <2>4. AwayInv
    BY DEF BooksInit, DynInit, Init, AwayInv
  <2> QED
    BY <2>3, <2>4 DEF BaseInv
<1>2. TypeOK /\ SessionInv /\ HealthInv /\ BaseInv /\ [BooksNext]_booksVars => BaseInv'
  BY BaseStep DEF HealthInv
<1>3. BooksSpec => [](TypeOK /\ SessionInv /\ HealthInv)
  <2>1. DynInit => HealthInv
    BY HealthInitially
  <2>2. DynSpec => [](TypeOK /\ SessionInv /\ HealthInv)
    BY <2>1, HealthStep, DynSessions, PTL DEF DynSpec
  <2> QED
    BY <2>2, ImplementsDynamics, PTL
<1> QED
  BY <1>1, <1>2, <1>3, PTL DEF BooksSpec, BooksBase
------------------------------------------------------------------------------
(* The books of sessions *)

Sessions == [d \in Days |-> longTermDay[d].sessions]
OfKind(k) == [d \in Days |-> healthDay[d][k]]
Visits == [u \in Users |-> Len(userSessions[u])]

KindsAgree == \A k \in Kinds : Total(OfKind(k), Days) = health[k]
AwayAgree == returnDelays + Cardinality(churned) + Cardinality(leaving) = health["closed"]
DatesAgree ==
  /\ Total(Sessions, 0..NumDays - 1) = health["closed"]
  /\ \A d \in Days : Total(Sessions, 0..d) >= Total(OfKind("closed"), 0..d)
  /\ Total(Visits, Users) = health["closed"]

LedgerInv == clock = "event" => KindsAgree /\ AwayAgree /\ (LongTermGate => DatesAgree)

\* What is added on a day is in every total from that day on.
From(day, n, d) == IF day <= d THEN n ELSE 0

LEMMA DayMore ==
  ASSUME NEW f, NEW g, NEW day \in Days, NEW n \in Nat,
         \A d \in Days : f[d] \in Nat /\ (d # day => g[d] = f[d]), g[day] = f[day] + n
  PROVE  /\ Total(f, Days) \in Nat /\ Total(g, Days) = Total(f, Days) + n
         /\ \A d \in Days : Total(f, 0..d) \in Nat /\ Total(g, 0..d) = Total(f, 0..d) + From(day, n, d)
<1>1. Total(f, Days) \in Nat /\ Total(g, Days) = Total(f, Days) + n
  <2>1. IsFiniteSet(Days)
    BY DayFacts
  <2>2. Total(f, Days) \in Nat
    BY <2>1, TotalFacts
  <2>3. Total(g, Days) = Total(f, Days) + n
    BY <2>1, TotalMore
  <2> QED
    BY <2>2, <2>3
<1>2. ASSUME NEW d \in Days
      PROVE  Total(f, 0..d) \in Nat /\ Total(g, 0..d) = Total(f, 0..d) + From(day, n, d)
  <2> DEFINE S == 0..d
  <2>1. S \in SUBSET Days /\ d \in Nat /\ day \in Nat
    BY DayFacts DEF Days
  <2>2. IsFiniteSet(S)
    BY <2>1, DayFacts, FS_Subset
  <2>3. day \in S <=> day <= d
    BY <2>1
  <2> HIDE DEF S
  <2>4. \A x \in S : f[x] \in Nat /\ (x # day => g[x] = f[x])
    BY <2>1
  <2>5. Total(f, S) \in Nat
    BY <2>2, <2>4, TotalFacts
  <2>6. CASE day \in S
    <3>1. Total(g, S) = Total(f, S) + n
      BY <2>2, <2>4, <2>6, TotalMore
    <3> QED
      BY <2>3, <2>5, <2>6, <3>1 DEF S, From
  <2>7. CASE day \notin S
    <3>1. \A x \in S : f[x] \in Nat /\ g[x] = f[x]
      BY <2>4, <2>7
    <3>2. Total(g, S) = Total(f, S)
      BY <2>2, <3>1, TotalSame
    <3> QED
      BY <2>3, <2>5, <2>7, <3>2 DEF S, From
  <2> QED
    BY <2>6, <2>7
<1> QED
  BY <1>1, <1>2

\* The types of the sums.
LEMMA LedgerTypes ==
  ASSUME BaseInv
  PROVE  /\ \A k \in Kinds : \A d \in Days : OfKind(k)[d] \in Nat /\ OfKind(k)[d] = healthDay[d][k]
         /\ \A d \in Days : Sessions[d] \in Nat /\ Sessions[d] = longTermDay[d].sessions
         /\ \A u \in Users : Visits[u] \in Nat /\ Visits[u] = Len(userSessions[u])
<1>1. /\ healthDay \in [Days -> [Kinds -> Nat]]
      /\ longTermDay \in [Days -> [sessions : Nat, active : SUBSET Users]]
      /\ userSessions \in [Users -> Seq(Nat)]
  BY DEF BaseInv, BooksType
<1>2. \A d \in Days : longTermDay[d] \in [sessions : Nat, active : SUBSET Users]
  BY <1>1
<1>3. \A d \in Days : longTermDay[d].sessions \in Nat
  BY <1>2
<1> QED
  BY <1>1, <1>3 DEF OfKind, Sessions, Visits

\* A tally on a day is the tally of the run.
LEMMA KindsMove ==
  ASSUME BaseInv, BaseInv', KindsAgree, health \in [Kinds -> Nat], NEW day \in Days,
         NEW who \in SUBSET Users, NEW kind \in {"closed", "open"},
         health' = Tallied(health, who, kind),
         healthDay' = [healthDay EXCEPT ![day] = Tallied(@, who, kind)]
  PROVE  /\ KindsAgree'
         /\ \A k \in Kinds : health'[k] = health[k] + Tally(who, kind, k)
         /\ \A k \in Kinds : \A d \in Days :
              Total(OfKind(k)', 0..d) = Total(OfKind(k), 0..d) + From(day, Tally(who, kind, k), d)
<1>1. healthDay \in [Days -> [Kinds -> Nat]] /\ healthDay[day] \in [Kinds -> Nat]
  BY DEF BaseInv, BooksType
<1>2. \A k \in Kinds :
        /\ Tally(who, kind, k) \in Nat
        /\ health'[k] = health[k] + Tally(who, kind, k)
        /\ healthDay'[day][k] = healthDay[day][k] + Tally(who, kind, k)
  <2>1. /\ \A k \in Kinds : Tally(who, kind, k) \in Nat
        /\ \A k \in Kinds : Tallied(health, who, kind)[k] = health[k] + Tally(who, kind, k)
    BY TalliedFacts
  <2>2. \A k \in Kinds :
          Tallied(healthDay[day], who, kind)[k] = healthDay[day][k] + Tally(who, kind, k)
    BY <1>1, TalliedFacts
  <2>3. healthDay'[day] = Tallied(healthDay[day], who, kind)
    BY <1>1
  <2> QED
    BY <2>1, <2>2, <2>3
<1>3. ASSUME NEW k \in Kinds
      PROVE  /\ Total(OfKind(k), Days) \in Nat
             /\ Total(OfKind(k)', Days) = Total(OfKind(k), Days) + Tally(who, kind, k)
             /\ \A d \in Days :
                  Total(OfKind(k)', 0..d) = Total(OfKind(k), 0..d) + From(day, Tally(who, kind, k), d)
  <2> DEFINE f == OfKind(k)
             n == Tally(who, kind, k)
  <2>1. PICK g : g = OfKind(k)'
    OBVIOUS
  <2>2. \A d \in Days : g[d] = healthDay'[d][k]
    BY <2>1 DEF OfKind
  <2>3. \A d \in Days : f[d] \in Nat /\ f[d] = healthDay[d][k]
    BY LedgerTypes
  <2>4. n \in Nat /\ g[day] = f[day] + n
    BY <1>2, <2>2, <2>3
  <2>5. \A d \in Days : d # day => g[d] = f[d]
    BY <1>1, <2>2, <2>3
  <2> HIDE DEF f, n
  <2>6. /\ Total(f, Days) \in Nat /\ Total(g, Days) = Total(f, Days) + n
        /\ \A d \in Days : Total(g, 0..d) = Total(f, 0..d) + From(day, n, d)
    <3>1. \A d \in Days : f[d] \in Nat /\ (d # day => g[d] = f[d])
      BY <2>3, <2>5
    <3> QED
      BY <2>4, <3>1, DayMore
  <2> QED
    BY <2>1, <2>6 DEF f, n
<1>4. KindsAgree'
  <2>1. \A k \in Kinds : Total(OfKind(k), Days) = health[k]
    BY DEF KindsAgree
  <2>2. \A k \in Kinds : Total(OfKind(k)', Days) = health'[k]
    BY <1>2, <1>3, <2>1
  <2>3. \A k \in Kinds : Total(OfKind(k), Days)' = Total(OfKind(k)', Days)
    BY DEF Total, Marks, Days, NumDays
  <2> QED
    BY <2>2, <2>3 DEF KindsAgree
<1> QED
  BY <1>2, <1>3, <1>4

\* What depends on unchanged books and counts stays.
LEMMA LedgerKept ==
  ASSUME LedgerInv, UNCHANGED <<clock, gates, healthDay, longTermDay, userSessions, health,
                                returnDelays, churned, leaving>>
  PROVE  LedgerInv'
BY DEF LedgerInv, KindsAgree, AwayAgree, DatesAgree, OfKind, Sessions, Visits, LongTermGate,
       Total, Marks

\* An exit is one more session of the day it began and of the day it ended.
LEMMA LedgerExit ==
  ASSUME BooksBase, BaseInv', LedgerInv, clock = "event", NEW u \in Users, NEW r \in Reels,
         NEW b \in Nat, NEW start \in Nat, BooksStepOf(u, r, b, start, TRUE)
  PROVE  LedgerInv'
<1>1. /\ BaseInv /\ health \in [Kinds -> Nat] /\ KindsAgree /\ AwayAgree
      /\ LongTermGate => DatesAgree
  BY DEF BooksBase, HealthInv, LedgerInv
<1>2. /\ b <= start /\ u \notin leaving \cup churned /\ leaving' = leaving \cup {u}
      /\ UNCHANGED <<clock, gates, churned, returnDelays>>
      /\ health' = Tallied(health, {u}, "closed")
      /\ healthDay' = [healthDay EXCEPT ![DayOf(start)] = Tallied(@, {u}, "closed")]
  BY DEF BooksStepOf, MovesUser, BooksSession
<1>3. /\ DayOf(b) \in Days /\ DayOf(start) \in Days /\ DayOf(b) <= DayOf(start)
      /\ NumDays - 1 \in Days /\ Days \subseteq Nat
  BY <1>2, DayFacts
<1>4. Tally({u}, "closed", "closed") = 1
  BY FS_Singleton DEF Tally
<1>5. PICK who \in SUBSET Users, kind \in {"closed", "open"}, day \in Days :
        /\ who = {u} /\ kind = "closed" /\ day = DayOf(start)
        /\ health' = Tallied(health, who, kind)
        /\ healthDay' = [healthDay EXCEPT ![day] = Tallied(@, who, kind)]
  BY <1>2, <1>3
<1>6. /\ KindsAgree'
      /\ health'["closed"] = health["closed"] + 1
      /\ \A d \in Days :
           Total(OfKind("closed")', 0..d) = Total(OfKind("closed"), 0..d) + From(DayOf(start), 1, d)
  <2>1. /\ KindsAgree'
        /\ \A k \in Kinds : health'[k] = health[k] + Tally(who, kind, k)
        /\ \A k \in Kinds : \A d \in Days :
             Total(OfKind(k)', 0..d) = Total(OfKind(k), 0..d) + From(day, Tally(who, kind, k), d)
    BY <1>1, <1>5, KindsMove
  <2>2. "closed" \in Kinds /\ Tally(who, kind, "closed") = 1
    BY <1>4, <1>5 DEF Kinds
  <2> QED
    BY <1>5, <2>1, <2>2
<1>7. AwayAgree'
  <2>1. IsFiniteSet(leaving) /\ IsFiniteSet(churned)
    BY <1>1, SimulatorAssumption, FS_Subset DEF BaseInv, AwayInv
  <2>2. Cardinality(leaving \cup {u}) = Cardinality(leaving) + 1 /\ Cardinality(leaving) \in Nat
        /\ Cardinality(churned) \in Nat
    BY <1>2, <2>1, FS_AddElement, FS_CardinalityType
  <2>3. returnDelays \in Nat
    BY <1>1 DEF BaseInv, BooksType
  <2>4. returnDelays' + Cardinality(churned') + Cardinality(leaving') = health'["closed"]
    BY <1>1, <1>2, <1>6, <2>2, <2>3 DEF AwayAgree
  <2> QED
    BY <2>4 DEF AwayAgree
<1>8. ASSUME LongTermGate
      PROVE  DatesAgree'
  <2>1. /\ longTermDay' = [longTermDay EXCEPT ![DayOf(b)] =
                             [sessions |-> @.sessions + 1, active |-> @.active \cup {u}]]
        /\ userSessions' = [userSessions EXCEPT ![u] = Append(@, b)]
    BY <1>8 DEF BooksStepOf, BooksSession
  <2>2. PICK f, g, v, w : f = Sessions /\ g = Sessions' /\ v = Visits /\ w = Visits'
    OBVIOUS
  <2>3. \A d \in Days : f[d] \in Nat /\ (d # DayOf(b) => g[d] = f[d])
    <3>1. \A d \in Days : f[d] \in Nat /\ f[d] = longTermDay[d].sessions
      BY <1>1, <2>2, LedgerTypes
    <3>2. \A d \in Days : g[d] = longTermDay'[d].sessions
      BY <2>2 DEF Sessions
    <3>3. \A d \in Days : d # DayOf(b) => longTermDay'[d] = longTermDay[d]
      BY <1>1, <2>1 DEF BaseInv, BooksType
    <3> QED
      BY <3>1, <3>2, <3>3
  <2>4. g[DayOf(b)] = f[DayOf(b)] + 1
    <3>1. longTermDay'[DayOf(b)] = [sessions |-> longTermDay[DayOf(b)].sessions + 1,
                                    active |-> longTermDay[DayOf(b)].active \cup {u}]
      BY <1>1, <1>3, <2>1 DEF BaseInv, BooksType
    <3>2. longTermDay'[DayOf(b)].sessions = longTermDay[DayOf(b)].sessions + 1
      BY <3>1
    <3> QED
      BY <1>3, <2>2, <3>2 DEF Sessions
  <2>5. \A d \in Days : /\ Total(f, 0..d) \in Nat
                        /\ Total(g, 0..d) = Total(f, 0..d) + From(DayOf(b), 1, d)
    <3>1. PICK day0 \in Days, n0 \in Nat : day0 = DayOf(b) /\ n0 = 1
      BY <1>3
    <3>2. \A d \in Days : f[d] \in Nat /\ (d # day0 => g[d] = f[d])
      BY <2>3, <3>1
    <3>3. g[day0] = f[day0] + n0
      BY <2>4, <3>1
    <3>4. \A d \in Days : Total(f, 0..d) \in Nat /\ Total(g, 0..d) = Total(f, 0..d) + From(day0, n0, d)
      BY <3>2, <3>3, DayMore
    <3> QED
      BY <3>1, <3>4
  <2>6. Total(v, Users) \in Nat /\ Total(w, Users) = Total(v, Users) + 1
    <3>1. \A x \in Users : v[x] \in Nat /\ v[x] = Len(userSessions[x]) /\ w[x] = Len(userSessions'[x])
      BY <1>1, <2>2, LedgerTypes DEF Visits
    <3>2. /\ Len(userSessions'[u]) = Len(userSessions[u]) + 1
          /\ \A x \in Users : x # u => userSessions'[x] = userSessions[x]
      <4>1. userSessions \in [Users -> Seq(Nat)]
        BY <1>1 DEF BaseInv, BooksType
      <4> QED
        BY <2>1, <4>1, Appended
    <3>3. \A x \in Users : v[x] \in Nat /\ (x # u => w[x] = v[x])
      BY <3>1, <3>2
    <3>4. w[u] = v[u] + 1
      BY <3>1, <3>2
    <3>5. IsFiniteSet(Users)
      BY SimulatorAssumption
    <3> QED
      BY <3>3, <3>4, <3>5, TotalMore, TotalFacts
  <2>7. /\ Total(f, 0..NumDays - 1) = health["closed"] /\ Total(v, Users) = health["closed"]
        /\ \A d \in Days : Total(f, 0..d) >= Total(OfKind("closed"), 0..d)
    BY <1>1, <1>8, <2>2 DEF DatesAgree
  <2>8. /\ Total(g, 0..NumDays - 1) = health'["closed"] /\ Total(w, Users) = health'["closed"]
    <3>1. From(DayOf(b), 1, NumDays - 1) = 1
      BY <1>3 DEF From, Days
    <3> QED
      BY <1>3, <1>6, <2>5, <2>6, <2>7, <3>1
  <2>9. ASSUME NEW d \in Days
        PROVE  Total(g, 0..d) >= Total(OfKind("closed")', 0..d)
    <3>1. /\ From(DayOf(b), 1, d) \in Nat /\ From(DayOf(start), 1, d) \in Nat
          /\ From(DayOf(b), 1, d) >= From(DayOf(start), 1, d)
      <4>1. PICK x \in Nat, y \in Nat : x = DayOf(b) /\ y = DayOf(start) /\ x <= y
        BY <1>3
      <4>2. d \in Nat
        BY <1>3
      <4>3. From(x, 1, d) \in Nat /\ From(y, 1, d) \in Nat /\ From(x, 1, d) >= From(y, 1, d)
        BY <4>1, <4>2 DEF From
      <4> QED
        BY <4>1, <4>3
    <3>2. Total(OfKind("closed"), 0..d) \in Nat
      <4>1. IsFiniteSet(0..d) /\ \A e \in 0..d : e \in Days
        <5>1. d \in Nat /\ 0..d \in SUBSET Days
          BY <1>3 DEF Days
        <5> QED
          BY <5>1, DayFacts, FS_Subset
      <4>2. \A e \in 0..d : OfKind("closed")[e] \in Nat
        BY <1>1, <4>1, LedgerTypes DEF Kinds
      <4> QED
        BY <4>1, <4>2, TotalFacts
    <3> QED
      BY <1>6, <2>5, <2>7, <3>1, <3>2
  <2>10. DatesAgree' <=> /\ Total(Sessions', 0..NumDays - 1) = health'["closed"]
                         /\ \A d \in Days : Total(Sessions', 0..d) >= Total(OfKind("closed")', 0..d)
                         /\ Total(Visits', Users) = health'["closed"]
    BY DEF DatesAgree, Total, Marks
  <2> QED
    BY <2>2, <2>8, <2>9, <2>10
<1>9. LongTermGate' <=> LongTermGate
  BY <1>2 DEF LongTermGate
<1> QED
  BY <1>2, <1>6, <1>7, <1>8, <1>9 DEF LedgerInv

\* Taking up a return, or leaving for good, answers one pending exit.
LEMMA LedgerReturn ==
  ASSUME BooksBase, LedgerInv, clock = "event", NEW u \in Users, NEW delay \in ReturnDelays,
         BookExit(u, delay)
  PROVE  LedgerInv'
<1>1. /\ BaseInv /\ AwayAgree /\ returnDelays \in Nat
      /\ KindsAgree /\ (LongTermGate => DatesAgree)
  BY DEF BooksBase, LedgerInv, BaseInv, BooksType
<1>2. /\ u \in leaving /\ leaving' = leaving \ {u} /\ u \notin churned
      /\ UNCHANGED <<clock, gates, health>>
      /\ UNCHANGED <<healthDay, longTermDay, userSessions>>
      /\ \/ churned' = churned \cup {u} /\ returnDelays' = returnDelays
         \/ churned' = churned /\ returnDelays' = returnDelays + 1
  BY <1>1 DEF BookExit, ExitApp, vars, config, BaseInv, AwayInv
<1>3. IsFiniteSet(leaving) /\ IsFiniteSet(churned)
  BY <1>1, SimulatorAssumption, FS_Subset DEF BaseInv, AwayInv
<1>4. Cardinality(leaving) \in Nat /\ Cardinality(leaving') = Cardinality(leaving) - 1
  BY <1>2, <1>3, FS_RemoveElement, FS_CardinalityType
<1>5. Cardinality(churned) \in Nat /\ Cardinality(churned \cup {u}) = Cardinality(churned) + 1
  BY <1>2, <1>3, FS_AddElement, FS_CardinalityType
<1>6. returnDelays' + Cardinality(churned') + Cardinality(leaving')
        = returnDelays + Cardinality(churned) + Cardinality(leaving)
  <2>1. \/ Cardinality(churned') = Cardinality(churned) + 1 /\ returnDelays' = returnDelays
        \/ Cardinality(churned') = Cardinality(churned) /\ returnDelays' = returnDelays + 1
    BY <1>2, <1>5
  <2> QED
    BY <1>1, <1>4, <1>5, <2>1
<1>7. AwayAgree'
  BY <1>1, <1>2, <1>6 DEF AwayAgree
<1>8. KindsAgree' /\ (LongTermGate' => DatesAgree')
  BY <1>1, <1>2 DEF KindsAgree, DatesAgree, OfKind, Sessions, Visits, LongTermGate, Total, Marks
<1> QED
  BY <1>7, <1>8 DEF LedgerInv

\* The drain tallies open sessions, which end on no day of the long-term book.
LEMMA LedgerDrain ==
  ASSUME BooksBase, BaseInv', LedgerInv, clock = "event", CloseBooks
  PROVE  LedgerInv'
<1>1. /\ BaseInv /\ health \in [Kinds -> Nat] /\ KindsAgree /\ AwayAgree
      /\ LongTermGate => DatesAgree
  BY DEF BooksBase, HealthInv, LedgerInv
<1>2. /\ UNCHANGED <<clock, gates, leaving, churned, returnDelays, longTermDay, userSessions>>
      /\ health' = Tallied(health, OpenUsers, "open")
      /\ healthDay' = [healthDay EXCEPT ![NumDays - 1] = Tallied(@, OpenUsers, "open")]
  BY DEF CloseBooks, DrainSessions, DrainOpenSessions, config, awayVars
<1>3. NumDays - 1 \in Days /\ Days \subseteq Nat /\ IsFiniteSet(Days)
  BY DayFacts
<1>4. PICK who \in SUBSET Users, kind \in {"closed", "open"}, day \in Days :
        /\ kind = "open" /\ health' = Tallied(health, who, kind)
        /\ healthDay' = [healthDay EXCEPT ![day] = Tallied(@, who, kind)]
  BY <1>2, <1>3 DEF OpenUsers
<1>5. /\ KindsAgree' /\ health'["closed"] = health["closed"]
      /\ \A d \in Days : Total(OfKind("closed")', 0..d) = Total(OfKind("closed"), 0..d)
  <2>1. /\ KindsAgree'
        /\ \A k \in Kinds : health'[k] = health[k] + Tally(who, kind, k)
        /\ \A k \in Kinds : \A d \in Days :
             Total(OfKind(k)', 0..d) = Total(OfKind(k), 0..d) + From(day, Tally(who, kind, k), d)
    BY <1>1, <1>4, KindsMove
  <2>2. "closed" \in Kinds /\ Tally(who, kind, "closed") = 0 /\ health["closed"] \in Nat
    BY <1>1, <1>4 DEF Kinds, Tally
  <2>3. \A d \in Days : From(day, 0, d) = 0
    BY DEF From
  <2>4. \A d \in Days : Total(OfKind("closed"), 0..d) \in Nat
    <3> SUFFICES ASSUME NEW d \in Days PROVE Total(OfKind("closed"), 0..d) \in Nat
      OBVIOUS
    <3>1. d \in Nat /\ 0..d \in SUBSET Days
      BY <1>3 DEF Days
    <3>2. IsFiniteSet(0..d) /\ \A e \in 0..d : e \in Days
      BY <1>3, <3>1, FS_Subset
    <3>3. \A e \in 0..d : OfKind("closed")[e] \in Nat
      BY <1>1, <2>2, <3>2, LedgerTypes
    <3> QED
      BY <3>2, <3>3, TotalFacts
  <2> QED
    BY <2>1, <2>2, <2>3, <2>4
<1>6. AwayAgree'
  BY <1>1, <1>2, <1>5 DEF AwayAgree
<1>7. LongTermGate' => DatesAgree'
  <2>1. LongTermGate' => DatesAgree
    BY <1>1, <1>2 DEF LongTermGate
  <2>2. Sessions' = Sessions /\ Visits' = Visits
    BY <1>2 DEF Sessions, Visits
  <2>3. DatesAgree' <=> /\ Total(Sessions', 0..NumDays - 1) = health'["closed"]
                        /\ \A d \in Days : Total(Sessions', 0..d) >= Total(OfKind("closed")', 0..d)
                        /\ Total(Visits', Users) = health'["closed"]
    BY DEF DatesAgree, Total, Marks
  <2> QED
    BY <1>5, <2>1, <2>2, <2>3 DEF DatesAgree
<1> QED
  BY <1>5, <1>6, <1>7 DEF LedgerInv

LEMMA LedgerStep ==
  ASSUME BooksBase, BaseInv', LedgerInv, [BooksNext]_booksVars
  PROVE  LedgerInv'
<1>1. ASSUME NEW u \in Users, NEW r \in Reels, NEW start \in Starts \cup {now},
             NEW watch \in WatchTimes, clock = "event", BookImpression(u, r, start, watch)
      PROVE  LedgerInv'
  <2>1. PICK b \in Nat, exit \in BOOLEAN : BooksStepOf(u, r, b, start, exit)
    BY <1>1, BookImpressionFacts DEF BooksBase
  <2>2. CASE exit
    <3>1. start \in Nat /\ BooksStepOf(u, r, b, start, TRUE)
      BY <2>1, <2>2 DEF BooksStepOf
    <3> QED
      BY <1>1, <3>1, LedgerExit
  <2>3. CASE ~exit
    <3>1. UNCHANGED <<clock, gates, healthDay, longTermDay, userSessions, health,
                      returnDelays, churned, leaving>>
      BY <2>1, <2>3 DEF BooksStepOf, BooksSession, MovesUser
    <3> QED
      BY <3>1, LedgerKept
  <2> QED
    BY <2>2, <2>3
<1>2. ASSUME NEW u \in Users, NEW delay \in ReturnDelays, clock = "event", BookExit(u, delay)
      PROVE  LedgerInv'
  BY <1>2, LedgerReturn
<1>3. CASE clock = "event" /\ CloseBooks
  BY <1>3, LedgerDrain
<1>4. CASE NoBooks
  <2>1. [Next]_vars
    BY BooksStepDynamics, DynStepSimulates
  <2>2. clock' = clock
    BY <2>1 DEF Next, Step, DrainOpenSessions, vars, config
  <2> QED
    BY <1>4, <2>2 DEF NoBooks, LedgerInv
<1>5. CASE UNCHANGED booksVars
  BY <1>5, LedgerKept DEF booksVars, books, dynVars, vars, config, awayVars
<1> QED
  BY <1>1, <1>2, <1>3, <1>4, <1>5 DEF BooksNext

LEMMA LedgerInitially == BooksInit => LedgerInv
<1> SUFFICES ASSUME BooksInit PROVE LedgerInv
  OBVIOUS
<1>1. \A k \in Kinds : NoHealth[k] = 0
  BY DEF NoHealth, Kinds
<1>2. /\ health = NoHealth /\ healthDay = [d \in Days |-> NoHealth]
      /\ longTermDay = [d \in Days |-> [sessions |-> 0, active |-> {}]]
      /\ userSessions = [u \in Users |-> <<>>]
      /\ returnDelays = 0 /\ churned = {} /\ leaving = {}
  BY DEF BooksInit, DynInit
<1>3. IsFiniteSet(Days) /\ Days \subseteq Nat /\ IsFiniteSet(Users) /\ NumDays - 1 \in Days
  BY DayFacts, SimulatorAssumption
<1>4. /\ \A k \in Kinds : \A d \in Days : OfKind(k)[d] = 0
      /\ \A d \in Days : Sessions[d] = 0
      /\ \A u \in Users : Visits[u] = 0
  BY <1>1, <1>2 DEF OfKind, Sessions, Visits
<1>5. KindsAgree
  <2>1. \A k \in Kinds : Total(OfKind(k), Days) = 0
    BY <1>3, <1>4, TotalZero
  <2> QED
    BY <1>1, <1>2, <2>1 DEF KindsAgree
<1>6. "closed" \in Kinds /\ health["closed"] = 0
  BY <1>1, <1>2 DEF Kinds
<1>7. AwayAgree
  <2>1. Cardinality(churned) = 0 /\ Cardinality(leaving) = 0
    BY <1>2, FS_EmptySet
  <2> QED
    BY <1>2, <1>6, <2>1 DEF AwayAgree
<1>8. DatesAgree
  <2>1. ASSUME NEW d \in Days PROVE Total(Sessions, 0..d) = 0 /\ Total(OfKind("closed"), 0..d) = 0
    <3>1. d \in Nat /\ 0..d \in SUBSET Days
      BY <1>3 DEF Days
    <3>2. IsFiniteSet(0..d) /\ \A e \in 0..d : e \in Days
      BY <1>3, <3>1, FS_Subset
    <3>3. \A e \in 0..d : Sessions[e] = 0 /\ OfKind("closed")[e] = 0
      BY <1>4, <1>6, <3>2
    <3> QED
      BY <3>2, <3>3, TotalZero
  <2>2. Total(Visits, Users) = 0
    BY <1>3, <1>4, TotalZero
  <2>3. Total(Sessions, 0..NumDays - 1) = 0
    BY <1>3, <2>1
  <2>4. \A d \in Days : Total(Sessions, 0..d) >= Total(OfKind("closed"), 0..d)
    BY <2>1
  <2> QED
    BY <1>6, <2>2, <2>3, <2>4 DEF DatesAgree
<1> QED
  BY <1>5, <1>7, <1>8 DEF LedgerInv

\* The books of sessions agree, whatever day each takes for its own.
THEOREM SessionBooksAgreeCorrect == BooksSpec => []SessionBooksAgree
<1>1. BooksBase /\ LedgerInv => SessionBooksAgree
  <2> SUFFICES ASSUME BooksBase, LedgerInv, clock = "event" PROVE SessionBooksAgree
    BY DEF SessionBooksAgree
  <2>1. Total(OfKind("closed"), Days) = health["closed"] /\ Total(OfKind("open"), Days) = health["open"]
        /\ Total(OfKind("linked"), Days) = health["linked"]
    BY DEF LedgerInv, KindsAgree, Kinds
  <2> QED
    BY <2>1 DEF LedgerInv, AwayAgree, DatesAgree, OfKind, Sessions, Visits, SessionBooksAgree
<1>2. BooksBase /\ BaseInv' /\ LedgerInv /\ [BooksNext]_booksVars => LedgerInv'
  BY LedgerStep
<1>3. BooksBase => BaseInv
  BY DEF BooksBase
<1> QED
  BY <1>1, <1>2, <1>3, LedgerInitially, BooksBaseInvariant, PTL DEF BooksSpec
------------------------------------------------------------------------------
(* The long-term book *)

\* The churn of a user is dated, on no day before one it was active on.
ChurnDated ==
  \A u \in Users :
    /\ (churnDay[u] >= 0) <=> (u \in churned)
    /\ \A d \in Days : u \in longTermDay[d].active =>
         d <= DayOf(ready[u]) /\ (u \in churned => d <= churnDay[u])

\* A user is active on exactly the days its sessions begin on.
ActiveDays ==
  \A u \in Users :
    /\ \A i \in DOMAIN userSessions[u] : userSessions[u][i] <= Horizon
    /\ \A d \in Days : u \in longTermDay[d].active <=>
         \E i \in DOMAIN userSessions[u] : DayOf(userSessions[u][i]) = d

LongTermInv ==
  IF clock = "event" THEN LongTermGate => ChurnDated /\ ActiveDays
  ELSE /\ \A d \in Days : longTermDay[d].active = {}
       /\ \A u \in Users : churnDay[u] = -1

\* The time of a user only advances, and its days with it.
LEMMA ReadyDays ==
  ASSUME TypeOK, NEW u \in Users, NEW b \in Nat, NEW start \in Nat, NEW exit \in BOOLEAN,
         b <= start, MovesUser(u, b, start, exit), TypeOK'
  PROVE  /\ DayOf(b) <= DayOf(ready'[u])
         /\ \A v \in Users : DayOf(ready[v]) <= DayOf(ready'[v])
         /\ \A v \in Users : DayOf(ready[v]) \in Nat /\ DayOf(ready'[v]) \in Nat
<1>1. \A v \in Users : ready[v] \in Nat /\ ready'[v] \in Nat
  BY DEF TypeOK
<1>2. \A v \in Users : ready[v] <= ready'[v]
  BY <1>1 DEF MovesUser
<1>3. b <= ready'[u]
  BY <1>1 DEF MovesUser
<1>4. /\ \A t \in Nat : DayOf(t) \in Nat
      /\ \A s, t \in Nat : s <= t => DayOf(s) <= DayOf(t)
  BY DayFacts
<1> QED
  BY <1>1, <1>2, <1>3, <1>4

LEMMA LongTermStays ==
  ASSUME BooksBase, TypeOK', LongTermInv, clock = "event", NEW u \in Users, NEW r \in Reels,
         NEW b \in Nat, NEW start \in Nat, NEW exit \in BOOLEAN,
         BooksStepOf(u, r, b, start, exit), UNCHANGED <<longTermDay, userSessions>>
  PROVE  LongTermInv'
<1>1. /\ UNCHANGED <<clock, gates, churned, churnDay>> /\ b <= start
      /\ MovesUser(u, b, start, exit)
  BY DEF BooksStepOf
<1>2. \A v \in Users : DayOf(ready[v]) <= DayOf(ready'[v]) /\ DayOf(ready[v]) \in Nat
                       /\ DayOf(ready'[v]) \in Nat
  BY <1>1, ReadyDays DEF BooksBase
<1> SUFFICES ASSUME LongTermGate' PROVE ChurnDated' /\ ActiveDays'
  BY <1>1 DEF LongTermInv
<1>3. ChurnDated /\ ActiveDays
  BY <1>1 DEF LongTermInv, LongTermGate
<1>4. ActiveDays'
  BY <1>3 DEF ActiveDays
<1>5. ChurnDated'
  <2>1. ASSUME NEW v \in Users, NEW d \in Days, v \in longTermDay'[d].active
        PROVE  d <= DayOf(ready'[v]) /\ (v \in churned' => d <= churnDay'[v])
    <3>1. d <= DayOf(ready[v]) /\ (v \in churned => d <= churnDay[v]) /\ d \in Nat
      BY <1>3, <2>1, DayFacts DEF ChurnDated
    <3> QED
      BY <1>1, <1>2, <3>1
  <2>2. \A v \in Users : (churnDay'[v] >= 0) <=> (v \in churned')
    BY <1>1, <1>3 DEF ChurnDated
  <2> QED
    BY <2>1, <2>2 DEF ChurnDated
<1> QED
  BY <1>4, <1>5

LEMMA LongTermExit ==
  ASSUME BooksBase, TypeOK', LongTermInv, clock = "event", NEW u \in Users, NEW r \in Reels,
         NEW b \in Nat, NEW start \in Nat, BooksStepOf(u, r, b, start, TRUE)
  PROVE  LongTermInv'
<1>1. /\ UNCHANGED <<clock, gates, churned, churnDay>> /\ b <= start /\ start <= Horizon
      /\ MovesUser(u, b, start, TRUE) /\ u \notin churned
  BY DEF BooksStepOf, MovesUser
<1>2. /\ \A v \in Users : DayOf(ready[v]) <= DayOf(ready'[v]) /\ DayOf(ready[v]) \in Nat
                          /\ DayOf(ready'[v]) \in Nat
      /\ DayOf(b) <= DayOf(ready'[u])
  BY <1>1, ReadyDays DEF BooksBase
<1> SUFFICES ASSUME LongTermGate' PROVE ChurnDated' /\ ActiveDays'
  BY <1>1 DEF LongTermInv
<1>3. LongTermGate /\ ChurnDated /\ ActiveDays
  BY <1>1 DEF LongTermInv, LongTermGate
<1>4. /\ DayOf(b) \in Days /\ \A d \in Days : d \in Nat
      /\ longTermDay \in [Days -> [sessions : Nat, active : SUBSET Users]]
      /\ userSessions \in [Users -> Seq(Nat)]
      /\ longTermDay' = [longTermDay EXCEPT ![DayOf(b)] =
                          [sessions |-> @.sessions + 1, active |-> @.active \cup {u}]]
      /\ userSessions' = [userSessions EXCEPT ![u] = Append(@, b)]
  BY <1>3, DayFacts DEF BooksStepOf, BooksSession, BooksBase, BaseInv, BooksType
<1>5. \A d \in Days : longTermDay'[d].active =
        IF d = DayOf(b) THEN longTermDay[d].active \cup {u} ELSE longTermDay[d].active
  <2>1. longTermDay'[DayOf(b)] = [sessions |-> longTermDay[DayOf(b)].sessions + 1,
                                  active |-> longTermDay[DayOf(b)].active \cup {u}]
    BY <1>4
  <2>2. longTermDay'[DayOf(b)].active = longTermDay[DayOf(b)].active \cup {u}
    BY <2>1
  <2>3. \A d \in Days : d # DayOf(b) => longTermDay'[d] = longTermDay[d]
    BY <1>4
  <2> QED
    BY <2>2, <2>3
<1>6. ChurnDated'
  <2>1. ASSUME NEW v \in Users, NEW d \in Days, v \in longTermDay'[d].active
        PROVE  d <= DayOf(ready'[v]) /\ (v \in churned' => d <= churnDay'[v])
    <3>1. CASE v \in longTermDay[d].active
      <4>1. d <= DayOf(ready[v]) /\ (v \in churned => d <= churnDay[v]) /\ d \in Nat
        BY <1>3, <3>1, DayFacts DEF ChurnDated
      <4> QED
        BY <1>1, <1>2, <4>1
    <3>2. CASE v \notin longTermDay[d].active
      <4>1. v = u /\ d = DayOf(b)
        BY <1>5, <2>1, <3>2
      <4> QED
        BY <1>1, <1>2, <4>1
    <3> QED
      BY <3>1, <3>2
  <2>2. \A v \in Users : (churnDay'[v] >= 0) <=> (v \in churned')
    BY <1>1, <1>3 DEF ChurnDated
  <2> QED
    BY <2>1, <2>2 DEF ChurnDated
<1>7. ActiveDays'
  <2> DEFINE s(v) == userSessions[v]
             t(v) == userSessions'[v]
  <2>1. /\ Len(s(u)) \in Nat /\ DOMAIN s(u) = 1..Len(s(u))
        /\ DOMAIN t(u) = 1..Len(s(u)) + 1
        /\ t(u)[Len(s(u)) + 1] = b /\ \A i \in 1..Len(s(u)) : t(u)[i] = s(u)[i]
        /\ \A v \in Users : v # u => t(v) = s(v)
    <3>1. s(u) \in Seq(Nat) /\ t(u) = Append(s(u), b) /\ \A v \in Users : v # u => t(v) = s(v)
      BY <1>4
    <3> HIDE DEF s, t
    <3> QED
      BY <3>1, AppendProperties, LenProperties
  <2>2. /\ \A v \in Users : \A i \in DOMAIN s(v) : s(v)[i] <= Horizon
        /\ \A v \in Users : \A d \in Days :
             v \in longTermDay[d].active <=> \E i \in DOMAIN s(v) : DayOf(s(v)[i]) = d
    BY <1>3 DEF ActiveDays
  <2>3. \A v \in Users : \A i \in DOMAIN t(v) : t(v)[i] <= Horizon
    <3> SUFFICES ASSUME NEW v \in Users, NEW i \in DOMAIN t(v) PROVE t(v)[i] <= Horizon
      OBVIOUS
    <3> HIDE DEF s, t
    <3>1. CASE v # u
      BY <2>1, <2>2, <3>1
    <3>2. CASE v = u /\ i \in 1..Len(s(u))
      BY <2>1, <2>2, <3>2
    <3>3. CASE v = u /\ i = Len(s(u)) + 1
      BY <1>1, <2>1, <3>3, BooksAssumption
    <3> QED
      BY <2>1, <3>1, <3>2, <3>3
  <2>4. ASSUME NEW v \in Users, NEW d \in Days
        PROVE  v \in longTermDay'[d].active <=> \E i \in DOMAIN t(v) : DayOf(t(v)[i]) = d
    <3> HIDE DEF s, t
    <3>1. CASE v # u
      <4>1. v \in longTermDay'[d].active <=> v \in longTermDay[d].active
        BY <1>5, <3>1
      <4>2. v \in longTermDay[d].active <=> \E i \in DOMAIN s(v) : DayOf(s(v)[i]) = d
        BY <2>2
      <4>3. t(v) = s(v)
        BY <2>1, <3>1
      <4> QED
        BY <4>1, <4>2, <4>3
    <3>2. CASE v = u
      <4>1. (\E i \in DOMAIN t(u) : DayOf(t(u)[i]) = d)
              <=> (\E i \in DOMAIN s(u) : DayOf(s(u)[i]) = d) \/ DayOf(b) = d
        <5>1. ASSUME NEW i \in DOMAIN t(u), DayOf(t(u)[i]) = d
              PROVE  (\E j \in DOMAIN s(u) : DayOf(s(u)[j]) = d) \/ DayOf(b) = d
          <6>1. i \in 1..Len(s(u)) \/ i = Len(s(u)) + 1
            BY <2>1
          <6> QED
            BY <2>1, <5>1, <6>1
        <5>2. ASSUME NEW i \in DOMAIN s(u), DayOf(s(u)[i]) = d
              PROVE  \E j \in DOMAIN t(u) : DayOf(t(u)[j]) = d
          <6>1. i \in DOMAIN t(u) /\ t(u)[i] = s(u)[i]
            BY <2>1
          <6> QED
            BY <5>2, <6>1
        <5>3. ASSUME DayOf(b) = d PROVE \E j \in DOMAIN t(u) : DayOf(t(u)[j]) = d
          <6>1. Len(s(u)) + 1 \in DOMAIN t(u)
            BY <2>1
          <6> QED
            BY <2>1, <5>3, <6>1
        <5> QED
          BY <5>1, <5>2, <5>3
      <4>2. u \in longTermDay'[d].active <=> u \in longTermDay[d].active \/ d = DayOf(b)
        BY <1>5
      <4> QED
        BY <2>2, <3>2, <4>1, <4>2
    <3> QED
      BY <3>1, <3>2
  <2> QED
    BY <2>3, <2>4 DEF ActiveDays
<1> QED
  BY <1>6, <1>7

LEMMA LongTermStep ==
  ASSUME BooksBase, BooksBase', LongTermInv, [BooksNext]_booksVars
  PROVE  LongTermInv'
<1>0. TypeOK /\ TypeOK' /\ BaseInv /\ BaseInv'
  BY DEF BooksBase
<1>1. ASSUME NEW u \in Users, NEW r \in Reels, NEW start \in Starts \cup {now},
             NEW watch \in WatchTimes, clock = "event", BookImpression(u, r, start, watch)
      PROVE  LongTermInv'
  <2>1. PICK b \in Nat, exit \in BOOLEAN : BooksStepOf(u, r, b, start, exit)
    BY <1>1, BookImpressionFacts DEF BooksBase
  <2>2. start \in Nat
    BY <2>1 DEF BooksStepOf
  <2>3. CASE exit
    <3>1. BooksStepOf(u, r, b, start, TRUE)
      BY <2>1, <2>3
    <3> QED
      BY <1>0, <1>1, <2>2, <3>1, LongTermExit
  <2>4. CASE ~exit
    <3>1. UNCHANGED <<longTermDay, userSessions>>
      BY <2>1, <2>4 DEF BooksStepOf, BooksSession
    <3> QED
      BY <1>0, <1>1, <2>1, <2>2, <3>1, LongTermStays
  <2> QED
    BY <2>3, <2>4
<1>2. ASSUME NEW u \in Users, NEW delay \in ReturnDelays, clock = "event", BookExit(u, delay)
      PROVE  LongTermInv'
  <2>1. /\ u \in leaving /\ u \notin churned
        /\ UNCHANGED <<clock, gates, ready, longTermDay, userSessions>>
        /\ churned' = churned \cup {u} \/ churned' = churned
        /\ IF u \in churned'
           THEN churnDay' = IF LongTermGate /\ churnDay[u] < 0
                            THEN [churnDay EXCEPT ![u] = DayOf(ready[u])] ELSE churnDay
           ELSE UNCHANGED churnDay
    BY <1>0, <1>2 DEF BookExit, ExitApp, vars, config, timeVars, BaseInv, AwayInv
  <2> SUFFICES ASSUME LongTermGate' PROVE ChurnDated' /\ ActiveDays'
    BY <1>2, <2>1 DEF LongTermInv
  <2>2. LongTermGate /\ ChurnDated /\ ActiveDays
    BY <1>2, <2>1 DEF LongTermInv, LongTermGate
  <2>3. ActiveDays'
    BY <2>1, <2>2 DEF ActiveDays
  <2>4. CASE u \in churned'
    <3>1. churnDay \in [Users -> -1..NumDays - 1] /\ churnDay[u] < 0
      <4>1. churnDay \in [Users -> -1..NumDays - 1] /\ NumDays \in Nat
        BY <1>0, DayFacts DEF BaseInv, BooksType
      <4>2. ~(churnDay[u] >= 0) /\ churnDay[u] \in Int
        BY <2>1, <2>2, <4>1 DEF ChurnDated
      <4> QED
        BY <4>1, <4>2
    <3>2. churnDay' = [churnDay EXCEPT ![u] = DayOf(ready[u])] /\ churned' = churned \cup {u}
      BY <2>1, <2>2, <2>4, <3>1
    <3>3. churnDay'[u] = DayOf(ready[u]) /\ \A v \in Users : v # u => churnDay'[v] = churnDay[v]
      BY <3>1, <3>2
    <3>4. DayOf(ready[u]) \in Nat /\ \A d \in Days : d \in Nat
      BY <1>0, DayFacts DEF TypeOK
    <3>5. \A v \in Users : (churnDay'[v] >= 0) <=> (v \in churned')
      BY <2>2, <3>2, <3>3, <3>4 DEF ChurnDated
    <3>6. ASSUME NEW v \in Users, NEW d \in Days, v \in longTermDay'[d].active
          PROVE  d <= DayOf(ready'[v]) /\ (v \in churned' => d <= churnDay'[v])
      <4>1. d <= DayOf(ready[v]) /\ (v \in churned => d <= churnDay[v])
        BY <2>1, <2>2, <3>6 DEF ChurnDated
      <4>2. ready'[v] = ready[v]
        BY <2>1
      <4> QED
        BY <3>2, <3>3, <4>1, <4>2
    <3> QED
      BY <2>3, <3>5, <3>6 DEF ChurnDated
  <2>5. CASE u \notin churned'
    <3>1. churned' = churned /\ churnDay' = churnDay
      BY <2>1, <2>5
    <3>2. ChurnDated'
      BY <2>1, <2>2, <3>1 DEF ChurnDated
    <3> QED
      BY <2>3, <3>2
  <2> QED
    BY <2>4, <2>5
<1>3. CASE clock = "event" /\ CloseBooks
  <2>1. UNCHANGED <<clock, gates, ready, churned, longTermDay, userSessions, churnDay>>
    BY <1>3 DEF CloseBooks, DrainSessions, DrainOpenSessions, config, timeVars, awayVars
  <2> QED
    BY <2>1 DEF LongTermInv, LongTermGate, ChurnDated, ActiveDays
<1>4. CASE NoBooks
  <2>1. [Next]_vars
    BY BooksStepDynamics, DynStepSimulates
  <2>2. clock' = clock
    BY <2>1 DEF Next, Step, DrainOpenSessions, vars, config
  <2> QED
    BY <1>4, <2>2 DEF NoBooks, books, LongTermInv
<1>5. CASE UNCHANGED booksVars
  BY <1>5 DEF booksVars, books, dynVars, vars, config, timeVars, awayVars, LongTermInv,
              LongTermGate, ChurnDated, ActiveDays
<1> QED
  BY <1>1, <1>2, <1>3, <1>4, <1>5 DEF BooksNext

LEMMA LongTermInvariant == BooksSpec => []LongTermInv
<1>1. BooksInit => LongTermInv
  <2> SUFFICES ASSUME BooksInit PROVE LongTermInv
    OBVIOUS
  <2>1. /\ \A d \in Days : longTermDay[d].active = {}
        /\ \A u \in Users : churnDay[u] = -1 /\ userSessions[u] = <<>>
        /\ churned = {}
    BY DEF BooksInit, DynInit
  <2>2. ChurnDated
    BY <2>1 DEF ChurnDated
  <2>3. ActiveDays
    BY <2>1 DEF ActiveDays
  <2> QED
    BY <2>1, <2>2, <2>3 DEF LongTermInv
<1>2. BooksBase /\ BooksBase' /\ LongTermInv /\ [BooksNext]_booksVars => LongTermInv'
  BY LongTermStep
<1> QED
  BY <1>1, <1>2, BooksBaseInvariant, PTL DEF BooksSpec

\* A user that churned was active that day or before and on no later day, and
\* is never in the cumulative churn of a day it is still active after.
THEOREM ChurnEndsActivityCorrect == BooksSpec => []ChurnEndsActivity
<1>1. BooksBase /\ LongTermInv => ChurnEndsActivity
  <2> SUFFICES ASSUME BooksBase, LongTermInv, LongTermGate PROVE ChurnEndsActivity
    BY DEF ChurnEndsActivity
  <2>1. CASE clock = "event"
    BY <2>1 DEF LongTermInv, ChurnDated, ChurnEndsActivity
  <2>2. CASE clock # "event"
    <3>1. churned = {}
      BY <2>2 DEF BooksBase, BaseInv, AwayInv
    <3> QED
      BY <2>2, <3>1 DEF LongTermInv, ChurnEndsActivity
  <2> QED
    BY <2>1, <2>2
<1> QED
  BY <1>1, BooksBaseInvariant, LongTermInvariant, PTL
------------------------------------------------------------------------------
(* Retention *)

LEMMA LeastOf ==
  ASSUME NEW S \in SUBSET Nat, S # {}
  PROVE  Min(S) \in S /\ \A x \in S : Min(S) <= x
<1>1. IsWellFoundedOn(OpToRel(<, Nat), Nat)
  BY NatLessThanWellFounded
<1>2. PICK x \in S : \A y \in S : ~(<<y, x>> \in OpToRel(<, Nat))
  BY <1>1, WFMin
<1>3. \A y \in S : ~(y < x)
  BY <1>2 DEF OpToRel
<1>4. \A y \in S : x <= y
  BY <1>3
<1> QED
  BY <1>4 DEF Min

\* Two members, and three of a window that starts at the least.
LEMMA MoreThanOne ==
  ASSUME NEW S, IsFiniteSet(S), NEW a \in S, NEW b \in S, a # b
  PROVE  Cardinality(S) > 1
<1>1. IsFiniteSet({a}) /\ Cardinality({a}) = 1
  BY FS_Singleton
<1>2. Cardinality({a} \cup {b}) = 2 /\ IsFiniteSet({a} \cup {b})
  BY <1>1, FS_AddElement
<1>3. {a} \cup {b} \in SUBSET S
  OBVIOUS
<1>4. Cardinality({a} \cup {b}) <= Cardinality(S) /\ Cardinality(S) \in Nat
  BY <1>3, FS_Subset, FS_CardinalityType
<1> QED
  BY <1>2, <1>4

LEMMA TwoLater ==
  ASSUME NEW S \in SUBSET Nat, NEW q \in Nat, \A d \in S : q <= d, Cardinality(S) > 2
  PROVE  \E d \in S : q + 2 <= d
<1> SUFFICES ASSUME \A d \in S : ~(q + 2 <= d) PROVE FALSE
  OBVIOUS
<1>1. S \in SUBSET ({q} \cup {q + 1})
  <2>1. \A d \in S : d = q \/ d = q + 1
    OBVIOUS
  <2> QED
    BY <2>1
<1>2. IsFiniteSet({q}) /\ Cardinality({q}) = 1
  BY FS_Singleton
<1>3. Cardinality({q} \cup {q + 1}) = 2 /\ IsFiniteSet({q} \cup {q + 1})
  BY <1>2, FS_AddElement
<1>4. Cardinality(S) <= Cardinality({q} \cup {q + 1}) /\ Cardinality(S) \in Nat
  BY <1>1, <1>3, FS_Subset, FS_CardinalityType
<1> QED
  BY <1>3, <1>4

\* The days of the sessions of a user, and its first.
DaysOf(u) == {d \in Days : u \in longTermDay[d].active}
FirstDay(u) == Min(Range(userSessions[u])) \div DayLength

LEMMA ActiveSince ==
  ASSUME BaseInv, ActiveDays, NEW u \in Users, userSessions[u] # <<>>
  PROVE  /\ FirstDay(u) \in DaysOf(u) /\ FirstDayEnd(u) = (FirstDay(u) + 1) * DayLength
         /\ \A s \in Range(userSessions[u]) : s \in Nat /\ s \div DayLength \in DaysOf(u)
         /\ \A d \in DaysOf(u) :
              d \in Nat /\ FirstDay(u) <= d /\ \E s \in Range(userSessions[u]) : s \div DayLength = d
<1> DEFINE S == Range(userSessions[u])
<1>1. userSessions[u] \in Seq(Nat) /\ userSessions[u] # <<>>
  BY DEF BaseInv, BooksType
<1>2. /\ S \in SUBSET Nat /\ S # {}
      /\ \A i \in DOMAIN userSessions[u] : userSessions[u][i] \in S
      /\ \A s \in S : \E i \in DOMAIN userSessions[u] : userSessions[u][i] = s
  <2>1. Len(userSessions[u]) \in DOMAIN userSessions[u]
    BY <1>1, EmptySeq
  <2>2. \A i \in DOMAIN userSessions[u] : userSessions[u][i] \in Nat
    BY <1>1
  <2>3. S = {userSessions[u][i] : i \in DOMAIN userSessions[u]}
    BY DEF Range
  <2> QED
    BY <2>1, <2>2, <2>3
<1>3. \A s \in S : s \in Nat /\ s <= Horizon
  BY <1>2 DEF ActiveDays
<1>4. \A s \in S : DayOf(s) = s \div DayLength /\ DayOf(s) \in Days
  BY <1>3, DayFacts
<1>5. \A d \in Days : d \in DaysOf(u) <=> \E i \in DOMAIN userSessions[u] : DayOf(userSessions[u][i]) = d
  BY DEF ActiveDays, DaysOf
<1> DEFINE m == Min(S)
<1>6. m \in S /\ \A s \in S : m <= s
  BY <1>2, LeastOf
<1>7. FirstDay(u) = m \div DayLength /\ FirstDayEnd(u) = (FirstDay(u) + 1) * DayLength
  BY DEF FirstDay, FirstDayEnd
<1> HIDE DEF S, m
<1>8. \A s \in S : s \div DayLength \in DaysOf(u)
  <2> SUFFICES ASSUME NEW s \in S PROVE s \div DayLength \in DaysOf(u)
    OBVIOUS
  <2>1. PICK i \in DOMAIN userSessions[u] : userSessions[u][i] = s
    BY <1>2
  <2>2. DayOf(s) \in DaysOf(u)
    BY <1>4, <1>5, <2>1
  <2> QED
    BY <1>4, <2>2
<1>9. ASSUME NEW d \in DaysOf(u)
      PROVE  d \in Nat /\ FirstDay(u) <= d /\ \E s \in S : s \div DayLength = d
  <2>1. d \in Days /\ d \in Nat
    BY DayFacts DEF DaysOf
  <2>2. PICK i \in DOMAIN userSessions[u] : DayOf(userSessions[u][i]) = d
    BY <1>5, <2>1
  <2>3. PICK s \in S : s = userSessions[u][i] /\ DayOf(s) = d
    BY <1>2, <2>2
  <2>4. s \div DayLength = d
    BY <1>4, <2>3
  <2>5. m \in Nat /\ s \in Nat /\ DayOf(m) <= DayOf(s)
    BY <1>3, <1>6, DayFacts
  <2>6. DayOf(m) = FirstDay(u)
    BY <1>4, <1>6, <1>7
  <2> QED
    BY <2>1, <2>3, <2>4, <2>5, <2>6
<1> QED
  BY <1>3, <1>6, <1>7, <1>8, <1>9 DEF S

\* Whoever returns within n days has a later day; two of them within the
\* window are a return.
LEMMA RetainedFacts ==
  ASSUME BaseInv, ActiveDays, NEW u \in Participating, NEW n \in Nat
  PROVE  /\ u \in Retained(n) => \E d \in DaysOf(u) : FirstDay(u) < d
         /\ \A d \in DaysOf(u) :
              FirstDay(u) + 2 <= d /\ d <= FirstDay(u) + n => u \in Retained(n)
<1>1. u \in Users /\ userSessions[u] # <<>>
  BY DEF Participating
<1>2. /\ FirstDay(u) \in DaysOf(u) /\ FirstDayEnd(u) = (FirstDay(u) + 1) * DayLength
      /\ \A s \in Range(userSessions[u]) : s \in Nat /\ s \div DayLength \in DaysOf(u)
      /\ \A d \in DaysOf(u) :
           d \in Nat /\ FirstDay(u) <= d /\ \E s \in Range(userSessions[u]) : s \div DayLength = d
  BY <1>1, ActiveSince
<1>3. PICK q \in Nat : q = FirstDay(u)
  BY <1>2
<1>4. PICK c \in Nat \ {0} : c = DayLength
  BY BooksAssumption
<1>5. PICK f \in Nat : f = FirstDayEnd(u) /\ f = (q + 1) * c
  <2>1. (q + 1) * c \in Nat
    BY ProductIsNat
  <2> QED
    BY <1>2, <1>3, <1>4, <2>1
<1>6. u \in Retained(n) <=> \E s \in Range(userSessions[u]) : s > f /\ s <= f + n * c
  BY <1>4, <1>5 DEF Retained
<1>7. ASSUME u \in Retained(n)
      PROVE  \E d \in DaysOf(u) : FirstDay(u) < d
  <2>1. PICK s \in Range(userSessions[u]) : s > f
    BY <1>6, <1>7
  <2>2. s \in Nat /\ s \div c \in DaysOf(u) /\ s \div c \in Nat
    BY <1>2, <1>4
  <2>3. (q + 1) * c <= s
    BY <1>5, <2>1, <2>2
  <2>4. q + 1 <= s \div c
    BY <2>2, <2>3, QuotientReaches
  <2>5. PICK d \in DaysOf(u) : d = s \div c /\ d \in Nat
    BY <2>2
  <2>6. q < d
    BY <2>4, <2>5
  <2> QED
    BY <1>3, <2>6
<1>8. ASSUME NEW d \in DaysOf(u), FirstDay(u) + 2 <= d, d <= FirstDay(u) + n
      PROVE  u \in Retained(n)
  <2>1. PICK s \in Range(userSessions[u]) : s \div c = d
    BY <1>2, <1>4
  <2>2. s \in Nat /\ d \in Nat /\ q + 2 <= d /\ d <= q + n
    BY <1>2, <1>3, <1>8
  <2>3. d * c <= s /\ s < d * c + c
    BY <2>1, <2>2, Quotient
  <2>4. (q + 2) * c <= d * c /\ d * c <= (q + n) * c
    BY <2>2, MoreDays
  <2>5. /\ (q + 2) * c = q * c + 2 * c /\ (q + n) * c = q * c + n * c
        /\ (q + 1) * c = q * c + 1 * c /\ 2 * c = c + c /\ 1 * c = c
    <3>1. \A k \in Nat : (q + k) * c = q * c + k * c
      BY OneDayMore
    <3> QED
      BY <3>1
  <2>6. q * c \in Nat /\ n * c \in Nat /\ d * c \in Nat
    BY <2>2, ProductIsNat
  <2>7. PICK qc \in Nat, nc \in Nat, dc \in Nat : qc = q * c /\ nc = n * c /\ dc = d * c
    BY <2>6
  <2>8. f = qc + c /\ qc + c + c <= dc /\ dc <= qc + nc /\ dc <= s /\ s < dc + c
    BY <1>5, <2>3, <2>4, <2>5, <2>7
  <2>9. s > f /\ s <= f + nc
    BY <2>2, <2>8
  <2> QED
    BY <1>6, <2>7, <2>9
<1> QED
  BY <1>7, <1>8

\* The report of the long-term book.
LEMMA RetentionReported ==
  ASSUME BaseInv, ActiveDays, report' # <<>>, report'.longTerm = LongTermReport
  PROVE  RetentionMeansReturn'
<1> DEFINE R == LongTermReport
           days(u) == {d \in Days : u \in R.byDay[d].active}
<1>1. \A u \in Users : days(u) = DaysOf(u)
  BY DEF LongTermReport, LongTermRow, DaysOf
<1>2. /\ R.participating = Participating /\ Participating \subseteq Users
      /\ R.short = Retained(ShortWindow) /\ R.long = Retained(LongWindow)
      /\ R.churned = {u \in Users : churnDay[u] >= 0}
      /\ R.byDay[NumDays - 1].churned = {u \in Users : churnDay[u] \in 0..NumDays - 1}
  BY DayFacts DEF LongTermReport, LongTermRow, Participating
<1>3. \A u \in Users : DaysOf(u) \in SUBSET Days /\ IsFiniteSet(DaysOf(u)) /\ DaysOf(u) \in SUBSET Nat
  BY DayFacts, FS_Subset DEF DaysOf
<1>4. ShortWindow \in Nat /\ LongWindow \in Nat /\ ShortWindow <= LongWindow /\ DayLength \in Nat
  BY BooksAssumption
<1>5. \A n \in Nat : Retained(n) \subseteq Participating
  BY DEF Retained
<1>6. R.short \subseteq R.long
  <2> SUFFICES ASSUME NEW u \in Retained(ShortWindow) PROVE u \in Retained(LongWindow)
    BY <1>2
  <2>1. u \in Participating /\ u \in Users /\ userSessions[u] # <<>>
    BY DEF Retained, Participating
  <2>2. PICK s \in Range(userSessions[u]) :
          s > FirstDayEnd(u) /\ s <= FirstDayEnd(u) + ShortWindow * DayLength
    BY DEF Retained
  <2>3. /\ s \in Nat /\ FirstDay(u) \in DaysOf(u)
        /\ FirstDayEnd(u) = (FirstDay(u) + 1) * DayLength
    BY <2>1, ActiveSince
  <2>4. FirstDayEnd(u) \in Nat
    <3>1. FirstDay(u) + 1 \in Nat
      BY <1>3, <2>1, <2>3
    <3> QED
      BY <1>4, <2>3, <3>1, ProductIsNat
  <2>5. PICK x \in Nat, y \in Nat :
          x = ShortWindow * DayLength /\ y = LongWindow * DayLength /\ x <= y
    BY <1>4, MoreDays, ProductIsNat
  <2>6. s <= FirstDayEnd(u) + LongWindow * DayLength
    BY <2>2, <2>3, <2>4, <2>5
  <2> QED
    BY <2>1, <2>2, <2>6 DEF Retained
<1>7. ASSUME NEW u \in R.long PROVE Cardinality(days(u)) > 1
  <2>1. u \in Retained(LongWindow) /\ u \in Participating /\ u \in Users /\ userSessions[u] # <<>>
    BY <1>2, <1>4, <1>5, <1>7 DEF Participating
  <2>2. FirstDay(u) \in DaysOf(u)
    BY <2>1, ActiveSince
  <2>3. PICK d \in DaysOf(u) : FirstDay(u) < d
    BY <1>4, <2>1, RetainedFacts
  <2>4. FirstDay(u) # d
    BY <1>3, <2>1, <2>2, <2>3
  <2> QED
    BY <1>1, <1>3, <2>1, <2>2, <2>4, MoreThanOne
<1>8. ASSUME NEW u \in R.participating,
             Cardinality({d \in days(u) : \A e \in days(u) : d <= e + LongWindow}) > 2
      PROVE  u \in R.long
  <2>1. u \in Participating /\ u \in Users /\ userSessions[u] # <<>>
    BY <1>2, <1>8 DEF Participating
  <2> DEFINE near == {d \in DaysOf(u) : \A e \in DaysOf(u) : d <= e + LongWindow}
  <2>2. Cardinality(near) > 2
    BY <1>1, <1>8, <2>1
  <2>3. PICK q \in DaysOf(u) : q = FirstDay(u) /\ q \in Nat /\ \A d \in DaysOf(u) : q <= d
    BY <1>3, <2>1, ActiveSince
  <2>4. near \in SUBSET Nat /\ \A d \in near : q <= d /\ d \in DaysOf(u) /\ d <= q + LongWindow
    BY <1>3, <2>1, <2>3
  <2> HIDE DEF near
  <2>5. PICK d \in near : q + 2 <= d
    BY <2>2, <2>3, <2>4, TwoLater
  <2> QED
    BY <1>2, <1>4, <2>1, <2>3, <2>4, <2>5, RetainedFacts
<1>9. R.churned = R.byDay[NumDays - 1].churned
  <2>1. churnDay \in [Users -> -1..NumDays - 1] /\ NumDays \in Nat
    BY DayFacts DEF BaseInv, BooksType
  <2>2. \A u \in Users : churnDay[u] >= 0 <=> churnDay[u] \in 0..NumDays - 1
    BY <2>1
  <2> QED
    BY <1>2, <2>2
<1> HIDE DEF R
<1>10. report'.longTerm = R
  BY DEF R
<1> QED
  BY <1>6, <1>7, <1>8, <1>9, <1>10 DEF RetentionMeansReturn

\* The reported retention is of users that came back on a later day, those of
\* the short window among those of the long one: never of a user whose first
\* day was its last, and surely of one active on two more days of the window.
THEOREM RetentionMeansReturnCorrect == BooksSpec => []RetentionMeansReturn
<1>1. BooksInit => RetentionMeansReturn
  BY DEF BooksInit, RetentionMeansReturn
<1>2. BooksBase /\ LongTermInv /\ RetentionMeansReturn /\ [BooksNext]_booksVars => RetentionMeansReturn'
  <2> SUFFICES ASSUME BooksBase, LongTermInv, RetentionMeansReturn, [BooksNext]_booksVars
               PROVE  RetentionMeansReturn'
    OBVIOUS
  <2>1. BaseInv
    BY DEF BooksBase
  <2>2. CASE UNCHANGED <<report, gates>>
    BY <2>2 DEF RetentionMeansReturn, LongTermGate
  <2>3. CASE clock = "event" /\ CloseBooks
    <3>1. /\ gates' = gates
          /\ report' = [sessions |-> health'.closed,
                        longTerm |-> IF LongTermGate THEN LongTermReport ELSE <<>>,
                        ecosystem |-> EcosystemReport]
      BY <2>3 DEF CloseBooks, DrainSessions
    <3>2. CASE LongTermGate
      <4>1. ActiveDays
        BY <2>3, <3>2 DEF LongTermInv
      <4>2. report'.longTerm = LongTermReport
        BY <3>1, <3>2
      <4>3. report' # <<>>
        <5>1. \A a, b, c : [sessions |-> a, longTerm |-> b, ecosystem |-> c] # <<>>
          OBVIOUS
        <5> QED
          BY <3>1, <5>1
      <4> QED
        BY <2>1, <4>1, <4>2, <4>3, RetentionReported
    <3>3. CASE ~LongTermGate
      BY <3>1, <3>3 DEF RetentionMeansReturn, LongTermGate
    <3> QED
      BY <3>2, <3>3
  <2>4. CASE NoBooks
    <3>1. report' = <<>>
      BY <2>1, <2>4 DEF NoBooks, books, BaseInv, AwayInv
    <3> QED
      BY <3>1 DEF RetentionMeansReturn
  <2>5. ASSUME clock = "event",
               \/ \E u \in Users, r \in Reels, start \in Starts \cup {now}, watch \in WatchTimes :
                    BookImpression(u, r, start, watch)
               \/ \E u \in Users, delay \in ReturnDelays : BookExit(u, delay)
        PROVE  UNCHANGED <<report, gates>>
    <3>1. ASSUME NEW u \in Users, NEW r \in Reels, NEW start \in Starts \cup {now},
                 NEW watch \in WatchTimes, BookImpression(u, r, start, watch)
          PROVE  UNCHANGED <<report, gates>>
      BY <3>1 DEF BookImpression, Impression
    <3>2. ASSUME NEW u \in Users, NEW delay \in ReturnDelays, BookExit(u, delay)
          PROVE  UNCHANGED <<report, gates>>
      BY <3>2 DEF BookExit, ExitApp
    <3> QED
      BY <2>5, <3>1, <3>2
  <2>6. CASE UNCHANGED booksVars
    BY <2>2, <2>6 DEF booksVars, books, dynVars
  <2> QED
    BY <2>2, <2>3, <2>4, <2>5, <2>6 DEF BooksNext
<1> QED
  BY <1>1, <1>2, BooksBaseInvariant, LongTermInvariant, PTL DEF BooksSpec
------------------------------------------------------------------------------
(* The ecosystem book *)

Shown == [d \in Days |-> ecosystemDay[d].impressions]
WatchCounts == [u \in Users |-> Len(events[u])]

ShownAll == Total(Shown, Days) = Total(WatchCounts, Users)

\* What the other books know of a day has an impression there.
DaysShown ==
  \A d \in Days :
    /\ longTermDay[d].sessions + healthDay[d].closed > 0 => ecosystemDay[d].impressions > 0
    /\ ecosystemDay[d].matches <= ecosystemDay[d].niche

\* So has the first day of an open session.
OpenShown ==
  ~drained => \A u \in Users :
    hidden[u].impressions > 0 => ecosystemDay[DayOf(hidden[u].start)].impressions > 0

\* The last day with impressions is that of the event dispatched last.
LatestShown ==
  IF \A u \in Users : events[u] = <<>> THEN \A d \in Days : ecosystemDay[d].impressions = 0
  ELSE /\ ecosystemDay[DayOf(popped)].impressions > 0
       /\ \A d \in Days : d > DayOf(popped) => ecosystemDay[d].impressions = 0

ReportShown ==
  report # <<>> =>
    IF \A u \in Users : events[u] = <<>> THEN report.ecosystem.finalDay = -1
    ELSE /\ report.ecosystem.finalDay = DayOf(popped)
         /\ report.ecosystem.hhi >= report.ecosystem.byDay[DayOf(popped)].hhi

ShownInv == clock = "event" => ShownAll /\ DaysShown /\ OpenShown /\ LatestShown /\ ReportShown

LEMMA EcosystemTypes ==
  ASSUME BaseInv
  PROVE  \A d \in Days : /\ ecosystemDay[d].impressions \in Nat
                         /\ ecosystemDay[d].creators \in [Reels -> Nat]
                         /\ ecosystemDay[d].niche \in Nat /\ ecosystemDay[d].matches \in Nat
                         /\ longTermDay[d].sessions \in Nat /\ healthDay[d].closed \in Nat
<1> SUFFICES ASSUME NEW d \in Days
             PROVE  /\ ecosystemDay[d].impressions \in Nat
                    /\ ecosystemDay[d].creators \in [Reels -> Nat]
                    /\ ecosystemDay[d].niche \in Nat /\ ecosystemDay[d].matches \in Nat
                    /\ longTermDay[d].sessions \in Nat /\ healthDay[d].closed \in Nat
  OBVIOUS
<1>1. /\ ecosystemDay[d] \in EcosystemRows
      /\ longTermDay[d] \in [sessions : Nat, active : SUBSET Users]
      /\ healthDay[d] \in [Kinds -> Nat]
  BY DEF BaseInv, BooksType
<1>2. healthDay[d]["closed"] \in Nat
  BY <1>1 DEF Kinds
<1> QED
  BY <1>1, <1>2 DEF EcosystemRows

LEMMA ShownStep ==
  ASSUME BooksBase, BooksBase', ShownInv, clock = "event", NEW u \in Users, NEW r \in Reels,
         NEW b \in Nat, NEW start \in Nat, NEW exit \in BOOLEAN, BooksStepOf(u, r, b, start, exit)
  PROVE  ShownInv'
<1>1. /\ ShownAll /\ DaysShown /\ OpenShown /\ LatestShown /\ BaseInv /\ TypeOK
      /\ BaseInv' /\ TypeOK'
  BY DEF ShownInv, BooksBase
<1>2. /\ ~drained /\ ~drained' /\ clock' = clock /\ b <= start /\ report' = report
      /\ MovesUser(u, b, start, exit) /\ BooksSession(u, b, start, exit)
      /\ CountEcosystem(u, r, DayOf(start)) /\ report = <<>>
  BY <1>1 DEF BooksStepOf, BaseInv, AwayInv
<1>3. /\ DayOf(start) \in Days /\ DayOf(b) \in Days /\ popped \in Nat
      /\ DayOf(popped) <= DayOf(start) /\ DayOf(popped) \in Days /\ \A d \in Days : d \in Nat
  BY <1>1, <1>2, DayFacts DEF TypeOK, MovesUser
<1>4. /\ \A d \in Days : d # DayOf(start) => ecosystemDay'[d] = ecosystemDay[d]
      /\ ecosystemDay'[DayOf(start)].impressions = ecosystemDay[DayOf(start)].impressions + 1
      /\ \E n \in {0, 1} : \E m \in 0..n :
           /\ ecosystemDay'[DayOf(start)].niche = ecosystemDay[DayOf(start)].niche + n
           /\ ecosystemDay'[DayOf(start)].matches = ecosystemDay[DayOf(start)].matches + m
  <2>1. ecosystemDay \in [Days -> EcosystemRows]
    BY <1>1 DEF BaseInv, BooksType
  <2> QED
    BY <1>2, <1>3, <2>1, EcosystemMoves
<1>5. \A d \in Days : /\ ecosystemDay[d].impressions \in Nat
                      /\ ecosystemDay[d].niche \in Nat /\ ecosystemDay[d].matches \in Nat
                      /\ longTermDay[d].sessions \in Nat /\ healthDay[d].closed \in Nat
  BY <1>1, EcosystemTypes
<1>6. \A d \in Days : /\ ecosystemDay'[d].impressions \in Nat
                      /\ ecosystemDay[d].impressions > 0 => ecosystemDay'[d].impressions > 0
  <2> SUFFICES ASSUME NEW d \in Days
               PROVE  /\ ecosystemDay'[d].impressions \in Nat
                      /\ ecosystemDay[d].impressions > 0 => ecosystemDay'[d].impressions > 0
    OBVIOUS
  <2>1. CASE d = DayOf(start)
    BY <1>4, <1>5, <2>1
  <2>2. CASE d # DayOf(start)
    BY <1>4, <1>5, <2>2
  <2> QED
    BY <2>1, <2>2
<1>7. ecosystemDay'[DayOf(start)].impressions > 0 /\ ecosystemDay'[DayOf(b)].impressions > 0
  <2>1. ecosystemDay'[DayOf(start)].impressions > 0
    BY <1>3, <1>4, <1>5
  <2>2. CASE hidden[u].impressions = 0
    BY <1>2, <2>1, <2>2 DEF MovesUser
  <2>3. CASE hidden[u].impressions # 0
    <3>1. hidden[u].impressions > 0
      <4>1. hidden[u] \in Impressions
        BY <1>1 DEF TypeOK
      <4> QED
        BY <2>3, <4>1 DEF Impressions
    <3>2. b = hidden[u].start
      BY <1>2, <2>3 DEF MovesUser
    <3>3. ecosystemDay[DayOf(b)].impressions > 0
      BY <1>1, <1>2, <3>1, <3>2 DEF OpenShown
    <3> QED
      BY <1>3, <1>6, <2>1, <3>3
  <2> QED
    BY <2>1, <2>2, <2>3
<1>8. ShownAll'
  <2>1. PICK f, g, v, w : f = Shown /\ g = Shown' /\ v = WatchCounts /\ w = WatchCounts'
    OBVIOUS
  <2>2. PICK day \in Days : day = DayOf(start)
    BY <1>3
  <2>3. \A d \in Days : f[d] \in Nat /\ (d # day => g[d] = f[d])
    BY <1>4, <1>5, <2>1, <2>2 DEF Shown
  <2>4. g[day] = f[day] + 1
    BY <1>4, <2>1, <2>2 DEF Shown
  <2>5. Total(g, Days) = Total(f, Days) + 1
    <3>1. IsFiniteSet(Days)
      BY DayFacts
    <3> QED
      <4>1. PICK n \in Nat : n = 1 /\ g[day] = f[day] + n
        BY <2>4
      <4>2. Total(g, Days) = Total(f, Days) + n
        BY <2>3, <3>1, <4>1, TotalMore
      <4> QED
        BY <4>1, <4>2
  <2>6. \A x \in Users : v[x] \in Nat /\ (x # u => w[x] = v[x])
    <3>1. \A x \in Users : Len(events[x]) \in Nat
      BY <1>1 DEF TypeOK
    <3>2. \A x \in Users : x # u => events'[x] = events[x]
      BY <1>2 DEF MovesUser
    <3> QED
      BY <2>1, <3>1, <3>2 DEF WatchCounts
  <2>7. w[u] = v[u] + 1
    BY <1>2, <2>1 DEF WatchCounts, MovesUser
  <2>8. Total(w, Users) = Total(v, Users) + 1
    BY <2>6, <2>7, SimulatorAssumption, TotalMore
  <2>9. ShownAll' <=> Total(Shown', Days) = Total(WatchCounts', Users)
    BY DEF ShownAll, Total, Marks
  <2> QED
    BY <1>1, <2>1, <2>5, <2>8, <2>9 DEF ShownAll
<1>9. DaysShown'
  <2> SUFFICES ASSUME NEW d \in Days
               PROVE  /\ longTermDay'[d].sessions + healthDay'[d].closed > 0
                           => ecosystemDay'[d].impressions > 0
                      /\ ecosystemDay'[d].matches <= ecosystemDay'[d].niche
    BY DEF DaysShown
  <2>1. ecosystemDay'[d].matches <= ecosystemDay'[d].niche
    <3>1. ecosystemDay[d].matches <= ecosystemDay[d].niche
      BY <1>1 DEF DaysShown
    <3>2. CASE d # DayOf(start)
      BY <1>4, <3>1, <3>2
    <3>3. CASE d = DayOf(start)
      <4>1. PICK n \in {0, 1}, m \in {0, 1} :
              /\ m <= n /\ ecosystemDay'[d].niche = ecosystemDay[d].niche + n
              /\ ecosystemDay'[d].matches = ecosystemDay[d].matches + m
        BY <1>4, <3>3
      <4> QED
        BY <1>5, <3>1, <4>1
    <3> QED
      BY <3>2, <3>3
  <2>2. ASSUME d # DayOf(start), d # DayOf(b)
        PROVE  longTermDay'[d] = longTermDay[d] /\ healthDay'[d] = healthDay[d]
    BY <1>1, <1>2, <2>2 DEF BooksSession, BaseInv, BooksType
  <2>3. CASE d # DayOf(start) /\ d # DayOf(b)
    <3>1. longTermDay[d].sessions + healthDay[d].closed > 0 => ecosystemDay[d].impressions > 0
      BY <1>1 DEF DaysShown
    <3> QED
      BY <1>6, <2>1, <2>2, <2>3, <3>1
  <2>4. CASE d = DayOf(start) \/ d = DayOf(b)
    BY <1>7, <2>1, <2>4
  <2> QED
    BY <2>3, <2>4
<1>10. OpenShown'
  <2> SUFFICES ASSUME NEW v \in Users, hidden'[v].impressions > 0
               PROVE  ecosystemDay'[DayOf(hidden'[v].start)].impressions > 0
    BY DEF OpenShown
  <2>1. CASE v # u
    <3>1. hidden'[v] = hidden[v] /\ hidden[v].start \in Nat
      BY <1>1, <1>2, <2>1 DEF MovesUser, TypeOK, Impressions
    <3>2. ecosystemDay[DayOf(hidden[v].start)].impressions > 0 /\ DayOf(hidden[v].start) \in Days
      BY <1>1, <1>2, <3>1, DayFacts DEF OpenShown
    <3> QED
      BY <1>6, <3>1, <3>2
  <2>2. CASE v = u
    <3>1. hidden'[u].start = b
      BY <1>2, <2>2 DEF MovesUser
    <3> QED
      BY <1>7, <2>2, <3>1
  <2> QED
    BY <2>1, <2>2
<1>11. LatestShown'
  <2>1. events'[u] # <<>> /\ popped' = start
    <3>1. Len(events'[u]) > 0 /\ events'[u] \in Seq(Event)
      <4>1. Len(events[u]) \in Nat
        BY <1>1 DEF TypeOK
      <4> QED
        BY <1>1, <1>2, <4>1 DEF MovesUser, TypeOK, Event
    <3> QED
      BY <1>2, <3>1 DEF MovesUser
  <2>2. ASSUME NEW d \in Days, d > DayOf(start) PROVE ecosystemDay'[d].impressions = 0
    <3>1. d > DayOf(popped) /\ d # DayOf(start)
      BY <1>3, <2>2
    <3>2. ecosystemDay[d].impressions = 0
      BY <1>1, <3>1 DEF LatestShown
    <3> QED
      BY <1>4, <3>1, <3>2
  <2> QED
    BY <1>7, <2>1, <2>2 DEF LatestShown
<1> QED
  BY <1>2, <1>8, <1>9, <1>10, <1>11 DEF ShownInv, ReportShown

\* The square grows with the number.
LEMMA Squares ==
  ASSUME NEW a \in Nat, NEW b \in Nat, a <= b
  PROVE  a * a \in Nat /\ b * b \in Nat /\ a * a <= b * b
<1>1. a * a <= b * a /\ a * b <= b * b
  BY MoreDays
<1>2. b * a = a * b
  OBVIOUS
<1>3. a * a \in Nat /\ b * b \in Nat /\ a * b \in Nat
  BY ProductIsNat
<1> QED
  BY <1>1, <1>2, <1>3

\* A day's impressions of a creator are among those of the run.
LEMMA ConcentrationGrows ==
  ASSUME BaseInv, NEW d \in Days
  PROVE  Concentration(CreatorImpressions(Days)) >= Concentration(ecosystemDay[d].creators)
<1> DEFINE own == ecosystemDay[d].creators
           whole == CreatorImpressions(Days)
           f == [r \in Reels |-> own[r] * own[r]]
           g == [r \in Reels |-> whole[r] * whole[r]]
<1>1. IsFiniteSet(Reels) /\ IsFiniteSet(Days)
  BY BooksAssumption, DayFacts
<1>2. ASSUME NEW r \in Reels
      PROVE  own[r] \in Nat /\ whole[r] \in Nat /\ own[r] <= whole[r]
  <2> DEFINE c == [e \in Days |-> ecosystemDay[e].creators[r]]
  <2>1. \A e \in Days : c[e] \in Nat
    BY EcosystemTypes
  <2>2. c[d] = own[r] /\ whole[r] = Total(c, Days)
    BY DEF CreatorImpressions
  <2> HIDE DEF c, own, whole
  <2>3. c[d] <= Total(c, Days) /\ Total(c, Days) \in Nat
    BY <1>1, <2>1, TotalAtLeast, TotalFacts
  <2> QED
    BY <2>1, <2>2, <2>3
<1>3. Concentration(own) = Total(f, Reels) /\ Concentration(whole) = Total(g, Reels)
  BY DEF Concentration
<1> HIDE DEF own, whole
<1>4. \A r \in Reels : f[r] \in Nat /\ g[r] \in Nat /\ f[r] <= g[r]
  <2> SUFFICES ASSUME NEW r \in Reels PROVE f[r] \in Nat /\ g[r] \in Nat /\ f[r] <= g[r]
    OBVIOUS
  <2>1. PICK x \in Nat, y \in Nat : x = own[r] /\ y = whole[r] /\ x <= y
    BY <1>2
  <2>2. x * x \in Nat /\ y * y \in Nat /\ x * x <= y * y
    BY <2>1, Squares
  <2>3. f[r] = x * x /\ g[r] = y * y
    BY <2>1
  <2> QED
    BY <2>2, <2>3
<1> HIDE DEF f, g
<1>5. Total(f, Reels) <= Total(g, Reels) /\ Total(f, Reels) \in Nat /\ Total(g, Reels) \in Nat
  BY <1>1, <1>4, TotalMonotone, TotalFacts
<1> QED
  BY <1>3, <1>5 DEF own, whole

LEMMA FinalDayFound ==
  ASSUME BaseInv, TypeOK, LatestShown
  PROVE  IF \A u \in Users : events[u] = <<>> THEN FinalDay = -1 ELSE FinalDay = DayOf(popped)
<1> DEFINE S == {-1} \cup {d \in Days : ecosystemDay[d].impressions > 0}
<1>1. FinalDay = Max(S)
  BY DEF FinalDay
<1>2. DayOf(popped) \in Days /\ \A d \in Days : d \in Nat /\ ecosystemDay[d].impressions \in Nat
  BY DayFacts, EcosystemTypes DEF TypeOK
<1>3. CASE \A u \in Users : events[u] = <<>>
  <2>1. S = {-1}
    BY <1>2, <1>3 DEF LatestShown
  <2>2. Max({-1}) = -1
    BY DEF Max
  <2> QED
    BY <1>1, <1>3, <2>1, <2>2
<1>4. CASE ~(\A u \in Users : events[u] = <<>>)
  <2>1. /\ ecosystemDay[DayOf(popped)].impressions > 0
        /\ \A d \in Days : d > DayOf(popped) => ecosystemDay[d].impressions = 0
    BY <1>4 DEF LatestShown
  <2>2. PICK m \in Nat : m = DayOf(popped)
    BY <1>2
  <2>3. m \in S /\ \A x \in S : x \in Int /\ m >= x
    BY <1>2, <2>1, <2>2
  <2> HIDE DEF S
  <2>4. Max(S) \in S /\ \A x \in S : Max(S) >= x
    BY <2>3 DEF Max
  <2>5. Max(S) \in Int /\ Max(S) >= m /\ m >= Max(S)
    BY <2>3, <2>4
  <2>6. Max(S) = m
    BY <2>5
  <2> QED
    BY <1>1, <1>4, <2>2, <2>6
<1> QED
  BY <1>3, <1>4

LEMMA ShownDrain ==
  ASSUME BooksBase, ShownInv, clock = "event", CloseBooks
  PROVE  ShownInv'
<1>1. /\ ShownAll /\ DaysShown /\ OpenShown /\ LatestShown /\ BaseInv /\ TypeOK
  BY DEF ShownInv, BooksBase
<1>2. /\ drained' /\ UNCHANGED <<clock, popped, events, longTermDay, ecosystemDay>>
      /\ healthDay' = [healthDay EXCEPT ![NumDays - 1] = Tallied(@, OpenUsers, "open")]
      /\ report' = [sessions |-> health'.closed,
                    longTerm |-> IF LongTermGate THEN LongTermReport ELSE <<>>,
                    ecosystem |-> EcosystemReport]
  BY DEF CloseBooks, DrainSessions, DrainOpenSessions, config, timeVars
<1>3. \A d \in Days : healthDay'[d].closed = healthDay[d].closed
  <2>1. PICK day \in Days, who \in SUBSET Users, kind \in {"closed", "open"} :
          /\ day = NumDays - 1 /\ kind = "open"
          /\ healthDay' = [healthDay EXCEPT ![day] = Tallied(healthDay[day], who, kind)]
    <3>1. NumDays - 1 \in Days /\ OpenUsers \in SUBSET Users
      BY DayFacts DEF OpenUsers
    <3> QED
      BY <1>2, <3>1
  <2>2. healthDay \in [Days -> [Kinds -> Nat]] /\ healthDay[day] \in [Kinds -> Nat]
    BY <1>1 DEF BaseInv, BooksType
  <2>3. "closed" \in Kinds /\ Tally(who, kind, "closed") = 0
    BY <2>1 DEF Kinds, Tally
  <2>4. Tallied(healthDay[day], who, kind)["closed"] = healthDay[day]["closed"] + 0
    BY <2>2, <2>3, TalliedFacts
  <2>5. healthDay'[day] = Tallied(healthDay[day], who, kind) /\ healthDay[day]["closed"] \in Nat
    BY <2>1, <2>2, <2>3
  <2>6. \A d \in Days : d # day => healthDay'[d] = healthDay[d]
    BY <2>1, <2>2
  <2>7. healthDay'[day]["closed"] = healthDay[day]["closed"]
    BY <2>4, <2>5
  <2> QED
    BY <2>6, <2>7
<1>4. ShownAll'
  BY <1>1, <1>2 DEF ShownAll, Shown, WatchCounts, Total, Marks
<1>5. DaysShown'
  BY <1>1, <1>2, <1>3 DEF DaysShown
<1>6. OpenShown'
  BY <1>2 DEF OpenShown
<1>7. LatestShown'
  BY <1>1, <1>2 DEF LatestShown
<1>8. ReportShown'
  <2>1. report'.ecosystem = EcosystemReport
    BY <1>2
  <2>2. /\ EcosystemReport.finalDay = FinalDay
        /\ EcosystemReport.hhi = Concentration(CreatorImpressions(Days))
        /\ \A d \in Days : EcosystemReport.byDay[d].hhi = Concentration(ecosystemDay[d].creators)
    BY DEF EcosystemReport, EcosystemRow
  <2>3. DayOf(popped) \in Days
    BY <1>1, DayFacts DEF TypeOK
  <2>4. Concentration(CreatorImpressions(Days)) >= Concentration(ecosystemDay[DayOf(popped)].creators)
    BY <1>1, <2>3, ConcentrationGrows
  <2>5. IF \A u \in Users : events[u] = <<>> THEN FinalDay = -1 ELSE FinalDay = DayOf(popped)
    BY <1>1, FinalDayFound
  <2>6. events' = events /\ popped' = popped
    BY <1>2
  <2> QED
    BY <2>1, <2>2, <2>3, <2>4, <2>5, <2>6 DEF ReportShown
<1> QED
  BY <1>4, <1>5, <1>6, <1>7, <1>8 DEF ShownInv

LEMMA ShownInvariant == BooksSpec => []ShownInv
<1>1. BooksInit => ShownInv
  <2> SUFFICES ASSUME BooksInit PROVE ShownInv
    OBVIOUS
  <2>1. /\ \A d \in Days : /\ longTermDay[d].sessions = 0 /\ healthDay[d].closed = 0
                           /\ ecosystemDay[d].impressions = 0
                           /\ ecosystemDay[d].matches = 0 /\ ecosystemDay[d].niche = 0
        /\ \A u \in Users : events[u] = <<>> /\ hidden[u].impressions = 0
        /\ report = <<>>
    BY DEF BooksInit, DynInit, Init, NoHealth, NoSession
  <2>2. ShownAll
    <3>1. Total(Shown, Days) = 0
      <4>1. \A d \in Days : Shown[d] = 0
        BY <2>1 DEF Shown
      <4> QED
        BY <4>1, DayFacts, TotalZero
    <3>2. Total(WatchCounts, Users) = 0
      <4>1. \A u \in Users : WatchCounts[u] = 0
        BY <2>1 DEF WatchCounts
      <4> QED
        BY <4>1, SimulatorAssumption, TotalZero
    <3> QED
      BY <3>1, <3>2 DEF ShownAll
  <2>3. DaysShown
    BY <2>1 DEF DaysShown
  <2>4. OpenShown
    BY <2>1 DEF OpenShown
  <2>5. LatestShown /\ ReportShown
    BY <2>1 DEF LatestShown, ReportShown
  <2> QED
    BY <2>2, <2>3, <2>4, <2>5 DEF ShownInv
<1>2. BooksBase /\ BooksBase' /\ ShownInv /\ [BooksNext]_booksVars => ShownInv'
  <2> SUFFICES ASSUME BooksBase, BooksBase', ShownInv, [BooksNext]_booksVars PROVE ShownInv'
    OBVIOUS
  <2>1. ASSUME NEW u \in Users, NEW r \in Reels, NEW start \in Starts \cup {now},
               NEW watch \in WatchTimes, clock = "event", BookImpression(u, r, start, watch)
        PROVE  ShownInv'
    <3>1. PICK b \in Nat, exit \in BOOLEAN : BooksStepOf(u, r, b, start, exit)
      BY <2>1, BookImpressionFacts DEF BooksBase
    <3>2. start \in Nat
      BY <3>1 DEF BooksStepOf
    <3> QED
      BY <2>1, <3>1, <3>2, ShownStep
  <2>2. ASSUME UNCHANGED <<clock, popped, events, hidden, drained, healthDay, longTermDay,
                           ecosystemDay, report>>
        PROVE  ShownInv'
    BY <2>2 DEF ShownInv, ShownAll, DaysShown, OpenShown, LatestShown, ReportShown, Shown,
                WatchCounts, Total, Marks
  <2>3. ASSUME NEW u \in Users, NEW delay \in ReturnDelays, clock = "event", BookExit(u, delay)
        PROVE  ShownInv'
    BY <2>2, <2>3 DEF BookExit, ExitApp, vars, config, timeVars
  <2>4. CASE clock = "event" /\ CloseBooks
    BY <2>4, ShownDrain
  <2>5. CASE NoBooks
    <3>1. [Next]_vars
      BY BooksStepDynamics, DynStepSimulates
    <3>2. clock' = clock
      BY <3>1 DEF Next, Step, DrainOpenSessions, vars, config
    <3> QED
      BY <2>5, <3>2 DEF NoBooks, ShownInv
  <2>6. CASE UNCHANGED booksVars
    BY <2>2, <2>6 DEF booksVars, books, dynVars, vars, config, timeVars
  <2> QED
    BY <2>1, <2>3, <2>4, <2>5, <2>6 DEF BooksNext
<1> QED
  BY <1>1, <1>2, BooksBaseInvariant, PTL DEF BooksSpec

\* Every impression is in the ecosystem book of its day, where a session of
\* that day's books has one too; the final day is the day of the last one.
THEOREM EcosystemCompleteCorrect == BooksSpec => []EcosystemComplete
<1>1. ShownInv => EcosystemComplete
  BY DEF ShownInv, ShownAll, DaysShown, ReportShown, Shown, WatchCounts, EcosystemComplete
<1> QED
  BY <1>1, ShownInvariant, PTL

\* The books of the run agree with each other and with the users, whatever
\* the users watch, leave and return.
THEOREM BooksAgreeCorrect == BooksSpec => []BooksAgree
<1>1. BooksSpec => []SessionsBooked
  BY ImplementsDynamics, SessionsBookedCorrect, PTL
<1> QED
  BY <1>1, SessionBooksAgreeCorrect, ChurnEndsActivityCorrect, RetentionMeansReturnCorrect,
     EcosystemCompleteCorrect, PTL DEF BooksAgree
=============================================================================
