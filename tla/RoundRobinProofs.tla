-------------------------- MODULE RoundRobinProofs --------------------------
(***************************************************************************)
(* Theorems about RoundRobinRunner for every configuration: nobody has     *)
(* spent its budget when its turn comes, every impression is served under  *)
(* the latest drift its user has reached, the cold-start curve counts each *)
(* injected user once, and ledgers, records and result add up to what the  *)
(* users saw.                                                              *)
(***************************************************************************)
EXTENDS RoundRobinRunner, SequenceTheorems, FiniteSetTheorems, WellFoundedInduction, TLAPS

------------------------------------------------------------------------------
(* Numbers *)

\* A non-empty set of naturals has a least member.
LEMMA LeastNat ==
  ASSUME NEW S \in SUBSET Nat, S # {}
  PROVE  \E m \in S : \A n \in S : m <= n
<1> DEFINE R == {p \in Nat \X Nat : p[1] < p[2]}
<1>1. IsWellFoundedOn(R, Nat)
  BY NatLessThanWellFounded DEF OpToRel
<1> HIDE DEF R
<1>2. PICK m \in S : \A n \in S : ~(<<n, m>> \in R)
  BY <1>1, WFMin, Zenon
<1>3. ASSUME NEW n \in S PROVE m <= n
  <2>1. n \in Nat /\ m \in Nat /\ ~(n < m)
    BY <1>2 DEF R
  <2> QED
    BY <2>1
<1> QED
  BY <1>3

\* A non-empty set of naturals below a bound has a greatest member.
LEMMA GreatestNat ==
  ASSUME NEW n \in Nat, NEW S \in SUBSET (0..n), S # {}
  PROVE  \E m \in S : \A x \in S : x <= m
<1> DEFINE T == {n - x : x \in S}
<1>1. T \in SUBSET Nat /\ T # {}
  <2>1. \A x \in S : n - x \in Nat
    OBVIOUS
  <2> QED
    BY <2>1
<1>2. PICK t \in T : \A y \in T : t <= y
  BY <1>1, LeastNat
<1>3. PICK m \in S : t = n - m
  OBVIOUS
<1>4. \A x \in S : n - m <= n - x
  BY <1>2, <1>3
<1> QED
  BY <1>4

\* The feeds needed to spend a budget: one fewer would not have been enough.
LEMMA CeilFeeds ==
  ASSUME NEW f \in Nat \ {0}, NEW b \in Nat
  PROVE  /\ (b + f - 1) \div f \in Nat
         /\ \A r \in Nat : r < (b + f - 1) \div f => r * f < b
<1> DEFINE q == (b + f - 1) \div f
<1>1. q \in Nat /\ q * f <= b + f - 1
  OBVIOUS
<1>2. ASSUME NEW r \in Nat, r < q PROVE r * f < b
  <2> HIDE DEF q
  <2>1. (r + 1) * f <= q * f
    BY <1>1, <1>2
  <2>2. (r + 1) * f = r * f + f /\ r * f \in Nat /\ q * f \in Nat
    BY <1>1
  <2> QED
    BY <1>1, <2>1, <2>2
<1> QED
  BY <1>1, <1>2

\* What divides into a round comes before that round's end.
LEMMA RoundOf ==
  ASSUME NEW f \in Nat \ {0}, NEW n \in Nat, NEW r \in Nat, n < (r + 1) * f
  PROVE  n \div f \in Nat /\ n \div f <= r
<1> DEFINE q == n \div f
<1>1. q \in Nat /\ q * f <= n
  OBVIOUS
<1> HIDE DEF q
<1>2. CASE q > r
  <2>1. (r + 1) * f <= q * f
    BY <1>1, <1>2
  <2>2. (r + 1) * f \in Nat /\ q * f \in Nat
    BY <1>1
  <2> QED
    BY <1>1, <2>1, <2>2
<1>3. q \in Nat /\ q <= r
  BY <1>1, <1>2
<1> QED
  BY <1>3 DEF q

------------------------------------------------------------------------------
(* The inductive invariant *)

\* The user that has been served in this round.
Passed(u) == stage \in {"request", "consume"} /\ u < turn

\* What of the feed at hand u has consumed.
Consumed(u) == IF stage = "consume" /\ u = turn THEN served ELSE 0

\* Every round takes at most a feed off the budget of each user.
BudgetInv ==
  /\ stage \in {"round", "request", "consume"} => round < Rounds
  /\ stage = "consume" => /\ turn < users /\ Len(feed) <= config.feedSize
                          /\ served < ToConsume(turn)
  /\ \A u \in Users :
       /\ done[u] <= config.interactionsPerUser
       /\ done[u] <= (IF Passed(u) THEN round + 1 ELSE round) * config.feedSize
       /\ total[u] = done[u] + Consumed(u)
       /\ Len(log[u]) = total[u]

\* Every impression has a round of its own and was served under the drift
\* in force, and so is the next; a drifted user's has been counted as such.
DriftInv ==
  /\ drifted = [u \in Users |-> EverApplies(u)]
  /\ \A u \in Users :
       /\ pref[u] = InForce(u, total[u] - 1)
       /\ \A i \in DOMAIN log[u] :
            /\ log[u][i].pref = InForce(u, i - 1)
            /\ log[u][i].round < Rounds /\ i <= (log[u][i].round + 1) * config.feedSize
            /\ EverApplies(u) => ledger[log[u][i].round].drifted > 0
  /\ stage = "done" /\ config.drift # <<>> => report.adaptation = AdaptationReport

\* The rows count the injected users that got so far; whoever is served inside
\* the tracked window has had the oracle asked.
CurveInv ==
  /\ \A i \in DOMAIN curve :
       LET reached == Cardinality({u \in Users : Injected(u) /\ total[u] > i})
       IN curve[i] = [users |-> reached, evaluated |-> reached]
  /\ stage = "consume" /\ ForceColdStart(turn) => evaluated
  /\ stage = "done" => report.newUserCurve = NewUserCurve

------------------------------------------------------------------------------
(* Types *)

\* The configuration's fields and its number of rounds.
LEMMA ConfigFacts ==
  ASSUME TypeOK
  PROVE  /\ config \in Config /\ config.feedSize \in Nat /\ config.interactionsPerUser \in Nat
         /\ config.users \in Nat /\ config.newUsers \in Nat /\ config.newReels \in Nat
         /\ config.drift \in Seq([at : Nat, cohort : SUBSET Nat])
         /\ Rounds \in Nat
         /\ \A r \in Nat : r < Rounds => /\ config.feedSize > 0
                                         /\ r * config.feedSize < config.interactionsPerUser
<1>1. /\ config \in Config /\ config.feedSize \in Nat /\ config.interactionsPerUser \in Nat
      /\ config.users \in Nat /\ config.newUsers \in Nat /\ config.newReels \in Nat
      /\ config.drift \in Seq([at : Nat, cohort : SUBSET Nat])
  BY ConfigsAssumption DEF TypeOK, Config
<1>2. CASE config.feedSize = 0
  <2>1. Rounds = 0
    BY <1>2 DEF Rounds
  <2> QED
    BY <1>1, <2>1
<1>3. CASE config.feedSize # 0
  <2> DEFINE f == config.feedSize
             b == config.interactionsPerUser
  <2>1. Rounds = (b + f - 1) \div f
    BY <1>1, <1>3 DEF Rounds
  <2>2. f \in Nat \ {0} /\ b \in Nat
    BY <1>1, <1>3
  <2> HIDE DEF f, b
  <2>3. Rounds \in Nat /\ \A r \in Nat : r < Rounds => r * f < b
    BY <2>1, <2>2, CeilFeeds
  <2> QED
    BY <1>1, <2>2, <2>3 DEF f, b
<1> QED
  BY <1>2, <1>3

\* The drift target is an event's index or none: of the events that fire
\* together there is a last one.
LEMMA DriftTargetType ==
  ASSUME TypeOK, NEW u \in Users, NEW n
  PROVE  MaybeApply(u, n) \in Nat
<1> DEFINE due == {i \in DOMAIN config.drift :
                     config.drift[i].at = n /\ u \in config.drift[i].cohort}
<1>1. CASE due = {}
  BY <1>1 DEF MaybeApply, TypeOK
<1>2. CASE due # {}
  <2>1. Len(config.drift) \in Nat /\ DOMAIN config.drift = 1..Len(config.drift)
    BY ConfigFacts, LenProperties
  <2>2. due \in SUBSET (0..Len(config.drift))
    BY <2>1
  <2> HIDE DEF due
  <2>3. \E i \in due : \A j \in due : j <= i
    BY <1>2, <2>1, <2>2, GreatestNat
  <2>4. (CHOOSE i \in due : \A j \in due : j <= i) \in due
    BY <2>3, Zenon
  <2>6. \A i \in due : i \in Nat
    BY <2>1, <2>2
  <2>5. (CHOOSE i \in due : \A j \in due : j <= i) \in Nat
    BY <2>4, <2>6, Zenon
  <2> QED
    BY <1>2, <2>5 DEF MaybeApply, due
<1> QED
  BY <1>1, <1>2

\* A function from the first naturals is a sequence.
LEMMA FunctionIsSeq ==
  ASSUME NEW S, NEW n \in Nat, NEW f \in [1..n -> S] PROVE f \in Seq(S) /\ Len(f) = n
<1>1. f = [i \in 1..n |-> f[i]] /\ \A i \in 1..n : f[i] \in S
  OBVIOUS
<1>2. [i \in 1..n |-> f[i]] \in Seq(S)
  BY <1>1, IsASeq
<1>3. f \in Seq(S)
  BY <1>1, <1>2
<1>4. DOMAIN f = 1..Len(f) /\ Len(f) \in Nat /\ DOMAIN f = 1..n
  BY <1>3, LenProperties
<1> QED
  BY <1>3, <1>4

\* A feed is a sequence of reels, no longer than asked for.
LEMMA FeedType ==
  ASSUME TypeOK, NEW u \in Users, NEW f \in Feeds(u)
  PROVE  f \in Seq(0..reels - 1) /\ Len(f) <= config.feedSize
<1> DEFINE seen == {log[u][i].reel : i \in DOMAIN log[u]}
           new == (0..reels - 1) \ seen
           sizes == IF config.fullFeeds THEN {Lower(config.feedSize, Cardinality(new))}
                                        ELSE 0..config.feedSize
<1>1. config.feedSize \in Nat
  BY ConfigFacts
<1>2. Cardinality(new) \in Nat
  <2>1. IsFiniteSet(0..reels - 1)
    BY FS_Interval DEF TypeOK
  <2>2. IsFiniteSet(new)
    BY <2>1, FS_Difference
  <2> QED
    BY <2>2, FS_CardinalityType
<1>3. \A n \in sizes : n \in Nat /\ n <= config.feedSize
  <2> HIDE DEF new
  <2> QED
    BY <1>1, <1>2 DEF Lower
<1>4. PICK n \in sizes : f \in [1..n -> new]
  BY DEF Feeds
<1> HIDE DEF sizes
<1>5. n \in Nat /\ n <= config.feedSize
  BY <1>3
<1>6. f \in [1..n -> 0..reels - 1]
  BY <1>4
<1>7. f \in Seq(0..reels - 1) /\ Len(f) = n
  BY <1>5, <1>6, FunctionIsSeq
<1> QED
  BY <1>5, <1>7

\* Every configuration the loader accepts starts with all columns in place.
LEMMA InitType == Init => TypeOK
<1> SUFFICES ASSUME Init PROVE TypeOK
  OBVIOUS
<1>1. config \in Configs /\ config \in Config
  BY ConfigsAssumption DEF Init
<1>2. config.users \in Nat /\ config.reels \in Nat
  BY <1>1 DEF Config
<1>3. Rounds \in Nat
  <2>1. config.feedSize \in Nat /\ config.interactionsPerUser \in Nat
    BY <1>1 DEF Config
  <2>2. CASE config.feedSize = 0
    BY <2>2 DEF Rounds
  <2>3. CASE config.feedSize # 0
    BY <2>1, <2>3, CeilFeeds DEF Rounds
  <2> QED
    BY <2>2, <2>3
<1>4. EmptyRound \in [impressions : Nat, sessions : SUBSET (Nat \X Nat), drifted : Nat,
                      injected : Nat, distinct : Nat]
  BY DEF EmptyRound
<1>5. NoRow \in [users : Nat, evaluated : Nat]
  BY DEF NoRow
<1>6. /\ curve \in [0..Tracked - 1 -> [users : Nat, evaluated : Nat]]
      /\ ledger \in [0..Rounds - 1 ->
                   [impressions : Nat, sessions : SUBSET (Nat \X Nat), drifted : Nat,
                    injected : Nat, distinct : Nat]]
  BY <1>4, <1>5 DEF Init
<1>7. /\ done \in [Users -> Nat] /\ total \in [Users -> Nat]
      /\ pref \in [Users -> Nat] /\ open \in [Users -> Nat]
      /\ drifted \in [Users -> BOOLEAN]
      /\ log \in [Users -> Seq([round : Nat, reel : Nat, pref : Nat])]
  BY DEF Init, EverApplies
<1>8. records \in Seq([round : Nat, user : Nat, impressions : Nat, ended : BOOLEAN])
  BY DEF Init
<1>9. stage \in {"round", "finish"} /\ round = 0 /\ turn = 0 /\ users = config.users
      /\ reels = config.reels /\ feed = <<>> /\ served = 0 /\ evaluated = FALSE /\ exposed = {}
  BY DEF Init
<1>10. /\ stage \in {"round", "request", "consume", "finish", "done"}
       /\ served \in Nat /\ evaluated \in BOOLEAN
       /\ exposed \in SUBSET Nat /\ IsFiniteSet(exposed)
  BY <1>9, FS_EmptySet
<1>12. round \in 0..Rounds
  BY <1>3, <1>9
<1>13. users \in Nat /\ reels \in Nat /\ turn \in 0..users
  BY <1>2, <1>9
<1>11. feed \in Seq(Nat)
  BY <1>9, EmptySeq
<1> QED
  BY <1>1, <1>6, <1>7, <1>8, <1>10, <1>11, <1>12, <1>13, Zenon DEF TypeOK

\* What BeginRound does to the columns of the users.
LEMMA BeginRoundGrows ==
  ASSUME TypeOK, BeginRound
  PROVE  /\ users \in Nat /\ users' \in Nat /\ users <= users' /\ Users \subseteq Users'
         /\ done' \in [Users' -> Nat] /\ total' \in [Users' -> Nat]
         /\ pref' \in [Users' -> Nat] /\ open' \in [Users' -> Nat]
         /\ drifted' \in [Users' -> BOOLEAN]
         /\ log' \in [Users' -> Seq([round : Nat, reel : Nat, pref : Nat])]
         /\ \A u \in Users : /\ done'[u] = done[u] /\ total'[u] = total[u] /\ pref'[u] = pref[u]
                             /\ open'[u] = open[u] /\ drifted'[u] = drifted[u] /\ log'[u] = log[u]
         /\ \A u \in Users' \ Users :
              /\ done'[u] = 0 /\ total'[u] = 0 /\ pref'[u] = 0 /\ open'[u] = 0
              /\ drifted'[u] = EverApplies(u) /\ log'[u] = <<>>
<1> DEFINE none == [u \in 0..users' - 1 |-> 0]
           empty == [u \in 0..users' - 1 |-> <<>>]
           ever == [u \in 0..users' - 1 |-> EverApplies(u)]
           EntryType == [round : Nat, reel : Nat, pref : Nat]
<1>1. users \in Nat /\ users' \in Nat /\ users <= users'
  BY ConfigFacts, SMTT(30) DEF TypeOK, BeginRound
<1>2. Users = 0..users - 1 /\ Users' = 0..users' - 1 /\ Users \subseteq Users'
  <2>1. Users = 0..users - 1 /\ Users' = 0..users' - 1
    BY Zenon DEF Users
  <2>2. ASSUME NEW n \in Nat, NEW m \in Nat, n <= m PROVE 0..n - 1 \subseteq 0..m - 1
    BY <2>2
  <2>3. 0..users - 1 \subseteq 0..users' - 1
    BY <1>1, <2>2, Zenon
  <2> QED
    BY <2>1, <2>3, Zenon
<1>3. /\ done' = Grown(done, none) /\ total' = Grown(total, none)
      /\ pref' = Grown(pref, none) /\ open' = Grown(open, none)
      /\ log' = Grown(log, empty) /\ drifted' = Grown(drifted, ever)
  BY DEF BeginRound
<1>4. none \in [0..users' - 1 -> Nat] /\ empty \in [0..users' - 1 -> Seq(EntryType)]
      /\ ever \in [0..users' - 1 -> BOOLEAN]
  BY DEF EverApplies
<1>5. \A u \in Users' : none[u] = 0 /\ empty[u] = <<>> /\ ever[u] = EverApplies(u)
  BY <1>2
<1> HIDE DEF none, empty, ever
<1> DEFINE Column(new, old, start, S) ==
             /\ new \in [Users' -> S]
             /\ \A u \in Users : new[u] = old[u]
             /\ \A u \in Users' \ Users : new[u] = start[u]
<1>6. /\ Column(done', done, none, Nat) /\ Column(total', total, none, Nat)
      /\ Column(pref', pref, none, Nat) /\ Column(open', open, none, Nat)
      /\ Column(drifted', drifted, ever, BOOLEAN) /\ Column(log', log, empty, Seq(EntryType))
  <2>1. ASSUME NEW new, NEW old, NEW start, NEW S, old \in [Users -> S],
               start \in [0..users' - 1 -> S], new = Grown(old, start)
        PROVE  Column(new, old, start, S)
    BY <1>2, <2>1 DEF Grown
  <2>2. /\ done \in [Users -> Nat] /\ total \in [Users -> Nat] /\ pref \in [Users -> Nat]
        /\ open \in [Users -> Nat] /\ drifted \in [Users -> BOOLEAN] /\ log \in [Users -> Seq(EntryType)]
    BY DEF TypeOK
  <2> HIDE DEF Column
  <2>3. Column(done', done, none, Nat)
    BY <1>3, <1>4, <2>1, <2>2
  <2>4. Column(total', total, none, Nat)
    BY <1>3, <1>4, <2>1, <2>2
  <2>5. Column(pref', pref, none, Nat)
    BY <1>3, <1>4, <2>1, <2>2
  <2>6. Column(open', open, none, Nat)
    BY <1>3, <1>4, <2>1, <2>2
  <2>7. Column(drifted', drifted, ever, BOOLEAN)
    BY <1>3, <1>4, <2>1, <2>2
  <2>8. Column(log', log, empty, Seq(EntryType))
    BY <1>3, <1>4, <2>1, <2>2
  <2> QED
    BY <2>3, <2>4, <2>5, <2>6, <2>7, <2>8
<1>7. \A u \in Users' \ Users : none[u] = 0 /\ empty[u] = <<>> /\ ever[u] = EverApplies(u)
  BY <1>5
<1> HIDE DEF EntryType
<1> QED
  BY <1>1, <1>2, <1>6, <1>7, ZenonT(40) DEF EntryType

\* The sessions recorded at the end are those of the users with one open, each once.
LEMMA DrainedFacts ==
  ASSUME TypeOK, NEW rest \in Drained
  PROVE  /\ rest \in Seq([round : Nat, user : Nat, impressions : Nat, ended : BOOLEAN])
         /\ config.sessionDynamics /\ Rounds > 0 =>
              LET holders == {u \in Users : open[u] > 0} IN
              /\ Len(rest) = Cardinality(holders)
              /\ \A i \in 1..Len(rest) :
                   rest[i].user \in holders /\ rest[i].impressions = open[rest[i].user]
                   /\ rest[i].round = Rounds - 1 /\ rest[i].ended = TRUE
              /\ \A i, j \in 1..Len(rest) : i # j => rest[i].user # rest[j].user
         /\ ~(config.sessionDynamics /\ Rounds > 0) => rest = <<>>
<1> DEFINE Rec == [round : Nat, user : Nat, impressions : Nat, ended : BOOLEAN]
           holders == {u \in Users : open[u] > 0}
<1>1. CASE ~(config.sessionDynamics /\ Rounds > 0)
  <2>1. rest = <<>>
    BY <1>1 DEF Drained
  <2> QED
    BY <1>1, <2>1, EmptySeq
<1>2. CASE config.sessionDynamics /\ Rounds > 0
  <2>1. IsFiniteSet(holders) /\ holders \subseteq Nat
    <3>1. IsFiniteSet(0..users - 1) /\ 0..users - 1 \subseteq Nat
      BY FS_Interval DEF TypeOK
    <3>2. holders \in SUBSET (0..users - 1)
      BY DEF Users
    <3> HIDE DEF holders
    <3> QED
      BY <3>1, <3>2, FS_Subset
  <2>2. \A u \in holders : open[u] \in Nat
    BY DEF TypeOK
  <2>3. PICK s \in SetToSeqs(holders) :
          rest = [i \in DOMAIN s |-> [round |-> Rounds - 1, user |-> s[i],
                                      impressions |-> open[s[i]], ended |-> TRUE]]
    BY <1>2 DEF Drained
  <2> HIDE DEF holders
  <2>4. /\ Cardinality(holders) \in Nat /\ s \in [1..Cardinality(holders) -> holders]
        /\ \A i, j \in 1..Cardinality(holders) : i # j => s[i] # s[j]
    BY <2>1, FS_CardinalityType DEF SetToSeqs
  <2>5. Rounds - 1 \in Nat
    BY <1>2, ConfigFacts
  <2>6. /\ DOMAIN rest = 1..Cardinality(holders)
        /\ \A i \in 1..Cardinality(holders) :
             /\ rest[i] = [round |-> Rounds - 1, user |-> s[i],
                           impressions |-> open[s[i]], ended |-> TRUE]
             /\ s[i] \in holders
    BY <2>3, <2>4
  <2>7. ASSUME NEW i \in 1..Cardinality(holders) PROVE rest[i] \in Rec
    <3>1. s[i] \in Nat /\ open[s[i]] \in Nat
      BY <2>1, <2>2, <2>6
    <3>2. \A a, b, c \in Nat :
            [round |-> a, user |-> b, impressions |-> c, ended |-> TRUE] \in Rec
      OBVIOUS
    <3> HIDE DEF Rec
    <3> QED
      BY <2>5, <2>6, <3>1, <3>2, Zenon
  <2> HIDE DEF Rec
  <2>8. rest \in [1..Cardinality(holders) -> Rec]
    BY <2>3, <2>6, <2>7
  <2>9. rest \in Seq(Rec) /\ Len(rest) = Cardinality(holders)
    BY <2>4, <2>8, FunctionIsSeq
  <2>10. \A i \in 1..Len(rest) :
           rest[i].user \in holders /\ rest[i].impressions = open[rest[i].user]
           /\ rest[i].round = Rounds - 1 /\ rest[i].ended = TRUE /\ rest[i].user = s[i]
    BY <2>6, <2>9
  <2>11. \A i, j \in 1..Len(rest) : i # j => rest[i].user # rest[j].user
    <3> SUFFICES ASSUME NEW i \in 1..Len(rest), NEW j \in 1..Len(rest), i # j
                 PROVE  rest[i].user # rest[j].user
      OBVIOUS
    <3>1. s[i] # s[j]
      BY <2>4, <2>9
    <3> QED
      BY <2>10, <3>1
  <2> QED
    BY <1>2, <2>9, <2>10, <2>11 DEF holders, Rec
<1> QED
  BY <1>1, <1>2

------------------------------------------------------------------------------
(* Every step keeps the types and the budgets *)

\* A configuration that stays keeps its number of rounds.
LEMMA ConfigKept ==
  ASSUME config' = config
  PROVE  /\ Rounds' = Rounds
         /\ \A u : EverApplies(u)' = EverApplies(u) /\ Injected(u)' = Injected(u)
         /\ \A u, n : InForce(u, n)' = InForce(u, n)
  BY DEF Rounds, EverApplies, Injected, InForce

\* The set of users is the same while the dataset does not grow.
LEMMA UsersKept == ASSUME users' = users PROVE Users' = Users
  BY DEF Users

\* Nothing is spent before the first round.
LEMMA InitBudget == Init => BudgetInv
<1> SUFFICES ASSUME Init PROVE BudgetInv
  OBVIOUS
<1>1. TypeOK
  BY InitType
<1>2. stage = "round" => round < Rounds
  <2>1. stage = "round" => Rounds # 0 /\ round = 0
    BY DEF Init
  <2> QED
    BY <2>1, <1>1, ConfigFacts
<1>3. stage \in {"round", "finish"}
  BY DEF Init
<1>4. ASSUME NEW u \in Users
      PROVE  /\ done[u] <= config.interactionsPerUser
             /\ done[u] <= (IF Passed(u) THEN round + 1 ELSE round) * config.feedSize
             /\ total[u] = done[u] + Consumed(u)
             /\ Len(log[u]) = total[u]
  <2>1. done[u] = 0 /\ total[u] = 0 /\ log[u] = <<>> /\ round = 0
    BY DEF Init
  <2>2. ~Passed(u) /\ Consumed(u) = 0
    BY <1>3 DEF Passed, Consumed
  <2>3. 0 * config.feedSize = 0 /\ 0 <= config.interactionsPerUser
    BY <1>1, ConfigFacts
  <2>4. Len(log[u]) = 0
    BY <2>1, EmptySeq
  <2> QED
    BY <2>1, <2>2, <2>3, <2>4
<1> QED
  BY <1>2, <1>3, <1>4 DEF BudgetInv

\* A round begins with no turn taken, and injected users with nothing spent.
LEMMA BeginRoundStep ==
  ASSUME TypeOK, BudgetInv, BeginRound PROVE TypeOK' /\ BudgetInv'
<1>1. /\ stage = "round" /\ stage' = "request" /\ turn' = 0 /\ config' = config
      /\ UNCHANGED <<config, round, feed, served, evaluated, records, curve, ledger, exposed>>
  BY DEF BeginRound, feedVars, metricVars
<1>2. Rounds' = Rounds
  BY <1>1, ConfigKept
<1>3. reels' \in Nat
  <2>1. reels \in Nat /\ config.newReels \in Nat
    BY ConfigFacts DEF TypeOK
  <2>2. reels' = reels + (IF round = config.newReelsAt THEN config.newReels ELSE 0)
    BY DEF BeginRound
  <2> QED
    BY <2>1, <2>2
<1>4. users' \in Nat /\ turn' \in 0..users'
  BY <1>1, BeginRoundGrows
<1>5. TypeOK'
  BY <1>1, <1>2, <1>3, <1>4, BeginRoundGrows, Zenon DEF TypeOK
<1>6. round' < Rounds'
  BY <1>1, <1>2 DEF BudgetInv
<1>7. ASSUME NEW u \in Users'
      PROVE  /\ done'[u] <= config'.interactionsPerUser
             /\ done'[u] <= (IF Passed(u)' THEN round' + 1 ELSE round') * config'.feedSize
             /\ total'[u] = done'[u] + Consumed(u)'
             /\ Len(log'[u]) = total'[u]
  <2>1. ~Passed(u)' /\ Consumed(u)' = 0
    <3>1. u \in Nat
      BY <1>4, <1>7 DEF Users
    <3> QED
      BY <1>1, <3>1 DEF Passed, Consumed
  <2>2. CASE u \in Users
    <3>1. done'[u] = done[u] /\ total'[u] = total[u] /\ log'[u] = log[u]
      BY <2>2, BeginRoundGrows
    <3>2. ~Passed(u) /\ Consumed(u) = 0
      BY <1>1 DEF Passed, Consumed
    <3> QED
      BY <1>1, <2>1, <2>2, <3>1, <3>2 DEF BudgetInv
  <2>3. CASE u \notin Users
    <3>1. done'[u] = 0 /\ total'[u] = 0 /\ log'[u] = <<>>
      BY <2>3, <1>7, BeginRoundGrows
    <3>2. Len(log'[u]) = 0
      BY <3>1, EmptySeq
    <3>3. round' \in Nat /\ config'.feedSize \in Nat /\ config'.interactionsPerUser \in Nat
      BY <1>1, ConfigFacts DEF TypeOK
    <3>4. round' * config'.feedSize \in Nat
      BY <3>3
    <3> QED
      BY <2>1, <3>1, <3>2, <3>3, <3>4
  <2> QED
    BY <2>2, <2>3
<1> QED
  BY <1>1, <1>5, <1>6, <1>7 DEF BudgetInv

\* A feed is asked for within what is left of the budget.
LEMMA RequestStep ==
  ASSUME TypeOK, BudgetInv, Request PROVE TypeOK' /\ BudgetInv'
<1>1. /\ stage = "request" /\ turn < users /\ turn \in Users
      /\ UNCHANGED <<config, round, users, reels, done, drifted, total, pref, open, log,
                     records, curve, ledger, exposed>>
  BY DEF Request, dataVars, userVars, metricVars, TypeOK, Users
<1>2. Rounds' = Rounds /\ Users' = Users
  BY <1>1, ConfigKept, UsersKept
<1>3. /\ stage' \in {"request", "consume"} /\ turn' \in {turn, turn + 1} /\ feed' \in Seq(Nat)
      /\ served' \in Nat /\ evaluated' \in BOOLEAN
      /\ stage' = "request" => turn' = turn + 1
      /\ stage' = "consume" => /\ turn' = turn /\ served' = 0 /\ feed' # <<>>
                               /\ Len(feed') <= config.feedSize /\ Remaining(turn) # 0
  <2>1. CASE Remaining(turn) = 0
    BY <1>1, <2>1 DEF Request, feedVars, TypeOK
  <2>2. CASE Remaining(turn) # 0
    <3>1. feed' \in Feeds(turn) /\ served' = 0 /\ evaluated' \in BOOLEAN
      BY <2>2, <1>1 DEF Request, ForceColdStart, Injected
    <3>2. feed' \in Seq(0..reels - 1) /\ Len(feed') <= config.feedSize
      BY <1>1, <3>1, FeedType
    <3>3. 0..reels - 1 \subseteq Nat
      BY DEF TypeOK
    <3>4. feed' \in Seq(Nat)
      BY <3>2, <3>3, SeqMonotonic
    <3> QED
      BY <1>1, <2>2, <3>1, <3>2, <3>4 DEF Request, NothingServed
  <2> QED
    BY <2>1, <2>2
<1>4. turn' \in 0..users'
  BY <1>1, <1>3 DEF TypeOK
<1>5. TypeOK'
  BY <1>1, <1>2, <1>3, <1>4 DEF TypeOK
<1>6. round' < Rounds'
  BY <1>1, <1>2 DEF BudgetInv
<1>7. ASSUME stage' = "consume"
      PROVE  turn' < users' /\ Len(feed') <= config'.feedSize /\ served' < ToConsume(turn)'
  <2>1. Remaining(turn) \in Nat \ {0}
    <3>1. done[turn] \in Nat /\ config.interactionsPerUser \in Nat
      BY <1>1, ConfigFacts DEF TypeOK
    <3>2. done[turn] <= config.interactionsPerUser /\ Remaining(turn) # 0
      BY <1>1, <1>3, <1>7 DEF BudgetInv
    <3> QED
      BY <3>1, <3>2 DEF Remaining
  <2>2. Len(feed') \in Nat \ {0}
    BY <1>3, <1>7, EmptySeq
  <2>3. ToConsume(turn)' = Lower(Remaining(turn), Len(feed'))
    BY <1>1, <1>3, <1>7 DEF ToConsume, Remaining
  <2> QED
    BY <1>1, <1>3, <1>7, <2>1, <2>2, <2>3 DEF Lower
<1>8. ASSUME NEW u \in Users
      PROVE  /\ done'[u] <= config'.interactionsPerUser
             /\ done'[u] <= (IF Passed(u)' THEN round' + 1 ELSE round') * config'.feedSize
             /\ total'[u] = done'[u] + Consumed(u)'
             /\ Len(log'[u]) = total'[u]
  <2>1. Consumed(u) = 0 /\ Consumed(u)' = 0
    BY <1>1, <1>3 DEF Consumed
  <2>6. round \in Nat /\ config.feedSize \in Nat /\ done[u] \in Nat
    BY ConfigFacts DEF TypeOK
  <2>2. /\ round * config.feedSize <= (round + 1) * config.feedSize
        /\ round * config.feedSize \in Nat /\ (round + 1) * config.feedSize \in Nat
        /\ done[u] \in Nat
    BY <2>6
  <2>3. Passed(u) => Passed(u)'
    BY <1>1, <1>3 DEF Passed, TypeOK, Users
  <2>4. /\ done[u] <= config.interactionsPerUser /\ total[u] = done[u] + Consumed(u)
        /\ Len(log[u]) = total[u]
        /\ done[u] <= (IF Passed(u) THEN round + 1 ELSE round) * config.feedSize
    BY DEF BudgetInv
  <2>5. done[u] <= (IF Passed(u)' THEN round + 1 ELSE round) * config.feedSize
    <3> DEFINE a == round * config.feedSize
               b == (round + 1) * config.feedSize
    <3>1. done[u] <= IF Passed(u) THEN b ELSE a
      BY <2>4
    <3> HIDE DEF a, b
    <3>2. done[u] <= IF Passed(u)' THEN b ELSE a
      BY <3>1, <2>2, <2>3 DEF a, b
    <3> QED
      BY <3>2 DEF a, b
  <2> QED
    BY <1>1, <2>1, <2>4, <2>5
<1> QED
  <2>1. \A u \in Users' :
          /\ done'[u] <= config'.interactionsPerUser
          /\ done'[u] <= (IF Passed(u)' THEN round' + 1 ELSE round') * config'.feedSize
          /\ total'[u] = done'[u] + Consumed(u)'
          /\ Len(log'[u]) = total'[u]
    BY <1>2, <1>8, Zenon
  <2>2. BudgetInv'
    BY <1>6, <1>7, <2>1, Zenon DEF BudgetInv
  <2> QED
    BY <1>5, <2>2

\* Who is served an impression, of what and how far into the budget.
LEMMA ImpressionFacts ==
  ASSUME TypeOK, BudgetInv, NEW exit \in BOOLEAN, Impression(exit)
  PROVE  /\ stage = "consume" /\ turn \in Users /\ turn \in Nat /\ turn < users
         /\ round \in 0..Rounds - 1 /\ round \in Nat /\ Rounds \in Nat
         /\ feed[served + 1] \in Nat
         /\ served \in Nat /\ done[turn] \in Nat /\ total[turn] \in Nat
         /\ served < config.feedSize /\ served < ToConsume(turn)
         /\ done[turn] + served < config.interactionsPerUser
         /\ total[turn] = done[turn] + served /\ Len(log[turn]) = total[turn]
         /\ done[turn] <= round * config.feedSize
         /\ MaybeApply(turn, total[turn]) \in Nat
         /\ open[turn] \in Nat
<1>1. stage = "consume"
  BY DEF Impression
<1>2. /\ round < Rounds /\ turn < users /\ Len(feed) <= config.feedSize
      /\ served < ToConsume(turn)
  BY <1>1 DEF BudgetInv
<1>3. turn \in Users /\ turn \in Nat /\ users \in Nat
  BY <1>2 DEF TypeOK, Users
<1>4. round \in 0..Rounds - 1 /\ round \in Nat /\ Rounds \in Nat
  BY <1>2, ConfigFacts DEF TypeOK
<1>5. served \in Nat /\ done[turn] \in Nat /\ total[turn] \in Nat /\ open[turn] \in Nat
  BY <1>3 DEF TypeOK
<1>6. feed \in Seq(Nat) /\ Len(feed) \in Nat
  BY LenProperties DEF TypeOK
<1>7. config.interactionsPerUser \in Nat /\ config.feedSize \in Nat
  BY ConfigFacts
<1>8. served < Len(feed) /\ served < config.interactionsPerUser - done[turn]
  BY <1>2, <1>5, <1>6, <1>7 DEF ToConsume, Remaining, Lower
<1>9. served + 1 \in 1..Len(feed)
  BY <1>5, <1>6, <1>8
<1>10. feed[served + 1] \in Nat
  BY <1>6, <1>9, ElementOfSeq
<1>11. served < config.feedSize /\ done[turn] + served < config.interactionsPerUser
  BY <1>2, <1>5, <1>6, <1>7, <1>8
<1>12. ~Passed(turn) /\ Consumed(turn) = served
  BY <1>1, <1>3 DEF Passed, Consumed
<1>13. total[turn] = done[turn] + served /\ Len(log[turn]) = total[turn]
       /\ done[turn] <= round * config.feedSize
  BY <1>3, <1>12 DEF BudgetInv
<1>14. MaybeApply(turn, total[turn]) \in Nat
  BY <1>3, DriftTargetType
<1> QED
  BY <1>1, <1>2, <1>3, <1>4, <1>5, <1>10, <1>11, <1>13, <1>14

\* What an impression leaves alone, and the columns of the users.
LEMMA ImpressionSteps ==
  ASSUME TypeOK, BudgetInv, NEW exit \in BOOLEAN, Impression(exit)
  PROVE  LET u == turn
             last == exit \/ served + 1 = ToConsume(u)
             now == MaybeApply(u, total[u])
             entry == [round |-> round, reel |-> feed[served + 1], pref |-> now]
         IN
         /\ UNCHANGED <<config, round, users, reels, drifted, feed, evaluated, report>>
         /\ Users' = Users /\ Rounds' = Rounds
         /\ served' = served + 1
         /\ pref' = [pref EXCEPT ![u] = now]
         /\ total' = [total EXCEPT ![u] = @ + 1]
         /\ open' = [open EXCEPT ![u] = IF exit THEN 0 ELSE @ + 1]
         /\ log' = [log EXCEPT ![u] = Append(@, entry)]
         /\ last => done' = [done EXCEPT ![u] = @ + served + 1] /\ turn' = u + 1 /\ stage' = "request"
         /\ ~last => done' = done /\ turn' = u /\ stage' = "consume"
<1>1. UNCHANGED <<config, round, users, reels, drifted, feed, evaluated, report>>
  BY DEF Impression, dataVars
<1>2. Users' = Users /\ Rounds' = Rounds
  BY <1>1, UsersKept, ConfigKept
<1> QED
  BY <1>1, <1>2 DEF Impression

\* The row of the curve and of the round, as records of counts.
LEMMA CountedTypes ==
  ASSUME TypeOK, BudgetInv, NEW exit \in BOOLEAN, Impression(exit)
  PROVE  /\ curve' \in [0..Tracked - 1 -> [users : Nat, evaluated : Nat]]
         /\ ledger' \in [0..Rounds - 1 ->
                          [impressions : Nat, sessions : SUBSET (Nat \X Nat), drifted : Nat,
                           injected : Nat, distinct : Nat]]
         /\ records' \in Seq([round : Nat, user : Nat, impressions : Nat, ended : BOOLEAN])
         /\ exposed' \in SUBSET Nat /\ IsFiniteSet(exposed')
<1> DEFINE u == turn
           r == feed[served + 1]
           Row == [impressions : Nat, sessions : SUBSET (Nat \X Nat), drifted : Nat,
                   injected : Nat, distinct : Nat]
           Point == [users : Nat, evaluated : Nat]
           Rec == [round : Nat, user : Nat, impressions : Nat, ended : BOOLEAN]
<1>0. u \in Nat /\ r \in Nat /\ round \in 0..Rounds - 1 /\ round \in Nat /\ open[u] \in Nat
  BY ImpressionFacts
<1>1. curve' \in [0..Tracked - 1 -> Point]
  <2>1. curve' = CurveWith(u, served) /\ curve \in [0..Tracked - 1 -> Point]
    BY DEF Impression, TypeOK
  <2>2. ASSUME NEW k \in 0..Tracked - 1, NEW e \in {0, 1}
        PROVE  [users |-> curve[k].users + 1, evaluated |-> curve[k].evaluated + e] \in Point
    BY <2>1
  <2> HIDE DEF Point
  <2> DEFINE e == IF evaluated THEN 1 ELSE 0
             k == done[u] + served
  <2>3. e \in {0, 1}
    OBVIOUS
  <2>4. CurveWith(u, served) =
          IF Injected(u) /\ k < Tracked
          THEN [curve EXCEPT ![k] = [users |-> curve[k].users + 1, evaluated |-> curve[k].evaluated + e]]
          ELSE curve
    BY DEF CurveWith
  <2> HIDE DEF e, k
  <2> QED
    BY <2>1, <2>2, <2>3, <2>4
<1>2. ledger' \in [0..Rounds - 1 -> Row]
  <2>1. ledger \in [0..Rounds - 1 -> Row]
        /\ ledger' = [ledger EXCEPT ![round] = Counted(ledger[round], u, r)]
    BY DEF Impression, TypeOK
  <2>2. SessionKey(u) \in Nat \X Nat
    <3>1. records \in Seq(Rec) /\ DOMAIN records = 1..Len(records) /\ Len(records) \in Nat
      BY LenProperties DEF TypeOK
    <3> DEFINE own == {i \in DOMAIN records : records[i].user = u}
    <3>2. IsFiniteSet(1..Len(records)) /\ own \in SUBSET (1..Len(records))
      BY <3>1, FS_Interval
    <3> HIDE DEF own
    <3>3. Cardinality(own) \in Nat
      BY <3>2, FS_Subset, FS_CardinalityType
    <3> QED
      BY <1>0, <3>3 DEF SessionKey, own
  <2>3. ASSUME NEW row \in Row PROVE Counted(row, u, r) \in Row
    <3> DEFINE d == IF drifted[u] THEN 1 ELSE 0
               n == IF InjectedReel(r) THEN 1 ELSE 0
    <3>1. d \in Nat /\ n \in Nat
      OBVIOUS
    <3>2. \A a, c, e \in Nat, b \in SUBSET (Nat \X Nat) :
            [row EXCEPT !.impressions = a, !.sessions = b, !.drifted = c, !.injected = e] \in Row
      BY Zenon
    <3> DEFINE a == row.impressions + 1
               b == row.sessions \cup {SessionKey(u)}
               c == row.drifted + d
               e == row.injected + n
    <3>3. Counted(row, u, r) =
            [row EXCEPT !.impressions = a, !.sessions = b, !.drifted = c, !.injected = e]
      BY DEF Counted
    <3> HIDE DEF d, n
    <3>4. a \in Nat /\ b \in SUBSET (Nat \X Nat) /\ c \in Nat /\ e \in Nat
      BY <2>2, <3>1
    <3> HIDE DEF Row, a, b, c, e
    <3> QED
      <4>1. [row EXCEPT !.impressions = a, !.sessions = b, !.drifted = c, !.injected = e] \in Row
        BY <3>2, <3>4
      <4> QED
        BY <3>3, <4>1
  <2> HIDE DEF Row
  <2> QED
    BY <1>0, <2>1, <2>3
<1>3. records' \in Seq(Rec)
  <2>1. records \in Seq(Rec)
    BY DEF TypeOK
  <2>2. \A a, b, c \in Nat : [round |-> a, user |-> b, impressions |-> c, ended |-> FALSE] \in Rec
    OBVIOUS
  <2> DEFINE new == [round |-> round, user |-> u, impressions |-> open[u] + 1, ended |-> FALSE]
  <2>3. new \in Rec
    BY <1>0, <2>2
  <2>4. records' = IF exit THEN Append(records, new) ELSE records
    BY DEF Impression
  <2> HIDE DEF new, Rec
  <2>5. Append(records, new) \in Seq(Rec)
    BY <2>1, <2>3, AppendProperties
  <2> QED
    BY <2>1, <2>4, <2>5
<1>4. exposed' \in SUBSET Nat /\ IsFiniteSet(exposed')
  <2>1. exposed' \in {exposed, exposed \cup {r}}
    BY DEF Impression
  <2>2. exposed \in SUBSET Nat /\ IsFiniteSet(exposed)
    BY DEF TypeOK
  <2>3. IsFiniteSet(exposed \cup {r})
    BY <2>2, FS_AddElement
  <2> QED
    BY <1>0, <2>1, <2>2, <2>3
<1> QED
  BY <1>1, <1>2, <1>3, <1>4

\* An impression keeps every column typed.
LEMMA ImpressionType ==
  ASSUME TypeOK, BudgetInv, NEW exit \in BOOLEAN, Impression(exit) PROVE TypeOK'
<1> DEFINE u == turn
           EntryType == [round : Nat, reel : Nat, pref : Nat]
           now == MaybeApply(u, total[u])
           last == exit \/ served + 1 = ToConsume(u)
<1>1. /\ UNCHANGED <<config, users, reels, round, feed, evaluated, drifted>>
      /\ Users' = Users /\ Rounds' = Rounds /\ served' = served + 1
      /\ last => done' = [done EXCEPT ![u] = done[u] + served + 1] /\ turn' = u + 1 /\ stage' = "request"
      /\ ~last => done' = done /\ turn' = u /\ stage' = "consume"
  BY ImpressionSteps
<1>2. /\ u \in Users /\ u \in Nat /\ u < users /\ served \in Nat /\ feed[served + 1] \in Nat
      /\ round \in Nat /\ done[u] \in Nat /\ now \in Nat /\ total[u] \in Nat /\ open[u] \in Nat
  BY ImpressionFacts
<1> HIDE DEF last, now
<1>3. turn' \in 0..users' /\ served' \in Nat /\ stage' \in {"request", "consume"}
  <2>1. served + 1 \in Nat /\ u \in 0..users /\ u + 1 \in 0..users
    <3>1. users \in Nat
      BY DEF TypeOK
    <3> HIDE DEF u
    <3> QED
      BY <1>2, <3>1, SMTT(30)
  <2>2. served' = served + 1 /\ users' = users
    BY <1>1
  <2>3. CASE last
    BY <1>1, <2>1, <2>2, <2>3, Zenon
  <2>4. CASE ~last
    BY <1>1, <2>1, <2>2, <2>4, Zenon
  <2> QED
    BY <2>3, <2>4, Zenon
<1>4. done' \in [Users' -> Nat]
  <2>1. done \in [Users -> Nat] /\ done[u] + served + 1 \in Nat
    BY <1>2 DEF TypeOK
  <2> QED
    BY <1>1, <1>2, <2>1
<1>5. total' \in [Users' -> Nat] /\ pref' \in [Users' -> Nat] /\ open' \in [Users' -> Nat]
  <2>1. total \in [Users -> Nat] /\ pref \in [Users -> Nat] /\ open \in [Users -> Nat]
    BY DEF TypeOK
  <2>2. /\ total' = [total EXCEPT ![u] = total[u] + 1] /\ pref' = [pref EXCEPT ![u] = now]
        /\ open' = [open EXCEPT ![u] = IF exit THEN 0 ELSE open[u] + 1]
    BY ImpressionSteps DEF now
  <2>3. total[u] + 1 \in Nat /\ (IF exit THEN 0 ELSE open[u] + 1) \in Nat
    BY <1>2
  <2> QED
    BY <1>1, <1>2, <2>1, <2>2, <2>3
<1>6. log' \in [Users' -> Seq(EntryType)]
  <2>1. log \in [Users -> Seq(EntryType)]
    BY DEF TypeOK
  <2>2. \A a, b, c \in Nat : [round |-> a, reel |-> b, pref |-> c] \in EntryType
    OBVIOUS
  <2> DEFINE new == [round |-> round, reel |-> feed[served + 1], pref |-> now]
  <2>3. new \in EntryType /\ log' = [log EXCEPT ![u] = Append(log[u], new)]
    BY <1>2, <2>2, ImpressionSteps DEF now
  <2> HIDE DEF EntryType, new
  <2>4. Append(log[u], new) \in Seq(EntryType)
    BY <1>2, <2>1, <2>3, AppendProperties
  <2> QED
    BY <1>1, <2>1, <2>3, <2>4
<1> QED
  BY <1>1, <1>3, <1>4, <1>5, <1>6, CountedTypes DEF TypeOK

\* An impression spends one of the budget, and the feed is booked at its end.
LEMMA ImpressionBudget ==
  ASSUME TypeOK, BudgetInv, NEW exit \in BOOLEAN, Impression(exit) PROVE BudgetInv'
<1> DEFINE u == turn
           last == exit \/ served + 1 = ToConsume(u)
<1>1. /\ UNCHANGED <<config, users, round, feed>> /\ Users' = Users /\ Rounds' = Rounds
      /\ served' = served + 1
      /\ last => done' = [done EXCEPT ![u] = done[u] + served + 1] /\ turn' = u + 1 /\ stage' = "request"
      /\ ~last => done' = done /\ turn' = u /\ stage' = "consume"
      /\ total' = [total EXCEPT ![u] = total[u] + 1]
  BY ImpressionSteps
<1>2. PICK new : log' = [log EXCEPT ![u] = Append(log[u], new)]
                 /\ new \in [round : Nat, reel : Nat, pref : Nat]
  <2>1. log' = [log EXCEPT ![u] = Append(log[u], [round |-> round, reel |-> feed[served + 1],
                                                 pref |-> MaybeApply(u, total[u])])]
    BY ImpressionSteps
  <2>2. \A a, b, c \in Nat : [round |-> a, reel |-> b, pref |-> c] \in [round : Nat, reel : Nat, pref : Nat]
    OBVIOUS
  <2> QED
    BY <2>1, <2>2, ImpressionFacts
<1>3. /\ stage = "consume" /\ u \in Users /\ u \in Nat /\ u < users /\ served \in Nat
      /\ round \in Nat /\ done[u] \in Nat /\ total[u] \in Nat /\ served < config.feedSize
      /\ done[u] + served < config.interactionsPerUser /\ total[u] = done[u] + served
      /\ Len(log[u]) = total[u] /\ done[u] <= round * config.feedSize
      /\ served < ToConsume(u)
  BY ImpressionFacts
<1>4. round' < Rounds'
  BY <1>1, <1>3 DEF BudgetInv
<1>5. ASSUME stage' = "consume"
      PROVE  turn' < users' /\ Len(feed') <= config'.feedSize /\ served' < ToConsume(turn)'
  <2>1. ~last
    BY <1>1, <1>5
  <2>2. ToConsume(turn)' = ToConsume(u)
    BY <1>1, <2>1 DEF ToConsume, Remaining
  <2>3. Len(feed) <= config.feedSize
    BY <1>3 DEF BudgetInv
  <2>4. ToConsume(u) \in Int
    <3>1. Len(feed) \in Nat /\ config.interactionsPerUser - done[u] \in Int
      BY <1>3, ConfigFacts, LenProperties, SMTT(30) DEF TypeOK
    <3> QED
      BY <3>1 DEF ToConsume, Remaining, Lower
  <2>5. served + 1 < ToConsume(u)
    BY <1>3, <2>1, <2>4
  <2> QED
    BY <1>1, <1>3, <2>1, <2>2, <2>3, <2>5
<1>6. ASSUME NEW v \in Users
      PROVE  /\ done'[v] <= config.interactionsPerUser
             /\ done'[v] <= (IF Passed(v)' THEN round + 1 ELSE round) * config.feedSize
             /\ total'[v] = done'[v] + Consumed(v)'
             /\ Len(log'[v]) = total'[v]
  <2>1. done \in [Users -> Nat] /\ total \in [Users -> Nat] /\ log[v] \in Seq([round : Nat, reel : Nat, pref : Nat])
        /\ log \in [Users -> Seq([round : Nat, reel : Nat, pref : Nat])] /\ v \in Nat
    BY DEF TypeOK, Users
  <2>2. config.feedSize \in Nat /\ config.interactionsPerUser \in Nat
    BY ConfigFacts
  <2>3. CASE v = u
    <3>1. Len(log'[v]) = total'[v] /\ total'[v] = done[u] + served + 1
      <4>1. Len(Append(log[u], new)) = Len(log[u]) + 1
        BY <1>2, <2>1, <2>3, AppendProperties
      <4> QED
        BY <1>1, <1>2, <1>3, <2>1, <2>3, <4>1
    <3>2. CASE last
      <4>1. done'[v] = done[u] + served + 1
        BY <1>1, <2>1, <2>3, <3>2
      <4>2. Passed(v)' /\ Consumed(v)' = 0
        BY <1>1, <1>3, <2>3, <3>2 DEF Passed, Consumed
      <4>3. (round + 1) * config.feedSize = round * config.feedSize + config.feedSize
            /\ round * config.feedSize \in Nat
        BY <1>3, <2>2
      <4>4. done[u] + served + 1 <= (round + 1) * config.feedSize
            /\ done[u] + served + 1 <= config.interactionsPerUser
        <5> DEFINE a == round * config.feedSize
                   b == (round + 1) * config.feedSize
        <5>1. a \in Nat /\ b = a + config.feedSize /\ done[u] <= a
          BY <1>3, <4>3
        <5> HIDE DEF a, b
        <5>2. done[u] + served + 1 <= b /\ done[u] + served + 1 <= config.interactionsPerUser
          BY <1>3, <2>2, <5>1, SMTT(30)
        <5> QED
          BY <5>2 DEF b
      <4> QED
        BY <1>3, <3>1, <4>1, <4>2, <4>4
    <3>3. CASE ~last
      <4>1. done'[v] = done[u]
        BY <1>1, <2>3, <3>3
      <4>2. ~Passed(v)' /\ Consumed(v)' = served + 1
        BY <1>1, <1>3, <2>3, <3>3 DEF Passed, Consumed
      <4> QED
        BY <1>3, <2>2, <3>1, <4>1, <4>2, SMTT(30)
    <3> QED
      BY <3>2, <3>3
  <2>4. CASE v # u
    <3>1. done'[v] = done[v] /\ total'[v] = total[v] /\ log'[v] = log[v]
      BY <1>1, <1>2, <2>1, <2>4
    <3>2. Consumed(v) = 0 /\ Consumed(v)' = 0
      <4>1. stage' = "consume" => turn' = u
        BY <1>1
      <4> QED
        BY <2>4, <4>1 DEF Consumed
    <3>3. Passed(v)' <=> Passed(v)
      <4>1. v < u + 1 <=> v < u
        BY <1>3, <2>1, <2>4
      <4> QED
        BY <1>1, <1>3, <4>1 DEF Passed
    <3> QED
      BY <3>1, <3>2, <3>3 DEF BudgetInv
  <2> QED
    BY <2>3, <2>4
<1>7. \A v \in Users' :
        /\ done'[v] <= config'.interactionsPerUser
        /\ done'[v] <= (IF Passed(v)' THEN round' + 1 ELSE round') * config'.feedSize
        /\ total'[v] = done'[v] + Consumed(v)'
        /\ Len(log'[v]) = total'[v]
  BY <1>1, <1>6
<1> QED
  BY <1>4, <1>5, <1>7, Zenon DEF BudgetInv

\* When a round ends every user has had its turn.
LEMMA EndRoundStep ==
  ASSUME TypeOK, BudgetInv, EndRound PROVE TypeOK' /\ BudgetInv'
<1>1. /\ stage = "request" /\ turn = users /\ round' = round + 1
      /\ stage' = (IF round + 1 < Rounds THEN "round" ELSE "finish")
      /\ UNCHANGED <<config, turn, users, reels, feed, served, evaluated, done, drifted, total,
                     pref, open, log, records, curve, exposed>>
      /\ ledger' = [ledger EXCEPT ![round].distinct = Cardinality(exposed)]
  BY DEF EndRound, dataVars, feedVars, userVars
<1>2. Rounds' = Rounds /\ Users' = Users
  BY <1>1, ConfigKept, UsersKept
<1>3. round \in Nat /\ Rounds \in Nat /\ round < Rounds
  BY <1>1, ConfigFacts DEF TypeOK, BudgetInv
<1>4. round' \in 0..Rounds' /\ stage' \in {"round", "finish"} /\ (stage' = "round" => round' < Rounds')
  BY <1>1, <1>2, <1>3
<1>5. ledger' \in [0..Rounds - 1 ->
                    [impressions : Nat, sessions : SUBSET (Nat \X Nat), drifted : Nat,
                     injected : Nat, distinct : Nat]]
  <2> DEFINE Row == [impressions : Nat, sessions : SUBSET (Nat \X Nat), drifted : Nat,
                     injected : Nat, distinct : Nat]
             n == Cardinality(exposed)
  <2>1. n \in Nat
    BY FS_CardinalityType DEF TypeOK
  <2>2. \A row \in Row, k \in Nat : [row EXCEPT !.distinct = k] \in Row
    BY Zenon
  <2>3. ledger \in [0..Rounds - 1 -> Row] /\ round \in 0..Rounds - 1
    BY <1>3 DEF TypeOK
  <2>4. ledger' = [ledger EXCEPT ![round] = [ledger[round] EXCEPT !.distinct = n]]
    BY <1>1
  <2> HIDE DEF Row, n
  <2>5. ledger' \in [0..Rounds - 1 -> Row]
    BY <2>1, <2>2, <2>3, <2>4
  <2> QED
    BY <2>5 DEF Row
<1>6. TypeOK'
  BY <1>1, <1>2, <1>4, <1>5 DEF TypeOK
<1>7. ASSUME NEW u \in Users
      PROVE  /\ done[u] <= config.interactionsPerUser
             /\ done[u] <= (IF Passed(u)' THEN round' + 1 ELSE round') * config.feedSize
             /\ total[u] = done[u] + Consumed(u)'
             /\ Len(log[u]) = total[u]
  <2>1. Passed(u) /\ ~Passed(u)' /\ Consumed(u) = 0 /\ Consumed(u)' = 0
    BY <1>1, <1>4 DEF Passed, Consumed, Users, TypeOK
  <2> QED
    BY <1>1, <2>1 DEF BudgetInv
<1>8. BudgetInv'
  <2>1. \A u \in Users' :
          /\ done'[u] <= config'.interactionsPerUser
          /\ done'[u] <= (IF Passed(u)' THEN round' + 1 ELSE round') * config'.feedSize
          /\ total'[u] = done'[u] + Consumed(u)'
          /\ Len(log'[u]) = total'[u]
    BY <1>1, <1>2, <1>7
  <2> QED
    BY <1>4, <2>1 DEF BudgetInv
<1> QED
  BY <1>6, <1>8

\* The drain of the open sessions spends nothing.
LEMMA FinishStep ==
  ASSUME TypeOK, BudgetInv, Finish PROVE TypeOK' /\ BudgetInv'
<1> DEFINE Rec == [round : Nat, user : Nat, impressions : Nat, ended : BOOLEAN]
<1>1. /\ stage = "finish" /\ stage' = "done"
      /\ UNCHANGED <<config, round, turn, users, reels, feed, served, evaluated, done, drifted,
                     total, pref, log, curve, ledger, exposed>>
      /\ open' = [u \in Users |-> 0]
  BY DEF Finish, dataVars, feedVars
<1>2. Rounds' = Rounds /\ Users' = Users
  BY <1>1, ConfigKept, UsersKept
<1>3. records' \in Seq(Rec)
  <2>1. PICK rest \in Drained : records' = records \o rest
    BY DEF Finish
  <2>2. rest \in Seq(Rec) /\ records \in Seq(Rec)
    BY DrainedFacts DEF TypeOK
  <2> HIDE DEF Rec
  <2> QED
    BY <2>1, <2>2, ConcatProperties
<1>4. open' \in [Users -> Nat]
  BY <1>1
<1>5. TypeOK'
  BY <1>1, <1>2, <1>3, <1>4 DEF TypeOK
<1>6. \A u \in Users : Passed(u)' = Passed(u) /\ Consumed(u)' = Consumed(u)
  BY <1>1 DEF Passed, Consumed
<1>7. BudgetInv'
  <2>1. \A u \in Users' :
          /\ done'[u] <= config'.interactionsPerUser
          /\ done'[u] <= (IF Passed(u)' THEN round' + 1 ELSE round') * config'.feedSize
          /\ total'[u] = done'[u] + Consumed(u)'
          /\ Len(log'[u]) = total'[u]
    BY <1>1, <1>2, <1>6 DEF BudgetInv
  <2> QED
    BY <1>1, <2>1 DEF BudgetInv
<1> QED
  BY <1>5, <1>7

\* Nothing changes in a stuttering step.
LEMMA StutterStep ==
  ASSUME TypeOK, BudgetInv, UNCHANGED vars PROVE TypeOK' /\ BudgetInv'
<1>1. /\ UNCHANGED <<config, stage, round, turn, users, reels, feed, served, evaluated>>
      /\ UNCHANGED <<done, drifted, total, pref, open, log, records, curve, ledger, exposed>>
  BY DEF vars, progressVars, dataVars, feedVars, userVars, metricVars
<1>2. Rounds' = Rounds /\ Users' = Users
  BY <1>1, ConfigKept, UsersKept
<1>3. TypeOK'
  BY <1>1, <1>2 DEF TypeOK
<1>4. \A u \in Users : Passed(u)' = Passed(u) /\ Consumed(u)' = Consumed(u)
  BY <1>1 DEF Passed, Consumed
<1>5. ToConsume(turn)' = ToConsume(turn)
  BY <1>1 DEF ToConsume, Remaining
<1> QED
  BY <1>1, <1>2, <1>3, <1>4, <1>5 DEF BudgetInv

\* Every step keeps the types and the budgets.
LEMMA StepBudget == TypeOK /\ BudgetInv /\ [Next]_vars => TypeOK' /\ BudgetInv'
  BY BeginRoundStep, RequestStep, ImpressionType, ImpressionBudget, EndRoundStep, FinishStep,
     StutterStep DEF Next

\* The types and the budgets hold throughout a run.
LEMMA Budgets == Spec => [](TypeOK /\ BudgetInv)
<1>1. Init => TypeOK /\ BudgetInv
  BY InitType, InitBudget
<1> QED
  BY <1>1, StepBudget, PTL DEF Spec

\* The variables have their types: every index the runner uses is in range.
THEOREM TypeCorrect == Spec => []TypeOK
  BY Budgets, PTL

\* No user has spent its budget when its turn comes and none is served past
\* it: a round takes at most one feed of it, so what is left after all the
\* rounds but the last is more than nothing.
THEOREM ServedEveryRoundCorrect == Spec => []ServedEveryRound
<1>1. ASSUME TypeOK, BudgetInv PROVE ServedEveryRound
  <2>1. ASSUME stage = "request", turn < users PROVE Remaining(turn) > 0
    <3>1. turn \in Users /\ ~Passed(turn)
      BY <1>1, <2>1 DEF TypeOK, Users, Passed
    <3>2. round \in Nat /\ round < Rounds /\ done[turn] <= round * config.feedSize
      BY <1>1, <2>1, <3>1 DEF BudgetInv, TypeOK
    <3>3. round * config.feedSize < config.interactionsPerUser
          /\ config.interactionsPerUser \in Nat /\ config.feedSize \in Nat
      BY <1>1, <3>2, ConfigFacts
    <3>4. round * config.feedSize \in Nat /\ done[turn] \in Nat
      BY <1>1, <3>1, <3>2, <3>3 DEF TypeOK
    <3> QED
      BY <3>2, <3>3, <3>4 DEF Remaining
  <2>2. ASSUME NEW u \in Users PROVE total[u] <= config.interactionsPerUser
    <3>1. /\ done[u] \in Nat /\ done[u] <= config.interactionsPerUser /\ total[u] = done[u] + Consumed(u)
          /\ config.interactionsPerUser \in Nat
      BY <1>1, ConfigFacts DEF BudgetInv, TypeOK
    <3>2. CASE stage = "consume" /\ u = turn
      <4>1. served < ToConsume(u) /\ served \in Nat /\ Len(feed) \in Nat
        BY <1>1, <3>2, LenProperties DEF BudgetInv, TypeOK
      <4>2. served < config.interactionsPerUser - done[u]
        BY <3>1, <4>1 DEF ToConsume, Remaining, Lower
      <4> QED
        BY <3>1, <3>2, <4>1, <4>2 DEF Consumed
    <3>3. CASE ~(stage = "consume" /\ u = turn)
      BY <3>1, <3>3 DEF Consumed
    <3> QED
      BY <3>2, <3>3
  <2> QED
    BY <2>1, <2>2 DEF ServedEveryRound
<1> QED
  BY <1>1, Budgets, PTL

------------------------------------------------------------------------------
(* Drift *)

\* The events that have fired for u, and the order they fire in.
Reached(u, n) == {i \in DOMAIN config.drift :
                    config.drift[i].at <= n /\ u \in config.drift[i].cohort}
Later(i, j) == config.drift[i].at > config.drift[j].at
               \/ (config.drift[i].at = config.drift[j].at /\ i >= j)

\* Drift events have a place in the config and a count they fire at.
LEMMA EventFacts ==
  ASSUME TypeOK
  PROVE  /\ Len(config.drift) \in Nat /\ DOMAIN config.drift = 1..Len(config.drift)
         /\ \A i \in DOMAIN config.drift : i \in Nat /\ config.drift[i].at \in Nat
<1>1. config.drift \in Seq([at : Nat, cohort : SUBSET Nat])
  BY ConfigFacts
<1>2. Len(config.drift) \in Nat /\ DOMAIN config.drift = 1..Len(config.drift)
  BY <1>1, LenProperties
<1>3. ASSUME NEW i \in DOMAIN config.drift PROVE i \in Nat /\ config.drift[i].at \in Nat
  <2>1. config.drift[i] \in [at : Nat, cohort : SUBSET Nat]
    BY <1>1, <1>2, ElementOfSeq
  <2> QED
    BY <1>2, <2>1
<1> QED
  BY <1>2, <1>3

\* Before any event fires there is none in force.
LEMMA NoneInForce ==
  ASSUME TypeOK, NEW u, NEW n \in Int
  PROVE  InForce(u, n) # 0 => Reached(u, n) # {}
         /\ (n < 0 => InForce(u, n) = 0)
<1>1. n < 0 => Reached(u, n) = {}
  BY EventFacts DEF Reached
<1> QED
  BY <1>1 DEF InForce, Reached

\* Firing on equality with the count keeps the last event reached in force:
\* of those that fire now the last wins over all before.
LEMMA InForceStep ==
  ASSUME TypeOK, NEW u \in Users, NEW n \in Nat, pref[u] = InForce(u, n - 1)
  PROVE  MaybeApply(u, n) = InForce(u, n)
<1> DEFINE due == {i \in DOMAIN config.drift :
                     config.drift[i].at = n /\ u \in config.drift[i].cohort}
<1>1. InForce(u, n) = IF Reached(u, n) = {} THEN 0
                      ELSE CHOOSE i \in Reached(u, n) : \A j \in Reached(u, n) : Later(i, j)
  BY DEF InForce, Reached, Later
<1>2. MaybeApply(u, n) = IF due = {} THEN pref[u] ELSE CHOOSE i \in due : \A j \in due : j <= i
  BY DEF MaybeApply
<1>3. \A i \in DOMAIN config.drift :
        i \in Nat /\ config.drift[i].at \in Nat
        /\ (i \in Reached(u, n) <=> i \in Reached(u, n - 1) \/ i \in due)
        /\ (i \in Reached(u, n - 1) => config.drift[i].at < n)
        /\ (i \in due <=> i \in Reached(u, n) /\ config.drift[i].at = n)
  BY EventFacts DEF Reached
<1>4. CASE due = {}
  <2>1. Reached(u, n) = Reached(u, n - 1)
    BY <1>3, <1>4 DEF Reached
  <2>2. InForce(u, n - 1) = IF Reached(u, n - 1) = {} THEN 0
                            ELSE CHOOSE i \in Reached(u, n - 1) : \A j \in Reached(u, n - 1) : Later(i, j)
    BY DEF InForce, Reached, Later
  <2> QED
    BY <1>1, <1>2, <1>4, <2>1, <2>2
<1>5. CASE due # {}
  <2>1. due \in SUBSET (0..Len(config.drift)) /\ Len(config.drift) \in Nat
    BY EventFacts
  <2>2. due \subseteq DOMAIN config.drift /\ Reached(u, n) \subseteq DOMAIN config.drift
    BY DEF Reached
  <2>9. \A i \in Reached(u, n) : config.drift[i].at <= n
    BY DEF Reached
  <2> HIDE DEF due
  <2>3. PICK m \in due : \A j \in due : j <= m
    BY <1>5, <2>1, GreatestNat
  <2> DEFINE c == CHOOSE i \in due : \A j \in due : j <= i
             d == CHOOSE i \in Reached(u, n) : \A j \in Reached(u, n) : Later(i, j)
  <2>4. c \in due /\ \A j \in due : j <= c
    BY <2>3, Zenon
  <2>5. c = m
    <3>1. c <= m /\ m <= c /\ c \in Nat /\ m \in Nat
      BY <1>3, <2>2, <2>3, <2>4
    <3> HIDE DEF c
    <3> QED
      BY <3>1
  <2>6. m \in Reached(u, n) /\ \A j \in Reached(u, n) : Later(m, j)
    <3>1. m \in Reached(u, n) /\ config.drift[m].at = n
      BY <1>3, <2>2, <2>3
    <3>2. ASSUME NEW j \in Reached(u, n) PROVE Later(m, j)
      <4>1. config.drift[j].at \in Nat /\ config.drift[j].at <= n /\ j \in Nat /\ m \in Nat
        BY <1>3, <2>2, <2>3, <2>9
      <4>2. config.drift[j].at = n => m >= j
        BY <1>3, <2>2, <2>3, <4>1
      <4> QED
        BY <3>1, <4>1, <4>2 DEF Later
    <3> QED
      BY <3>1, <3>2
  <2>7. d \in Reached(u, n) /\ \A j \in Reached(u, n) : Later(d, j)
    BY <2>6, Zenon
  <2>8. d = m
    <3> HIDE DEF d
    <3>1. Later(d, m) /\ Later(m, d)
      BY <2>6, <2>7
    <3>2. d \in Nat /\ m \in Nat /\ config.drift[d].at \in Nat /\ config.drift[m].at \in Nat
      BY <1>3, <2>2, <2>6, <2>7
    <3> QED
      BY <3>1, <3>2 DEF Later
  <2> QED
    BY <1>1, <1>2, <1>5, <2>5, <2>6, <2>8
<1> QED
  BY <1>4, <1>5

\* An impression under a drift is not in a round before the first.
LEMMA FirstDrift ==
  ASSUME TypeOK, NEW u, NEW n \in Nat, NEW r \in Nat, config.feedSize > 0,
         n < (r + 1) * config.feedSize, InForce(u, n) # 0
  PROVE  DriftRound \in Nat /\ DriftRound <= r /\ config.drift # <<>> /\ EverApplies(u)
<1> DEFINE S == {config.drift[i].at : i \in DOMAIN config.drift}
<1>1. PICK i \in Reached(u, n) : TRUE
  BY NoneInForce
<1>2. i \in DOMAIN config.drift /\ config.drift[i].at <= n /\ u \in config.drift[i].cohort
  BY <1>1 DEF Reached
<1>3. S \in SUBSET Nat /\ config.drift[i].at \in S
  BY <1>2, EventFacts
<1>4. config.drift # <<>> /\ EverApplies(u)
  BY <1>2 DEF EverApplies
<1>5. DriftRound = Min(S) \div config.feedSize
  BY DEF DriftRound
<1> HIDE DEF S
<1>6. Min(S) \in S /\ \A x \in S : Min(S) <= x
  <2>1. \E m \in S : \A x \in S : m <= x
    BY <1>3, LeastNat, Zenon
  <2> QED
    BY <2>1, Zenon DEF Min
<1> DEFINE m == Min(S)
<1>7. m \in Nat /\ m <= n
  <2>1. m \in Nat /\ m <= config.drift[i].at /\ config.drift[i].at \in Nat
    BY <1>3, <1>6
  <2> HIDE DEF m
  <2> QED
    BY <1>2, <2>1
<1>8. DriftRound = m \div config.feedSize
  BY <1>5
<1> HIDE DEF m
<1>9. config.feedSize \in Nat \ {0}
  BY ConfigFacts
<1>10. (r + 1) * config.feedSize \in Nat /\ m < (r + 1) * config.feedSize
  BY <1>7, <1>9
<1> QED
  BY <1>4, <1>7, <1>8, <1>9, <1>10, RoundOf

\* Before the first impression no event is in force.
LEMMA InitDrift == Init => DriftInv
<1> SUFFICES ASSUME Init PROVE DriftInv
  OBVIOUS
<1>1. TypeOK /\ stage # "done"
  BY InitType DEF Init
<1>2. drifted = [u \in Users |-> EverApplies(u)]
  BY DEF Init
<1>3. ASSUME NEW u \in Users PROVE pref[u] = InForce(u, total[u] - 1) /\ DOMAIN log[u] = {}
  <2>1. pref[u] = 0 /\ total[u] = 0 /\ log[u] = <<>>
    BY DEF Init
  <2>2. InForce(u, 0 - 1) = 0
    BY <1>1, NoneInForce
  <2> QED
    BY <2>1, <2>2
<1> QED
  BY <1>1, <1>2, <1>3 DEF DriftInv

\* What DriftInv says of one user.
DriftOf(u) ==
  /\ pref[u] = InForce(u, total[u] - 1)
  /\ \A i \in DOMAIN log[u] :
       /\ log[u][i].pref = InForce(u, i - 1)
       /\ log[u][i].round < Rounds /\ i <= (log[u][i].round + 1) * config.feedSize
       /\ EverApplies(u) => ledger[log[u][i].round].drifted > 0

\* A user nothing happens to keeps its history.
LEMMA DriftKept ==
  ASSUME DriftInv, NEW u \in Users, config' = config,
         pref'[u] = pref[u], total'[u] = total[u], log'[u] = log[u],
         \A r \in 0..Rounds - 1 : ledger[r].drifted > 0 => ledger'[r].drifted > 0,
         \A i \in DOMAIN log[u] : log[u][i].round \in Nat, Rounds \in Nat
  PROVE  DriftOf(u)'
<1>1. DriftOf(u)
  BY DEF DriftInv, DriftOf
<1>2. /\ Rounds' = Rounds /\ (EverApplies(u)' <=> EverApplies(u))
      /\ \A n : InForce(u, n)' = InForce(u, n)
  BY ConfigKept
<1>3. (pref[u] = InForce(u, total[u] - 1))'
  <2>1. PICK n : n = total[u] - 1
    OBVIOUS
  <2>2. pref[u] = InForce(u, n) /\ (n = total[u] - 1)'
    BY <1>1, <2>1 DEF DriftOf
  <2>3. pref'[u] = InForce(u, n)'
    BY <1>2, <2>2
  <2> QED
    BY <2>2, <2>3
<1>4. ASSUME NEW i \in DOMAIN log'[u]
      PROVE  /\ log'[u][i].pref = InForce(u, i - 1)'
             /\ log'[u][i].round < Rounds' /\ i <= (log'[u][i].round + 1) * config'.feedSize
             /\ EverApplies(u)' => ledger'[log'[u][i].round].drifted > 0
  <2>1. i \in DOMAIN log[u] /\ log[u][i].round \in 0..Rounds - 1
    BY <1>1, <1>4 DEF DriftOf
  <2> QED
    BY <1>1, <1>2, <2>1 DEF DriftOf
<1> QED
  BY <1>3, <1>4, Zenon DEF DriftOf

\* The rounds of the impressions logged are numbers.
LEMMA LogFacts ==
  ASSUME TypeOK, NEW u \in Users
  PROVE  /\ log[u] \in Seq([round : Nat, reel : Nat, pref : Nat])
         /\ Len(log[u]) \in Nat /\ DOMAIN log[u] = 1..Len(log[u])
         /\ \A i \in DOMAIN log[u] : /\ log[u][i].round \in Nat /\ log[u][i].reel \in Nat
                                     /\ log[u][i].pref \in Nat
<1>1. log[u] \in Seq([round : Nat, reel : Nat, pref : Nat])
  BY DEF TypeOK
<1>2. Len(log[u]) \in Nat /\ DOMAIN log[u] = 1..Len(log[u])
  BY <1>1, LenProperties
<1>3. \A i \in DOMAIN log[u] : log[u][i] \in [round : Nat, reel : Nat, pref : Nat]
  BY <1>1, <1>2, ElementOfSeq
<1> QED
  BY <1>1, <1>2, <1>3

\* Injected users start with no event in force.
LEMMA BeginRoundDrift ==
  ASSUME TypeOK, BudgetInv, DriftInv, BeginRound PROVE DriftInv'
<1>1. stage' = "request" /\ UNCHANGED <<config, ledger>>
  BY DEF BeginRound, metricVars
<1>2. Rounds' = Rounds /\ \A u : EverApplies(u)' = EverApplies(u)
  BY <1>1, ConfigKept
<1>3. drifted' = [u \in Users' |-> EverApplies(u)']
  <2>1. drifted' \in [Users' -> BOOLEAN]
    BY BeginRoundGrows
  <2>2. \A u \in Users' : drifted'[u] = EverApplies(u)'
    BY <1>2, BeginRoundGrows DEF DriftInv
  <2> QED
    BY <2>1, <2>2
<1>4. ASSUME NEW u \in Users' PROVE DriftOf(u)'
  <2>1. CASE u \in Users
    <3>1. pref'[u] = pref[u] /\ total'[u] = total[u] /\ log'[u] = log[u]
      BY <2>1, BeginRoundGrows
    <3> QED
      BY <1>1, <2>1, <3>1, LogFacts, ConfigFacts, DriftKept
  <2>2. CASE u \notin Users
    <3>1. pref'[u] = 0 /\ total'[u] = 0 /\ log'[u] = <<>>
      BY <2>2, BeginRoundGrows
    <3>2. InForce(u, 0 - 1)' = 0
      BY <1>1, ConfigKept, NoneInForce
    <3>3. DOMAIN log'[u] = {}
      BY <3>1
    <3> QED
      BY <3>1, <3>2, <3>3 DEF DriftOf
  <2> QED
    BY <2>1, <2>2
<1> QED
  BY <1>1, <1>3, <1>4 DEF DriftInv, DriftOf

\* An impression only adds to its round.
LEMMA LedgerStep ==
  ASSUME TypeOK, BudgetInv, NEW exit \in BOOLEAN, Impression(exit)
  PROVE  LET row == ledger[round]
             r == feed[served + 1]
         IN
         /\ \A q \in 0..Rounds - 1 : q # round => ledger'[q] = ledger[q]
         /\ ledger'[round].impressions = row.impressions + 1
         /\ ledger'[round].sessions = row.sessions \cup {SessionKey(turn)}
         /\ ledger'[round].drifted = row.drifted + (IF drifted[turn] THEN 1 ELSE 0)
         /\ ledger'[round].injected = row.injected + (IF InjectedReel(r) THEN 1 ELSE 0)
         /\ ledger'[round].distinct = row.distinct
<1> DEFINE Row == [impressions : Nat, sessions : SUBSET (Nat \X Nat), drifted : Nat,
                   injected : Nat, distinct : Nat]
           new == Counted(ledger[round], turn, feed[served + 1])
<1>1. ledger \in [0..Rounds - 1 -> Row] /\ round \in 0..Rounds - 1
  BY ImpressionFacts DEF TypeOK
<1>2. ledger' = [ledger EXCEPT ![round] = new]
  BY DEF Impression
<1>3. ledger[round] \in Row
  BY <1>1
<1>4. /\ new.impressions = ledger[round].impressions + 1
      /\ new.sessions = ledger[round].sessions \cup {SessionKey(turn)}
      /\ new.drifted = ledger[round].drifted + (IF drifted[turn] THEN 1 ELSE 0)
      /\ new.injected = ledger[round].injected + (IF InjectedReel(feed[served + 1]) THEN 1 ELSE 0)
      /\ new.distinct = ledger[round].distinct
  BY <1>3 DEF Counted
<1> HIDE DEF new, Row
<1>5. ledger'[round] = new /\ \A q \in 0..Rounds - 1 : q # round => ledger'[q] = ledger[q]
  BY <1>1, <1>2
<1> QED
  BY <1>4, <1>5

\* An impression is served under the event in force at its count.
LEMMA ImpressionDrift ==
  ASSUME TypeOK, BudgetInv, DriftInv, NEW exit \in BOOLEAN, Impression(exit) PROVE DriftInv'
<1>0. PICK u : u = turn
  OBVIOUS
<1> DEFINE now == MaybeApply(u, total[u])
           entry == [round |-> round, reel |-> feed[served + 1], pref |-> now]
<1>1. /\ UNCHANGED <<config, drifted>> /\ Users' = Users /\ Rounds' = Rounds
      /\ pref' = [pref EXCEPT ![u] = now] /\ total' = [total EXCEPT ![u] = total[u] + 1]
      /\ log' = [log EXCEPT ![u] = Append(log[u], entry)]
      /\ stage' # "done"
  BY <1>0, ImpressionSteps
<1>2. /\ u \in Users /\ round \in 0..Rounds - 1 /\ round \in Nat /\ Rounds \in Nat
      /\ total[u] \in Nat /\ Len(log[u]) = total[u] /\ now \in Nat /\ feed[served + 1] \in Nat
      /\ total[u] = done[u] + served /\ done[u] <= round * config.feedSize
      /\ served < config.feedSize /\ served \in Nat /\ done[u] \in Nat
  BY <1>0, ImpressionFacts
<1>3. /\ (EverApplies(u)' <=> EverApplies(u)) /\ \A n : InForce(u, n)' = InForce(u, n)
      /\ \A v : EverApplies(v)' = EverApplies(v)
  BY <1>1, ConfigKept
<1>4. \A r \in 0..Rounds - 1 : ledger[r].drifted > 0 => ledger'[r].drifted > 0
  <2>1. \A r \in 0..Rounds - 1 : ledger[r].drifted \in Nat
    BY DEF TypeOK
  <2> QED
    BY <1>2, <2>1, LedgerStep, SMTT(30)
<1>5. pref \in [Users -> Nat] /\ total \in [Users -> Nat]
      /\ log \in [Users -> Seq([round : Nat, reel : Nat, pref : Nat])]
  BY DEF TypeOK
<1>6. drifted' = [v \in Users' |-> EverApplies(v)']
  BY <1>1, <1>3 DEF DriftInv
<1>7. DriftOf(u)'
  <2>1. now = InForce(u, total[u])
    BY <1>2, InForceStep DEF DriftInv
  <2>2. pref'[u] = now /\ total'[u] = total[u] + 1 /\ log'[u] = Append(log[u], entry)
    BY <1>1, <1>2, <1>5
  <2>3. (pref[u] = InForce(u, total[u] - 1))'
    <3>1. PICK n : n = total[u]
      OBVIOUS
    <3>2. total[u] + 1 - 1 = n
      BY <1>2, <3>1
    <3>3. pref'[u] = InForce(u, n)'
      BY <1>3, <2>1, <2>2, <3>1
    <3>4. (n = total[u] - 1)'
      <4>1. PICK m : m = total'[u]
        OBVIOUS
      <4>2. m = total[u] + 1
        BY <2>2, <4>1
      <4>3. n = m - 1
        BY <1>2, <3>2, <4>2
      <4> QED
        BY <4>1, <4>3, Zenon
    <3> QED
      BY <3>3, <3>4
  <2>4. DriftOf(u)
    BY <1>2 DEF DriftInv, DriftOf
  <2> HIDE DEF now
  <2>5. entry \in [round : Nat, reel : Nat, pref : Nat]
    BY <1>2
  <2>6. entry.round = round /\ entry.pref = now
    OBVIOUS
  <2> HIDE DEF entry
  <2>7. /\ DOMAIN log'[u] = 1..total[u] + 1
        /\ log'[u][total[u] + 1] = entry
        /\ \A i \in 1..total[u] : log'[u][i] = log[u][i] /\ i \in DOMAIN log[u]
    <3>1. log[u] \in Seq([round : Nat, reel : Nat, pref : Nat]) /\ DOMAIN log[u] = 1..total[u]
      BY <1>2, LogFacts
    <3>2. Append(log[u], entry) \in Seq([round : Nat, reel : Nat, pref : Nat])
          /\ Len(Append(log[u], entry)) = total[u] + 1
          /\ Append(log[u], entry)[total[u] + 1] = entry
          /\ \A i \in 1..total[u] : Append(log[u], entry)[i] = log[u][i]
      BY <1>2, <2>5, <3>1, AppendProperties
    <3>3. DOMAIN Append(log[u], entry) = 1..total[u] + 1
      BY <3>2, LenProperties
    <3> QED
      BY <2>2, <3>1, <3>2, <3>3
  <2>8. ASSUME NEW i \in DOMAIN log'[u]
        PROVE  /\ log'[u][i].pref = InForce(u, i - 1)'
               /\ log'[u][i].round < Rounds' /\ i <= (log'[u][i].round + 1) * config'.feedSize
               /\ EverApplies(u)' => ledger'[log'[u][i].round].drifted > 0
    <3>1. CASE i = total[u] + 1
      <4>1. log'[u][i] = entry /\ i - 1 = total[u]
        BY <1>2, <2>7, <3>1
      <4>2. i <= (round + 1) * config.feedSize
        <5> DEFINE a == round * config.feedSize
                   b == (round + 1) * config.feedSize
        <5>1. config.feedSize \in Nat
          BY ConfigFacts
        <5>2. a \in Nat /\ b = a + config.feedSize /\ done[u] <= a
          BY <1>2, <5>1
        <5> HIDE DEF a, b
        <5>3. i <= b
          BY <1>2, <3>1, <5>1, <5>2
        <5> QED
          BY <5>3 DEF b
      <4>3. EverApplies(u) => ledger'[round].drifted > 0
        <5>1. ledger[round].drifted \in Nat /\ (EverApplies(u) => drifted[u])
          BY <1>2 DEF TypeOK, DriftInv
        <5> QED
          BY <1>0, <5>1, LedgerStep
      <4>4. round < Rounds
        BY <1>2
      <4> QED
        BY <1>1, <1>3, <2>1, <2>6, <4>1, <4>2, <4>3, <4>4
    <3>2. CASE i # total[u] + 1
      <4>1. i \in 1..total[u]
        BY <1>2, <2>7, <3>2
      <4>2. log'[u][i] = log[u][i] /\ i \in DOMAIN log[u] /\ log[u][i].round \in Nat
        BY <1>2, <2>7, <4>1, LogFacts
      <4>3. log[u][i].round \in 0..Rounds - 1
        BY <1>2, <2>4, <4>2 DEF DriftOf
      <4> QED
        BY <1>1, <1>3, <1>4, <2>4, <4>2, <4>3 DEF DriftOf
    <3> QED
      BY <3>1, <3>2
  <2> QED
    BY <2>3, <2>8, Zenon DEF DriftOf
<1>8. ASSUME NEW v \in Users, v # u PROVE DriftOf(v)'
  <2>1. pref'[v] = pref[v] /\ total'[v] = total[v] /\ log'[v] = log[v]
    BY <1>1, <1>5, <1>8
  <2> QED
    BY <1>1, <1>2, <1>4, <2>1, LogFacts, DriftKept
<1> QED
  BY <1>1, <1>6, <1>7, <1>8 DEF DriftInv, DriftOf

\* The other steps leave preferences and histories alone.
LEMMA OtherDrift ==
  ASSUME TypeOK, BudgetInv, DriftInv, Request \/ EndRound \/ Finish \/ UNCHANGED vars
  PROVE  DriftInv'
<1>1. /\ UNCHANGED <<config, users, drifted, total, pref, log>>
      /\ stage' = "done" => Finish \/ UNCHANGED vars
  BY DEF Request, EndRound, Finish, NothingServed, vars, progressVars, dataVars, userVars, feedVars
<1>2. Rounds' = Rounds /\ Users' = Users /\ \A u : EverApplies(u)' = EverApplies(u)
  BY <1>1, ConfigKept, UsersKept
<1>3. \A r \in 0..Rounds - 1 : ledger[r].drifted > 0 => ledger'[r].drifted > 0
  <2>1. CASE EndRound
    <3>1. ledger' = [ledger EXCEPT ![round].distinct = Cardinality(exposed)]
      BY <2>1 DEF EndRound
    <3>2. \A r \in 0..Rounds - 1 :
            ledger[r] \in [impressions : Nat, sessions : SUBSET (Nat \X Nat), drifted : Nat,
                           injected : Nat, distinct : Nat] /\ r \in DOMAIN ledger
      BY DEF TypeOK
    <3> QED
      BY <3>1, <3>2
  <2>2. CASE ~EndRound
    BY <2>2 DEF Request, Finish, vars, metricVars
  <2> QED
    BY <2>1, <2>2
<1>4. ASSUME NEW u \in Users PROVE DriftOf(u)'
  BY <1>1, <1>3, LogFacts, ConfigFacts, DriftKept
<1>5. ASSUME stage' = "done", config'.drift # <<>> PROVE (report.adaptation = AdaptationReport)'
  <2>1. CASE Finish
    <3>1. report'.adaptation = IF config.drift = <<>> THEN <<>> ELSE AdaptationReport
      BY <2>1 DEF Finish, Result
    <3>2. UNCHANGED <<config, users, drifted, ledger>>
      BY <2>1 DEF Finish, dataVars
    <3>3. AdaptationReport' = AdaptationReport
      BY <3>2 DEF AdaptationReport, BaselineRounds, SearchedRounds, DriftRound, Users
    <3> QED
      BY <1>1, <1>5, <3>1, <3>3
  <2>2. CASE UNCHANGED vars
    <3>1. UNCHANGED <<config, stage, users, drifted, ledger, report>>
      BY <2>2 DEF vars, progressVars, dataVars, metricVars
    <3>2. AdaptationReport' = AdaptationReport
      BY <3>1 DEF AdaptationReport, BaselineRounds, SearchedRounds, DriftRound, Users
    <3> QED
      BY <1>5, <3>1, <3>2 DEF DriftInv
  <2> QED
    BY <1>1, <1>5, <2>1, <2>2
<1>6. drifted' = [u \in Users' |-> EverApplies(u)']
  BY <1>1, <1>2 DEF DriftInv
<1> QED
  BY <1>2, <1>4, <1>5, <1>6 DEF DriftInv, DriftOf

\* Preferences follow the schedule throughout a run.
LEMMA Drifts == Spec => []DriftInv
<1>1. TypeOK /\ BudgetInv /\ DriftInv /\ [Next]_vars => DriftInv'
  BY BeginRoundDrift, ImpressionDrift, OtherDrift DEF Next
<1> QED
  BY <1>1, InitDrift, Budgets, PTL DEF Spec

\* Every impression is served under the latest drift its user has reached, and
\* the adaptation report finds each of them where it looks and not in its
\* baseline.
THEOREM DriftCurrentCorrect == Spec => []DriftCurrent
<1>1. ASSUME TypeOK, BudgetInv, DriftInv PROVE DriftCurrent
  <2> SUFFICES ASSUME NEW u \in Users, NEW i \in DOMAIN log[u]
               PROVE  /\ log[u][i].pref = InForce(u, i - 1)
                      /\ log[u][i].pref # 0 => log[u][i].round >= DriftRound
                      /\ stage = "done" /\ log[u][i].pref # 0 =>
                           log[u][i].round \in report.adaptation.searched \ report.adaptation.baseline
    BY DEF DriftCurrent
  <2> DEFINE r == log[u][i].round
  <2>1. /\ log[u][i].pref = InForce(u, i - 1) /\ r < Rounds
        /\ i <= (r + 1) * config.feedSize
        /\ EverApplies(u) => ledger[r].drifted > 0
    BY <1>1 DEF DriftInv
  <2>2. r \in Nat /\ i \in Nat \ {0}
    BY <1>1, LogFacts
  <2>0. log[u][i].round = r
    OBVIOUS
  <2> HIDE DEF r
  <2>3. ASSUME log[u][i].pref # 0
        PROVE  DriftRound \in Nat /\ DriftRound <= r /\ config.drift # <<>> /\ ledger[r].drifted > 0
    <3>1. config.feedSize \in Nat /\ config.feedSize > 0 /\ Rounds \in Nat
      BY <1>1, <2>1, <2>2, ConfigFacts
    <3>2. (r + 1) * config.feedSize \in Nat
      BY <2>2, <3>1
    <3>3. i - 1 \in Nat /\ i - 1 < (r + 1) * config.feedSize
      <4> DEFINE b == (r + 1) * config.feedSize
      <4>1. b \in Nat /\ i <= b
        BY <2>1, <3>2
      <4> HIDE DEF b
      <4>2. i - 1 \in Nat /\ i - 1 < b
        BY <2>2, <4>1
      <4> QED
        BY <4>2 DEF b
    <3>4. InForce(u, i - 1) # 0
      BY <2>1, <2>3
    <3>5. DriftRound \in Nat /\ DriftRound <= r /\ config.drift # <<>> /\ EverApplies(u)
      BY <1>1, <2>2, <3>1, <3>3, <3>4, FirstDrift
    <3> QED
      BY <2>1, <3>5, Zenon
  <2>4. ASSUME stage = "done", log[u][i].pref # 0
        PROVE  r \in report.adaptation.searched \ report.adaptation.baseline
    <3>1. DriftRound \in Nat /\ DriftRound <= r /\ config.drift # <<>> /\ ledger[r].drifted > 0
      BY <2>3, <2>4
    <3>2. r \in DOMAIN ledger
      <4>1. DOMAIN ledger = 0..Rounds - 1 /\ Rounds \in Nat
        BY <1>1, ConfigFacts DEF TypeOK
      <4> QED
        BY <2>1, <2>2, <4>1
    <3>3. r \in SearchedRounds /\ r \notin BaselineRounds
      BY <2>2, <3>1, <3>2 DEF SearchedRounds, BaselineRounds
    <3>4. report.adaptation = AdaptationReport
      BY <1>1, <2>4, <3>1 DEF DriftInv
    <3> QED
      BY <3>3, <3>4 DEF AdaptationReport
  <2>5. log[u][i].pref # 0 => log[u][i].round >= DriftRound
    BY <2>0, <2>2, <2>3
  <2> QED
    BY <2>0, <2>1, <2>4, <2>5, Zenon
<1> QED
  BY <1>1, Budgets, Drifts, PTL

------------------------------------------------------------------------------
(* The cold-start curve *)

\* The injected users that got past impression i.
Reaching(i) == {u \in Users : Injected(u) /\ total[u] > i}

\* The injected users that got past an index are finitely many.
LEMMA ReachingFinite ==
  ASSUME TypeOK, NEW i
  PROVE  IsFiniteSet(Reaching(i)) /\ Cardinality(Reaching(i)) \in Nat
<1>1. IsFiniteSet(0..users - 1)
  BY FS_Interval DEF TypeOK
<1>2. Reaching(i) \in SUBSET (0..users - 1)
  BY DEF Reaching, Users
<1> QED
  BY <1>1, <1>2, FS_Subset, FS_CardinalityType

\* What CurveInv says of the rows.
RowsCount ==
  \A i \in DOMAIN curve :
    curve[i] = [users |-> Cardinality(Reaching(i)), evaluated |-> Cardinality(Reaching(i))]

\* The invariant of the curve, by its rows.
LEMMA CurveInvRows ==
  CurveInv <=> /\ RowsCount
               /\ stage = "consume" /\ ForceColdStart(turn) => evaluated
               /\ stage = "done" => report.newUserCurve = NewUserCurve
  BY DEF CurveInv, RowsCount, Reaching

\* Rows that stay count the same users as long as those stay.
LEMMA RowsKept ==
  ASSUME RowsCount, curve' = curve, \A i \in DOMAIN curve : Reaching(i)' = Reaching(i)
  PROVE  RowsCount'
  BY DEF RowsCount

\* The curve starts with empty rows.
LEMMA InitCurve == Init => CurveInv
<1> SUFFICES ASSUME Init PROVE CurveInv
  OBVIOUS
<1>1. TypeOK /\ stage \notin {"consume", "done"}
  BY InitType DEF Init
<1>2. curve = [i \in 0..Tracked - 1 |-> NoRow]
  BY DEF Init
<1>3. ASSUME NEW i \in 0..Tracked - 1
      PROVE  curve[i] = [users |-> Cardinality(Reaching(i)), evaluated |-> Cardinality(Reaching(i))]
  <2>1. \A u \in Users : total[u] = 0
    BY DEF Init
  <2>2. Reaching(i) = {}
    BY <2>1 DEF Reaching
  <2>3. Cardinality(Reaching(i)) = 0
    BY <2>2, FS_EmptySet
  <2> QED
    BY <1>2, <2>3 DEF NoRow
<1>4. RowsCount
  BY <1>2, <1>3 DEF RowsCount
<1> QED
  BY <1>1, <1>4, CurveInvRows

\* Users injected now have reached no row.
LEMMA BeginRoundCurve ==
  ASSUME TypeOK, CurveInv, BeginRound PROVE CurveInv'
<1>1. stage' = "request" /\ UNCHANGED <<config, curve>>
  BY DEF BeginRound, metricVars
<1>2. ASSUME NEW i \in DOMAIN curve PROVE Reaching(i)' = Reaching(i)
  <2>1. i \in Nat
    BY DEF TypeOK
  <2>2. \A u \in Users' \ Users : ~(total'[u] > i)
    BY <2>1, BeginRoundGrows
  <2>3. \A u \in Users : total'[u] = total[u]
    BY BeginRoundGrows
  <2>4. Users \subseteq Users'
    BY BeginRoundGrows
  <2>5. \A u : Injected(u)' <=> Injected(u)
    BY <1>1 DEF Injected
  <2>6. Reaching(i)' = {u \in Users' : Injected(u)' /\ total'[u] > i}
    BY Zenon DEF Reaching
  <2> QED
    BY <2>2, <2>3, <2>4, <2>5, <2>6 DEF Reaching
<1>3. RowsCount'
  BY <1>1, <1>2, RowsKept, CurveInvRows
<1>4. CurveInv'
  <2>1. (stage = "request")'
    BY <1>1
  <2> QED
    BY <1>3, <2>1 DEF CurveInv, RowsCount, Reaching
<1> QED
  BY <1>4

\* An impression of an injected user adds it to the row of its own index.
LEMMA ImpressionCurve ==
  ASSUME TypeOK, BudgetInv, CurveInv, NEW exit \in BOOLEAN, Impression(exit) PROVE CurveInv'
<1>0. PICK u : u = turn
  OBVIOUS
<1>1. PICK k : k = total[u]
  OBVIOUS
<1>2. /\ u \in Users /\ k \in Nat /\ done[u] \in Nat /\ served \in Nat /\ k = done[u] + served
      /\ stage = "consume"
  BY <1>0, <1>1, ImpressionFacts
<1>3. /\ UNCHANGED <<config, evaluated>> /\ Users' = Users
      /\ total' = [total EXCEPT ![u] = k + 1]
      /\ stage' \in {"request", "consume"}
      /\ stage' = "consume" => done' = done /\ turn' = turn
  BY <1>0, <1>1, ImpressionSteps
<1>4. curve \in [0..Tracked - 1 -> [users : Nat, evaluated : Nat]] /\ total \in [Users -> Nat]
      /\ Tracked \in Nat
  BY ConfigsAssumption DEF TypeOK
<1>5. \A v \in Users : total'[v] = IF v = u THEN k + 1 ELSE total[v]
  BY <1>3, <1>4
<1>6. ASSUME NEW i \in Nat
      PROVE  Reaching(i)' = IF i = k /\ Injected(u) THEN Reaching(i) \cup {u} ELSE Reaching(i)
  <2>1. Reaching(i)' = {v \in Users : Injected(v) /\ total'[v] > i}
    BY <1>3 DEF Reaching, Injected
  <2>2. \A v \in Users : total'[v] > i <=> (total[v] > i \/ (v = u /\ i = k))
    <3> SUFFICES ASSUME NEW v \in Users
                 PROVE  total'[v] > i <=> (total[v] > i \/ (v = u /\ i = k))
      OBVIOUS
    <3>1. CASE v = u
      <4>1. total[v] = k /\ total'[v] = k + 1
        BY <1>1, <1>5, <3>1
      <4>2. k + 1 > i <=> (k > i \/ i = k)
        BY <1>2
      <4> QED
        BY <3>1, <4>1, <4>2, Zenon
    <3>2. CASE v # u
      BY <1>5, <3>2
    <3> QED
      BY <3>1, <3>2
  <2> QED
    BY <1>2, <2>1, <2>2 DEF Reaching
<1>7. u \notin Reaching(k)
  <2>1. ~(k > k)
    BY <1>2
  <2> QED
    BY <1>1, <2>1, Zenon DEF Reaching
<1>8. curve' = IF Injected(u) /\ k < Tracked
               THEN [curve EXCEPT ![k] = [users |-> curve[k].users + 1,
                                          evaluated |-> curve[k].evaluated + (IF evaluated THEN 1 ELSE 0)]]
               ELSE curve
  BY <1>0, <1>2 DEF Impression, CurveWith
<1>9. RowsCount
  BY CurveInvRows
<1>10. ASSUME NEW i \in DOMAIN curve'
       PROVE  curve'[i] = [users |-> Cardinality(Reaching(i)'), evaluated |-> Cardinality(Reaching(i)')]
  <2>1. i \in 0..Tracked - 1 /\ i \in Nat /\ i < Tracked
    BY <1>4, <1>8
  <2>2. curve[i] = [users |-> Cardinality(Reaching(i)), evaluated |-> Cardinality(Reaching(i))]
    BY <1>4, <1>9, <2>1 DEF RowsCount
  <2>3. CASE i = k /\ Injected(u)
    <3>1. Cardinality(Reaching(i)') = Cardinality(Reaching(i)) + 1
      BY <1>6, <1>7, <2>1, <2>3, ReachingFinite, FS_AddElement
    <3>2. evaluated
      <4>1. done[u] < Tracked
        BY <1>2, <1>4, <2>1, <2>3
      <4>2. ForceColdStart(turn)
        BY <1>0, <2>3, <4>1 DEF ForceColdStart
      <4> QED
        BY <1>2, <4>2, CurveInvRows
    <3>3. curve'[i] = [users |-> curve[i].users + 1, evaluated |-> curve[i].evaluated + 1]
      BY <1>4, <1>8, <2>1, <2>3, <3>2
    <3> QED
      BY <2>2, <3>1, <3>3
  <2>4. CASE ~(i = k /\ Injected(u))
    <3>1. curve'[i] = curve[i]
      BY <1>4, <1>8, <2>1, <2>4
    <3> QED
      BY <1>6, <2>1, <2>2, <2>4, <3>1
  <2> QED
    BY <2>3, <2>4
<1>11. RowsCount'
  BY <1>10 DEF RowsCount
<1>12. stage' = "consume" /\ ForceColdStart(turn)' => evaluated'
  BY <1>2, <1>3, CurveInvRows DEF ForceColdStart, Injected
<1>13. CurveInv'
  BY <1>3, <1>11, <1>12 DEF CurveInv, RowsCount, Reaching
<1> QED
  BY <1>13

\* The other steps leave the curve alone, and the report is made from it.
LEMMA OtherCurve ==
  ASSUME TypeOK, BudgetInv, CurveInv, Request \/ EndRound \/ Finish \/ UNCHANGED vars
  PROVE  CurveInv'
<1>1. UNCHANGED <<config, users, total, curve>>
  BY DEF Request, EndRound, Finish, vars, dataVars, userVars, metricVars
<1>2. RowsCount'
  <2>1. \A i : Reaching(i)' = Reaching(i)
    BY <1>1 DEF Reaching, Users, Injected
  <2> QED
    BY <1>1, <2>1, RowsKept, CurveInvRows
<1>3. stage' = "consume" /\ ForceColdStart(turn)' => evaluated'
  <2>1. CASE Request
    <3>1. stage' = "consume" => /\ turn' = turn /\ UNCHANGED <<done, config>>
                                /\ \E sampled \in BOOLEAN : evaluated' = (sampled \/ ForceColdStart(turn))
      <4>1. Remaining(turn) = 0 => stage' = "request"
        BY <2>1 DEF Request
      <4>2. Remaining(turn) # 0 => \E sampled \in BOOLEAN : evaluated' = (sampled \/ ForceColdStart(turn))
        BY <2>1 DEF Request
      <4>3. stage' = "consume" => turn' = turn
        BY <2>1, <4>1 DEF Request, NothingServed
      <4> QED
        BY <2>1, <4>1, <4>2, <4>3 DEF Request
    <3> QED
      BY <3>1 DEF ForceColdStart, Injected
  <2>2. CASE EndRound \/ Finish
    BY <2>2 DEF EndRound, Finish
  <2>3. CASE UNCHANGED vars
    <3>1. UNCHANGED <<config, stage, turn, done, evaluated>>
      BY <2>3 DEF vars, progressVars, feedVars
    <3> QED
      BY <3>1, CurveInvRows DEF ForceColdStart, Injected
  <2> QED
    BY <2>1, <2>2, <2>3
<1>4. (stage = "done" => report.newUserCurve = NewUserCurve)'
  <2>1. NewUserCurve' = NewUserCurve
    BY <1>1 DEF NewUserCurve
  <2>2. CASE Finish
    <3>1. report'.newUserCurve = NewUserCurve
      BY <2>2 DEF Finish, Result
    <3> QED
      BY <2>1, <3>1
  <2>3. CASE UNCHANGED vars
    <3>1. UNCHANGED <<stage, report>>
      BY <2>3 DEF vars, progressVars
    <3> QED
      BY <2>1, <3>1, CurveInvRows
  <2>4. CASE Request \/ EndRound
    BY <2>4 DEF Request, EndRound, NothingServed
  <2> QED
    BY <2>2, <2>3, <2>4
<1> QED
  BY <1>2, <1>3, <1>4 DEF CurveInv, RowsCount, Reaching

\* The curve counts the injected users throughout a run.
LEMMA Curves == Spec => []CurveInv
<1>1. TypeOK /\ BudgetInv /\ CurveInv /\ [Next]_vars => CurveInv'
  BY BeginRoundCurve, ImpressionCurve, OtherCurve DEF Next
<1> QED
  BY <1>1, InitCurve, Budgets, PTL DEF Spec

\* The reported rows end where the furthest injected user got.
LEMMA CurveLength ==
  ASSUME TypeOK, RowsCount
  PROVE  LET rows == NewUserCurve IN
         /\ Len(rows) = Max({0} \cup {Lower(total[u], Tracked) : u \in {v \in Users : Injected(v)}})
         /\ \A k \in DOMAIN rows : rows[k].users >= rows[Len(rows)].users /\ rows[k].users > 0
<1> DEFINE R == {i \in DOMAIN curve : curve[i].users > 0}
           ends == {Lower(total[u], Tracked) : u \in {v \in Users : Injected(v)}}
           all == {0} \cup ends
           Point == [users : Nat, evaluated : Nat]
<1>1. /\ curve \in [0..Tracked - 1 -> Point] /\ total \in [Users -> Nat] /\ Tracked \in Nat
      /\ DOMAIN curve = 0..Tracked - 1
  BY ConfigsAssumption DEF TypeOK
<1>2. ASSUME NEW i \in 0..Tracked - 1
      PROVE  /\ curve[i].users = Cardinality(Reaching(i)) /\ curve[i].users \in Nat
             /\ curve[i].users > 0 <=> Reaching(i) # {}
  BY <1>1, ReachingFinite, FS_EmptySet DEF RowsCount
<1>3. \A i \in 0..Tracked - 1 : i \in R <=> \E u \in Users : Injected(u) /\ total[u] > i
  BY <1>1, <1>2 DEF Reaching
<1>4. NewUserCurve = IF R = {} THEN <<>> ELSE [k \in 1..(1 + Max(R)) |-> curve[k - 1]]
  BY DEF NewUserCurve
<1>5. \A x \in ends : \E u \in Users : Injected(u) /\ x = Lower(total[u], Tracked) /\ total[u] \in Nat
  BY <1>1
<1>6. ASSUME NEW n \in all, \A x \in all : x <= n, \A x \in all : x \in Nat PROVE Max(all) = n
  <2> DEFINE m == Max(all)
  <2>1. m \in all /\ \A x \in all : m >= x
    <3>1. \E y \in all : \A x \in all : y >= x
      BY <1>6
    <3> HIDE DEF all
    <3> QED
      BY <3>1, Zenon DEF Max
  <2>2. m \in Nat /\ n \in Nat /\ m >= n /\ m <= n
    BY <1>6, <2>1
  <2> HIDE DEF m
  <2>3. m = n
    BY <2>2
  <2> QED
    BY <2>3 DEF m
<1>7. \A x \in all : x \in Nat
  BY <1>1, <1>5 DEF Lower
<1>8. CASE R = {}
  <2>1. NewUserCurve = <<>>
    BY <1>4, <1>8
  <2>2. \A x \in all : x <= 0
    <3> SUFFICES ASSUME NEW x \in ends PROVE x <= 0
      OBVIOUS
    <3>1. PICK u \in Users : Injected(u) /\ x = Lower(total[u], Tracked) /\ total[u] \in Nat
      BY <1>5
    <3>2. ~(Tracked > 0 /\ total[u] > 0)
      <4>1. Tracked > 0 => 0 \in 0..Tracked - 1
        BY <1>1
      <4> QED
        BY <1>3, <1>8, <3>1, <4>1
    <3> QED
      BY <1>1, <3>1, <3>2 DEF Lower
  <2>3. Max(all) = 0
    <3>1. 0 \in all
      OBVIOUS
    <3> HIDE DEF all
    <3> QED
      BY <1>6, <1>7, <2>2, <3>1
  <2> QED
    BY <2>1, <2>3, EmptySeq
<1>9. CASE R # {}
  <2> DEFINE m == Max(R)
  <2>1. m \in R /\ \A i \in R : m >= i
    <3>1. R \in SUBSET (0..Tracked)
      BY <1>1
    <3> HIDE DEF R
    <3>2. \E y \in R : \A i \in R : i <= y
      BY <1>1, <1>9, <3>1, GreatestNat
    <3>3. \E y \in R : \A i \in R : y >= i
      BY <1>1, <3>1, <3>2
    <3> QED
      BY <3>3, Zenon DEF Max
  <2>2. m \in 0..Tracked - 1 /\ m \in Nat /\ m + 1 \in Nat /\ m + 1 <= Tracked
    <3>1. m \in 0..Tracked - 1
      BY <1>1, <2>1
    <3> HIDE DEF m
    <3> QED
      BY <1>1, <3>1
  <2> HIDE DEF m
  <2>3. \A x \in all : x <= m + 1
    <3> SUFFICES ASSUME NEW x \in ends PROVE x <= m + 1
      BY <2>2
    <3>1. PICK u \in Users : Injected(u) /\ x = Lower(total[u], Tracked) /\ total[u] \in Nat
      BY <1>5
    <3>2. CASE m + 1 = Tracked
      BY <1>1, <2>2, <3>1, <3>2 DEF Lower
    <3>3. CASE m + 1 # Tracked
      <4>1. m + 1 \in 0..Tracked - 1
        BY <1>1, <2>2, <3>3
      <4>2. m + 1 \notin R
        BY <2>1, <2>2
      <4>3. ~(total[u] > m + 1)
        BY <1>3, <3>1, <4>1, <4>2
      <4> QED
        BY <1>1, <2>2, <3>1, <4>3 DEF Lower
    <3> QED
      BY <3>2, <3>3
  <2>4. m + 1 \in all
    <3>1. PICK u \in Users : Injected(u) /\ total[u] > m
      BY <1>3, <2>1, <2>2
    <3>2. Lower(total[u], Tracked) \in ends /\ total[u] \in Nat
      BY <1>1, <3>1
    <3> DEFINE x == Lower(total[u], Tracked)
    <3>3. x <= m + 1 /\ x \in Nat
      BY <1>7, <2>3, <3>2
    <3>4. x >= m + 1
      BY <1>1, <2>2, <3>1, <3>2 DEF Lower
    <3> HIDE DEF x
    <3>5. x = m + 1
      BY <2>2, <3>3, <3>4
    <3> QED
      BY <3>2, <3>5 DEF x
  <2>5. Max(all) = m + 1
    <3> HIDE DEF all
    <3> QED
      BY <1>6, <1>7, <2>3, <2>4
  <2>6. /\ NewUserCurve = [k \in 1..(m + 1) |-> curve[k - 1]]
    <3>1. 1 + m = m + 1
      BY <2>2
    <3> QED
      BY <1>4, <1>9, <3>1 DEF m
  <2>7. \A k \in 1..(m + 1) : k - 1 \in 0..Tracked - 1 /\ k - 1 <= m
    BY <1>1, <2>2
  <2>8. NewUserCurve \in [1..(m + 1) -> Point]
    BY <1>1, <2>6, <2>7
  <2> HIDE DEF Point
  <2>9. Len(NewUserCurve) = m + 1 /\ DOMAIN NewUserCurve = 1..(m + 1)
    BY <2>2, <2>8, FunctionIsSeq
  <2>10. ASSUME NEW k \in 1..(m + 1)
         PROVE  NewUserCurve[k].users >= NewUserCurve[m + 1].users /\ NewUserCurve[k].users > 0
    <3>1. NewUserCurve[k] = curve[k - 1] /\ NewUserCurve[m + 1] = curve[m]
      <4>1. m + 1 \in 1..(m + 1) /\ m + 1 - 1 = m
        BY <2>2
      <4>2. \A j \in 1..(m + 1) : NewUserCurve[j] = curve[j - 1]
        BY <2>6, Zenon
      <4>3. PICK j \in 1..(m + 1) : j = m + 1
        BY <4>1
      <4>4. NewUserCurve[j] = curve[j - 1] /\ j - 1 = m
        BY <2>2, <4>2, <4>3
      <4> QED
        BY <4>2, <4>3, <4>4
    <3>2. Reaching(m) \in SUBSET Reaching(k - 1)
      <4>1. k - 1 <= m /\ k - 1 \in Nat /\ m \in Nat
        BY <2>2, <2>7
      <4>2. \A u \in Users : total[u] \in Nat /\ (total[u] > m => total[u] > k - 1)
        BY <1>1, <4>1
      <4> QED
        BY <4>2 DEF Reaching
    <3>3. Cardinality(Reaching(m)) <= Cardinality(Reaching(k - 1))
          /\ Cardinality(Reaching(m)) \in Nat /\ Cardinality(Reaching(k - 1)) \in Nat
      BY <3>2, ReachingFinite, FS_Subset
    <3>4. curve[m].users > 0 /\ curve[m].users = Cardinality(Reaching(m))
          /\ curve[k - 1].users = Cardinality(Reaching(k - 1))
      BY <1>2, <2>1, <2>2, <2>7
    <3> QED
      BY <3>1, <3>3, <3>4
  <2> QED
    BY <2>5, <2>9, <2>10
<1> QED
  BY <1>8, <1>9

\* Every row of the cold-start curve has each injected user that got so far,
\* once, with a regret the oracle computed, and the report ends where the
\* furthest of them got.
THEOREM CurveExactCorrect == Spec => []CurveExact
<1>1. ASSUME TypeOK, CurveInv PROVE CurveExact
  <2>1. RowsCount /\ (stage = "done" => report.newUserCurve = NewUserCurve)
    BY <1>1, CurveInvRows
  <2>2. \A i \in DOMAIN curve :
          LET reached == Cardinality({u \in Users : Injected(u) /\ total[u] > i})
          IN curve[i] = [users |-> reached, evaluated |-> reached]
    BY <2>1 DEF RowsCount, Reaching
  <2> QED
    BY <1>1, <2>1, <2>2, CurveLength DEF CurveExact
<1> QED
  BY <1>1, Budgets, Curves, PTL

------------------------------------------------------------------------------
(* Sums *)

\* A sum of the sizes of the classes of a set is the size of the set.
LEMMA TotalCounts ==
  ASSUME NEW S, IsFiniteSet(S), NEW R, NEW f \in [S -> R], NEW count, DOMAIN count = R,
         \A r \in R : count[r] = Cardinality({x \in S : f[x] = r})
  PROVE  Total(count) = Cardinality(S)
<1> DEFINE class(r) == {x \in S : f[x] = r}
           T == UNION {{r} \X (1..count[r]) : r \in R}
           order == [r \in R |-> CHOOSE b \in [1..count[r] -> class(r)] :
                                   b \in Bijection(1..count[r], class(r))]
           h == [p \in T |-> order[p[1]][p[2]]]
<1>1. ASSUME NEW r \in R PROVE order[r] \in Bijection(1..count[r], class(r))
  <2>1. class(r) \in SUBSET S /\ count[r] = Cardinality(class(r))
    OBVIOUS
  <2>2. ExistsBijection(1..count[r], class(r))
    BY <2>1, FS_Subset, FS_CardinalityType
  <2> HIDE DEF class
  <2>3. \E b \in [1..count[r] -> class(r)] : b \in Bijection(1..count[r], class(r))
    BY <2>2 DEF ExistsBijection, Bijection, Injection
  <2>4. (CHOOSE b \in [1..count[r] -> class(r)] : b \in Bijection(1..count[r], class(r)))
          \in Bijection(1..count[r], class(r))
    BY <2>3, Zenon
  <2> QED
    BY <2>4
<1> HIDE DEF order
<1>2. \A p \in T : p = <<p[1], p[2]>> /\ p[1] \in R /\ p[2] \in 1..count[p[1]]
  OBVIOUS
<1>3. \A r \in R : \A k \in 1..count[r] : <<r, k>> \in T
  OBVIOUS
<1> HIDE DEF T
<1>4. ASSUME NEW r \in R
      PROVE  /\ \A k \in 1..count[r] : order[r][k] \in S /\ f[order[r][k]] = r
             /\ \A j, k \in 1..count[r] : order[r][j] = order[r][k] => j = k
             /\ \A x \in S : f[x] = r => \E k \in 1..count[r] : order[r][k] = x
  <2> DEFINE b == order[r]
  <2>1. b \in Bijection(1..count[r], class(r))
    BY <1>1
  <2> HIDE DEF b, class
  <2>2. /\ b \in [1..count[r] -> class(r)]
        /\ \A j, k \in 1..count[r] : b[j] = b[k] => j = k
        /\ \A x \in class(r) : \E k \in 1..count[r] : b[k] = x
    BY <2>1 DEF Bijection, Injection, IsInjective, Surjection
  <2>3. \A x : x \in class(r) <=> x \in S /\ f[x] = r
    BY DEF class
  <2>4. /\ \A k \in 1..count[r] : b[k] \in S /\ f[b[k]] = r
        /\ \A j, k \in 1..count[r] : b[j] = b[k] => j = k
        /\ \A x \in S : f[x] = r => \E k \in 1..count[r] : b[k] = x
    BY <2>2, <2>3
  <2> QED
    BY <2>4 DEF b
<1>5. h \in Injection(T, S)
  <2>1. h \in [T -> S]
    BY <1>2, <1>4
  <2>2. ASSUME NEW p \in T, NEW q \in T, h[p] = h[q] PROVE p = q
    <3>1. p[1] = q[1]
      BY <1>2, <1>4, <2>2
    <3>2. p[2] = q[2]
      BY <1>2, <1>4, <2>2, <3>1
    <3> QED
      BY <1>2, <3>1, <3>2
  <2> QED
    BY <2>1, <2>2 DEF Injection, IsInjective
<1>6. h \in Surjection(T, S)
  <2>1. h \in [T -> S]
    BY <1>5 DEF Injection
  <2>2. ASSUME NEW x \in S PROVE \E p \in T : h[p] = x
    <3>1. PICK k \in 1..count[f[x]] : order[f[x]][k] = x
      BY <1>4
    <3>2. <<f[x], k>> \in T
      BY <1>3
    <3> QED
      BY <3>1, <3>2
  <2> QED
    BY <2>1, <2>2 DEF Surjection
<1> HIDE DEF h
<1>7. Cardinality(T) = Cardinality(S)
  BY <1>5, <1>6, FS_Injection
<1> QED
  BY <1>7 DEF Total, T

\* The pairs a row of counts sums over.
LEMMA TotalType ==
  ASSUME NEW count, IsFiniteSet(DOMAIN count), \A x \in DOMAIN count : count[x] \in Nat
  PROVE  LET T == UNION {{x} \X (1..count[x]) : x \in DOMAIN count}
         IN IsFiniteSet(T) /\ Total(count) \in Nat
<1> DEFINE P(x) == {x} \X (1..count[x])
           all == {P(x) : x \in DOMAIN count}
<1>1. ASSUME NEW x \in DOMAIN count PROVE IsFiniteSet(P(x))
  <2>1. 1 \in Int /\ count[x] \in Int
    OBVIOUS
  <2>2. IsFiniteSet({x}) /\ IsFiniteSet(1..count[x])
    BY <2>1, FS_Singleton, FS_Interval
  <2> QED
    BY <2>2, FS_Product
<1> HIDE DEF P
<1>2. IsFiniteSet(all)
  <2> DEFINE g == [x \in DOMAIN count |-> P(x)]
  <2>1. g \in Surjection(DOMAIN count, all)
    BY DEF Surjection
  <2> HIDE DEF g
  <2> QED
    BY <2>1, FS_Surjection
<1>3. \A Q \in all : IsFiniteSet(Q)
  BY <1>1
<1> HIDE DEF all
<1>4. IsFiniteSet(UNION all)
  BY <1>2, <1>3, FS_UNION
<1>5. UNION all = UNION {{x} \X (1..count[x]) : x \in DOMAIN count}
  BY DEF all, P
<1> QED
  BY <1>4, <1>5, FS_CardinalityType DEF Total

\* One more entry adds its count.
LEMMA TotalAdd ==
  ASSUME NEW count, IsFiniteSet(DOMAIN count), \A x \in DOMAIN count : count[x] \in Nat,
         NEW y, y \notin DOMAIN count, NEW n \in Nat,
         NEW more, DOMAIN more = DOMAIN count \cup {y}, more[y] = n,
         \A x \in DOMAIN count : more[x] = count[x]
  PROVE  Total(more) = Total(count) + n
<1> DEFINE T == UNION {{x} \X (1..count[x]) : x \in DOMAIN count}
           U == UNION {{x} \X (1..more[x]) : x \in DOMAIN more}
           P == {y} \X (1..n)
<1>1. IsFiniteSet(T)
  BY TotalType
<1>2. IsFiniteSet(P) /\ Cardinality(P) = n
  <2>1. 1 \in Int /\ n \in Int
    OBVIOUS
  <2>2. IsFiniteSet({y}) /\ Cardinality({y}) = 1
    BY FS_Singleton
  <2>3. IsFiniteSet(1..n) /\ Cardinality(1..n) = n
    BY <2>1, FS_Interval
  <2>4. /\ IsFiniteSet({y} \X (1..n))
        /\ Cardinality({y} \X (1..n)) = Cardinality({y}) * Cardinality(1..n)
    BY <2>2, <2>3, FS_Product, Zenon
  <2>5. Cardinality({y} \X (1..n)) = 1 * n
    BY <2>2, <2>3, <2>4, Zenon
  <2> QED
    BY <2>4, <2>5
<1>3. T \cap P = {}
  OBVIOUS
<1>4. U = T \cup P
  OBVIOUS
<1> HIDE DEF T, U, P
<1>5. Cardinality(T) \in Nat
  BY <1>1, FS_CardinalityType
<1>6. Cardinality(T \cup P) = Cardinality(T) + n - 0
  BY <1>1, <1>2, <1>3, FS_Union, FS_EmptySet
<1>7. Cardinality(U) = Cardinality(T) + n
  BY <1>4, <1>5, <1>6
<1> QED
  BY <1>7 DEF Total, T, U

------------------------------------------------------------------------------
(* The ledgers *)

\* The impressions a round is made of.
OfRound(r) == {p \in Logged : Entry(p).round = r}
DriftedOf(r) == {p \in Logged : Entry(p).round = r /\ EverApplies(p[1])}
InjectedOf(r) == {p \in Logged : Entry(p).round = r /\ InjectedReel(Entry(p).reel)}
InjectedBy(r) == {p \in Logged : Entry(p).round <= r /\ InjectedReel(Entry(p).reel)}
ExposedBy(r) == {Entry(p).reel : p \in InjectedBy(r)}
Exposures == {Entry(p).reel : p \in {q \in Logged : InjectedReel(Entry(q).reel)}}

\* Every impression logged is of a round begun and of a reel of the dataset.
LoggedInv ==
  /\ IsFiniteSet(Logged)
  /\ \A p \in Logged : /\ Entry(p).round \in 0..Rounds - 1 /\ Entry(p).round <= round
                      /\ Entry(p).reel \in 0..reels - 1
  /\ stage = "consume" => \A i \in 1..Len(feed) : feed[i] \in 0..reels - 1
  /\ reels <= config.reels + config.newReels
  /\ round < config.newReelsAt \/ (round = config.newReelsAt /\ stage = "round")
       => reels = config.reels

\* A round's ledger counts the impressions logged in it.
CountsInv ==
  /\ \A r \in 0..Rounds - 1 :
       /\ ledger[r].impressions = Cardinality(OfRound(r))
       /\ ledger[r].drifted = Cardinality(DriftedOf(r))
       /\ ledger[r].injected = Cardinality(InjectedOf(r))
       /\ r < round => ledger[r].distinct = Cardinality(ExposedBy(r))
  /\ exposed = Exposures

\* The pairs are those of a user and a place in its log.
LEMMA PairsFacts ==
  /\ \A u, i : <<u, i>> \in Logged <=> u \in Users /\ i \in DOMAIN log[u]
  /\ \A p \in Logged : p = <<p[1], p[2]>> /\ p[1] \in Users /\ p[2] \in DOMAIN log[p[1]]
  BY DEF Logged

\* Where the log stays, so does what is counted of it.
LEMMA LogKept ==
  ASSUME Logged' = Logged, config' = config, \A p \in Logged : Entry(p)' = Entry(p)
  PROVE  /\ \A r : /\ OfRound(r)' = OfRound(r) /\ DriftedOf(r)' = DriftedOf(r)
                   /\ InjectedOf(r)' = InjectedOf(r) /\ InjectedBy(r)' = InjectedBy(r)
                   /\ ExposedBy(r)' = ExposedBy(r)
         /\ Exposures' = Exposures
<1>1. \A r : InjectedReel(r)' = InjectedReel(r)
  BY DEF InjectedReel
<1>2. \A u : EverApplies(u)' = EverApplies(u)
  BY ConfigKept
<1>3. \A r : /\ OfRound(r)' = OfRound(r) /\ DriftedOf(r)' = DriftedOf(r)
             /\ InjectedOf(r)' = InjectedOf(r)
  BY <1>1, <1>2 DEF OfRound, DriftedOf, InjectedOf
<1>4. \A r : InjectedBy(r)' = InjectedBy(r) /\ \A p \in InjectedBy(r) : p \in Logged
  BY <1>1 DEF InjectedBy
<1>5. \A r : ExposedBy(r)' = ExposedBy(r)
  BY <1>4 DEF ExposedBy
<1>6. Exposures' = Exposures
  BY <1>1 DEF Exposures
<1> QED
  BY <1>3, <1>4, <1>5, <1>6

\* The log stays in every step but an impression.
LEMMA OtherPairs ==
  ASSUME TypeOK, BeginRound \/ Request \/ EndRound \/ Finish \/ UNCHANGED vars
  PROVE  Logged' = Logged /\ config' = config /\ \A p \in Logged : Entry(p)' = Entry(p)
<1>1. CASE BeginRound
  <2>1. /\ Users \subseteq Users' /\ config' = config
        /\ \A u \in Users : log'[u] = log[u]
        /\ \A u \in Users' \ Users : log'[u] = <<>>
    BY <1>1, BeginRoundGrows DEF BeginRound
  <2>2. DOMAIN <<>> = {}
    OBVIOUS
  <2>3. Logged' = Logged
    <3>1. ASSUME NEW p \in Logged PROVE p \in Logged'
      BY <2>1 DEF Logged
    <3>2. ASSUME NEW p \in Logged' PROVE p \in Logged
      <4>1. PICK u \in Users' : p \in {u} \X DOMAIN log'[u]
        BY DEF Logged
      <4>2. u \in Users
        BY <2>1, <2>2, <4>1
      <4> QED
        BY <2>1, <4>1, <4>2 DEF Logged
    <3> QED
      BY <3>1, <3>2
  <2>4. \A p \in Logged : Entry(p)' = Entry(p)
    BY <2>1, PairsFacts DEF Entry
  <2> QED
    BY <2>1, <2>3, <2>4
<1>2. CASE Request \/ EndRound \/ Finish \/ UNCHANGED vars
  <2>1. UNCHANGED <<config, users, log>>
    BY <1>2 DEF Request, EndRound, Finish, vars, dataVars, userVars
  <2> QED
    BY <2>1 DEF Logged, Entry, Users
<1> QED
  BY <1>1, <1>2

\* An impression is one entry more.
LEMMA ImpressionPairs ==
  ASSUME TypeOK, BudgetInv, NEW exit \in BOOLEAN, Impression(exit)
  PROVE  LET new == <<turn, Len(log[turn]) + 1>> IN
         /\ Logged' = Logged \cup {new} /\ new \notin Logged
         /\ \A p \in Logged : Entry(p)' = Entry(p)
         /\ \E n : log'[turn][Len(log[turn]) + 1] = [round |-> round, reel |-> feed[served + 1], pref |-> n]
<1>0. PICK u : u = turn
  OBVIOUS
<1>1. PICK k : k = Len(log[u])
  OBVIOUS
<1> DEFINE now == MaybeApply(u, total[u])
           entry == [round |-> round, reel |-> feed[served + 1], pref |-> now]
<1>2. u \in Users /\ Users' = Users /\ log' = [log EXCEPT ![u] = Append(log[u], entry)]
  BY <1>0, ImpressionFacts, ImpressionSteps
<1> HIDE DEF entry
<1>3. /\ log \in [Users -> Seq([round : Nat, reel : Nat, pref : Nat])]
      /\ k \in Nat /\ DOMAIN log[u] = 1..k
  BY <1>1, <1>2, LogFacts DEF TypeOK
<1>4. /\ \A v \in Users : v # u => log'[v] = log[v]
      /\ log'[u] = Append(log[u], entry)
  BY <1>2, <1>3
<1>5. /\ DOMAIN log'[u] = 1..k + 1 /\ log'[u][k + 1] = entry
      /\ \A i \in 1..k : log'[u][i] = log[u][i]
  BY <1>1, <1>2, <1>3, <1>4, LogFacts
<1> DEFINE new == <<u, k + 1>>
<1>6. new \notin Logged
  BY <1>3, PairsFacts
<1>7. \A p \in Logged : p[1] = u => p[2] \in 1..k
  BY <1>3, PairsFacts
<1>8. Logged' = Logged \cup {new}
  <2>1. ASSUME NEW p \in Logged PROVE p \in Logged'
    <3>1. p = <<p[1], p[2]>> /\ p[1] \in Users' /\ p[2] \in DOMAIN log[p[1]]
      BY <1>2, PairsFacts
    <3>2. p[2] \in DOMAIN log'[p[1]]
      BY <1>2, <1>3, <1>4, <1>5, <1>7, <3>1
    <3> QED
      BY <3>1, <3>2 DEF Logged
  <2>2. new \in Logged'
    <3>1. k + 1 \in DOMAIN log'[u] /\ u \in Users'
      BY <1>2, <1>3, <1>5
    <3> QED
      BY <3>1 DEF Logged
  <2>3. ASSUME NEW p \in Logged', p # new PROVE p \in Logged
    <3>1. PICK v \in Users : p \in {v} \X DOMAIN log'[v]
      BY <1>2 DEF Logged
    <3>2. p = <<v, p[2]>> /\ p[2] \in DOMAIN log'[v]
      BY <3>1
    <3>3. p[2] \in DOMAIN log[v]
      BY <1>3, <1>4, <1>5, <2>3, <3>2
    <3> QED
      BY <3>2, <3>3 DEF Logged
  <2> QED
    BY <2>1, <2>2, <2>3
<1>9. \A p \in Logged : Entry(p)' = Entry(p)
  BY <1>2, <1>4, <1>5, <1>7, PairsFacts DEF Entry
<1>10. \E n : log'[u][k + 1] = [round |-> round, reel |-> feed[served + 1], pref |-> n]
  BY <1>5 DEF entry
<1> QED
  BY <1>0, <1>1, <1>6, <1>8, <1>9, <1>10

\* What an impression adds to the sets its ledger counts.
LEMMA ImpressionSets ==
  ASSUME TypeOK, BudgetInv, NEW exit \in BOOLEAN, Impression(exit),
         NEW new, new = <<turn, Len(log[turn]) + 1>>,
         NEW reel, reel = feed[served + 1], NEW now, now = round
  PROVE  /\ new \notin Logged
         /\ \A r : r # now => /\ OfRound(r)' = OfRound(r) /\ DriftedOf(r)' = DriftedOf(r)
                              /\ InjectedOf(r)' = InjectedOf(r)
         /\ OfRound(now)' = OfRound(now) \cup {new}
         /\ DriftedOf(now)' = DriftedOf(now) \cup (IF EverApplies(turn) THEN {new} ELSE {})
         /\ InjectedOf(now)' = InjectedOf(now) \cup (IF InjectedReel(reel) THEN {new} ELSE {})
         /\ \A r \in Int : r < now => ExposedBy(r)' = ExposedBy(r)
         /\ Exposures' = Exposures \cup (IF InjectedReel(reel) THEN {reel} ELSE {})
<1>3. /\ Logged' = Logged \cup {new} /\ new \notin Logged
      /\ \A p \in Logged : Entry(p)' = Entry(p)
      /\ Entry(new)'.round = now /\ Entry(new)'.reel = reel
  <2>1. \E n : log'[turn][Len(log[turn]) + 1] = [round |-> round, reel |-> feed[served + 1], pref |-> n]
    BY ImpressionPairs
  <2>2. new[1] = turn /\ new[2] = Len(log[turn]) + 1
    OBVIOUS
  <2>3. Entry(new)' = log'[turn][Len(log[turn]) + 1]
    BY <2>2 DEF Entry
  <2> QED
    BY <2>1, <2>3, ImpressionPairs
<1>4. /\ \A r : InjectedReel(r)' = InjectedReel(r)
      /\ \A u : EverApplies(u)' = EverApplies(u)
      /\ new[1] = turn /\ now \in Nat
  BY ConfigKept, ImpressionSteps, ImpressionFacts DEF InjectedReel
<1>5. /\ \A r : r # now => /\ OfRound(r)' = OfRound(r) /\ DriftedOf(r)' = DriftedOf(r)
                           /\ InjectedOf(r)' = InjectedOf(r)
      /\ OfRound(now)' = OfRound(now) \cup {new}
  BY <1>3, <1>4 DEF OfRound, DriftedOf, InjectedOf
<1>6. DriftedOf(now)' = DriftedOf(now) \cup (IF EverApplies(turn) THEN {new} ELSE {})
  BY <1>3, <1>4 DEF DriftedOf
<1>7. InjectedOf(now)' = InjectedOf(now) \cup (IF InjectedReel(reel) THEN {new} ELSE {})
  BY <1>3, <1>4 DEF InjectedOf
<1>8. ASSUME NEW r \in Int, r < now PROVE ExposedBy(r)' = ExposedBy(r)
  <2>1. InjectedBy(r)' = InjectedBy(r)
    BY <1>3, <1>4, <1>8 DEF InjectedBy
  <2>2. \A p \in InjectedBy(r) : Entry(p)' = Entry(p)
    BY <1>3 DEF InjectedBy
  <2> QED
    BY <2>1, <2>2 DEF ExposedBy
<1>9. Exposures' = Exposures \cup (IF InjectedReel(reel) THEN {reel} ELSE {})
  BY <1>3, <1>4 DEF Exposures
<1> QED
  BY <1>3, <1>5, <1>6, <1>7, <1>8, <1>9

\* One more in a class is one more counted.
LEMMA OneMore ==
  ASSUME NEW S, IsFiniteSet(S), NEW new, new \notin S, NEW yes \in BOOLEAN
  PROVE  Cardinality(S \cup (IF yes THEN {new} ELSE {})) = Cardinality(S) + (IF yes THEN 1 ELSE 0)
<1>1. Cardinality(S) \in Nat /\ Cardinality(S \cup {new}) = Cardinality(S) + 1
  BY FS_CardinalityType, FS_AddElement
<1>2. S \cup {} = S
  OBVIOUS
<1> QED
  BY <1>1, <1>2

\* The ledger of the round counts the impression, the others stay.
LEMMA ImpressionCounts ==
  ASSUME TypeOK, BudgetInv, DriftInv, LoggedInv, CountsInv, NEW exit \in BOOLEAN, Impression(exit)
  PROVE  CountsInv'
<1>0. PICK new : new = <<turn, Len(log[turn]) + 1>>
  OBVIOUS
<1>1. PICK reel : reel = feed[served + 1]
  OBVIOUS
<1>2. PICK now : now = round
  OBVIOUS
<1>3. /\ now \in 0..Rounds - 1 /\ now \in Int /\ round' = now /\ Rounds' = Rounds
      /\ drifted[turn] = EverApplies(turn) /\ turn \in Users
      /\ EverApplies(turn) \in BOOLEAN /\ InjectedReel(reel) \in BOOLEAN
  <2>1. now \in 0..Rounds - 1 /\ now \in Int /\ turn \in Users
    BY <1>2, ImpressionFacts
  <2>2. round' = now /\ Rounds' = Rounds
    BY <1>2, ImpressionSteps
  <2>3. drifted[turn] = EverApplies(turn)
    BY <2>1 DEF DriftInv
  <2>4. EverApplies(turn) \in BOOLEAN /\ InjectedReel(reel) \in BOOLEAN
    BY DEF EverApplies, InjectedReel
  <2> QED
    BY <2>1, <2>2, <2>3, <2>4
<1>4. /\ IsFiniteSet(OfRound(now)) /\ IsFiniteSet(DriftedOf(now)) /\ IsFiniteSet(InjectedOf(now))
      /\ new \notin OfRound(now) /\ new \notin DriftedOf(now) /\ new \notin InjectedOf(now)
  <2>1. /\ OfRound(now) \in SUBSET Logged /\ DriftedOf(now) \in SUBSET Logged
        /\ InjectedOf(now) \in SUBSET Logged
    BY DEF OfRound, DriftedOf, InjectedOf
  <2>2. IsFiniteSet(Logged) /\ new \notin Logged
    BY <1>0, ImpressionSets DEF LoggedInv
  <2> QED
    BY <2>1, <2>2, FS_Subset
<1>5. /\ \A r \in 0..Rounds - 1 : r # now =>
           OfRound(r)' = OfRound(r) /\ DriftedOf(r)' = DriftedOf(r) /\ InjectedOf(r)' = InjectedOf(r)
      /\ OfRound(now)' = OfRound(now) \cup {new}
      /\ DriftedOf(now)' = DriftedOf(now) \cup (IF EverApplies(turn) THEN {new} ELSE {})
      /\ InjectedOf(now)' = InjectedOf(now) \cup (IF InjectedReel(reel) THEN {new} ELSE {})
      /\ \A r \in 0..Rounds - 1 : r < now => ExposedBy(r)' = ExposedBy(r)
  BY <1>0, <1>1, <1>2, ImpressionSets
<1>6. /\ Cardinality(OfRound(now)') = Cardinality(OfRound(now)) + 1
      /\ Cardinality(DriftedOf(now)') = Cardinality(DriftedOf(now)) + (IF EverApplies(turn) THEN 1 ELSE 0)
      /\ Cardinality(InjectedOf(now)') = Cardinality(InjectedOf(now)) + (IF InjectedReel(reel) THEN 1 ELSE 0)
  <2>1. Cardinality(OfRound(now) \cup (IF TRUE THEN {new} ELSE {}))
          = Cardinality(OfRound(now)) + (IF TRUE THEN 1 ELSE 0)
    BY <1>4, OneMore
  <2>2. Cardinality(DriftedOf(now) \cup (IF EverApplies(turn) THEN {new} ELSE {}))
          = Cardinality(DriftedOf(now)) + (IF EverApplies(turn) THEN 1 ELSE 0)
    BY <1>3, <1>4, OneMore
  <2>3. Cardinality(InjectedOf(now) \cup (IF InjectedReel(reel) THEN {new} ELSE {}))
          = Cardinality(InjectedOf(now)) + (IF InjectedReel(reel) THEN 1 ELSE 0)
    BY <1>3, <1>4, OneMore
  <2> QED
    BY <1>5, <2>1, <2>2, <2>3
<1>7. /\ \A q \in 0..Rounds - 1 : q # now => ledger'[q] = ledger[q]
      /\ ledger'[now].impressions = ledger[now].impressions + 1
      /\ ledger'[now].drifted = ledger[now].drifted + (IF EverApplies(turn) THEN 1 ELSE 0)
      /\ ledger'[now].injected = ledger[now].injected + (IF InjectedReel(reel) THEN 1 ELSE 0)
  BY <1>1, <1>2, <1>3, LedgerStep
<1>8. ASSUME NEW r \in 0..Rounds - 1
      PROVE  /\ ledger'[r].impressions = Cardinality(OfRound(r)')
             /\ ledger'[r].drifted = Cardinality(DriftedOf(r)')
             /\ ledger'[r].injected = Cardinality(InjectedOf(r)')
             /\ r < now => ledger'[r].distinct = Cardinality(ExposedBy(r)')
  <2>1. CASE r = now
    BY <1>3, <1>6, <1>7, <2>1 DEF CountsInv
  <2>2. CASE r # now
    BY <1>2, <1>5, <1>7, <2>2 DEF CountsInv
  <2> QED
    BY <2>1, <2>2
<1>9. exposed' = Exposures'
  <2>1. exposed' = IF InjectedReel(reel) THEN exposed \cup {reel} ELSE exposed
    BY <1>1 DEF Impression
  <2> QED
    BY <1>0, <1>1, <1>2, <2>1, ImpressionSets DEF CountsInv
<1> QED
  BY <1>3, <1>8, <1>9 DEF CountsInv

\* The ledgers stay, or get the reels exposed at the end of a round.
LEMMA OtherCounts ==
  ASSUME TypeOK, BudgetInv, LoggedInv, CountsInv,
         BeginRound \/ Request \/ EndRound \/ Finish \/ UNCHANGED vars
  PROVE  CountsInv'
<1>1. /\ \A r : /\ OfRound(r)' = OfRound(r) /\ DriftedOf(r)' = DriftedOf(r)
                /\ InjectedOf(r)' = InjectedOf(r) /\ ExposedBy(r)' = ExposedBy(r)
      /\ Exposures' = Exposures /\ Rounds' = Rounds
  <2>1. Logged' = Logged /\ config' = config /\ \A p \in Logged : Entry(p)' = Entry(p)
    BY OtherPairs
  <2> QED
    BY <2>1, LogKept, ConfigKept
<1>2. exposed' = exposed
  BY DEF BeginRound, Request, EndRound, Finish, vars, metricVars
<1>3. CASE BeginRound \/ Request \/ Finish \/ UNCHANGED vars
  <2>1. ledger' = ledger /\ round' = round
    BY <1>3 DEF BeginRound, Request, Finish, vars, metricVars, progressVars
  <2> QED
    BY <1>1, <1>2, <2>1 DEF CountsInv
<1>4. CASE EndRound
  <2>0. PICK now : now = round
    OBVIOUS
  <2>1. /\ ledger' = [ledger EXCEPT ![now].distinct = Cardinality(exposed)] /\ round' = now + 1
        /\ now \in 0..Rounds - 1 /\ now \in Nat
    <3>1. /\ stage = "request" /\ round' = round + 1
          /\ ledger' = [ledger EXCEPT ![round].distinct = Cardinality(exposed)]
      BY <1>4 DEF EndRound
    <3>2. round \in Nat /\ Rounds \in Nat /\ round < Rounds
      BY <3>1, ConfigFacts DEF TypeOK, BudgetInv
    <3> QED
      BY <2>0, <3>1, <3>2
  <2>2. /\ \A r \in 0..Rounds - 1 : r # now => ledger'[r] = ledger[r]
        /\ ledger'[now].distinct = Cardinality(exposed)
        /\ ledger'[now].impressions = ledger[now].impressions
        /\ ledger'[now].drifted = ledger[now].drifted
        /\ ledger'[now].injected = ledger[now].injected
    <3> DEFINE Row == [impressions : Nat, sessions : SUBSET (Nat \X Nat), drifted : Nat,
                       injected : Nat, distinct : Nat]
               new == [ledger[now] EXCEPT !.distinct = Cardinality(exposed)]
    <3>1. ledger \in [0..Rounds - 1 -> Row] /\ ledger[now] \in Row
      BY <2>1 DEF TypeOK
    <3>2. /\ new.distinct = Cardinality(exposed) /\ new.impressions = ledger[now].impressions
          /\ new.drifted = ledger[now].drifted /\ new.injected = ledger[now].injected
      BY <3>1
    <3>3. ledger' = [ledger EXCEPT ![now] = new]
      BY <2>1
    <3> HIDE DEF new, Row
    <3>4. ledger'[now] = new /\ \A r \in 0..Rounds - 1 : r # now => ledger'[r] = ledger[r]
      BY <2>1, <3>1, <3>3
    <3> QED
      BY <3>2, <3>4
  <2>3. ExposedBy(now) = exposed
    <3>1. \A p \in Logged : Entry(p).round <= now
      BY <2>0 DEF LoggedInv
    <3>2. InjectedBy(now) = {q \in Logged : InjectedReel(Entry(q).reel)}
      BY <3>1 DEF InjectedBy
    <3> QED
      BY <3>2 DEF ExposedBy, Exposures, CountsInv
  <2>4. \A r \in 0..Rounds - 1 : r < now + 1 => r = now \/ r < now
    BY <2>1
  <2>5. ASSUME NEW r \in 0..Rounds - 1
        PROVE  /\ ledger'[r].impressions = Cardinality(OfRound(r)')
               /\ ledger'[r].drifted = Cardinality(DriftedOf(r)')
               /\ ledger'[r].injected = Cardinality(InjectedOf(r)')
               /\ r < now + 1 => ledger'[r].distinct = Cardinality(ExposedBy(r)')
    <3>1. CASE r = now
      BY <1>1, <2>2, <2>3, <3>1 DEF CountsInv
    <3>2. CASE r # now
      BY <1>1, <2>0, <2>2, <2>4, <3>2 DEF CountsInv
    <3> QED
      BY <3>1, <3>2
  <2> QED
    BY <1>1, <1>2, <2>1, <2>5 DEF CountsInv
<1> QED
  BY <1>3, <1>4

\* Nothing is logged and nothing counted at first.
LEMMA InitCounts == Init => LoggedInv /\ CountsInv
<1> SUFFICES ASSUME Init PROVE LoggedInv /\ CountsInv
  OBVIOUS
<1>1. TypeOK /\ stage # "consume"
  BY InitType DEF Init
<1>2. Logged = {}
  <2>1. \A u \in Users : log[u] = <<>>
    BY DEF Init
  <2>2. DOMAIN <<>> = {}
    OBVIOUS
  <2> QED
    BY <2>1, <2>2 DEF Logged
<1>3. Cardinality({}) = 0 /\ IsFiniteSet({})
  BY FS_EmptySet
<1>4. LoggedInv
  <2>1. reels = config.reels /\ reels \in Nat /\ config.newReels \in Nat
    BY <1>1, ConfigFacts DEF TypeOK, Init
  <2> QED
    BY <1>1, <1>2, <1>3, <2>1 DEF LoggedInv
<1>5. /\ \A r : OfRound(r) = {} /\ DriftedOf(r) = {} /\ InjectedOf(r) = {} /\ Exposures = {}
  BY <1>2 DEF OfRound, DriftedOf, InjectedOf, Exposures
<1>6. \A r \in 0..Rounds - 1 : ledger[r] = EmptyRound
  BY DEF Init
<1>7. /\ EmptyRound.impressions = 0 /\ EmptyRound.drifted = 0 /\ EmptyRound.injected = 0
      /\ round = 0 /\ exposed = {}
  BY DEF EmptyRound, Init
<1>8. \A r \in 0..Rounds - 1 : ~(r < round)
  BY <1>1, <1>7, ConfigFacts
<1>9. CountsInv
  BY <1>3, <1>5, <1>6, <1>7, <1>8 DEF CountsInv
<1> QED
  BY <1>4, <1>9

\* What is logged stays of a round begun and of a reel of the dataset.
LEMMA LoggedStep ==
  ASSUME TypeOK, BudgetInv, LoggedInv, [Next]_vars PROVE LoggedInv'
<1>1. CASE BeginRound \/ Request \/ EndRound \/ Finish \/ UNCHANGED vars
  <2>1. Logged' = Logged /\ config' = config /\ Rounds' = Rounds /\ \A p \in Logged : Entry(p)' = Entry(p)
    BY <1>1, OtherPairs, ConfigKept
  <2>2. /\ round \in Nat /\ reels \in Nat /\ config.newReels \in Nat /\ config.newReelsAt \in Nat
    <3>1. config.newReelsAt \in Nat
      BY ConfigFacts DEF Config
    <3> QED
      BY <3>1, ConfigFacts DEF TypeOK
  <2>3. PICK now : now = round
    OBVIOUS
  <2>4. PICK size : size = reels
    OBVIOUS
  <2>5. round' \in Nat /\ now <= round' /\ reels' \in Nat /\ size <= reels'
    <3>1. CASE BeginRound
      BY <2>2, <2>3, <2>4, <3>1 DEF BeginRound
    <3>2. CASE EndRound
      BY <2>2, <2>3, <2>4, <3>2 DEF EndRound, dataVars
    <3>3. CASE Request \/ Finish \/ UNCHANGED vars
      BY <2>2, <2>3, <2>4, <3>3 DEF Request, Finish, vars, progressVars, dataVars
    <3> QED
      BY <1>1, <3>1, <3>2, <3>3
  <2>6. ASSUME NEW p \in Logged'
        PROVE  /\ Entry(p)'.round \in 0..Rounds' - 1 /\ Entry(p)'.round <= round'
               /\ Entry(p)'.reel \in 0..reels' - 1
    <3>1. PICK e : e = Entry(p)
      OBVIOUS
    <3>2. e.round \in 0..Rounds - 1 /\ e.round <= now /\ e.reel \in 0..size - 1 /\ Entry(p)' = e
      BY <2>1, <2>3, <2>4, <3>1 DEF LoggedInv
    <3>3. e.round <= round' /\ e.reel \in 0..reels' - 1
      <4>1. PICK r2 : r2 = round'
        OBVIOUS
      <4>2. PICK s2 : s2 = reels'
        OBVIOUS
      <4>3. /\ r2 \in Nat /\ now <= r2 /\ now \in Nat /\ s2 \in Nat /\ size <= s2 /\ size \in Nat
            /\ e.round \in Int
        BY <2>2, <2>3, <2>4, <2>5, <3>2, <4>1, <4>2
      <4>4. e.round <= r2 /\ e.reel \in 0..s2 - 1
        BY <3>2, <4>3
      <4> QED
        BY <4>1, <4>2, <4>4
    <3> QED
      BY <2>1, <3>2, <3>3
  <2>7. stage' = "consume" => \A i \in 1..Len(feed') : feed'[i] \in 0..reels' - 1
    <3>1. CASE BeginRound \/ EndRound \/ Finish
      BY <3>1 DEF BeginRound, EndRound, Finish
    <3>2. CASE Request
      <4>1. CASE stage' # "consume"
        BY <4>1
      <4>2. CASE stage' = "consume"
        <5>1. /\ stage = "request" /\ turn \in Users /\ feed' \in Feeds(turn) /\ reels' = reels
          BY <3>2, <4>2 DEF Request, NothingServed, TypeOK, Users, dataVars
        <5>2. PICK f \in Feeds(turn) : f = feed'
          BY <5>1
        <5>3. f \in Seq(0..reels - 1)
          BY <5>1, FeedType
        <5>4. \A i \in 1..Len(f) : f[i] \in 0..reels - 1
          <6> DEFINE S == 0..reels - 1
          <6>1. f \in Seq(S)
            BY <5>3
          <6> HIDE DEF S
          <6>2. \A i \in 1..Len(f) : f[i] \in S
            BY <6>1
          <6> QED
            BY <6>2 DEF S
        <5> QED
          BY <5>1, <5>2, <5>4
      <4> QED
        BY <4>1, <4>2
    <3>3. CASE UNCHANGED vars
      BY <3>3 DEF LoggedInv, vars, progressVars, feedVars, dataVars
    <3> QED
      BY <1>1, <3>1, <3>2, <3>3
  <2>8. /\ reels' <= config.reels + config.newReels
        /\ round' < config.newReelsAt \/ (round' = config.newReelsAt /\ stage' = "round")
             => reels' = config.reels
    <3>0. PICK at : at = config.newReelsAt
      OBVIOUS
    <3>1. CASE BeginRound
      <4>1. /\ stage = "round" /\ round' = now /\ stage' = "request"
            /\ reels' = size + (IF now = at THEN config.newReels ELSE 0)
        BY <2>3, <2>4, <3>0, <3>1 DEF BeginRound
      <4>2. /\ now < at \/ now = at => size = config.reels
            /\ size <= config.reels + config.newReels
        BY <2>3, <2>4, <3>0, <4>1 DEF LoggedInv
      <4>3. config.reels \in Nat
        BY ConfigFacts DEF Config
      <4> QED
        BY <2>2, <2>3, <2>4, <3>0, <4>1, <4>2, <4>3
    <3>2. CASE EndRound
      <4>1. stage = "request" /\ round' = now + 1 /\ reels' = reels
        BY <2>3, <3>2 DEF EndRound, dataVars
      <4> QED
        BY <2>2, <2>3, <3>0, <4>1 DEF LoggedInv
    <3>3. CASE Request \/ Finish \/ UNCHANGED vars
      <4>1. round' = round /\ reels' = reels /\ (stage' = "round" => stage = "round")
        BY <3>3 DEF Request, NothingServed, Finish, vars, progressVars, dataVars
      <4> QED
        BY <4>1 DEF LoggedInv
    <3> QED
      BY <1>1, <3>1, <3>2, <3>3
  <2> QED
    BY <2>1, <2>6, <2>7, <2>8 DEF LoggedInv
<1>2. ASSUME NEW exit \in BOOLEAN, Impression(exit) PROVE LoggedInv'
  <2>1. PICK new : new = <<turn, Len(log[turn]) + 1>>
    OBVIOUS
  <2>2. /\ Logged' = Logged \cup {new} /\ \A p \in Logged : Entry(p)' = Entry(p)
        /\ Entry(new)'.round = round /\ Entry(new)'.reel = feed[served + 1]
    <3>1. new[1] = turn /\ new[2] = Len(log[turn]) + 1
      BY <2>1
    <3>2. Entry(new)' = log'[turn][Len(log[turn]) + 1]
      BY <3>1 DEF Entry
    <3>3. \E n : log'[turn][Len(log[turn]) + 1]
                   = [round |-> round, reel |-> feed[served + 1], pref |-> n]
      BY <1>2, ImpressionPairs
    <3>4. Entry(new)'.round = round /\ Entry(new)'.reel = feed[served + 1]
      BY <3>2, <3>3
    <3> QED
      BY <1>2, <2>1, <3>4, ImpressionPairs
  <2>3. /\ UNCHANGED <<config, round, reels, feed>> /\ Rounds' = Rounds /\ stage = "consume"
        /\ stage' # "round"
        /\ round \in 0..Rounds - 1 /\ round \in Nat
    <3>1. UNCHANGED <<config, round, reels, feed>> /\ Rounds' = Rounds /\ stage = "consume"
          /\ round \in 0..Rounds - 1 /\ round \in Nat
      BY <1>2, ImpressionSteps, ImpressionFacts
    <3>2. stage' # "round"
      BY <1>2, <3>1 DEF Impression
    <3> QED
      BY <3>1, <3>2
  <2>4. feed[served + 1] \in 0..reels - 1
    <3>1. served \in Nat /\ served < ToConsume(turn) /\ Len(feed) \in Nat /\ Remaining(turn) \in Int
      <4>1. served \in Nat /\ served < ToConsume(turn) /\ done[turn] \in Nat
        BY <1>2, ImpressionFacts
      <4>2. feed \in Seq(Nat) /\ config.interactionsPerUser \in Nat
        BY ConfigFacts DEF TypeOK
      <4> QED
        BY <4>1, <4>2 DEF Remaining
    <3>2. served + 1 \in 1..Len(feed)
      BY <3>1 DEF ToConsume, Lower
    <3> QED
      BY <2>3, <3>2 DEF LoggedInv
  <2>5. IsFiniteSet(Logged')
    BY <2>2, FS_AddElement DEF LoggedInv
  <2>6. \A p \in Logged' : /\ Entry(p)'.round \in 0..Rounds' - 1 /\ Entry(p)'.round <= round'
                          /\ Entry(p)'.reel \in 0..reels' - 1
    BY <2>2, <2>3, <2>4 DEF LoggedInv
  <2>7. round' < config'.newReelsAt \/ (round' = config'.newReelsAt /\ stage' = "round")
          => reels' = config'.reels
    BY <2>3 DEF LoggedInv
  <2>8. stage' = "consume" => \A i \in 1..Len(feed') : feed'[i] \in 0..reels' - 1
    BY <2>3 DEF LoggedInv
  <2>9. reels' <= config'.reels + config'.newReels
    BY <2>3 DEF LoggedInv
  <2> QED
    BY <2>5, <2>6, <2>7, <2>8, <2>9 DEF LoggedInv
<1> QED
  BY <1>1, <1>2 DEF Next

\* What is logged and what is counted of it agree throughout a run.
LEMMA Ledgers == Spec => [](LoggedInv /\ CountsInv)
<1>1. TypeOK /\ BudgetInv /\ DriftInv /\ LoggedInv /\ CountsInv /\ [Next]_vars
        => LoggedInv' /\ CountsInv'
  BY LoggedStep, ImpressionCounts, OtherCounts DEF Next
<1> QED
  BY <1>1, InitCounts, Budgets, Drifts, PTL DEF Spec

------------------------------------------------------------------------------
(* Sessions *)

\* The records of a user, the impressions they hold, and the keys the ledgers
\* know its sessions by, one open included.
Own(u) == {i \in DOMAIN records : records[i].user = u}
Recorded(u) == Total([i \in Own(u) |-> records[i].impressions])
LastKey(u) == IF open[u] > 0 THEN Cardinality(Own(u)) ELSE Cardinality(Own(u)) - 1
Keys == UNION {{u} \X (0..LastKey(u)) : u \in Users}
LedgerKeys == UNION {ledger[r].sessions : r \in 0..Rounds - 1}

\* Every impression of a user is in one of its records or in its open session,
\* and every session has a key of its own in the ledgers.
SessionInv ==
  /\ \A i \in DOMAIN records : /\ records[i].user \in Users /\ records[i].round \in 0..Rounds - 1
                               /\ records[i].impressions > 0
  /\ ~config.sessionDynamics => records = <<>>
  /\ config.sessionDynamics => /\ \A u \in Users : Recorded(u) + open[u] = total[u]
                               /\ LedgerKeys = Keys
  /\ stage = "done" => \A u \in Users : open[u] = 0

\* A user's records are finitely many and have impressions in them.
LEMMA OwnFacts ==
  ASSUME TypeOK, NEW u
  PROVE  /\ IsFiniteSet(Own(u)) /\ Cardinality(Own(u)) \in Nat /\ Recorded(u) \in Nat
         /\ Len(records) \in Nat /\ DOMAIN records = 1..Len(records)
         /\ \A i \in Own(u) : i \in 1..Len(records) /\ records[i].impressions \in Nat
<1>1. Len(records) \in Nat /\ DOMAIN records = 1..Len(records)
  BY DEF TypeOK
<1>2. \A i \in DOMAIN records : records[i].impressions \in Nat
  <2> DEFINE Rec == [round : Nat, user : Nat, impressions : Nat, ended : BOOLEAN]
  <2>1. records \in Seq(Rec)
    BY DEF TypeOK
  <2>2. \A x \in Rec : x.impressions \in Nat
    OBVIOUS
  <2> HIDE DEF Rec
  <2>3. \A i \in DOMAIN records : records[i] \in Rec
    BY <2>1
  <2> QED
    BY <2>2, <2>3
<1>3. IsFiniteSet(1..Len(records))
  <2>1. 1 \in Int /\ Len(records) \in Int
    BY <1>1
  <2> QED
    BY <2>1, FS_Interval
<1>4. Own(u) \in SUBSET (1..Len(records))
  BY <1>1 DEF Own
<1>5. IsFiniteSet(Own(u)) /\ Cardinality(Own(u)) \in Nat
  BY <1>3, <1>4, FS_Subset, FS_CardinalityType
<1>6. \A i \in Own(u) : i \in 1..Len(records) /\ records[i].impressions \in Nat
  BY <1>2, <1>4 DEF Own
<1>7. Recorded(u) \in Nat
  <2> DEFINE row == [i \in Own(u) |-> records[i].impressions]
  <2>1. DOMAIN row = Own(u) /\ \A i \in Own(u) : row[i] \in Nat
    BY <1>6
  <2> HIDE DEF row
  <2>2. Total(row) \in Nat
    BY <1>5, <2>1, TotalType
  <2> QED
    BY <2>2 DEF Recorded, row
<1> QED
  BY <1>1, <1>5, <1>6, <1>7

\* The records of a user that stay leave what is counted of them.
LEMMA OwnKept ==
  ASSUME NEW u, Own(u)' = Own(u), \A i \in Own(u) : records'[i].impressions = records[i].impressions
  PROVE  Recorded(u)' = Recorded(u)
<1>1. [i \in Own(u) |-> records[i].impressions]' = [i \in Own(u) |-> records[i].impressions]
  OBVIOUS
<1> QED
  BY <1>1 DEF Recorded

\* A record more adds its impressions and takes the next key.
LEMMA OwnAdded ==
  ASSUME TypeOK, NEW u, NEW m, m \notin Own(u), Own(u)' = Own(u) \cup {m},
         \A i \in Own(u) : records'[i].impressions = records[i].impressions,
         NEW n \in Nat, records'[m].impressions = n
  PROVE  /\ Recorded(u)' = Recorded(u) + n
         /\ Cardinality(Own(u))' = Cardinality(Own(u)) + 1
<1>0. PICK a : a = [i \in Own(u) |-> records[i].impressions]
  OBVIOUS
<1>1. PICK b : b = [i \in Own(u) |-> records[i].impressions]'
  OBVIOUS
<1>2. /\ DOMAIN a = Own(u) /\ IsFiniteSet(DOMAIN a) /\ \A i \in DOMAIN a : a[i] \in Nat
      /\ DOMAIN b = DOMAIN a \cup {m} /\ b[m] = n /\ m \notin DOMAIN a
      /\ \A i \in DOMAIN a : b[i] = a[i]
  BY <1>0, <1>1, OwnFacts
<1>3. Recorded(u) = Total(a) /\ Recorded(u)' = Total(b)
  BY <1>0, <1>1 DEF Recorded
<1>4. Total(b) = Total(a) + n
  <2>1. /\ IsFiniteSet(DOMAIN a) /\ (\A x \in DOMAIN a : a[x] \in Nat) /\ m \notin DOMAIN a
        /\ DOMAIN b = DOMAIN a \cup {m} /\ b[m] = n /\ (\A x \in DOMAIN a : b[x] = a[x])
    BY <1>2
  <2>2. ASSUME NEW c, NEW d, IsFiniteSet(DOMAIN c), \A x \in DOMAIN c : c[x] \in Nat,
               m \notin DOMAIN c, DOMAIN d = DOMAIN c \cup {m}, d[m] = n,
               \A x \in DOMAIN c : d[x] = c[x]
        PROVE  Total(d) = Total(c) + n
    BY <2>2, TotalAdd
  <2> QED
    BY <2>1, <2>2
<1>5. Cardinality(Own(u))' = Cardinality(Own(u)) + 1
  BY OwnFacts, FS_AddElement
<1> QED
  BY <1>3, <1>4, <1>5

\* Membership in the sets of keys.
LEMMA KeysFacts ==
  /\ \A u, k : <<u, k>> \in Keys <=> u \in Users /\ k \in 0..LastKey(u)
  /\ \A p \in Keys : p = <<p[1], p[2]>>
  BY DEF Keys

\* The keys of the ledgers after an impression.
LEMMA ImpressionLedgerKeys ==
  ASSUME TypeOK, BudgetInv, NEW exit \in BOOLEAN, Impression(exit)
  PROVE  LedgerKeys' = LedgerKeys \cup {<<turn, Cardinality(Own(turn))>>}
<1>0. PICK now : now = round
  OBVIOUS
<1>1. /\ now \in 0..Rounds - 1 /\ Rounds' = Rounds
      /\ \A q \in 0..Rounds - 1 : q # now => ledger'[q] = ledger[q]
      /\ ledger'[now].sessions = ledger[now].sessions \cup {SessionKey(turn)}
  BY <1>0, LedgerStep, ImpressionFacts, ImpressionSteps
<1>2. SessionKey(turn) = <<turn, Cardinality(Own(turn))>>
  BY DEF SessionKey, Own
<1>3. \A r \in 0..Rounds - 1 :
        ledger'[r].sessions = IF r = now THEN ledger[r].sessions \cup {SessionKey(turn)}
                                         ELSE ledger[r].sessions
  BY <1>1
<1> DEFINE key == SessionKey(turn)
<1> HIDE DEF key
<1>4. UNION {ledger'[r].sessions : r \in 0..Rounds - 1}
        = (UNION {ledger[r].sessions : r \in 0..Rounds - 1}) \cup {key}
  <2>1. \A r \in 0..Rounds - 1 :
          ledger'[r].sessions = IF r = now THEN ledger[r].sessions \cup {key} ELSE ledger[r].sessions
    BY <1>3 DEF key
  <2>2. ASSUME NEW x PROVE (\E r \in 0..Rounds - 1 : x \in ledger'[r].sessions)
                             <=> (\E r \in 0..Rounds - 1 : x \in ledger[r].sessions) \/ x = key
    BY <1>1, <2>1
  <2> QED
    BY <2>2
<1> QED
  BY <1>1, <1>2, <1>4 DEF LedgerKeys, key

\* At first there are no sessions.
LEMMA InitSessions == Init => SessionInv
<1> SUFFICES ASSUME Init PROVE SessionInv
  OBVIOUS
<1>1. /\ TypeOK /\ records = <<>> /\ stage # "done"
      /\ \A u \in Users : open[u] = 0 /\ total[u] = 0
      /\ \A r \in 0..Rounds - 1 : ledger[r] = EmptyRound
  BY InitType DEF Init
<1>2. \A u : Own(u) = {}
  BY <1>1 DEF Own
<1>3. \A u : Recorded(u) = 0
  <2>1. \A u : Recorded(u) = Cardinality({})
    BY <1>2 DEF Recorded, Total
  <2> QED
    BY <2>1, FS_EmptySet
<1>4. LedgerKeys = {}
  BY <1>1 DEF LedgerKeys, EmptyRound
<1>5. Keys = {}
  <2>1. \A u \in Users : LastKey(u) = -1
    <3>1. \A u \in Users : open[u] = 0 /\ Cardinality(Own(u)) = 0
      BY <1>1, <1>2, FS_EmptySet, Zenon
    <3> QED
      BY <3>1 DEF LastKey
  <2> QED
    BY <2>1 DEF Keys
<1> QED
  BY <1>1, <1>3, <1>4, <1>5 DEF SessionInv

\* Nothing of the sessions changes where records, users, what is open and the
\* ledgers' sessions stay.
LEMMA SessionsKept ==
  ASSUME TypeOK, SessionInv, config' = config, records' = records, Users' = Users, stage' # "done",
         \A u \in Users : open'[u] = open[u] /\ total'[u] = total[u],
         \A r \in 0..Rounds - 1 : ledger'[r].sessions = ledger[r].sessions
  PROVE  SessionInv'
<1>1. Rounds' = Rounds
  BY ConfigKept
<1>2. \A u : Own(u)' = Own(u)
  BY DEF Own
<1>3. \A u : Recorded(u)' = Recorded(u)
  BY <1>2, OwnKept
<1>4. LedgerKeys' = LedgerKeys
  BY <1>1 DEF LedgerKeys
<1>5. \A u \in Users : LastKey(u)' = LastKey(u)
  BY <1>2 DEF LastKey
<1>6. Keys' = Keys
  BY <1>5 DEF Keys
<1> QED
  BY <1>1, <1>3, <1>4, <1>6 DEF SessionInv

\* A round that begins brings users without sessions, and none under dynamics.
LEMMA BeginRoundSessions ==
  ASSUME TypeOK, SessionInv, BeginRound PROVE SessionInv'
<1>1. /\ config' = config /\ records' = records /\ ledger' = ledger /\ stage' = "request"
      /\ Users \subseteq Users'
      /\ \A u \in Users : open'[u] = open[u] /\ total'[u] = total[u]
  BY BeginRoundGrows DEF BeginRound, metricVars
<1>2. CASE config.sessionDynamics
  <2>1. config.newUsers = 0
    BY <1>2, ConfigsAssumption DEF TypeOK
  <2>2. users' = users
    BY <2>1 DEF BeginRound, TypeOK
  <2> QED
    BY <1>1, <2>2, UsersKept, SessionsKept
<1>3. CASE ~config.sessionDynamics
  <2>1. records' = <<>> /\ DOMAIN records' = {}
    BY <1>1, <1>3 DEF SessionInv
  <2> QED
    BY <1>1, <1>3, <2>1 DEF SessionInv
<1> QED
  BY <1>2, <1>3

\* An impression joins the session open, or ends it.
LEMMA ImpressionSessions ==
  ASSUME TypeOK, BudgetInv, SessionInv, NEW exit \in BOOLEAN, Impression(exit) PROVE SessionInv'
<1>0. PICK u : u = turn
  OBVIOUS
<1>1. PICK k : k = open[u]
  OBVIOUS
<1>2. PICK t : t = total[u]
  OBVIOUS
<1>3. PICK n : n = Cardinality(Own(u))
  OBVIOUS
<1>4. /\ config' = config /\ Users' = Users /\ Rounds' = Rounds /\ u \in Users
      /\ u \in Nat /\ k \in Nat /\ t \in Nat /\ n \in Nat /\ round \in 0..Rounds - 1
  BY <1>0, <1>1, <1>2, <1>3, ImpressionFacts, ImpressionSteps, OwnFacts
<1>5. /\ total' = [total EXCEPT ![u] = t + 1]
      /\ open' = [open EXCEPT ![u] = IF exit THEN 0 ELSE k + 1]
      /\ exit => config.sessionDynamics
      /\ records' = IF exit THEN Append(records, [round |-> round, user |-> u,
                                                  impressions |-> k + 1, ended |-> FALSE])
                            ELSE records
  BY <1>0, <1>1, <1>2, ImpressionSteps DEF Impression
<1>6. /\ \A v \in Users : v # u => total'[v] = total[v] /\ open'[v] = open[v]
      /\ total'[u] = t + 1 /\ open'[u] = (IF exit THEN 0 ELSE k + 1)
  BY <1>4, <1>5 DEF TypeOK
<1>7. stage' # "done"
  BY DEF Impression
<1>8. LedgerKeys' = LedgerKeys \cup {<<u, n>>}
  BY <1>0, <1>3, ImpressionLedgerKeys
<1>9. LastKey(u) = IF k > 0 THEN n ELSE n - 1
  BY <1>1, <1>3 DEF LastKey
<1>10. ASSUME LastKey(u)' = n, \A v \in Users : v # u => LastKey(v)' = LastKey(v),
              config.sessionDynamics
       PROVE  LedgerKeys' = Keys'
  <2>1. 0..n = (0..LastKey(u)) \cup {n}
    BY <1>4, <1>9
  <2>2. Keys' = UNION {{v} \X (0..LastKey(v)') : v \in Users}
    BY <1>4 DEF Keys
  <2>3. ASSUME NEW p PROVE p \in Keys' <=> p \in Keys \cup {<<u, n>>}
    <3>1. p \in Keys' <=> \E v \in Users : \E j \in 0..LastKey(v)' : p = <<v, j>>
      BY <2>2
    <3>2. p \in Keys <=> \E v \in Users : \E j \in 0..LastKey(v) : p = <<v, j>>
      BY DEF Keys
    <3>3. \A v \in Users : \A j : j \in 0..LastKey(v)' <=> j \in 0..LastKey(v) \/ (v = u /\ j = n)
      BY <1>10, <2>1
    <3> QED
      BY <1>4, <3>1, <3>2, <3>3, Zenon
  <2>4. LedgerKeys = Keys
    BY <1>10 DEF SessionInv
  <2> QED
    BY <1>8, <2>3, <2>4
<1>11. CASE ~exit
  <2>1. records' = records
    BY <1>5, <1>11
  <2>2. \A v : Own(v)' = Own(v)
    BY <2>1 DEF Own
  <2>3. \A v : Recorded(v)' = Recorded(v)
    BY <2>1, <2>2, OwnKept
  <2>4. LastKey(u)' = n
    <3>1. Cardinality(Own(u))' = n /\ open'[u] = k + 1
      BY <1>3, <1>6, <1>11, <2>2
    <3> QED
      BY <1>4, <3>1 DEF LastKey
  <2>5. \A v \in Users : v # u => LastKey(v)' = LastKey(v)
    BY <1>6, <2>2 DEF LastKey
  <2>6. ASSUME config.sessionDynamics, NEW v \in Users PROVE Recorded(v)' + open'[v] = total'[v]
    <3>1. CASE v = u
      <4>1. PICK s : s = Recorded(u)
        OBVIOUS
      <4>2. s \in Nat /\ s + k = t
        BY <1>1, <1>2, <1>4, <2>6, <4>1, OwnFacts DEF SessionInv
      <4> QED
        BY <1>4, <1>6, <1>11, <2>3, <3>1, <4>1, <4>2
    <3>2. CASE v # u
      BY <1>6, <2>3, <2>6, <3>2 DEF SessionInv
    <3> QED
      BY <3>1, <3>2
  <2>7. config.sessionDynamics => LedgerKeys' = Keys'
    BY <1>10, <2>4, <2>5
  <2> QED
    BY <1>4, <1>7, <2>1, <2>6, <2>7 DEF SessionInv
<1>12. CASE exit
  <2> DEFINE rec == [round |-> round, user |-> u, impressions |-> k + 1, ended |-> FALSE]
  <2>0. PICK m : m = Len(records) + 1
    OBVIOUS
  <2>1. config.sessionDynamics /\ records' = Append(records, rec)
    BY <1>5, <1>12
  <2>2. rec.round = round /\ rec.user = u /\ rec.impressions = k + 1
    OBVIOUS
  <2> HIDE DEF rec
  <2>3. /\ DOMAIN records = 1..m - 1 /\ DOMAIN records' = 1..m /\ m \in Nat /\ m > 0
        /\ \A i \in 1..m - 1 : records'[i] = records[i]
        /\ records'[m] = rec
    BY <2>0, <2>1 DEF TypeOK
  <2>4. \A v : v # u => Own(v)' = Own(v)
    BY <2>2, <2>3 DEF Own
  <2>5. Own(u)' = Own(u) \cup {m} /\ m \notin Own(u)
    BY <2>2, <2>3 DEF Own
  <2>6. \A v : \A i \in Own(v) : records'[i].impressions = records[i].impressions
    BY <2>3 DEF Own
  <2>7. \A v : v # u => Recorded(v)' = Recorded(v)
    BY <2>4, <2>6, OwnKept
  <2>8. Recorded(u)' = Recorded(u) + (k + 1) /\ Cardinality(Own(u))' = Cardinality(Own(u)) + 1
    <3>1. k + 1 \in Nat /\ records'[m].impressions = k + 1
      BY <1>4, <2>2, <2>3
    <3> QED
      BY <2>5, <2>6, <3>1, OwnAdded
  <2>9. LastKey(u)' = n
    <3>1. Cardinality(Own(u))' = n + 1 /\ open'[u] = 0
      BY <1>3, <1>6, <1>12, <2>8
    <3> QED
      BY <1>4, <3>1 DEF LastKey
  <2>10. \A v \in Users : v # u => LastKey(v)' = LastKey(v)
    BY <1>6, <2>4 DEF LastKey
  <2>11. ASSUME NEW v \in Users PROVE Recorded(v)' + open'[v] = total'[v]
    <3>1. CASE v = u
      <4>1. PICK s : s = Recorded(u)
        OBVIOUS
      <4>2. s \in Nat /\ s + k = t
        BY <1>1, <1>2, <1>4, <2>1, <4>1, OwnFacts DEF SessionInv
      <4>3. Recorded(u)' = s + (k + 1) /\ open'[u] = 0 /\ total'[u] = t + 1
        BY <1>6, <1>12, <2>8, <4>1
      <4> QED
        BY <1>4, <3>1, <4>2, <4>3
    <3>2. CASE v # u
      BY <1>6, <2>1, <2>7, <3>2 DEF SessionInv
    <3> QED
      BY <3>1, <3>2
  <2>12. LedgerKeys' = Keys'
    BY <1>10, <2>1, <2>9, <2>10
  <2>13. \A i \in DOMAIN records' :
           records'[i].user \in Users /\ records'[i].round \in 0..Rounds - 1 /\ records'[i].impressions > 0
    <3>1. k + 1 > 0
      BY <1>4
    <3>2. ASSUME NEW i \in 1..m PROVE i = m \/ i \in 1..m - 1
      BY <2>3
    <3> QED
      BY <1>4, <2>2, <2>3, <3>1, <3>2 DEF SessionInv
  <2> QED
    BY <1>4, <1>7, <2>1, <2>11, <2>12, <2>13 DEF SessionInv
<1> QED
  BY <1>11, <1>12

\* The sessions drained are those open, each by one record.
LEMMA FinishSessions ==
  ASSUME TypeOK, BudgetInv, SessionInv, Finish PROVE SessionInv'
<1> DEFINE Rec == [round : Nat, user : Nat, impressions : Nat, ended : BOOLEAN]
<1>1. PICK rest \in Drained : records' = records \o rest
  BY DEF Finish
<1>2. /\ UNCHANGED <<config, round, users, total, ledger>> /\ Users' = Users /\ Rounds' = Rounds
      /\ \A u \in Users : open'[u] = 0
  BY UsersKept, ConfigKept DEF Finish, dataVars
<1>3. records \in Seq(Rec) /\ rest \in Seq(Rec)
  BY <1>1, DrainedFacts DEF TypeOK
<1> HIDE DEF Rec
<1>4. PICK m : m = Len(records)
  OBVIOUS
<1>5. PICK l : l = Len(rest)
  OBVIOUS
<1>6. /\ m \in Nat /\ l \in Nat /\ DOMAIN records = 1..m /\ DOMAIN records' = 1..m + l
      /\ \A i \in 1..m : records'[i] = records[i]
      /\ \A i \in 1..l : records'[m + i] = rest[i]
  BY <1>1, <1>3, <1>4, <1>5
<1>7. LedgerKeys' = LedgerKeys
  BY <1>2 DEF LedgerKeys
<1>8. CASE ~(config.sessionDynamics /\ Rounds > 0)
  <2>1. rest = <<>>
    BY <1>8, DrainedFacts
  <2>2. records' = records
    BY <1>1, <1>3, <2>1
  <2>3. \A u : Own(u)' = Own(u) /\ Recorded(u)' = Recorded(u)
    BY <2>2, OwnKept DEF Own
  <2>4. CASE config.sessionDynamics
    <3>1. ASSUME NEW u \in Users PROVE open[u] = 0
      <4>1. Rounds = 0 /\ round = 0
        BY <1>8, <2>4, ConfigFacts DEF TypeOK
      <4>2. stage \notin {"round", "request", "consume"}
        BY <4>1 DEF BudgetInv
      <4>3. done[u] <= round * config.feedSize /\ total[u] = done[u]
        BY <4>2 DEF BudgetInv, Passed, Consumed, TypeOK
      <4>4. config.feedSize \in Nat /\ done[u] \in Nat /\ open[u] \in Nat /\ Recorded(u) \in Nat
        BY ConfigFacts, OwnFacts DEF TypeOK
      <4>5. total[u] = 0
        BY <4>1, <4>3, <4>4
      <4>6. Recorded(u) + open[u] = total[u]
        BY <2>4 DEF SessionInv
      <4> QED
        BY <4>4, <4>5, <4>6
    <3>2. \A u \in Users : LastKey(u)' = LastKey(u)
      BY <1>2, <2>3, <3>1 DEF LastKey
    <3>3. Keys' = Keys
      BY <1>2, <3>2 DEF Keys
    <3> QED
      BY <1>2, <1>7, <2>2, <2>3, <3>1, <3>3 DEF SessionInv
  <2>5. CASE ~config.sessionDynamics
    BY <1>2, <2>2, <2>5 DEF SessionInv
  <2> QED
    BY <2>4, <2>5
<1>9. CASE config.sessionDynamics /\ Rounds > 0
  <2> DEFINE holders == {u \in Users : open[u] > 0}
  <2>1. /\ l = Cardinality(holders)
        /\ \A i \in 1..l : /\ rest[i].user \in holders /\ rest[i].impressions = open[rest[i].user]
                           /\ rest[i].round = Rounds - 1
        /\ \A i, j \in 1..l : i # j => rest[i].user # rest[j].user
    BY <1>1, <1>5, <1>9, DrainedFacts, ZenonT(60)
  <2>2. \A u \in holders : u \in Users /\ open[u] \in Nat /\ open[u] > 0
    BY DEF TypeOK
  <2>3. \A u \in Users : u \notin holders => open[u] = 0
    BY DEF TypeOK
  <2>4. IsFiniteSet(holders)
    <3>1. 0 \in Int /\ users - 1 \in Int
      BY DEF TypeOK
    <3>2. IsFiniteSet(0..users - 1)
      BY <3>1, FS_Interval
    <3>3. holders \in SUBSET (0..users - 1)
      BY DEF Users
    <3> QED
      BY <3>2, <3>3, FS_Subset
  <2> HIDE DEF holders
  <2>5. \A u \in holders : \E i \in 1..l : rest[i].user = u
    <3> DEFINE f == [i \in 1..l |-> rest[i].user]
    <3>1. f \in Injection(1..l, holders)
      BY <2>1 DEF Injection, IsInjective
    <3>2. Cardinality(1..l) = l
      <4>1. 1 \in Int /\ l \in Int
        BY <1>6
      <4> QED
        BY <1>6, <4>1, FS_Interval
    <3> HIDE DEF f
    <3>3. f \in Surjection(1..l, holders)
      BY <2>1, <2>4, <3>1, <3>2, FS_Injection
    <3> QED
      BY <3>3 DEF Surjection, f
  <2>6. \A v : \A i \in Own(v) : records'[i].impressions = records[i].impressions /\ i \in 1..m
    BY <1>6 DEF Own
  <2>7. ASSUME NEW u \in holders
        PROVE  /\ Recorded(u)' = Recorded(u) + open[u]
               /\ Cardinality(Own(u))' = Cardinality(Own(u)) + 1
    <3>1. PICK i \in 1..l : rest[i].user = u
      BY <2>5
    <3>2. \A j \in 1..l : rest[j].user = u => j = i
      BY <2>1, <3>1
    <3>3. \A j \in 1..m + l : j \in 1..m \/ \E h \in 1..l : j = m + h
      <4>1. ASSUME NEW j \in 1..m + l, j \notin 1..m PROVE j - m \in 1..l /\ j = m + (j - m)
        BY <1>6, <4>1
      <4> QED
        BY <4>1
    <3>4. m + i \notin 1..m /\ m + i \in 1..m + l
      BY <1>6
    <3>5. Own(u)' = Own(u) \cup {m + i}
      <4>1. ASSUME NEW j \in Own(u)' PROVE j \in Own(u) \cup {m + i}
        <5>1. j \in 1..m + l /\ records'[j].user = u
          BY <1>6, <4>1 DEF Own
        <5>2. CASE j \in 1..m
          BY <1>6, <5>1, <5>2 DEF Own
        <5>3. CASE \E h \in 1..l : j = m + h
          <6>1. PICK h \in 1..l : j = m + h
            BY <5>3
          <6>2. rest[h].user = u
            BY <1>6, <5>1, <6>1
          <6> QED
            BY <3>2, <6>1, <6>2
        <5> QED
          BY <3>3, <5>1, <5>2, <5>3
      <4>2. Own(u) \cup {m + i} \subseteq Own(u)'
        BY <1>6, <3>1, <3>4 DEF Own
      <4> QED
        BY <4>1, <4>2
    <3>6. m + i \notin Own(u)
      BY <2>6, <3>4
    <3>7. records'[m + i].impressions = open[u] /\ open[u] \in Nat
      BY <1>6, <2>1, <2>2, <3>1
    <3> QED
      BY <2>6, <3>5, <3>6, <3>7, OwnAdded
  <2>8. ASSUME NEW u, u \notin holders
        PROVE  Recorded(u)' = Recorded(u) /\ Own(u)' = Own(u)
    <3>1. \A j \in 1..m + l : j \in 1..m \/ \E h \in 1..l : j = m + h
      <4>1. ASSUME NEW j \in 1..m + l, j \notin 1..m PROVE j - m \in 1..l /\ j = m + (j - m)
        BY <1>6, <4>1
      <4> QED
        BY <4>1
    <3>2. Own(u)' = Own(u)
      <4>1. ASSUME NEW j \in Own(u)' PROVE j \in Own(u)
        BY <1>6, <2>1, <2>8, <3>1, <4>1 DEF Own
      <4>2. Own(u) \subseteq Own(u)'
        BY <1>6 DEF Own
      <4> QED
        BY <4>1, <4>2
    <3> QED
      BY <2>6, <3>2, OwnKept
  <2>9. ASSUME NEW u \in Users PROVE LastKey(u)' = LastKey(u)
    <3>1. PICK n : n = Cardinality(Own(u))
      OBVIOUS
    <3>2. n \in Nat
      BY <3>1, OwnFacts
    <3>3. CASE u \in holders
      <4>1. open[u] > 0 /\ open'[u] = 0 /\ Cardinality(Own(u))' = n + 1
        BY <1>2, <2>2, <2>7, <3>1, <3>3
      <4> QED
        BY <3>1, <3>2, <4>1 DEF LastKey
    <3>4. CASE u \notin holders
      <4>1. open[u] = 0 /\ open'[u] = 0 /\ Own(u)' = Own(u)
        BY <1>2, <2>3, <2>8, <3>4
      <4> QED
        BY <4>1 DEF LastKey
    <3> QED
      BY <3>3, <3>4
  <2>10. LedgerKeys' = Keys'
    <3>1. Keys' = Keys
      BY <1>2, <2>9 DEF Keys
    <3> QED
      BY <1>7, <1>9, <3>1 DEF SessionInv
  <2>11. ASSUME NEW u \in Users PROVE Recorded(u)' + open'[u] = total'[u]
    <3>1. PICK s : s = Recorded(u)
      OBVIOUS
    <3>2. PICK k : k = open[u]
      OBVIOUS
    <3>3. s \in Nat /\ k \in Nat /\ s + k = total[u] /\ total'[u] = total[u] /\ open'[u] = 0
      BY <1>2, <1>9, <3>1, <3>2, OwnFacts DEF SessionInv, TypeOK
    <3>4. Recorded(u)' = s + k
      <4>1. CASE u \in holders
        BY <2>7, <3>1, <3>2, <4>1
      <4>2. CASE u \notin holders
        BY <2>3, <2>8, <3>1, <3>2, <3>3, <4>2
      <4> QED
        BY <4>1, <4>2
    <3> QED
      BY <3>3, <3>4
  <2>12. \A i \in DOMAIN records' :
           records'[i].user \in Users /\ records'[i].round \in 0..Rounds - 1 /\ records'[i].impressions > 0
    <3>1. \A j \in 1..m + l : j \in 1..m \/ \E h \in 1..l : j = m + h
      <4>1. ASSUME NEW j \in 1..m + l, j \notin 1..m PROVE j - m \in 1..l /\ j = m + (j - m)
        BY <1>6, <4>1
      <4> QED
        BY <4>1
    <3>2. Rounds - 1 \in 0..Rounds - 1
      BY <1>9, ConfigFacts
    <3>3. \A i \in 1..m : /\ records[i].user \in Users /\ records[i].round \in 0..Rounds - 1
                          /\ records[i].impressions > 0
      BY <1>6 DEF SessionInv
    <3>4. \A h \in 1..l : /\ rest[h].user \in Users /\ rest[h].round \in 0..Rounds - 1
                          /\ rest[h].impressions > 0
      BY <2>1, <2>2, <3>2
    <3>5. ASSUME NEW i \in 1..m + l
          PROVE  /\ records'[i].user \in Users /\ records'[i].round \in 0..Rounds - 1
                 /\ records'[i].impressions > 0
      <4>1. CASE i \in 1..m
        BY <1>6, <3>3, <4>1
      <4>2. CASE \E h \in 1..l : i = m + h
        <5>1. PICK h \in 1..l : i = m + h
          BY <4>2
        <5>2. records'[i] = rest[h]
          BY <1>6, <5>1
        <5> QED
          BY <3>4, <5>2
      <4> QED
        BY <3>1, <4>1, <4>2
    <3> QED
      BY <1>6, <3>5
  <2> QED
    BY <1>2, <1>9, <2>10, <2>11, <2>12 DEF SessionInv
<1> QED
  BY <1>8, <1>9

\* Sessions, records and keys agree throughout a run.
LEMMA Sessions == Spec => []SessionInv
<1>1. ASSUME TypeOK, BudgetInv, SessionInv, Request \/ EndRound \/ UNCHANGED vars PROVE SessionInv'
  <2>1. UNCHANGED <<config, records, users, open, total>> /\ Users' = Users
    BY <1>1, UsersKept DEF Request, EndRound, vars, dataVars, userVars, metricVars
  <2>2. \A r \in 0..Rounds - 1 : ledger'[r].sessions = ledger[r].sessions
    <3>1. CASE EndRound
      <4> DEFINE Row == [impressions : Nat, sessions : SUBSET (Nat \X Nat), drifted : Nat,
                         injected : Nat, distinct : Nat]
                 new == [ledger[round] EXCEPT !.distinct = Cardinality(exposed)]
      <4>1. ledger \in [0..Rounds - 1 -> Row] /\ ledger' = [ledger EXCEPT ![round] = new]
        <5>1. ledger \in [0..Rounds - 1 -> Row]
          BY <1>1 DEF TypeOK
        <5>2. ledger' = [ledger EXCEPT ![round] = new]
          BY <3>1 DEF EndRound
        <5> QED
          BY <5>1, <5>2
      <4>2. round \in 0..Rounds - 1
        BY <1>1, <3>1, ConfigFacts DEF EndRound, BudgetInv, TypeOK
      <4>3. new.sessions = ledger[round].sessions
        BY <4>1, <4>2
      <4> HIDE DEF new, Row
      <4>4. ledger'[round] = new /\ \A r \in 0..Rounds - 1 : r # round => ledger'[r] = ledger[r]
        BY <4>1, <4>2
      <4> QED
        BY <4>3, <4>4
    <3>2. CASE Request \/ UNCHANGED vars
      BY <3>2 DEF Request, vars, metricVars
    <3> QED
      BY <1>1, <3>1, <3>2
  <2>3. CASE stage' # "done"
    BY <1>1, <2>1, <2>2, <2>3, SessionsKept
  <2>4. CASE stage' = "done"
    <3>1. UNCHANGED vars
      BY <1>1, <2>4 DEF Request, NothingServed, EndRound
    <3>2. /\ UNCHANGED <<config, stage, records, users, open, total, ledger>>
      BY <3>1 DEF vars, progressVars, dataVars, userVars, metricVars
    <3>3. Rounds' = Rounds
      BY <3>2, ConfigKept
    <3>4. \A u : Own(u)' = Own(u)
      BY <3>2 DEF Own
    <3>5. \A u : Recorded(u)' = Recorded(u) /\ LastKey(u)' = LastKey(u)
      BY <3>2, <3>4, OwnKept DEF LastKey
    <3>6. Keys' = Keys /\ LedgerKeys' = LedgerKeys
      BY <2>1, <3>2, <3>3, <3>5 DEF Keys, LedgerKeys
    <3> QED
      BY <1>1, <2>1, <3>2, <3>3, <3>5, <3>6 DEF SessionInv
  <2> QED
    BY <2>3, <2>4
<1>2. TypeOK /\ BudgetInv /\ SessionInv /\ [Next]_vars => SessionInv'
  BY <1>1, BeginRoundSessions, ImpressionSessions, FinishSessions DEF Next
<1> QED
  BY <1>2, InitSessions, Budgets, PTL DEF Spec

\* Two parts that share nothing add up.
LEMMA TwoParts ==
  ASSUME NEW S, IsFiniteSet(S), NEW A, NEW B, A \cup B = S, A \cap B = {}
  PROVE  /\ IsFiniteSet(A) /\ IsFiniteSet(B)
         /\ Cardinality(A) \in Nat /\ Cardinality(B) \in Nat
         /\ Cardinality(A) + Cardinality(B) = Cardinality(S)
<1>1. A \in SUBSET S /\ B \in SUBSET S
  OBVIOUS
<1>2. IsFiniteSet(A) /\ IsFiniteSet(B) /\ Cardinality(A) \in Nat /\ Cardinality(B) \in Nat
  BY <1>1, FS_Subset, FS_CardinalityType
<1>3. PICK a, b, s : a = Cardinality(A) /\ b = Cardinality(B) /\ s = Cardinality(S)
  OBVIOUS
<1>4. Cardinality(A \cup B) = a + b - Cardinality(A \cap B)
  BY <1>2, <1>3, FS_Union
<1>5. Cardinality({}) = 0
  BY FS_EmptySet
<1>6. s = a + b - 0
  <2>1. Cardinality(A \cup B) = s /\ Cardinality(A \cap B) = 0
    BY <1>3, <1>5
  <2> QED
    BY <1>4, <2>1
<1> QED
  BY <1>2, <1>3, <1>6

------------------------------------------------------------------------------
(* The result *)

\* The result is made of the ledgers and records of all the rounds.
ReportInv ==
  /\ stage \in {"finish", "done"} => round = Rounds
  /\ stage = "done" => /\ report.overall = Overall
                       /\ report.sessionHealth = SessionHealth(records, DOMAIN ledger)
                       /\ report.byRound = [r \in DOMAIN ledger |-> SessionHealth(records, {r})]
                       /\ report.exposure = NewReelExposure

\* The result is assembled once, after the last round.
LEMMA Reports == Spec => []ReportInv
<1>1. Init => ReportInv
  BY DEF Init, ReportInv
<1>2. ASSUME TypeOK, BudgetInv, ReportInv, Finish PROVE ReportInv'
  <2>1. UNCHANGED <<config, round, ledger>> /\ Rounds' = Rounds /\ stage = "finish"
    BY <1>2, ConfigKept DEF Finish
  <2>2. PICK recs : recs = records'
    OBVIOUS
  <2>3. report' = Result(recs)
    BY <1>2, <2>2 DEF Finish
  <2>4. /\ report'.overall = Overall /\ report'.sessionHealth = SessionHealth(recs, DOMAIN ledger)
        /\ report'.byRound = [r \in DOMAIN ledger |-> SessionHealth(recs, {r})]
        /\ report'.exposure = NewReelExposure
    BY <2>3 DEF Result
  <2>5. Overall' = Overall /\ NewReelExposure' = NewReelExposure
    BY <2>1 DEF Overall, NewReelExposure
  <2>6. SessionHealth(records, DOMAIN ledger)' = SessionHealth(recs, DOMAIN ledger)
    BY <2>1, <2>2 DEF SessionHealth, Linked
  <2>7. [r \in DOMAIN ledger |-> SessionHealth(records, {r})]'
          = [r \in DOMAIN ledger |-> SessionHealth(recs, {r})]
    BY <2>1, <2>2 DEF SessionHealth, Linked
  <2>8. round' = Rounds'
    BY <1>2, <2>1 DEF ReportInv
  <2> QED
    BY <2>4, <2>5, <2>6, <2>7, <2>8 DEF ReportInv
<1>3. ASSUME TypeOK, BudgetInv, ReportInv, EndRound PROVE ReportInv'
  <2>1. /\ stage = "request" /\ round' = round + 1 /\ Rounds' = Rounds
        /\ stage' = IF round + 1 < Rounds THEN "round" ELSE "finish"
    BY <1>3, ConfigKept DEF EndRound
  <2>2. round < Rounds /\ round \in Nat /\ Rounds \in Nat
    BY <1>3, <2>1, ConfigFacts DEF BudgetInv, TypeOK
  <2>3. stage' = "finish" => round' = Rounds'
    BY <2>1, <2>2
  <2>4. stage' # "done"
    BY <2>1
  <2> QED
    BY <2>3, <2>4 DEF ReportInv
<1>4. ASSUME ReportInv, BeginRound \/ Request \/ (\E exit \in BOOLEAN : Impression(exit)) PROVE ReportInv'
  <2>1. stage' \notin {"finish", "done"}
    BY <1>4 DEF BeginRound, Request, NothingServed, Impression
  <2> QED
    BY <2>1 DEF ReportInv
<1>5. ASSUME ReportInv, UNCHANGED vars PROVE ReportInv'
  <2>1. UNCHANGED <<config, stage, round, records, ledger, report>> /\ Rounds' = Rounds
    BY <1>5, ConfigKept DEF vars, progressVars, metricVars
  <2> QED
    BY <1>5, <2>1
      DEF ReportInv, Overall, NewReelExposure, SessionHealth, Linked
<1>6. TypeOK /\ BudgetInv /\ ReportInv /\ [Next]_vars => ReportInv'
  BY <1>2, <1>3, <1>4, <1>5 DEF Next
<1> QED
  BY <1>1, <1>6, Budgets, PTL DEF Spec

\* The rounds of the ledger.
LEMMA LedgerRounds ==
  ASSUME TypeOK
  PROVE  DOMAIN ledger = 0..Rounds - 1 /\ IsFiniteSet(0..Rounds - 1) /\ Rounds \in Nat
<1>1. Rounds \in Nat
  BY ConfigFacts
<1>2. 0 \in Int /\ Rounds - 1 \in Int
  BY <1>1
<1> QED
  BY <1>1, <1>2, FS_Interval DEF TypeOK

\* Counted by round or by user, the impressions are those of the log.
LEMMA ImpressionsAddUp ==
  ASSUME TypeOK, BudgetInv, LoggedInv, CountsInv
  PROVE  Overall.impressions = Total(total)
<1>1. Total([r \in DOMAIN ledger |-> ledger[r].impressions]) = Cardinality(Logged)
  <2> DEFINE f == [p \in Logged |-> Entry(p).round]
             count == [r \in DOMAIN ledger |-> ledger[r].impressions]
             R == DOMAIN ledger
  <2>1. R = 0..Rounds - 1
    BY LedgerRounds
  <2>2. f \in [Logged -> R]
    BY <2>1 DEF LoggedInv
  <2>3. \A r \in R : count[r] = Cardinality({p \in Logged : f[p] = r})
    <3>1. \A r : {p \in Logged : f[p] = r} = OfRound(r)
      BY DEF OfRound
    <3> QED
      BY <2>1, <3>1 DEF CountsInv
  <2>4. DOMAIN count = R /\ IsFiniteSet(Logged)
    BY DEF LoggedInv
  <2> HIDE DEF f, count, R
  <2>5. Total(count) = Cardinality(Logged)
    BY <2>2, <2>3, <2>4, TotalCounts
  <2> QED
    BY <2>5 DEF count
<1>2. Total(total) = Cardinality(Logged)
  <2> DEFINE f == [p \in Logged |-> p[1]]
  <2>1. f \in [Logged -> Users]
    BY PairsFacts
  <2>2. ASSUME NEW u \in Users PROVE total[u] = Cardinality({p \in Logged : f[p] = u})
    <3>1. PICK n : n = Len(log[u])
      OBVIOUS
    <3>2. n \in Nat /\ DOMAIN log[u] = 1..n /\ total[u] = n
      BY <3>1, LogFacts DEF BudgetInv
    <3> DEFINE mine == {p \in Logged : f[p] = u}
               g == [i \in 1..n |-> <<u, i>>]
    <3>3. \A p : p \in mine <=> \E i \in 1..n : p = <<u, i>>
      BY <3>2, PairsFacts
    <3> HIDE DEF mine
    <3>4. g \in Bijection(1..n, mine)
      <4>1. g \in [1..n -> mine]
        BY <3>3
      <4>2. \A i, j \in 1..n : g[i] = g[j] => i = j
        OBVIOUS
      <4>3. \A p \in mine : \E i \in 1..n : g[i] = p
        BY <3>3
      <4> QED
        BY <4>1, <4>2, <4>3 DEF Bijection, Injection, IsInjective, Surjection
    <3>5. ExistsBijection(1..n, mine)
      BY <3>4 DEF ExistsBijection
    <3>6. Cardinality(mine) = n
      BY <3>2, <3>5, FS_CountingElements
    <3> QED
      BY <3>2, <3>6 DEF mine
  <2>3. DOMAIN total = Users /\ IsFiniteSet(Logged)
    BY DEF LoggedInv, TypeOK
  <2> HIDE DEF f
  <2> QED
    BY <2>1, <2>2, <2>3, TotalCounts
<1>3. Overall.impressions = Total([r \in DOMAIN ledger |-> ledger[r].impressions])
  BY DEF Overall
<1> QED
  BY <1>1, <1>2, <1>3

\* The keys of all sessions recorded are as many as the records.
LEMMA KeysAddUp ==
  ASSUME TypeOK, SessionInv, config.sessionDynamics, \A u \in Users : open[u] = 0
  PROVE  Overall.sessions = Len(records)
<1> DEFINE count == [u \in Users |-> Cardinality(Own(u))]
           f == [i \in DOMAIN records |-> records[i].user]
           T == UNION {{u} \X (1..count[u]) : u \in Users}
           g == [p \in T |-> <<p[1], p[2] - 1>>]
<1>1. Total(count) = Cardinality(DOMAIN records)
  <2>1. f \in [DOMAIN records -> Users]
    BY DEF SessionInv
  <2>2. \A u \in Users : count[u] = Cardinality({i \in DOMAIN records : f[i] = u})
    <3>1. \A u : {i \in DOMAIN records : f[i] = u} = Own(u)
      BY DEF Own
    <3> QED
      BY <3>1
  <2>3. IsFiniteSet(DOMAIN records)
    <3>1. 1 \in Int /\ Len(records) \in Int /\ DOMAIN records = 1..Len(records)
      BY DEF TypeOK
    <3> QED
      BY <3>1, FS_Interval
  <2>4. DOMAIN count = Users
    OBVIOUS
  <2> HIDE DEF count, f
  <2> QED
    BY <2>1, <2>2, <2>3, <2>4, TotalCounts
<1>2. Cardinality(DOMAIN records) = Len(records) /\ Len(records) \in Nat
  <2>0. PICK n : n = Len(records)
    OBVIOUS
  <2>1. 1 \in Int /\ n \in Int /\ DOMAIN records = 1..n /\ n \in Nat
    BY <2>0 DEF TypeOK
  <2>2. Cardinality(1..n) = n
    BY <2>1, FS_Interval
  <2> QED
    BY <2>0, <2>1, <2>2
<1>3. Total(count) = Cardinality(T) /\ IsFiniteSet(T)
  <2>1. DOMAIN count = Users /\ \A u \in Users : count[u] \in Nat
    BY OwnFacts
  <2>2. IsFiniteSet(Users)
    <3>1. 0 \in Int /\ users - 1 \in Int
      BY DEF TypeOK
    <3> QED
      BY <3>1, FS_Interval DEF Users
  <2> HIDE DEF count
  <2>3. IsFiniteSet(UNION {{u} \X (1..count[u]) : u \in DOMAIN count})
    BY <2>1, <2>2, TotalType
  <2> QED
    BY <2>1, <2>3 DEF Total
<1>4. \A u \in Users : count[u] \in Nat /\ LastKey(u) = count[u] - 1
  BY OwnFacts DEF LastKey
<1> HIDE DEF count
<1>5. \A p : p \in T <=> \E u \in Users : \E k \in 1..count[u] : p = <<u, k>>
  OBVIOUS
<1>6. \A p : p \in Keys <=> \E u \in Users : \E k \in 0..count[u] - 1 : p = <<u, k>>
  BY <1>4 DEF Keys
<1> HIDE DEF T
<1>7. g \in Bijection(T, Keys)
  <2>1. ASSUME NEW p \in T PROVE g[p] \in Keys
    <3>0. PICK u \in Users : \E k \in 1..count[u] : p = <<u, k>>
      BY <1>5
    <3>1. PICK k \in 1..count[u] : p = <<u, k>>
      BY <3>0
    <3>2. k - 1 \in 0..count[u] - 1 /\ g[p] = <<u, k - 1>>
      BY <1>4, <3>1
    <3> QED
      BY <1>6, <3>2
  <2>2. ASSUME NEW p \in T, NEW q \in T, g[p] = g[q] PROVE p = q
    <3>0. PICK u \in Users, v \in Users : /\ \E k \in 1..count[u] : p = <<u, k>>
                                         /\ \E j \in 1..count[v] : q = <<v, j>>
      BY <1>5
    <3>1. PICK k \in 1..count[u] : p = <<u, k>>
      BY <3>0
    <3>2. PICK j \in 1..count[v] : q = <<v, j>>
      BY <3>0
    <3>3. g[p] = <<u, k - 1>> /\ g[q] = <<v, j - 1>>
      BY <3>1, <3>2
    <3>4. u = v /\ k - 1 = j - 1
      BY <2>2, <3>3
    <3>5. k \in Int /\ j \in Int
      BY <1>4
    <3>6. k = j
      BY <3>4, <3>5
    <3> QED
      BY <3>1, <3>2, <3>4, <3>6
  <2>3. ASSUME NEW p \in Keys PROVE \E q \in T : g[q] = p
    <3>0. PICK u \in Users : \E k \in 0..count[u] - 1 : p = <<u, k>>
      BY <1>6
    <3>1. PICK k \in 0..count[u] - 1 : p = <<u, k>>
      BY <3>0
    <3>2. k + 1 \in 1..count[u] /\ (k + 1) - 1 = k
      BY <1>4
    <3>3. <<u, k + 1>> \in T
      BY <1>5, <3>2
    <3>4. g[<<u, k + 1>>] = <<u, k>>
      BY <3>2, <3>3
    <3> QED
      BY <3>1, <3>3, <3>4
  <2>4. g \in [T -> Keys]
    BY <2>1
  <2> HIDE DEF g
  <2> QED
    BY <2>2, <2>3, <2>4 DEF Bijection, Injection, IsInjective, Surjection
<1>8. Cardinality(Keys) = Cardinality(T)
  <2>1. ExistsBijection(T, Keys)
    BY <1>7 DEF ExistsBijection
  <2> QED
    BY <1>3, <2>1, FS_Bijection
<1>9. Overall.sessions = Cardinality(Keys)
  BY LedgerRounds DEF Overall, SessionInv, LedgerKeys
<1> QED
  BY <1>1, <1>2, <1>3, <1>8, <1>9

\* Any class of the records adds up over the rounds.
LEMMA ByRound ==
  ASSUME TypeOK, SessionInv, NEW S \in SUBSET DOMAIN records,
         NEW count, DOMAIN count = DOMAIN ledger,
         \A r \in DOMAIN ledger : count[r] = Cardinality({i \in S : records[i].round \in {r}})
  PROVE  Total(count) = Cardinality({i \in S : records[i].round \in DOMAIN ledger})
<1> DEFINE f == [i \in S |-> records[i].round]
           R == DOMAIN ledger
<1>1. IsFiniteSet(S)
  <2>1. 1 \in Int /\ Len(records) \in Int /\ DOMAIN records = 1..Len(records)
    BY DEF TypeOK
  <2>2. IsFiniteSet(DOMAIN records)
    BY <2>1, FS_Interval
  <2> QED
    BY <2>2, FS_Subset
<1>2. \A i \in S : records[i].round \in R
  BY LedgerRounds DEF SessionInv
<1>3. {i \in S : records[i].round \in DOMAIN ledger} = S
  BY <1>2
<1>4. f \in [S -> R]
  BY <1>2
<1>5. \A r \in R : count[r] = Cardinality({i \in S : f[i] = r})
  <2>1. \A r \in R : {i \in S : records[i].round \in {r}} = {i \in S : f[i] = r}
    OBVIOUS
  <2> QED
    BY <2>1
<1> HIDE DEF f
<1>6. Total(count) = Cardinality(S)
  BY <1>1, <1>4, <1>5, TotalCounts
<1> QED
  BY <1>3, <1>6

\* The health of the run is the sum of that of its rounds.
LEMMA HealthAddsUp ==
  ASSUME TypeOK, SessionInv, NEW f \in {"sessions", "open", "linked"}
  PROVE  LET byRound == [r \in DOMAIN ledger |-> SessionHealth(records, {r})]
         IN Total([r \in DOMAIN byRound |-> byRound[r][f]])
              = SessionHealth(records, DOMAIN ledger)[f]
<1> DEFINE byRound == [r \in DOMAIN ledger |-> SessionHealth(records, {r})]
           count == [r \in DOMAIN byRound |-> byRound[r][f]]
           closed == {i \in DOMAIN records : ~records[i].ended}
           ended == {i \in DOMAIN records : records[i].ended}
           linked == Linked(records)
<1>1. DOMAIN count = DOMAIN ledger /\ \A r \in DOMAIN ledger : count[r] = SessionHealth(records, {r})[f]
  OBVIOUS
<1>2. \A R : /\ SessionHealth(records, R).sessions = Cardinality({i \in closed : records[i].round \in R})
             /\ SessionHealth(records, R).open = Cardinality({i \in ended : records[i].round \in R})
             /\ SessionHealth(records, R).linked = Cardinality({i \in linked : records[i].round \in R})
  <2>1. \A R : /\ {i \in closed : records[i].round \in R}
                    = {i \in {j \in DOMAIN records : records[j].round \in R} : ~records[i].ended}
               /\ {i \in ended : records[i].round \in R}
                    = {i \in {j \in DOMAIN records : records[j].round \in R} : records[i].ended}
    OBVIOUS
  <2> QED
    BY <2>1 DEF SessionHealth
<1>3. closed \in SUBSET DOMAIN records /\ ended \in SUBSET DOMAIN records /\ linked \in SUBSET DOMAIN records
  BY DEF Linked
<1> HIDE DEF count, closed, ended, linked
<1>4. Total(count) = SessionHealth(records, DOMAIN ledger)[f]
  <2>1. CASE f = "sessions"
    <3>1. \A r \in DOMAIN ledger : count[r] = Cardinality({i \in closed : records[i].round \in {r}})
      BY <1>1, <1>2, <2>1
    <3>2. Total(count) = Cardinality({i \in closed : records[i].round \in DOMAIN ledger})
      BY <1>1, <1>3, <3>1, ByRound
    <3> QED
      BY <1>2, <2>1, <3>2
  <2>2. CASE f = "open"
    <3>1. \A r \in DOMAIN ledger : count[r] = Cardinality({i \in ended : records[i].round \in {r}})
      BY <1>1, <1>2, <2>2
    <3>2. Total(count) = Cardinality({i \in ended : records[i].round \in DOMAIN ledger})
      BY <1>1, <1>3, <3>1, ByRound
    <3> QED
      BY <1>2, <2>2, <3>2
  <2>3. CASE f = "linked"
    <3>1. \A r \in DOMAIN ledger : count[r] = Cardinality({i \in linked : records[i].round \in {r}})
      BY <1>1, <1>2, <2>3
    <3>2. Total(count) = Cardinality({i \in linked : records[i].round \in DOMAIN ledger})
      BY <1>1, <1>3, <3>1, ByRound
    <3> QED
      BY <1>2, <2>3, <3>2
  <2> QED
    BY <2>1, <2>2, <2>3
<1> QED
  BY <1>4 DEF count

\* Every record is of a session that ended or of one left open.
LEMMA RecordsAddUp ==
  ASSUME TypeOK, SessionInv
  PROVE  LET health == SessionHealth(records, DOMAIN ledger)
         IN health.sessions + health.open = Len(records)
<1> DEFINE closed == {i \in DOMAIN records : ~records[i].ended}
           ended == {i \in DOMAIN records : records[i].ended}
           health == SessionHealth(records, DOMAIN ledger)
<1>0. PICK n : n = Len(records)
  OBVIOUS
<1>1. DOMAIN records = 1..n /\ n \in Nat /\ 1 \in Int /\ n \in Int
  BY <1>0 DEF TypeOK
<1>2. IsFiniteSet(1..n) /\ Cardinality(1..n) = n
  BY <1>1, FS_Interval
<1>3. \A i \in DOMAIN records : records[i].round \in DOMAIN ledger
  BY LedgerRounds DEF SessionInv
<1>4. /\ health.sessions = Cardinality(closed)
      /\ health.open = Cardinality(ended)
  <2>1. /\ {i \in {j \in DOMAIN records : records[j].round \in DOMAIN ledger} : ~records[i].ended} = closed
        /\ {i \in {j \in DOMAIN records : records[j].round \in DOMAIN ledger} : records[i].ended} = ended
    BY <1>3
  <2> QED
    BY <2>1 DEF SessionHealth
<1>5. closed \in SUBSET (1..n) /\ ended \in SUBSET (1..n) /\ closed \cup ended = 1..n /\ closed \cap ended = {}
  BY <1>1
<1> HIDE DEF closed, ended, health
<1>6. Cardinality(closed) + Cardinality(ended) = n
  BY <1>2, <1>5, TwoParts
<1>7. health.sessions + health.open = n
  BY <1>4, <1>6
<1> QED
  BY <1>0, <1>7 DEF health

\* A user has records exactly if it has recorded impressions.
LEMMA RecordedSome ==
  ASSUME TypeOK, SessionInv, NEW u
  PROVE  Recorded(u) > 0 <=> Own(u) # {}
<1> DEFINE row == [i \in Own(u) |-> records[i].impressions]
           T == UNION {{x} \X (1..row[x]) : x \in DOMAIN row}
<1>1. Recorded(u) = Cardinality(T) /\ IsFiniteSet(T)
  <2>1. DOMAIN row = Own(u) /\ IsFiniteSet(DOMAIN row) /\ \A x \in DOMAIN row : row[x] \in Nat
    BY OwnFacts
  <2>2. Recorded(u) = Total(row)
    BY DEF Recorded
  <2> HIDE DEF row
  <2> QED
    BY <2>1, <2>2, TotalType DEF Total
<1>2. T = {} <=> Own(u) = {}
  <2>1. \A i \in Own(u) : row[i] \in Nat /\ row[i] > 0
    BY OwnFacts DEF SessionInv, Own
  <2>2. DOMAIN row = Own(u)
    OBVIOUS
  <2> HIDE DEF row
  <2>3. \A i \in Own(u) : <<i, 1>> \in T
    BY <2>1, <2>2
  <2>4. Own(u) = {} => T = {}
    BY <2>2
  <2> QED
    BY <2>3, <2>4
<1> HIDE DEF T
<1>3. Cardinality(T) \in Nat /\ (Cardinality(T) = 0 <=> T = {})
  BY <1>1, FS_CardinalityType, FS_EmptySet
<1> QED
  BY <1>1, <1>2, <1>3

\* Every record but the first of each user is linked to one before.
LEMMA LinksAddUp ==
  ASSUME TypeOK, SessionInv, \A u \in Users : open[u] = 0
  PROVE  SessionHealth(records, DOMAIN ledger).linked
           = Len(records) - Cardinality({u \in Users : config.sessionDynamics /\ total[u] > 0})
<1> DEFINE linked == Linked(records)
           first == {i \in DOMAIN records : \A j \in 1..(i - 1) : records[j].user # records[i].user}
           met == {u \in Users : Own(u) # {}}
           f == [i \in first |-> records[i].user]
<1>0. PICK n : n = Len(records)
  OBVIOUS
<1>1. DOMAIN records = 1..n /\ n \in Nat /\ 1 \in Int /\ n \in Int
  BY <1>0 DEF TypeOK
<1>2. IsFiniteSet(1..n) /\ Cardinality(1..n) = n
  BY <1>1, FS_Interval
<1>3. linked \cup first = 1..n /\ linked \cap first = {} /\ linked \in SUBSET (1..n) /\ first \in SUBSET (1..n)
  BY <1>1 DEF Linked
<1>4. f \in Bijection(first, met)
  <2>1. ASSUME NEW i \in first PROVE f[i] \in met
    <3>1. i \in Own(records[i].user) /\ records[i].user \in Users
      BY DEF Own, SessionInv
    <3> QED
      BY <3>1
  <2>2. ASSUME NEW i \in first, NEW j \in first, f[i] = f[j] PROVE i = j
    <3>1. i \in Int /\ j \in Int /\ i > 0 /\ j > 0 /\ records[i].user = records[j].user
      BY <1>1, <2>2
    <3>2. ~(i < j) /\ ~(j < i)
      BY <3>1
    <3> QED
      BY <3>1, <3>2
  <2>3. ASSUME NEW u \in met PROVE \E i \in first : f[i] = u
    <3>1. Own(u) \in SUBSET Nat /\ Own(u) # {}
      BY <1>1 DEF Own
    <3>2. PICK i \in Own(u) : \A j \in Own(u) : i <= j
      BY <3>1, LeastNat
    <3>3. i \in DOMAIN records /\ records[i].user = u /\ i \in 1..n
      BY <1>1 DEF Own
    <3>4. ASSUME NEW j \in 1..(i - 1) PROVE records[j].user # u
      <4>1. j \in 1..n /\ ~(i <= j)
        BY <1>1, <3>3
      <4> QED
        BY <1>1, <3>2, <4>1 DEF Own
    <3>5. i \in first
      BY <3>3, <3>4
    <3> QED
      BY <3>3, <3>5
  <2>4. f \in [first -> met]
    BY <2>1
  <2> HIDE DEF f, first, met
  <2> QED
    BY <2>2, <2>3, <2>4 DEF Bijection, Injection, IsInjective, Surjection
<1>5. met = {u \in Users : config.sessionDynamics /\ total[u] > 0}
  <2>1. ASSUME NEW u \in Users PROVE Own(u) # {} <=> config.sessionDynamics /\ total[u] > 0
    <3>1. CASE config.sessionDynamics
      <4>1. Recorded(u) + open[u] = total[u] /\ open[u] = 0 /\ Recorded(u) \in Nat
        BY <3>1, OwnFacts DEF SessionInv
      <4> QED
        BY <3>1, <4>1, RecordedSome
    <3>2. CASE ~config.sessionDynamics
      BY <3>2 DEF SessionInv, Own
    <3> QED
      BY <3>1, <3>2
  <2> QED
    BY <2>1
<1>6. \A i \in DOMAIN records : records[i].round \in DOMAIN ledger
  BY LedgerRounds DEF SessionInv
<1>7. SessionHealth(records, DOMAIN ledger).linked = Cardinality(linked)
  <2>1. {i \in Linked(records) : records[i].round \in DOMAIN ledger} = linked
    BY <1>6 DEF Linked
  <2> QED
    BY <2>1 DEF SessionHealth
<1> HIDE DEF linked, first, met, f
<1>8. /\ IsFiniteSet(first) /\ Cardinality(linked) \in Nat /\ Cardinality(first) \in Nat
      /\ Cardinality(linked) + Cardinality(first) = n
  BY <1>2, <1>3, TwoParts
<1>9. Cardinality(met) = Cardinality(first)
  <2>1. ExistsBijection(first, met)
    BY <1>4 DEF ExistsBijection
  <2> QED
    BY <1>8, <2>1, FS_Bijection
<1>10. Cardinality(linked) = n - Cardinality(met)
  BY <1>1, <1>8, <1>9
<1> QED
  BY <1>0, <1>5, <1>7, <1>10

\* The users of the report are the drifted and the others.
LEMMA CohortsAddUp ==
  ASSUME TypeOK
  PROVE  AdaptationReport.driftedUsers + AdaptationReport.controlUsers = users
<1> DEFINE yes == {u \in Users : drifted[u]}
           no == {u \in Users : ~drifted[u]}
<1>1. IsFiniteSet(Users) /\ Cardinality(Users) = users
  <2>1. 0 \in Int /\ users - 1 \in Int /\ users \in Nat
    BY DEF TypeOK
  <2>2. IsFiniteSet(0..users - 1) /\ Cardinality(0..users - 1) = users
    <3>0. PICK n : n = users - 1
      OBVIOUS
    <3>1. IsFiniteSet(0..n) /\ Cardinality(0..n) = IF 0 > n THEN 0 ELSE n - 0 + 1
      BY <2>1, <3>0, FS_Interval
    <3> QED
      BY <2>1, <3>0, <3>1
  <2> QED
    BY <2>2 DEF Users
<1>2. yes \in SUBSET Users /\ no \in SUBSET Users /\ yes \cup no = Users /\ yes \cap no = {}
  OBVIOUS
<1>3. AdaptationReport.driftedUsers = Cardinality(yes) /\ AdaptationReport.controlUsers = Cardinality(no)
  BY DEF AdaptationReport
<1> HIDE DEF yes, no
<1>4. Cardinality(yes) + Cardinality(no) = users
  BY <1>1, <1>2, TwoParts
<1> QED
  BY <1>3, <1>4

\* The exposure of the last round is that of the run: no reel is exposed without
\* an impression, and none but those injected.
LEMMA ExposureAddsUp ==
  ASSUME TypeOK, LoggedInv, CountsInv, round = Rounds, Rounds > 0
  PROVE  LET last == NewReelExposure[Rounds - 1] IN
         /\ last.distinct = Cardinality(exposed)
         /\ last.cumulative >= last.distinct
         /\ last.distinct <= config.newReels
<1>1. PICK R : R = Rounds
  OBVIOUS
<1>2. R \in Nat /\ R > 0 /\ R - 1 \in 0..R - 1 /\ R - 1 < R /\ DOMAIN ledger = 0..R - 1
  BY <1>1, LedgerRounds
<1> DEFINE count == [q \in 0..R - 1 |-> ledger[q].injected]
           all == {q \in Logged : InjectedReel(Entry(q).reel)}
<1>3. /\ NewReelExposure[R - 1].distinct = ledger[R - 1].distinct
      /\ NewReelExposure[R - 1].cumulative = Total(count)
  BY <1>2 DEF NewReelExposure
<1>4. ledger[R - 1].distinct = Cardinality(exposed)
  <2>1. ledger[R - 1].distinct = Cardinality(ExposedBy(R - 1))
    BY <1>1, <1>2 DEF CountsInv
  <2>2. ExposedBy(R - 1) = exposed
    <3>1. \A p \in Logged : Entry(p).round <= R - 1
      BY <1>1, <1>2 DEF LoggedInv
    <3>2. InjectedBy(R - 1) = all
      BY <3>1 DEF InjectedBy
    <3> QED
      BY <3>2 DEF ExposedBy, CountsInv, Exposures
  <2> QED
    BY <2>1, <2>2
<1>5. IsFiniteSet(all)
  <2>1. all \in SUBSET Logged /\ IsFiniteSet(Logged)
    BY DEF LoggedInv
  <2> QED
    BY <2>1, FS_Subset
<1>6. Total(count) = Cardinality(all)
  <2> DEFINE f == [p \in all |-> Entry(p).round]
             D == 0..R - 1
  <2>1. f \in [all -> D]
    BY <1>1 DEF LoggedInv
  <2>2. \A r \in D : count[r] = Cardinality({p \in all : f[p] = r})
    <3>1. \A r : {p \in all : f[p] = r} = InjectedOf(r)
      BY DEF InjectedOf
    <3> QED
      BY <1>1, <3>1 DEF CountsInv
  <2>3. DOMAIN count = D
    OBVIOUS
  <2> HIDE DEF f, count, D, all
  <2> QED
    BY <1>5, <2>1, <2>2, <2>3, TotalCounts
<1>7. Cardinality(exposed) <= Cardinality(all)
  <2> DEFINE g == [p \in all |-> Entry(p).reel]
  <2>1. g \in Surjection(all, exposed)
    BY DEF CountsInv, Exposures, Surjection
  <2> HIDE DEF g, all
  <2> QED
    BY <1>5, <2>1, FS_Surjection
<1>8. Cardinality(exposed) <= config.newReels
  <2>1. PICK a, b : a = config.reels /\ b = reels
    OBVIOUS
  <2>2. a \in Nat /\ b \in Nat /\ config.newReels \in Nat /\ b <= a + config.newReels
    <3>1. config \in Config
      BY ConfigFacts
    <3> QED
      BY <2>1, <3>1 DEF Config, LoggedInv, TypeOK
  <2>3. exposed \in SUBSET (a..b - 1)
    <3>1. ASSUME NEW x \in exposed PROVE x \in a..b - 1
      <4>1. PICK p \in Logged : x = Entry(p).reel /\ InjectedReel(Entry(p).reel)
        BY DEF CountsInv, Exposures
      <4>2. x \in 0..b - 1 /\ x >= a
        BY <2>1, <4>1 DEF LoggedInv, InjectedReel
      <4> QED
        BY <2>2, <4>2
    <3> QED
      BY <3>1
  <2>4. a \in Int /\ b - 1 \in Int
    BY <2>2
  <2>5. IsFiniteSet(a..b - 1) /\ Cardinality(a..b - 1) = IF a > b - 1 THEN 0 ELSE (b - 1) - a + 1
    BY <2>4, FS_Interval
  <2>6. Cardinality(exposed) \in Nat /\ Cardinality(exposed) <= Cardinality(a..b - 1)
    BY <2>3, <2>5, FS_Subset, FS_CardinalityType
  <2> QED
    BY <2>2, <2>5, <2>6
<1>9. Cardinality(all) \in Nat /\ Cardinality(exposed) \in Nat
  BY <1>5, FS_CardinalityType DEF TypeOK
<1> HIDE DEF all, count
<1> QED
  BY <1>1, <1>3, <1>4, <1>6, <1>7, <1>8, <1>9

\* What the ledgers of each round, the session records and the result say is what
\* the users saw: an impression is counted once, in its own round, cohort and
\* reel group and in one session, and the result pools the rounds without
\* counting a session or a user twice.
THEOREM LedgersAgreeCorrect == Spec => []LedgersAgree
<1>1. ASSUME TypeOK, BudgetInv, DriftInv, LoggedInv, CountsInv, SessionInv, ReportInv, stage = "done"
      PROVE  ResultAddsUp
  <2>1. /\ report.overall = Overall
        /\ report.sessionHealth = SessionHealth(records, DOMAIN ledger)
        /\ report.byRound = [r \in DOMAIN ledger |-> SessionHealth(records, {r})]
        /\ report.exposure = NewReelExposure /\ round = Rounds
        /\ \A u \in Users : open[u] = 0
    BY <1>1 DEF ReportInv, SessionInv
  <2>2. report.overall.impressions = Total(total)
    BY <1>1, <2>1, ImpressionsAddUp
  <2>3. report.sessionHealth.sessions + report.sessionHealth.open = Len(records)
    BY <1>1, <2>1, RecordsAddUp
  <2>4. config.sessionDynamics => report.overall.sessions = Len(records)
    BY <1>1, <2>1, KeysAddUp
  <2>5. report.sessionHealth.linked
          = Len(records) - Cardinality({u \in Users : config.sessionDynamics /\ total[u] > 0})
    BY <1>1, <2>1, LinksAddUp
  <2>6. \A f \in {"sessions", "open", "linked"} :
          Total([r \in DOMAIN report.byRound |-> report.byRound[r][f]]) = report.sessionHealth[f]
    BY <1>1, <2>1, HealthAddsUp
  <2>7. Rounds > 0 => /\ report.exposure[Rounds - 1].distinct = Cardinality(exposed)
                      /\ report.exposure[Rounds - 1].cumulative >= report.exposure[Rounds - 1].distinct
                      /\ report.exposure[Rounds - 1].distinct <= config.newReels
    BY <1>1, <2>1, ExposureAddsUp
  <2>8. config.drift # <<>> =>
          report.adaptation.driftedUsers + report.adaptation.controlUsers = users
    BY <1>1, CohortsAddUp DEF DriftInv
  <2> QED
    BY <2>2, <2>3, <2>4, <2>5, <2>6, <2>7, <2>8 DEF ResultAddsUp
<1>2. ASSUME TypeOK, CountsInv, NEW r \in DOMAIN ledger
      PROVE  /\ ledger[r].impressions = Cardinality({p \in Logged : Entry(p).round = r})
             /\ ledger[r].drifted =
                  Cardinality({p \in Logged : Entry(p).round = r /\ EverApplies(p[1])})
             /\ ledger[r].injected =
                  Cardinality({p \in Logged : Entry(p).round = r /\ InjectedReel(Entry(p).reel)})
             /\ r < round => ledger[r].distinct =
                  Cardinality({Entry(p).reel :
                    p \in {q \in Logged : Entry(q).round <= r /\ InjectedReel(Entry(q).reel)}})
  <2>1. r \in 0..Rounds - 1
    BY <1>2, LedgerRounds
  <2> QED
    BY <1>2, <2>1 DEF CountsInv, OfRound, DriftedOf, InjectedOf, InjectedBy, ExposedBy
<1>3. ASSUME SessionInv, config.sessionDynamics, NEW u \in Users
      PROVE  LET own == {i \in DOMAIN records : records[i].user = u}
             IN Total([i \in own |-> records[i].impressions]) + open[u] = total[u]
  BY <1>3 DEF SessionInv, Recorded, Own
<1>4. TypeOK /\ BudgetInv /\ DriftInv /\ LoggedInv /\ CountsInv /\ SessionInv /\ ReportInv => LedgersAgree
  BY <1>1, <1>2, <1>3 DEF LedgersAgree
<1> QED
  BY <1>4, Budgets, Drifts, Ledgers, Sessions, Reports, PTL
=============================================================================
