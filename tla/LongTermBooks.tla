---------------------------- MODULE LongTermBooks ----------------------------
(***************************************************************************)
(* The long-term and ecosystem books of the event-driven runner, kept      *)
(* beside the users' own state, and the reports the run ends with: days of *)
(* sessions, retention windows, churn, and who is shown.                   *)
(*                                                                         *)
(* A day book is filled by three handlers that disagree on whose day it    *)
(* is: an impression counts on the day it starts, its session's health on  *)
(* the day of the impression that closed it, the session itself on the day *)
(* it began, and a churn on the day the user left.  Satisfaction, trust    *)
(* and preference shift are left out.                                      *)
(***************************************************************************)
EXTENDS UserDynamics

CONSTANTS
  DayLength,   \* kSecondsPerSimulatedDay
  Horizon,     \* simulation.horizonSeconds
  ShortWindow, \* days of retention_1d
  LongWindow,  \* days of retention_7d
  Decile,      \* exposed creators per head creator
  NicheReels,  \* reels with an active niche band
  Cohort       \* users whose hash is in the band

ASSUME BooksAssumption ==
  /\ DayLength \in Nat \ {0} /\ Horizon \in Nat /\ Decile \in Nat \ {0}
  /\ ShortWindow \in Nat /\ LongWindow \in Nat /\ ShortWindow <= LongWindow
  /\ Reels \subseteq Nat /\ IsFiniteSet(Reels) /\ NicheReels \subseteq Reels /\ Cohort \subseteq Users

VARIABLES
  healthDay,    \* SessionHealthMetrics.rounds_
  longTermDay,  \* ltDay: sessions and active users
  userSessions, \* starts of the closed sessions of each user
  churnDay,     \* day of each user's churn, -1 for none
  returnDelays, \* number of returns scheduled
  ecosystemDay, \* ecoDay: impressions by creator, and the niche ones
  report        \* the result, a record once the run is over

books == <<healthDay, longTermDay, userSessions, churnDay, returnDelays, ecosystemDay, report>>
booksVars == <<dynVars, books>>

NumDays == Horizon \div DayLength + 1
Days == 0..NumDays - 1
DayOf(t) == Min({t \div DayLength, NumDays - 1})

\* The gates of the two groups of books.
LongTermGate == gates \cap {"evolution", "retention"} # {}

BooksInit ==
  /\ DynInit
  /\ healthDay = [d \in Days |-> NoHealth]
  /\ longTermDay = [d \in Days |-> [sessions |-> 0, active |-> {}]]
  /\ userSessions = [u \in Users |-> <<>>] /\ churnDay = [u \in Users |-> -1]
  /\ returnDelays = 0
  /\ ecosystemDay = [d \in Days |-> [impressions |-> 0, creators |-> [r \in Reels |-> 0],
                                     niche |-> 0, matches |-> 0]]
  /\ report = <<>>
------------------------------------------------------------------------------
\* The ecosystem tallies of an impression: its creator and its niche.
CountEcosystem(u, r, day) ==
  LET counted(row) ==
        [impressions |-> row.impressions + 1,
         creators |-> [row.creators EXCEPT ![r] = @ + 1],
         niche |-> row.niche + (IF r \in NicheReels THEN 1 ELSE 0),
         matches |-> row.matches + (IF r \in NicheReels /\ u \in Cohort THEN 1 ELSE 0)]
  IN ecosystemDay' = [ecosystemDay EXCEPT ![day] = counted(@)]

\* Mutant: a session is active on the day it ends.
ActiveWhenClosed(rec) == rec.end

\* The time that dates a session.
DatedAt(rec) == rec.start

\* A closed session: on the long-term book of the day it began.
BookSession(u, rec) ==
  IF LongTermGate
  THEN /\ longTermDay' = [longTermDay EXCEPT ![DayOf(DatedAt(rec))] =
                            [sessions |-> @.sessions + 1, active |-> @.active \cup {u}]]
       /\ userSessions' = [userSessions EXCEPT ![u] = Append(@, rec.start)]
  ELSE UNCHANGED <<longTermDay, userSessions>>

\* What the handler of StartReel books, after the step.
BookImpression(u, r, start, watch) ==
  /\ start <= Horizon
  /\ Impression(u, r, start, watch)
  /\ CountEcosystem(u, r, DayOf(start))
  /\ IF Last(events'[u]).exit
     THEN /\ BookSession(u, Last(records'[u]))
          /\ healthDay' = [healthDay EXCEPT ![DayOf(start)] = Tallied(@, {u}, "closed")]
     ELSE UNCHANGED <<longTermDay, userSessions, healthDay>>
  /\ UNCHANGED <<churnDay, returnDelays, report>>

\* ExitApp, dropped beyond the horizon: a return is drawn, or the first churn
\* of the user is dated.
BookExit(u, delay) ==
  /\ ready[u] <= Horizon
  /\ ExitApp(u, delay)
  /\ IF u \in churned'
     THEN /\ churnDay' = IF LongTermGate /\ churnDay[u] < 0
                         THEN [churnDay EXCEPT ![u] = DayOf(ready[u])] ELSE churnDay
          /\ UNCHANGED returnDelays
     ELSE returnDelays' = returnDelays + 1 /\ UNCHANGED churnDay
  /\ UNCHANGED <<healthDay, longTermDay, userSessions, ecosystemDay, report>>
------------------------------------------------------------------------------
(* The reports. *)

\* The day rows of the long-term report.
LongTermRow(d) ==
  [sessions |-> longTermDay[d].sessions,
   active |-> longTermDay[d].active,
   churned |-> {u \in Users : churnDay[u] \in 0..d}]

\* The users with a closed session, and the end of the day of their first.
Participating == {u \in Users : userSessions[u] # <<>>}
FirstDayEnd(u) == (Min(Range(userSessions[u])) \div DayLength + 1) * DayLength

\* The users with a session that starts within n days after that end.
Retained(n) ==
  {u \in Participating :
     \E s \in Range(userSessions[u]) :
       s > FirstDayEnd(u) /\ s <= FirstDayEnd(u) + n * DayLength}

LongTermReport ==
  [byDay |-> [d \in Days |-> LongTermRow(d)],
   participating |-> Participating,
   short |-> Retained(ShortWindow), long |-> Retained(LongWindow),
   churned |-> {u \in Users : churnDay[u] >= 0}]

\* Impressions of each creator over the days D.
CreatorImpressions(D) ==
  [r \in Reels |-> Total([d \in D |-> ecosystemDay[d].creators[r]], D)]

\* The head: of the creators exposed so far the first tenth, most shown first
\* and the lower id first among equals.
HeadCreators(shown) ==
  LET exposed == {r \in Reels : shown[r] > 0}
      before(a, b) == shown[a] > shown[b] \/ (shown[a] = shown[b] /\ a < b)
  IN {r \in exposed : Cardinality({q \in exposed : before(q, r)})
                        < Cardinality(exposed) \div Decile}

\* The impressions of a period on creators outside the head of the ranking.
TailImpressions(shown, period) ==
  Total(period, Reels \ HeadCreators(shown))

\* Squared impressions, the numerator of the Herfindahl index.
Concentration(period) == Total([r \in Reels |-> period[r] * period[r]], Reels)

EcosystemRow(d) ==
  [impressions |-> ecosystemDay[d].impressions,
   hhi |-> Concentration(ecosystemDay[d].creators),
   tail |-> TailImpressions(CreatorImpressions(0..d), ecosystemDay[d].creators),
   niche |-> ecosystemDay[d].niche, matches |-> ecosystemDay[d].matches]

\* The day whose concentration stands for the end of the run: the last one
\* with impressions, -1 when there is none.
FinalDay == Max({-1} \cup {d \in Days : ecosystemDay[d].impressions > 0})

EcosystemReport ==
  LET whole == CreatorImpressions(Days) IN
  [byDay |-> [d \in Days |-> EcosystemRow(d)], finalDay |-> FinalDay,
   hhi |-> Concentration(whole), tail |-> TailImpressions(whole, whole)]

\* The run ends: drain into the last day, then the reports.
CloseBooks ==
  /\ \A u \in leaving : ready[u] > Horizon
  /\ DrainSessions
  /\ healthDay' = [healthDay EXCEPT ![NumDays - 1] = Tallied(@, OpenUsers, "open")]
  /\ report' = [sessions |-> health'.closed,
                longTerm |-> IF LongTermGate THEN LongTermReport ELSE <<>>,
                ecosystem |-> EcosystemReport]
  /\ UNCHANGED <<longTermDay, userSessions, churnDay, returnDelays, ecosystemDay>>

\* The round-robin runner keeps none of these.
NoBooks == clock = "shared" /\ DynNext /\ UNCHANGED books

BooksNext ==
  \/ NoBooks
  \/ clock = "event" /\
     (\/ \E u \in Users, r \in Reels, start \in Starts \cup {now}, watch \in WatchTimes :
           BookImpression(u, r, start, watch)
      \/ \E u \in Users, delay \in ReturnDelays : BookExit(u, delay)
      \/ CloseBooks)

BooksSpec == BooksInit /\ [][BooksNext]_booksVars
------------------------------------------------------------------------------
\* The books of sessions agree, whatever day each takes for its own: every
\* closed session is in each once, in the long-term book no later than in the
\* health of the day, and each return drawn, churn or exit still pending
\* answers one of them.
SessionBooksAgree ==
  clock = "event" =>
    LET booked(d) == Total([e \in Days |-> longTermDay[e].sessions], 0..d)
        closed(d) == Total([e \in Days |-> healthDay[e].closed], 0..d)
    IN /\ \A k \in {"closed", "open", "linked"} :
            Total([d \in Days |-> healthDay[d][k]], Days) = health[k]
       /\ returnDelays + Cardinality(churned) + Cardinality(leaving) = health.closed
       /\ LongTermGate => /\ booked(NumDays - 1) = health.closed
                          /\ \A d \in Days : booked(d) >= closed(d)
                          /\ Total([u \in Users |-> Len(userSessions[u])], Users) = health.closed

\* A user that churned was active that day or before and on no later day, and
\* is never in the cumulative churn of a day it is still active after.
ChurnEndsActivity ==
  LongTermGate =>
    \A u \in Users :
      /\ (churnDay[u] >= 0) <=> (u \in churned)
      /\ u \in churned => \A d \in Days : u \in longTermDay[d].active => d <= churnDay[u]

\* The reported retention is of users that came back on a later day, those of
\* the short window among those of the long one: never of a user whose first
\* day was its last, and surely of one active on two more days of the window
\* (a session at midnight after the first day is none of the next).
RetentionMeansReturn ==
  (report # <<>> /\ LongTermGate) =>
    LET days(u) == {d \in Days : u \in report.longTerm.byDay[d].active} IN
    /\ report.longTerm.short \subseteq report.longTerm.long
    /\ \A u \in report.longTerm.long : Cardinality(days(u)) > 1
    /\ \A u \in report.longTerm.participating :
         Cardinality({d \in days(u) : \A e \in days(u) : d <= e + LongWindow}) > 2
           => u \in report.longTerm.long
    /\ report.longTerm.churned = report.longTerm.byDay[NumDays - 1].churned

\* Every impression is in the ecosystem book of its day, where a session of
\* that day's books has one too; the final day is the day of the last one.
EcosystemComplete ==
  clock = "event" =>
    /\ Total([d \in Days |-> ecosystemDay[d].impressions], Days)
         = Total([u \in Users |-> Len(events[u])], Users)
    /\ \A d \in Days :
         /\ longTermDay[d].sessions + healthDay[d].closed > 0 => ecosystemDay[d].impressions > 0
         /\ ecosystemDay[d].matches <= ecosystemDay[d].niche
    /\ report # <<>> =>
         IF \A u \in Users : events[u] = <<>> THEN report.ecosystem.finalDay = -1
         ELSE /\ report.ecosystem.finalDay = DayOf(popped)
              /\ report.ecosystem.hhi >= report.ecosystem.byDay[DayOf(popped)].hhi

\* The books of the run agree with each other and with the users.
BooksAgree ==
  /\ SessionsBooked /\ SessionBooksAgree
  /\ ChurnEndsActivity /\ RetentionMeansReturn /\ EcosystemComplete
=============================================================================
