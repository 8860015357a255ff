------------------------------ MODULE DayLedger ------------------------------
(***************************************************************************)
(* The per-day books of an event-driven run: counts bucketed by the day of *)
(* the event, sessions by the day they start, and population snapshots taken  *)
(* when the day advances and at the end.  The population is its clock, the *)
(* impressions consumed so far: preferences, estimates and trust (from one *)
(* session end to the next) move with impressions only.                    *)
(***************************************************************************)
EXTENDS Integers

CONSTANT LastDay  \* numDays - 1

VARIABLES
  processedDay,   \* -1 while anyProcessed is false
  snapshot,       \* alignmentByDay and the long-term series; -1 when never set
  impressionsBy,  \* servingByDay[].impressions, metrics and welfare buckets
  requestsBy,     \* servingByDay[].feedRequests
  closedBy,       \* sessionHealth: closed sessions, by the day they end
  startedBy,      \* ltDay[].sessions: closed sessions, by the day they start
  drained         \* RunEnded records added to the last day

ledgerVars == <<processedDay, snapshot, impressionsBy, requestsBy, closedBy,
                startedBy, drained>>

\* The days of the run.
Day == 0..LastDay

LedgerInit ==
  /\ processedDay = -1
  /\ snapshot = [d \in Day |-> -1]
  /\ impressionsBy = [d \in Day |-> 0] /\ requestsBy = [d \in Day |-> 0]
  /\ closedBy = [d \in Day |-> 0] /\ startedBy = [d \in Day |-> 0]
  /\ drained = 0

\* Mutant: only the day just left is filled.
FillLastOnly(from, upto, clock) ==
  [d \in Day |-> IF d = from /\ d < upto THEN clock ELSE snapshot[d]]

\* The days from..upto-1 get the snapshot taken now.
FillDays(from, upto, clock) ==
  [d \in Day |-> IF from <= d /\ d < upto THEN clock ELSE snapshot[d]]

\* A group of the given day begins.
DayAdvances(day, clock) ==
  /\ snapshot' = IF processedDay # -1 /\ day # processedDay
                 THEN FillDays(processedDay, day, clock) ELSE snapshot
  /\ processedDay' = day
  /\ UNCHANGED <<impressionsBy, requestsBy, closedBy, startedBy, drained>>

CountRequest(day) ==
  /\ requestsBy' = [requestsBy EXCEPT ![day] = @ + 1]
  /\ UNCHANGED <<processedDay, snapshot, impressionsBy, closedBy, startedBy,
                 drained>>

\* Mutant: the two session books swap their days.
CountSwapped(day, exits, startDay) ==
  /\ impressionsBy' = [impressionsBy EXCEPT ![day] = @ + 1]
  /\ IF exits
     THEN /\ closedBy' = [closedBy EXCEPT ![startDay] = @ + 1]
          /\ startedBy' = [startedBy EXCEPT ![day] = @ + 1]
     ELSE UNCHANGED <<closedBy, startedBy>>
  /\ UNCHANGED <<processedDay, snapshot, requestsBy, drained>>

\* An impression; when it exits, its session began on startDay: the session's
\* health is booked on the day it ends, its retention on the day it started.
CountImpression(day, exits, startDay) ==
  /\ impressionsBy' = [impressionsBy EXCEPT ![day] = @ + 1]
  /\ IF exits
     THEN /\ closedBy' = [closedBy EXCEPT ![day] = @ + 1]
          /\ startedBy' = [startedBy EXCEPT ![startDay] = @ + 1]
     ELSE UNCHANGED <<closedBy, startedBy>>
  /\ UNCHANGED <<processedDay, snapshot, requestsBy, drained>>

\* The end of the run: a final snapshot fills the last active day and all
\* after it, and the sessions still open go to the last day's health only.
CloseLedger(clock, openSessions) ==
  /\ snapshot' = FillDays(IF processedDay = -1 THEN 0 ELSE processedDay,
                          LastDay + 1, clock)
  /\ drained' = openSessions
  /\ UNCHANGED <<processedDay, impressionsBy, requestsBy, closedBy, startedBy>>
=============================================================================
