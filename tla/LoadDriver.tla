----------------------------- MODULE LoadDriver ------------------------------
(***************************************************************************)
(* One cell of the closed-loop load driver (benchmark_recommender's        *)
(* runCell): threads warm up, count down a latch and wait for a flag; main *)
(* waits for the latch, starts the clocks, raises the flag and joins.      *)
(* Each thread sends requests of its own shard of users through its own    *)
(* pipeline over the frozen index and writes only its own sample slot.     *)
(*                                                                         *)
(* A request is a begin and an end, so that threads overlap; what it       *)
(* computes is FeedPipeline's.  Threads and users are numbered from 0.     *)
(***************************************************************************)
EXTENDS Integers, FiniteSets

CONSTANTS
  ThreadCounts, \* the thread counts of the sweep
  UserCounts,   \* the sizes of the user population
  Warmup,       \* untimed requests per thread
  Timed         \* timed requests per thread

ASSUME CellAssumption ==
  /\ ThreadCounts \subseteq Nat \ {0}
  /\ UserCounts \subseteq Nat
  /\ Warmup \in Nat /\ Timed \in Nat

VARIABLES
  threads, users, \* the cell
  main,           \* where runCell is
  spawned,        \* threads started
  joined,         \* threads joined, in order
  merged,         \* slots merged, in order
  latch,          \* warmupDone
  go,             \* the start flag
  window,         \* the wall clock: "closed", "open" or "over"
  pc,             \* where each worker is
  served,         \* requests done in the worker's current loop
  serving,        \* the user of the request in flight, -1 for none
  slots,          \* samples in each worker's slot
  measured,       \* history: users of timed requests
  total           \* row.totalTimed

mainVars == <<main, spawned, joined, merged, window, total>>
workerVars == <<served, serving, slots, measured>>
cell == <<threads, users>>
vars == <<cell, mainVars, latch, go, pc, workerVars>>

T == 0..threads - 1

\* Mutant: the remainder goes to nobody.
ShardEven(t) ==
  LET chunk == users \div threads IN
  CASE users = 0 -> [begin |-> 0, size |-> 0]
    [] users # 0 /\ chunk = 0 -> [begin |-> t % users, size |-> 1]
    [] users # 0 /\ chunk # 0 -> [begin |-> t * chunk, size |-> chunk]

\* The users of thread t: consecutive chunks, the remainder to the last; when
\* there are fewer users than threads, one user that others may share.
ShardFor(t) ==
  LET chunk == users \div threads IN
  CASE users = 0 -> [begin |-> 0, size |-> 0]
    [] users # 0 /\ chunk = 0 -> [begin |-> t % users, size |-> 1]
    [] users # 0 /\ chunk # 0 -> [begin |-> t * chunk,
                                   size |-> IF t + 1 = threads THEN users - t * chunk ELSE chunk]

\* The loop over n requests is over, or the shard is empty.
LoopDone(t, n) == served[t] >= n \/ ShardFor(t).size = 0

Init ==
  /\ threads \in ThreadCounts /\ users \in UserCounts
  /\ main = "spawn" /\ spawned = 0 /\ joined = 0 /\ merged = 0
  /\ latch = threads /\ go = FALSE /\ window = "closed"
  /\ pc = [t \in T |-> "unborn"]
  /\ served = [t \in T |-> 0] /\ serving = [t \in T |-> -1]
  /\ slots = [t \in T |-> 0]
  /\ measured = {} /\ total = 0
------------------------------------------------------------------------------
(* The workers (runWorker) *)

Begin(t) ==
  LET n == IF pc[t] = "warmup" THEN Warmup ELSE Timed
      shard == ShardFor(t)
  IN
  /\ pc[t] \in {"warmup", "timed"}
  /\ serving[t] = -1 /\ ~LoopDone(t, n)
  /\ serving' = [serving EXCEPT ![t] = shard.begin + (served[t] % shard.size)]
  /\ UNCHANGED <<cell, mainVars, latch, go, pc, served, slots, measured>>

\* The response is dropped in the warm-up and sampled in the timed loop.
End(t) ==
  /\ serving[t] # -1
  /\ serving' = [serving EXCEPT ![t] = -1]
  /\ served' = [served EXCEPT ![t] = @ + 1]
  /\ IF pc[t] = "timed"
     THEN /\ slots' = [slots EXCEPT ![t] = @ + 1]
          /\ measured' = measured \cup {serving[t]}
     ELSE UNCHANGED <<slots, measured>>
  /\ UNCHANGED <<cell, mainVars, latch, go, pc>>

CountDown(t) ==
  /\ pc[t] = "warmup" /\ serving[t] = -1 /\ LoopDone(t, Warmup)
  /\ latch' = latch - 1
  /\ pc' = [pc EXCEPT ![t] = "check"]
  /\ UNCHANGED <<cell, mainVars, go, workerVars>>

\* go.wait(false) returns once the flag is up, and blocks atomically with
\* having seen it down.
PassGo(t) ==
  /\ pc[t] = "check" /\ go
  /\ pc' = [pc EXCEPT ![t] = "timed"]
  /\ served' = [served EXCEPT ![t] = 0]
  /\ UNCHANGED <<cell, mainVars, latch, go, serving, slots, measured>>

Park(t) ==
  /\ pc[t] = "check" /\ ~go
  /\ pc' = [pc EXCEPT ![t] = "parked"]
  /\ UNCHANGED <<cell, mainVars, latch, go, workerVars>>

\* A blocked wait may look again at any time; nothing says it does.
Recheck(t) ==
  /\ pc[t] = "parked"
  /\ pc' = [pc EXCEPT ![t] = "check"]
  /\ UNCHANGED <<cell, mainVars, latch, go, workerVars>>

Return(t) ==
  /\ pc[t] = "timed" /\ serving[t] = -1 /\ LoopDone(t, Timed)
  /\ pc' = [pc EXCEPT ![t] = "exited"]
  /\ UNCHANGED <<cell, mainVars, latch, go, workerVars>>

Worker(t) == Begin(t) \/ End(t) \/ CountDown(t) \/ PassGo(t) \/ Park(t) \/ Return(t)
------------------------------------------------------------------------------
(* The main thread (runCell) *)

Spawn ==
  /\ main = "spawn" /\ spawned < threads
  /\ spawned' = spawned + 1
  /\ pc' = [pc EXCEPT ![spawned] = "warmup"]
  /\ main' = IF spawned + 1 = threads THEN "latch" ELSE "spawn"
  /\ UNCHANGED <<cell, joined, window, merged, total, latch, go, workerVars>>

\* Mutant: the first thread to warm up opens the window.
SomeWarm == latch < threads

AllWarm == latch = 0

OpenWindow ==
  /\ main = "latch" /\ AllWarm
  /\ window' = "open" /\ main' = "release"
  /\ UNCHANGED <<cell, spawned, joined, merged, total, latch, go, pc, workerVars>>

Release ==
  /\ main = "release"
  /\ go' = TRUE /\ main' = "notify"
  /\ UNCHANGED <<cell, spawned, joined, window, merged, total, latch, pc, workerVars>>

\* Mutant: notify_one.
NotifyOne ==
  /\ main = "notify" /\ main' = "join"
  /\ \/ \E v \in T : pc[v] = "parked" /\ pc' = [pc EXCEPT ![v] = "check"]
     \/ (\A v \in T : pc[v] # "parked") /\ UNCHANGED pc
  /\ UNCHANGED <<cell, spawned, joined, window, merged, total, latch, go, workerVars>>

NotifyAll ==
  /\ main = "notify" /\ main' = "join"
  /\ pc' = [t \in T |-> IF pc[t] = "parked" THEN "check" ELSE pc[t]]
  /\ UNCHANGED <<cell, spawned, joined, window, merged, total, latch, go, workerVars>>

Join ==
  /\ main = "join" /\ joined < threads /\ pc[joined] = "exited"
  /\ joined' = joined + 1
  /\ UNCHANGED <<cell, main, spawned, window, merged, total, latch, go, pc, workerVars>>

AllJoined == joined = threads

CloseWindow ==
  /\ main = "join" /\ AllJoined
  /\ window' = "over" /\ main' = "merge"
  /\ UNCHANGED <<cell, spawned, joined, merged, total, latch, go, pc, workerVars>>

\* One slot's samples are added to the row.
Merge ==
  /\ main = "merge"
  /\ total' = total + slots[merged]
  /\ merged' = merged + 1
  /\ main' = IF merged + 1 = threads THEN "done" ELSE "merge"
  /\ UNCHANGED <<cell, spawned, joined, window, latch, go, pc, workerVars>>

Main == Spawn \/ OpenWindow \/ Release \/ NotifyAll \/ Join \/ CloseWindow \/ Merge

Finished == main = "done" /\ UNCHANGED vars

Next == Main \/ Finished \/ \E t \in T : Worker(t) \/ Recheck(t)

Spec == Init /\ [][Next]_vars

\* Threads are scheduled: each that can take a step eventually does.
FairSpec ==
  /\ Spec /\ WF_vars(Main)
  /\ \A t \in UNION {0..n - 1 : n \in ThreadCounts} : WF_vars(t \in T /\ Worker(t))
------------------------------------------------------------------------------
Places == {"unborn", "warmup", "check", "parked", "timed", "exited"}
Stages == {"spawn", "latch", "release", "notify", "join", "merge", "done"}

\* The variables have their types; the user served exists.
TypeOK ==
  /\ threads \in ThreadCounts /\ users \in UserCounts
  /\ main \in Stages /\ window \in {"closed", "open", "over"}
  /\ spawned \in 0..threads /\ joined \in 0..threads /\ merged \in 0..threads
  /\ latch \in 0..threads /\ go \in BOOLEAN
  /\ pc \in [T -> Places]
  /\ served \in [T -> Nat] /\ slots \in [T -> Nat]
  /\ serving \in [T -> -1..users - 1]
  /\ measured \subseteq 0..users - 1 /\ total \in Nat

\* The timed window holds every timed request and no warm-up: before it opens
\* no thread is past the flag, once open none is still warming up, and it is
\* over only when all have returned (runCell's barrier).
WindowExact ==
  /\ window = "closed" => \A t \in T : pc[t] \notin {"timed", "exited"}
  /\ window # "closed" => \A t \in T : pc[t] \notin {"unborn", "warmup"}
  /\ window = "over" => \A t \in T : pc[t] = "exited"

\* The merged row counts every sample of every thread and no slot is written
\* while it is read.
MergeComplete ==
  /\ main = "done" => total = IF users = 0 THEN 0 ELSE threads * Timed
  /\ main \in {"merge", "done"} => \A t \in T : serving[t] = -1

\* Threads serve disjoint users, unless there are fewer users than threads
\* (the comment on shardFor).
UsersDisjoint ==
  users >= threads =>
    \A t, v \in T : t # v /\ serving[t] # -1 => serving[t] # serving[v]

\* No user is left out: when the requests go round every shard and no thread
\* lacks users of its own, all of them are measured.
EveryUserMeasured ==
  main = "done" /\ users >= threads /\ (\A t \in T : Timed >= ShardFor(t).size)
    => measured = 0..users - 1

\* The users are split: no one twice, no one left out.
UsersSplit == UsersDisjoint /\ EveryUserMeasured

\* The measurement is that of the timed phase, and all of it.
MeasurementExact == WindowExact /\ MergeComplete

\* The cell ends.
Terminates == <>(main = "done")
=============================================================================
