--------------------------- MODULE LoadDriverProofs --------------------------
(***************************************************************************)
(* The load driver's barrier and shards, for every number of threads,      *)
(* users and requests.                                                     *)
(***************************************************************************)
EXTENDS LoadDriver, FiniteSetTheorems, TLAPS

------------------------------------------------------------------------------
(* Shards *)

\* Equal chunks fit in the whole.
LEMMA ChunkBound ==
  ASSUME NEW n \in Nat \ {0}, NEW u \in Nat
  PROVE  u \div n \in Nat /\ n * (u \div n) <= u
OBVIOUS

\* More chunks hold no less.
LEMMA ChunkMonotone ==
  ASSUME NEW a \in Nat, NEW b \in Nat, NEW c \in Nat, a <= b
  PROVE  a * c <= b * c
OBVIOUS

\* The end of a chunk is the begin of the next.
LEMMA NextChunk ==
  ASSUME NEW a \in Nat, NEW c \in Nat
  PROVE  (a + 1) * c = a * c + c /\ a * c \in Nat
OBVIOUS

\* A remainder is below its modulus.
LEMMA RemainderBound ==
  ASSUME NEW a \in Nat, NEW c \in Nat \ {0}
  PROVE  a % c \in 0..c - 1
OBVIOUS

Cell == threads \in Nat \ {0} /\ users \in Nat

\* A shard lies within the users.
LEMMA ShardWithin ==
  ASSUME Cell, NEW t \in T
  PROVE  /\ ShardFor(t).begin \in Nat /\ ShardFor(t).size \in Nat
         /\ ShardFor(t).begin + ShardFor(t).size <= users
<1> DEFINE chunk == users \div threads
<1>1. chunk \in Nat /\ threads * chunk <= users
  BY ChunkBound DEF Cell
<1>2. t \in Nat /\ t + 1 <= threads
  BY DEF T, Cell
<1>3. CASE users = 0
  <2>1. ShardFor(t) = [begin |-> 0, size |-> 0]
    BY <1>3 DEF ShardFor
  <2> QED
    BY <1>3, <2>1
<1>4. CASE users # 0 /\ chunk = 0
  <2> DEFINE begin == t % users
  <2>1. ShardFor(t).begin = begin /\ ShardFor(t).size = 1
    BY <1>4 DEF ShardFor
  <2>2. begin \in 0..users - 1
    BY <1>2, <1>4, RemainderBound DEF Cell
  <2> HIDE DEF begin
  <2>3. begin \in Nat /\ begin + 1 <= users
    BY <2>2 DEF Cell
  <2> QED
    BY <2>1, <2>3
<1>5. CASE users # 0 /\ chunk # 0
  <2> DEFINE size == IF t + 1 = threads THEN users - t * chunk ELSE chunk
  <2>1. ShardFor(t) = [begin |-> t * chunk, size |-> size]
    BY <1>5 DEF ShardFor
  <2>2. (t + 1) * chunk = t * chunk + chunk /\ t * chunk \in Nat
    BY <1>1, <1>2, NextChunk
  <2>3. (t + 1) * chunk <= threads * chunk
    BY <1>1, <1>2, ChunkMonotone DEF Cell
  <2>4. t * chunk + chunk <= users
    BY <1>1, <2>2, <2>3 DEF Cell
  <2> DEFINE begin == t * chunk
  <2>5. begin \in Nat /\ begin + chunk <= users /\ ShardFor(t) = [begin |-> begin, size |-> size]
        /\ size = IF t + 1 = threads THEN users - begin ELSE chunk
    BY <2>1, <2>2, <2>4
  <2> HIDE DEF begin, chunk, size
  <2>6. size \in Nat /\ begin + size <= users
    BY <1>1, <2>5 DEF Cell
  <2> QED
    BY <2>5, <2>6
<1> QED
  BY <1>3, <1>4, <1>5

\* With no fewer users than threads the shards follow one another.
LEMMA ShardsFollow ==
  ASSUME Cell, users >= threads, NEW t \in T, NEW v \in T, t < v
  PROVE  ShardFor(t).begin + ShardFor(t).size <= ShardFor(v).begin
<1> DEFINE chunk == users \div threads
<1>1. chunk \in Nat /\ chunk # 0
  BY ChunkBound DEF Cell
<1>2. t \in Nat /\ v \in Nat /\ t + 1 <= v /\ t + 1 # threads /\ users # 0
  BY DEF T, Cell
<1>3. /\ ShardFor(t) = [begin |-> t * chunk, size |-> chunk]
      /\ ShardFor(v).begin = v * chunk
  BY <1>1, <1>2 DEF ShardFor
<1> HIDE DEF chunk
<1>4. (t + 1) * chunk = t * chunk + chunk
  BY <1>1, <1>2, NextChunk
<1>5. (t + 1) * chunk <= v * chunk
  BY <1>1, <1>2, ChunkMonotone
<1> QED
  BY <1>3, <1>4, <1>5

\* A shard is empty only when there are no users.
LEMMA ShardEmpty ==
  ASSUME Cell, NEW t \in T, ShardFor(t).size = 0
  PROVE  users = 0
<1> DEFINE chunk == users \div threads
<1> SUFFICES ASSUME users # 0 PROVE FALSE
  OBVIOUS
<1>1. chunk \in Nat /\ threads * chunk <= users
  BY ChunkBound DEF Cell
<1>2. t \in Nat /\ t < threads
  BY DEF T, Cell
<1>3. CASE chunk = 0
  BY <1>3 DEF ShardFor
<1>4. CASE chunk # 0
  <2>1. t + 1 = threads /\ users - t * chunk = 0
    <3>1. ShardFor(t).size = IF t + 1 = threads THEN users - t * chunk ELSE chunk
      BY <1>4 DEF ShardFor
    <3> QED
      BY <1>4, <3>1
  <2>2. (t + 1) * chunk = t * chunk + chunk /\ t * chunk \in Nat
    BY <1>1, <1>2, NextChunk
  <2> DEFINE begin == t * chunk
  <2>3. begin \in Nat /\ begin + chunk <= users /\ users - begin = 0
    BY <1>1, <2>1, <2>2
  <2> HIDE DEF begin, chunk
  <2> QED
    BY <1>1, <1>4, <2>3 DEF Cell
<1> QED
  BY <1>3, <1>4

------------------------------------------------------------------------------
(* Type correctness and the latch *)

NotArrived == {t \in T : pc[t] \in {"unborn", "warmup"}}

\* The latch counts the threads still to arrive.
LatchInv == latch = Cardinality(NotArrived)

\* Where main is, what it has published and whom it has started and joined.
StageInv ==
  /\ window = "closed" <=> main \in {"spawn", "latch"}
  /\ window = "over" <=> main \in {"merge", "done"}
  /\ go => window # "closed"
  /\ main = "spawn" => spawned < threads
  /\ \A t \in T : t >= spawned => pc[t] = "unborn"
  /\ \A t \in T : pc[t] \in {"timed", "exited"} => go
  /\ window # "closed" => NotArrived = {}
  /\ \A t \in T : t < joined => pc[t] = "exited"
  /\ window = "over" => joined = threads

\* A request in flight is for a user of the thread's shard.
ServingInv ==
  \A t \in T : serving[t] # -1 =>
    /\ serving[t] >= ShardFor(t).begin
    /\ serving[t] < ShardFor(t).begin + ShardFor(t).size

IInv == TypeOK /\ LatchInv /\ StageInv /\ ServingInv

\* A cell has threads and some number of users.
LEMMA CellFacts == TypeOK => Cell /\ T \subseteq Nat
BY CellAssumption DEF TypeOK, Cell, T

\* The threads still to arrive can be counted.
LEMMA NotArrivedFinite ==
  ASSUME TypeOK
  PROVE  /\ IsFiniteSet(NotArrived)
         /\ Cardinality(NotArrived) \in Nat
         /\ Cardinality(NotArrived) = 0 <=> NotArrived = {}
         /\ IsFiniteSet(T) /\ Cardinality(T) = threads
<1>1. threads \in Nat \ {0}
  BY CellFacts DEF Cell
<1>2. IsFiniteSet(T) /\ Cardinality(T) = threads
  BY <1>1, FS_Interval DEF T
<1>3. IsFiniteSet(NotArrived)
  BY <1>2, FS_Subset DEF NotArrived
<1> QED
  BY <1>2, <1>3, FS_CardinalityType, FS_EmptySet

\* Steps that move pc but not between the threads still to arrive and the rest.
LEMMA LatchKept ==
  ASSUME LatchInv, latch' = latch, NotArrived' = NotArrived
  PROVE  LatchInv'
BY DEF LatchInv

\* The invariant holds before any thread is started.
LEMMA InitInv == Init => IInv
<1> SUFFICES ASSUME Init PROVE IInv
  OBVIOUS
<1>1. Cell /\ T \subseteq Nat
  BY CellAssumption DEF Init, Cell, T
<1>2. TypeOK
  <2>1. threads \in ThreadCounts /\ users \in UserCounts /\ go \in BOOLEAN
    BY DEF Init
  <2>2. main \in Stages /\ window \in {"closed", "open", "over"}
    BY DEF Init, Stages
  <2>3. /\ spawned \in 0..threads /\ joined \in 0..threads /\ merged \in 0..threads
        /\ latch \in 0..threads
        /\ total \in Nat /\ measured \subseteq 0..users - 1
    BY <1>1 DEF Init, Cell
  <2>4. pc \in [T -> Places]
    BY DEF Init, Places
  <2>5. served \in [T -> Nat] /\ slots \in [T -> Nat] /\ serving \in [T -> -1..users - 1]
    <3>1. -1 \in -1..users - 1
      BY <1>1 DEF Cell
    <3> QED
      BY <3>1 DEF Init
  <2> QED
    BY <2>1, <2>2, <2>3, <2>4, <2>5 DEF TypeOK
<1>3. NotArrived = T
  BY DEF Init, NotArrived
<1>4. LatchInv
  BY <1>2, <1>3, NotArrivedFinite DEF Init, LatchInv
<1>5. StageInv
  BY <1>1 DEF Init, StageInv, Cell, T
<1>6. ServingInv
  BY DEF Init, ServingInv
<1> QED
  BY <1>2, <1>4, <1>5, <1>6 DEF IInv

\* Steps that leave the cell and the requests in flight.
LEMMA ServingKept ==
  ASSUME ServingInv, UNCHANGED <<cell, serving>>
  PROVE  ServingInv'
BY DEF ServingInv, cell, T, ShardFor

\* A worker that moves from one place past the latch to another.
LEMMA PastLatch ==
  ASSUME TypeOK, LatchInv, NEW t \in T, NEW place \in {"check", "parked", "timed", "exited"},
         pc[t] \in {"check", "parked", "timed", "exited"},
         pc' = [pc EXCEPT ![t] = place], UNCHANGED <<cell, latch>>
  PROVE  LatchInv' /\ NotArrived' = NotArrived
<1>1. T' = T
  BY DEF cell, T
<1>2. NotArrived' = NotArrived
  BY <1>1 DEF NotArrived, TypeOK
<1> QED
  BY <1>2, LatchKept

\* A thread picks a user of its shard.
LEMMA BeginStep ==
  ASSUME IInv, NEW t \in T, Begin(t)
  PROVE  IInv'
<1> DEFINE s == ShardFor(t)
           user == s.begin + (served[t] % s.size)
<1>1. TypeOK /\ LatchInv /\ StageInv /\ ServingInv
  BY DEF IInv
<1>2. Cell /\ T' = T
  BY <1>1, CellFacts DEF Begin, cell, T
<1>3. s.begin \in Nat /\ s.size \in Nat /\ s.begin + s.size <= users /\ users \in Nat
  BY <1>2, ShardWithin DEF Cell
<1>4. s.size # 0 /\ served[t] \in Nat
  BY <1>1 DEF Begin, LoopDone, TypeOK
<1>5. serving' = [serving EXCEPT ![t] = user]
  BY DEF Begin
<1>6. served[t] % s.size \in 0..s.size - 1
  BY <1>3, <1>4, RemainderBound
<1>7. user \in Nat /\ user >= s.begin /\ user < s.begin + s.size
  <2> DEFINE m == served[t] % s.size
  <2>1. m \in 0..s.size - 1 /\ user = s.begin + m
    BY <1>6
  <2> HIDE DEF m, user, s
  <2> QED
    BY <1>3, <2>1
<1>8. user \in -1..users - 1
  <2> HIDE DEF user, s
  <2> QED
    BY <1>3, <1>7
<1>9. \A v \in T : ShardFor(v)' = ShardFor(v)
  BY DEF Begin, cell, ShardFor
<1>10. TypeOK'
  <2>1. serving' \in [T -> -1..users - 1]
    BY <1>1, <1>5, <1>8 DEF TypeOK
  <2> QED
    BY <1>1, <1>2, <2>1 DEF Begin, cell, mainVars, TypeOK
<1>11. NotArrived' = NotArrived /\ LatchInv'
  BY <1>1, <1>2, LatchKept DEF Begin, NotArrived
<1>12. StageInv'
  BY <1>1, <1>2, <1>11 DEF Begin, cell, mainVars, StageInv
<1>13. ServingInv'
  <2> HIDE DEF user
  <2>1. ASSUME NEW v \in T, serving'[v] # -1
        PROVE  serving'[v] >= ShardFor(v).begin /\ serving'[v] < ShardFor(v).begin + ShardFor(v).size
    <3>1. CASE v = t
      <4>1. serving'[t] = user
        BY <1>1, <1>5 DEF TypeOK
      <4> QED
        BY <1>7, <3>1, <4>1
    <3>2. CASE v # t
      <4>1. serving'[v] = serving[v]
        BY <1>1, <1>5, <3>2 DEF TypeOK
      <4> QED
        BY <1>1, <2>1, <4>1 DEF ServingInv
    <3> QED
      BY <3>1, <3>2
  <2> QED
    BY <1>2, <1>9, <2>1 DEF ServingInv
<1> QED
  BY <1>10, <1>11, <1>12, <1>13 DEF IInv

\* A finished request leaves the barrier alone.
LEMMA EndStep ==
  ASSUME IInv, NEW t \in T, End(t)
  PROVE  IInv'
<1>1. TypeOK /\ LatchInv /\ StageInv /\ ServingInv
  BY DEF IInv
<1>2. Cell /\ T' = T /\ users' = users
  BY <1>1, CellFacts DEF End, cell, T
<1>3. serving[t] \in 0..users - 1
  BY <1>1, <1>2 DEF End, TypeOK, Cell
<1>4. TypeOK'
  <2>1. serving' \in [T -> -1..users - 1]
    <3>1. -1 \in -1..users - 1
      BY <1>2 DEF Cell
    <3> QED
      BY <1>1, <3>1 DEF End, TypeOK
  <2>2. served' \in [T -> Nat] /\ slots' \in [T -> Nat]
    BY <1>1 DEF End, TypeOK
  <2>3. measured' \subseteq 0..users - 1
    BY <1>1, <1>3 DEF End, TypeOK
  <2> QED
    BY <1>1, <1>2, <2>1, <2>2, <2>3 DEF End, cell, mainVars, TypeOK
<1>5. NotArrived' = NotArrived /\ LatchInv'
  BY <1>1, <1>2, LatchKept DEF End, NotArrived
<1>6. StageInv'
  BY <1>1, <1>2, <1>5 DEF End, cell, mainVars, StageInv
<1>7. ServingInv'
  <2>1. ASSUME NEW v \in T, serving'[v] # -1
        PROVE  serving'[v] >= ShardFor(v).begin /\ serving'[v] < ShardFor(v).begin + ShardFor(v).size
    <3>1. serving'[v] = serving[v]
      BY <1>1, <2>1 DEF End, TypeOK
    <3> QED
      BY <1>1, <2>1, <3>1 DEF ServingInv
  <2>2. \A v \in T : ShardFor(v)' = ShardFor(v)
    BY DEF End, cell, ShardFor
  <2> QED
    BY <1>2, <2>1, <2>2 DEF ServingInv
<1> QED
  BY <1>4, <1>5, <1>6, <1>7 DEF IInv

\* The latch goes down by one and so do the threads still to arrive.
LEMMA CountDownStep ==
  ASSUME IInv, NEW t \in T, CountDown(t)
  PROVE  IInv'
<1>1. TypeOK /\ LatchInv /\ StageInv /\ ServingInv
  BY DEF IInv
<1>2. Cell /\ T' = T
  BY <1>1, CellFacts DEF CountDown, cell, T
<1>3. /\ pc[t] = "warmup" /\ pc' = [pc EXCEPT ![t] = "check"] /\ latch' = latch - 1
      /\ UNCHANGED <<cell, mainVars, go, workerVars>>
  BY DEF CountDown
<1>4. t \in NotArrived /\ NotArrived' = NotArrived \ {t}
  BY <1>1, <1>2, <1>3 DEF NotArrived, TypeOK
<1>5. IsFiniteSet(NotArrived) /\ Cardinality(NotArrived) \in Nat /\ Cardinality(NotArrived) # 0
  BY <1>1, <1>4, NotArrivedFinite
<1>6. Cardinality(NotArrived \ {t}) = Cardinality(NotArrived) - 1
  BY <1>4, <1>5, FS_RemoveElement
<1>7. LatchInv'
  BY <1>1, <1>3, <1>4, <1>6 DEF LatchInv
<1>8. TypeOK'
  <2>1. latch' \in 0..threads
    BY <1>1, <1>2, <1>3, <1>5 DEF LatchInv, TypeOK, Cell
  <2>2. pc' \in [T -> Places]
    BY <1>1, <1>3 DEF TypeOK, Places
  <2> QED
    BY <1>1, <1>2, <1>3, <2>1, <2>2 DEF cell, mainVars, workerVars, TypeOK
<1>9. StageInv'
  <2>1. \A v \in T : v # t => pc'[v] = pc[v]
    BY <1>1, <1>3 DEF TypeOK
  <2>2. pc'[t] = "check"
    BY <1>1, <1>3 DEF TypeOK
  <2> QED
    BY <1>1, <1>2, <1>3, <1>4, <2>1, <2>2 DEF cell, mainVars, StageInv
<1>10. ServingInv'
  BY <1>1, <1>3, ServingKept DEF workerVars
<1> QED
  BY <1>7, <1>8, <1>9, <1>10 DEF IInv

\* A thread passes the flag only once it is raised.
LEMMA PassGoStep ==
  ASSUME IInv, NEW t \in T, PassGo(t)
  PROVE  IInv'
<1>1. TypeOK /\ LatchInv /\ StageInv /\ ServingInv
  BY DEF IInv
<1>2. T' = T
  BY DEF PassGo, cell, T
<1>3. /\ pc[t] = "check" /\ go /\ pc' = [pc EXCEPT ![t] = "timed"]
      /\ served' = [served EXCEPT ![t] = 0]
      /\ UNCHANGED <<cell, mainVars, latch, go, serving, slots, measured>>
  BY DEF PassGo
<1>4. LatchInv' /\ NotArrived' = NotArrived
  BY <1>1, <1>3, PastLatch
<1>5. TypeOK'
  <2>1. pc' \in [T -> Places] /\ served' \in [T -> Nat]
    BY <1>1, <1>3 DEF TypeOK, Places
  <2> QED
    BY <1>1, <1>2, <1>3, <2>1 DEF cell, mainVars, TypeOK
<1>6. StageInv'
  <2>1. pc'[t] = "timed" /\ \A v \in T : v # t => pc'[v] = pc[v]
    BY <1>1, <1>3 DEF TypeOK
  <2> QED
    BY <1>1, <1>2, <1>3, <1>4, <2>1 DEF cell, mainVars, StageInv
<1>7. ServingInv'
  BY <1>1, <1>3, ServingKept
<1> QED
  BY <1>4, <1>5, <1>6, <1>7 DEF IInv

\* Park, Recheck and Return only move the worker.
LEMMA MoveStep ==
  ASSUME IInv, NEW t \in T, Park(t) \/ Recheck(t) \/ Return(t)
  PROVE  IInv'
<1>1. TypeOK /\ LatchInv /\ StageInv /\ ServingInv
  BY DEF IInv
<1>2. /\ \/ pc[t] = "check" /\ pc' = [pc EXCEPT ![t] = "parked"]
         \/ pc[t] = "parked" /\ pc' = [pc EXCEPT ![t] = "check"]
         \/ pc[t] = "timed" /\ pc' = [pc EXCEPT ![t] = "exited"]
      /\ UNCHANGED <<cell, mainVars, latch, go, workerVars>>
  BY DEF Park, Recheck, Return
<1>3. T' = T
  BY <1>2 DEF cell, T
<1>4. LatchInv' /\ NotArrived' = NotArrived
  BY <1>1, <1>2, PastLatch
<1>5. TypeOK'
  <2>1. pc' \in [T -> Places]
    BY <1>1, <1>2 DEF TypeOK, Places
  <2> QED
    BY <1>1, <1>2, <1>3, <2>1 DEF cell, mainVars, workerVars, TypeOK
<1>6. StageInv'
  <2>1. /\ \/ pc[t] = "check" /\ pc'[t] = "parked"
           \/ pc[t] = "parked" /\ pc'[t] = "check"
           \/ pc[t] = "timed" /\ pc'[t] = "exited"
        /\ \A v \in T : v # t => pc'[v] = pc[v]
    BY <1>1, <1>2 DEF TypeOK
  <2> QED
    BY <1>1, <1>2, <1>3, <1>4, <2>1 DEF cell, mainVars, StageInv
<1>7. ServingInv'
  BY <1>1, <1>2, ServingKept DEF workerVars
<1> QED
  BY <1>4, <1>5, <1>6, <1>7 DEF IInv

\* Main starts the next thread.
LEMMA SpawnStep ==
  ASSUME IInv, Spawn
  PROVE  IInv'
<1>1. TypeOK /\ LatchInv /\ StageInv /\ ServingInv
  BY DEF IInv
<1>2. Cell /\ T' = T /\ spawned \in T
  BY <1>1, CellFacts DEF Spawn, cell, T, TypeOK, Cell
<1>3. /\ main = "spawn" /\ spawned' = spawned + 1
      /\ pc' = [pc EXCEPT ![spawned] = "warmup"]
      /\ main' = IF spawned + 1 = threads THEN "latch" ELSE "spawn"
      /\ UNCHANGED <<cell, joined, window, merged, total, latch, go, workerVars>>
  BY DEF Spawn
<1>4. pc[spawned] = "unborn"
  BY <1>1, <1>2 DEF StageInv, T
<1>5. NotArrived' = NotArrived
  BY <1>1, <1>2, <1>3, <1>4 DEF NotArrived, TypeOK
<1>6. LatchInv'
  BY <1>1, <1>3, <1>5, LatchKept
<1>7. TypeOK'
  <2>1. pc' \in [T -> Places]
    BY <1>1, <1>3 DEF TypeOK, Places
  <2>2. spawned' \in 0..threads /\ main' \in Stages
    BY <1>2, <1>3 DEF T, Cell, Stages
  <2> QED
    BY <1>1, <1>2, <1>3, <2>1, <2>2 DEF cell, workerVars, TypeOK
<1>8. StageInv'
  <2>1. pc'[spawned] = "warmup" /\ \A v \in T : v # spawned => pc'[v] = pc[v]
    BY <1>1, <1>2, <1>3 DEF TypeOK
  <2>2. window = "closed" /\ window' = "closed" /\ ~go /\ ~go' /\ main' \in {"spawn", "latch"}
    BY <1>1, <1>3 DEF StageInv
  <2>3. main' = "spawn" => spawned' < threads'
    BY <1>2, <1>3 DEF T, Cell, cell
  <2>4. \A v \in T : v >= spawned' => pc'[v] = "unborn"
    BY <1>1, <1>2, <1>3, <2>1 DEF StageInv, T, Cell
  <2>5. \A v \in T : pc'[v] \notin {"timed", "exited"}
    BY <1>1, <1>2, <1>4, <2>1, <2>2 DEF StageInv
  <2>6. \A v \in T : ~(v < joined')
    BY <1>1, <1>2, <1>3, <1>4, <2>2, <2>5 DEF StageInv
  <2> QED
    BY <1>2, <2>2, <2>3, <2>4, <2>5, <2>6 DEF StageInv
<1>9. ServingInv'
  BY <1>1, <1>3, ServingKept DEF workerVars
<1> QED
  BY <1>6, <1>7, <1>8, <1>9 DEF IInv

\* The window opens when the latch is down, so every thread has arrived.
LEMMA OpenWindowStep ==
  ASSUME IInv, OpenWindow
  PROVE  IInv'
<1>1. TypeOK /\ LatchInv /\ StageInv /\ ServingInv
  BY DEF IInv
<1>2. /\ main = "latch" /\ latch = 0 /\ window' = "open" /\ main' = "release"
      /\ UNCHANGED <<cell, spawned, joined, merged, total, latch, go, pc, workerVars>>
  BY DEF OpenWindow, AllWarm
<1>3. T' = T /\ NotArrived' = NotArrived
  BY <1>2 DEF cell, T, NotArrived
<1>4. NotArrived = {}
  BY <1>1, <1>2, NotArrivedFinite DEF LatchInv
<1>5. TypeOK'
  BY <1>1, <1>2, <1>3 DEF cell, workerVars, TypeOK, Stages
<1>6. LatchInv'
  BY <1>1, <1>2, <1>3, LatchKept
<1>7. StageInv'
  BY <1>1, <1>2, <1>3, <1>4 DEF cell, StageInv
<1>8. ServingInv'
  BY <1>1, <1>2, ServingKept DEF workerVars
<1> QED
  BY <1>5, <1>6, <1>7, <1>8 DEF IInv

\* Main raises the flag with the window open.
LEMMA ReleaseStep ==
  ASSUME IInv, Release
  PROVE  IInv'
<1>1. TypeOK /\ LatchInv /\ StageInv /\ ServingInv
  BY DEF IInv
<1>2. /\ main = "release" /\ go' = TRUE /\ main' = "notify"
      /\ UNCHANGED <<cell, spawned, joined, window, merged, total, latch, pc, workerVars>>
  BY DEF Release
<1>3. T' = T /\ NotArrived' = NotArrived
  BY <1>2 DEF cell, T, NotArrived
<1>4. TypeOK'
  BY <1>1, <1>2, <1>3 DEF cell, workerVars, TypeOK, Stages
<1>5. LatchInv'
  BY <1>1, <1>2, <1>3, LatchKept
<1>6. StageInv'
  BY <1>1, <1>2, <1>3 DEF cell, StageInv
<1>7. ServingInv'
  BY <1>1, <1>2, ServingKept DEF workerVars
<1> QED
  BY <1>4, <1>5, <1>6, <1>7 DEF IInv

\* Waking the parked threads sends them back to the flag.
LEMMA NotifyAllStep ==
  ASSUME IInv, NotifyAll
  PROVE  IInv'
<1>1. TypeOK /\ LatchInv /\ StageInv /\ ServingInv
  BY DEF IInv
<1>2. /\ main = "notify" /\ main' = "join"
      /\ pc' = [t \in T |-> IF pc[t] = "parked" THEN "check" ELSE pc[t]]
      /\ UNCHANGED <<cell, spawned, joined, window, merged, total, latch, go, workerVars>>
  BY DEF NotifyAll
<1>3. T' = T
  BY <1>2 DEF cell, T
<1>4. NotArrived' = NotArrived
  BY <1>2, <1>3 DEF NotArrived
<1>5. TypeOK'
  <2>1. pc' \in [T -> Places]
    BY <1>1, <1>2 DEF TypeOK, Places
  <2> QED
    BY <1>1, <1>2, <1>3, <2>1 DEF cell, workerVars, TypeOK, Stages
<1>6. LatchInv'
  BY <1>1, <1>2, <1>4, LatchKept
<1>7. StageInv'
  BY <1>1, <1>2, <1>3, <1>4 DEF cell, StageInv
<1>8. ServingInv'
  BY <1>1, <1>2, ServingKept DEF workerVars
<1> QED
  BY <1>5, <1>6, <1>7, <1>8 DEF IInv

\* Main joins threads that have returned, in order.
LEMMA JoinStep ==
  ASSUME IInv, Join
  PROVE  IInv'
<1>1. TypeOK /\ LatchInv /\ StageInv /\ ServingInv
  BY DEF IInv
<1>2. Cell
  BY <1>1, CellFacts
<1>3. /\ main = "join" /\ joined < threads /\ pc[joined] = "exited" /\ joined' = joined + 1
      /\ UNCHANGED <<cell, main, spawned, window, merged, total, latch, go, pc, workerVars>>
  BY DEF Join
<1>4. T' = T /\ NotArrived' = NotArrived
  BY <1>3 DEF cell, T, NotArrived
<1>5. TypeOK'
  <2>1. joined' \in 0..threads
    BY <1>1, <1>2, <1>3 DEF TypeOK, Cell
  <2> QED
    BY <1>1, <1>3, <1>4, <2>1 DEF cell, workerVars, TypeOK
<1>6. LatchInv'
  BY <1>1, <1>3, <1>4, LatchKept
<1>7. StageInv'
  <2>1. ASSUME NEW t \in T, t < joined'
        PROVE  pc'[t] = "exited"
    <3>1. t \in Nat /\ joined \in Nat
      BY <1>1, <1>2 DEF T, TypeOK, Cell
    <3>2. t < joined \/ t = joined
      BY <1>3, <2>1, <3>1
    <3> QED
      BY <1>1, <1>3, <3>2 DEF StageInv
  <2>2. window' # "over"
    BY <1>1, <1>3 DEF StageInv
  <2> QED
    BY <1>1, <1>3, <1>4, <2>1, <2>2 DEF cell, StageInv
<1>8. ServingInv'
  BY <1>1, <1>3, ServingKept DEF workerVars
<1> QED
  BY <1>5, <1>6, <1>7, <1>8 DEF IInv

\* The window is over with every thread joined.
LEMMA CloseWindowStep ==
  ASSUME IInv, CloseWindow
  PROVE  IInv'
<1>1. TypeOK /\ LatchInv /\ StageInv /\ ServingInv
  BY DEF IInv
<1>2. /\ main = "join" /\ joined = threads /\ window' = "over" /\ main' = "merge"
      /\ UNCHANGED <<cell, spawned, joined, merged, total, latch, go, pc, workerVars>>
  BY DEF CloseWindow, AllJoined
<1>3. T' = T /\ NotArrived' = NotArrived
  BY <1>2 DEF cell, T, NotArrived
<1>4. TypeOK'
  BY <1>1, <1>2, <1>3 DEF cell, workerVars, TypeOK, Stages
<1>5. LatchInv'
  BY <1>1, <1>2, <1>3, LatchKept
<1>6. StageInv'
  BY <1>1, <1>2, <1>3 DEF cell, StageInv
<1>7. ServingInv'
  BY <1>1, <1>2, ServingKept DEF workerVars
<1> QED
  BY <1>4, <1>5, <1>6, <1>7 DEF IInv

\* The rows are merged after the window.
LEMMA MergeStep ==
  ASSUME IInv, Merge, merged < threads
  PROVE  IInv'
<1>1. TypeOK /\ LatchInv /\ StageInv /\ ServingInv
  BY DEF IInv
<1>2. Cell
  BY <1>1, CellFacts
<1>3. /\ main = "merge" /\ total' = total + slots[merged] /\ merged' = merged + 1
      /\ main' = IF merged + 1 = threads THEN "done" ELSE "merge"
      /\ UNCHANGED <<cell, spawned, joined, window, latch, go, pc, workerVars>>
  BY DEF Merge
<1>4. T' = T /\ NotArrived' = NotArrived
  BY <1>3 DEF cell, T, NotArrived
<1>5. TypeOK'
  <2>1. merged \in T /\ merged' \in 0..threads
    BY <1>1, <1>2, <1>3 DEF TypeOK, Cell, T
  <2>2. total' \in Nat
    BY <1>1, <1>3, <2>1 DEF TypeOK
  <2>3. main' \in Stages
    BY <1>3 DEF Stages
  <2> QED
    BY <1>1, <1>3, <1>4, <2>1, <2>2, <2>3 DEF cell, workerVars, TypeOK
<1>6. LatchInv'
  BY <1>1, <1>3, <1>4, LatchKept
<1>7. StageInv'
  BY <1>1, <1>3, <1>4 DEF cell, StageInv
<1>8. ServingInv'
  BY <1>1, <1>3, ServingKept DEF workerVars
<1> QED
  BY <1>5, <1>6, <1>7, <1>8 DEF IInv

------------------------------------------------------------------------------
(* Samples *)

\* Samples a thread takes in all.
Quota == IF users = 0 THEN 0 ELSE Timed

\* A slot holds what its thread has timed so far.
SlotInv(t) ==
  /\ pc[t] \notin {"timed", "exited"} => slots[t] = 0
  /\ pc[t] = "timed" => slots[t] = served[t] /\ served[t] <= Timed
  /\ pc[t] = "exited" => slots[t] = Quota
  /\ users = 0 => slots[t] = 0
  /\ serving[t] # -1 => pc[t] \in {"warmup", "timed"}
  /\ serving[t] # -1 /\ pc[t] = "timed" => served[t] < Timed

\* The row holds what was merged.
RowInv ==
  /\ total = merged * Quota
  /\ main \notin {"merge", "done"} => merged = 0
  /\ main = "merge" => merged < threads
  /\ main = "done" => merged = threads

SampleInv == (\A t \in T : SlotInv(t)) /\ RowInv

\* A worker's slot counts what the worker timed.
LEMMA WorkerSamples ==
  ASSUME IInv, SampleInv, NEW t \in T, Worker(t) \/ Recheck(t)
  PROVE  SampleInv'
<1>1. TypeOK /\ Cell
  BY CellFacts DEF IInv
<1>2. UNCHANGED <<cell, mainVars>> /\ T' = T /\ Quota' = Quota
  BY DEF Worker, Begin, End, CountDown, PassGo, Park, Return, Recheck, cell, T, Quota
<1>3. \A v \in T : SlotInv(v)
  BY DEF SampleInv, SlotInv
<1>4. ASSUME NEW v \in T, v # t
      PROVE  SlotInv(v)'
  <2>1. /\ pc'[v] = pc[v] /\ served'[v] = served[v] /\ slots'[v] = slots[v]
        /\ serving'[v] = serving[v]
    BY <1>1, <1>4 DEF Worker, Begin, End, CountDown, PassGo, Park, Return, Recheck,
                      TypeOK, workerVars
  <2> QED
    BY <1>2, <1>3, <2>1 DEF SlotInv, cell
<1>5. SlotInv(t)'
  <2>1. SlotInv(t) /\ users' = users /\ served[t] \in Nat /\ slots[t] \in Nat /\ Timed \in Nat
    BY <1>1, <1>2, <1>3, CellAssumption DEF cell, TypeOK
  <2>2. CASE Begin(t)
    <3>1. pc[t] = "timed" => served[t] < Timed
      BY <2>1, <2>2 DEF Begin, LoopDone
    <3>2. /\ pc[t] \in {"warmup", "timed"}
          /\ pc' = pc /\ served' = served /\ slots' = slots
      BY <2>2 DEF Begin
    <3> QED
      BY <1>2, <2>1, <3>1, <3>2 DEF SlotInv
  <2>3. CASE End(t)
    <3>1. serving[t] # -1 /\ serving'[t] = -1 /\ pc' = pc /\ served'[t] = served[t] + 1
      BY <1>1, <2>3 DEF End, TypeOK
    <3>2. slots'[t] = IF pc[t] = "timed" THEN slots[t] + 1 ELSE slots[t]
      BY <1>1, <2>3 DEF End, TypeOK
    <3>3. users # 0
      BY <1>1, <3>1 DEF TypeOK, Cell
    <3>4. pc[t] \in {"warmup", "timed"}
      BY <2>1, <3>1 DEF SlotInv
    <3> QED
      BY <1>2, <2>1, <3>1, <3>2, <3>3, <3>4 DEF SlotInv
  <2>4. CASE CountDown(t)
    <3>1. /\ pc[t] = "warmup" /\ pc'[t] = "check" /\ serving'[t] = -1
          /\ slots' = slots
      BY <1>1, <2>4 DEF CountDown, TypeOK, workerVars
    <3> QED
      BY <1>2, <2>1, <3>1 DEF SlotInv
  <2>5. CASE PassGo(t)
    <3>1. /\ pc[t] = "check" /\ pc'[t] = "timed" /\ served'[t] = 0
          /\ slots' = slots /\ serving' = serving
      BY <1>1, <2>5 DEF PassGo, TypeOK
    <3> QED
      BY <1>2, <2>1, <3>1 DEF SlotInv
  <2>6. CASE Park(t) \/ Recheck(t)
    <3>1. /\ pc[t] \in {"check", "parked"} /\ pc'[t] \in {"check", "parked"}
          /\ slots' = slots /\ serving' = serving
      BY <1>1, <2>6 DEF Park, Recheck, TypeOK, workerVars
    <3> QED
      BY <1>2, <2>1, <3>1 DEF SlotInv
  <2>7. CASE Return(t)
    <3>1. /\ pc[t] = "timed" /\ pc'[t] = "exited" /\ serving'[t] = -1
          /\ slots' = slots
      BY <1>1, <2>7 DEF Return, TypeOK, workerVars
    <3>2. served[t] >= Timed \/ users = 0
      BY <1>1, <2>7, ShardEmpty DEF Return, LoopDone
    <3>3. slots[t] = Quota
      BY <2>1, <3>1, <3>2 DEF SlotInv, Quota
    <3> QED
      BY <1>2, <2>1, <3>1, <3>3 DEF SlotInv
  <2> QED
    BY <2>2, <2>3, <2>4, <2>5, <2>6, <2>7 DEF Worker
<1>6. RowInv'
  BY <1>2 DEF SampleInv, RowInv, mainVars, cell
<1>7. (\A v \in T : SlotInv(v)')
  BY <1>4, <1>5
<1> QED
  BY <1>2, <1>6, <1>7 DEF SampleInv, SlotInv, RowInv

\* Main moves no slot and merges each once.
LEMMA MainSamples ==
  ASSUME IInv, SampleInv, Main
  PROVE  SampleInv'
<1>1. TypeOK /\ Cell /\ StageInv
  BY CellFacts DEF IInv
<1>2. UNCHANGED <<cell, workerVars>> /\ T' = T /\ Quota' = Quota
  BY DEF Main, Spawn, OpenWindow, Release, NotifyAll, Join, CloseWindow, Merge, cell, T, Quota
<1>3. ASSUME NEW v \in T
      PROVE  SlotInv(v)'
  <2>1. SlotInv(v)
    BY DEF SampleInv, SlotInv
  <2>2. served' = served /\ slots' = slots /\ serving' = serving /\ users' = users
    BY <1>2 DEF workerVars, cell
  <2>3. \/ pc'[v] = pc[v]
        \/ pc[v] = "unborn" /\ pc'[v] = "warmup"
        \/ pc[v] = "parked" /\ pc'[v] = "check"
    <3>1. CASE Spawn
      <4>1. spawned \in T
        BY <1>1, <3>1 DEF Spawn, TypeOK, T, Cell
      <4>2. pc[spawned] = "unborn"
        BY <1>1, <4>1 DEF StageInv, T
      <4> QED
        BY <1>1, <3>1, <4>1, <4>2 DEF Spawn, TypeOK
    <3>2. CASE NotifyAll
      BY <3>2 DEF NotifyAll
    <3> QED
      BY <3>1, <3>2 DEF Main, OpenWindow, Release, Join, CloseWindow, Merge
  <2> QED
    BY <1>2, <2>1, <2>2, <2>3 DEF SlotInv
<1>4. RowInv'
  <2>1. CASE ~Merge
    <3>1. merged' = merged /\ total' = total /\ threads' = threads
      BY <1>2, <2>1 DEF Main, Spawn, OpenWindow, Release, NotifyAll, Join, CloseWindow, cell
    <3>2. /\ main' \notin {"merge", "done"} => main \notin {"merge", "done"}
          /\ main' = "merge" => merged = 0 /\ 0 < threads
          /\ main' # "done"
      BY <1>1, <2>1 DEF Main, Spawn, OpenWindow, Release, NotifyAll, Join, CloseWindow,
                        SampleInv, RowInv, Cell
    <3> QED
      BY <1>2, <3>1, <3>2 DEF RowInv, SampleInv
  <2>2. CASE Merge
    <3>1. /\ main = "merge" /\ total' = total + slots[merged] /\ merged' = merged + 1
          /\ main' = IF merged + 1 = threads THEN "done" ELSE "merge"
      BY <2>2 DEF Merge
    <3>2. merged \in Nat /\ merged < threads /\ merged \in T /\ threads' = threads
      BY <1>1, <1>2, <3>1 DEF SampleInv, RowInv, TypeOK, T, Cell, cell
    <3>3. joined = threads /\ pc[merged] = "exited"
      BY <1>1, <3>1, <3>2 DEF StageInv
    <3>4. slots[merged] = Quota /\ Quota \in Nat
      BY <3>2, <3>3, CellAssumption DEF SampleInv, SlotInv, Quota
    <3>5. (merged + 1) * Quota = merged * Quota + Quota
      BY <3>2, <3>4, NextChunk
    <3>6. total' = merged' * Quota'
      <4>1. total = merged * Quota
        BY DEF SampleInv, RowInv
      <4> QED
        BY <1>2, <3>1, <3>4, <3>5, <4>1
    <3> QED
      BY <1>1, <3>1, <3>2, <3>6 DEF RowInv, Cell
  <2> QED
    BY <2>1, <2>2
<1> QED
  BY <1>2, <1>3, <1>4 DEF SampleInv, SlotInv, RowInv

------------------------------------------------------------------------------
(* The theorems *)

Inv == IInv /\ SampleInv

\* The slots and the row start empty.
LEMMA InitSamples == Init => SampleInv
<1> SUFFICES ASSUME Init PROVE SampleInv
  OBVIOUS
<1>1. threads > 0 /\ Quota \in Nat
  BY CellAssumption DEF Init, Quota
<1>2. ASSUME NEW t \in T PROVE SlotInv(t)
  BY <1>2 DEF Init, SlotInv
<1>3. RowInv
  BY <1>1 DEF Init, RowInv
<1> QED
  BY <1>2, <1>3 DEF SampleInv

\* The invariant is inductive.
LEMMA StepInv == Inv /\ [Next]_vars => Inv'
<1> SUFFICES ASSUME IInv, SampleInv, [Next]_vars PROVE IInv' /\ SampleInv'
  BY DEF Inv
<1>1. CASE UNCHANGED vars
  <2>1. T' = T /\ NotArrived' = NotArrived
    BY <1>1 DEF vars, cell, T, NotArrived
  <2>2. TypeOK'
    BY <1>1, <2>1 DEF IInv, TypeOK, vars, cell, mainVars, workerVars
  <2>3. LatchInv' /\ StageInv'
    BY <1>1, <2>1 DEF IInv, LatchInv, StageInv, vars, cell, mainVars, workerVars
  <2>4. ServingInv'
    BY <1>1, ServingKept DEF IInv, vars, workerVars
  <2>5. SampleInv'
    BY <1>1, <2>1 DEF SampleInv, SlotInv, RowInv, Quota, vars, cell, mainVars, workerVars
  <2> QED
    BY <2>2, <2>3, <2>4, <2>5 DEF IInv
<1>2. ASSUME NEW t \in T, Worker(t) \/ Recheck(t)
      PROVE  IInv' /\ SampleInv'
  BY <1>2, WorkerSamples, BeginStep, EndStep, CountDownStep, PassGoStep, MoveStep DEF Worker
<1>3. CASE Main
  <2>1. Merge => merged < threads
    BY DEF Merge, SampleInv, RowInv
  <2> QED
    BY <1>3, <2>1, MainSamples, SpawnStep, OpenWindowStep, ReleaseStep, NotifyAllStep, JoinStep,
       CloseWindowStep, MergeStep DEF Main
<1> QED
  BY <1>1, <1>2, <1>3 DEF Next, Finished

\* The invariant holds of every run.
LEMMA Invariance == Spec => []Inv
<1>1. Init => Inv
  BY InitInv, InitSamples DEF Inv
<1> QED
  BY <1>1, StepInv, PTL DEF Spec

\* The variables keep their types: in particular a thread serves only users
\* that exist (shardFor, makeRequest).
THEOREM TypeCorrect == Spec => []TypeOK
<1>1. Inv => TypeOK
  BY DEF Inv, IInv
<1> QED
  BY <1>1, Invariance, PTL

\* The timed window holds every timed request and no warm-up (runCell's
\* latch, start flag and joins).
THEOREM WindowExactCorrect == Spec => []WindowExact
<1>1. ASSUME Inv PROVE WindowExact
  <2>1. TypeOK /\ StageInv
    BY <1>1 DEF Inv, IInv
  <2>2. window = "over" => \A t \in T : pc[t] = "exited"
    <3>1. \A t \in T : t < threads
      BY <2>1, CellFacts DEF T, Cell
    <3> QED
      BY <2>1, <3>1 DEF StageInv
  <2>3. window # "closed" => \A t \in T : pc[t] \notin {"unborn", "warmup"}
    BY <2>1 DEF StageInv, NotArrived
  <2>4. window = "closed" => \A t \in T : pc[t] \notin {"timed", "exited"}
    BY <2>1 DEF StageInv
  <2> QED
    BY <2>2, <2>3, <2>4 DEF WindowExact
<1> QED
  BY <1>1, Invariance, PTL

\* Threads with users of their own never serve the same one at once
\* (shardFor's contiguous ranges).
THEOREM UsersDisjointCorrect == Spec => []UsersDisjoint
<1>1. ASSUME Inv, users >= threads, NEW t \in T, NEW v \in T, t < v, serving[t] # -1
      PROVE  serving[t] # serving[v]
  <2>1. Cell /\ TypeOK /\ ServingInv
    BY <1>1, CellFacts DEF Inv, IInv
  <2>2. /\ ShardFor(t).begin \in Nat /\ ShardFor(t).size \in Nat /\ ShardFor(v).begin \in Nat
        /\ ShardFor(t).begin + ShardFor(t).size <= ShardFor(v).begin
    BY <1>1, <2>1, ShardWithin, ShardsFollow
  <2>3. serving[t] \in Int /\ serving[v] \in Int
    BY <2>1 DEF TypeOK, Cell
  <2>4. CASE serving[v] = -1
    BY <1>1, <2>4
  <2>5. CASE serving[v] # -1
    <3>1. /\ serving[t] < ShardFor(t).begin + ShardFor(t).size
          /\ serving[v] >= ShardFor(v).begin
      BY <1>1, <2>1, <2>5 DEF ServingInv
    <3> QED
      BY <2>2, <2>3, <3>1
  <2> QED
    BY <2>4, <2>5
<1>2. ASSUME Inv PROVE UsersDisjoint
  <2>1. ASSUME users >= threads, NEW t \in T, NEW v \in T, t # v, serving[t] # -1
        PROVE  serving[t] # serving[v]
    <3>1. t \in Int /\ v \in Int
      BY <1>2, CellFacts DEF Inv, IInv
    <3>2. CASE t < v
      BY <1>1, <1>2, <2>1, <3>2
    <3>3. CASE v < t
      <4>1. CASE serving[v] = -1
        BY <2>1, <4>1
      <4>2. CASE serving[v] # -1
        BY <1>1, <1>2, <2>1, <3>3, <4>2
      <4> QED
        BY <4>1, <4>2
    <3> QED
      BY <2>1, <3>1, <3>2, <3>3
  <2> QED
    BY <2>1 DEF UsersDisjoint
<1> QED
  BY <1>2, Invariance, PTL

\* The merged row counts every sample, and no slot is written while it is
\* read (runCell joins before it merges).
THEOREM MergeCompleteCorrect == Spec => []MergeComplete
<1>1. ASSUME Inv PROVE MergeComplete
  <2>1. Cell /\ TypeOK /\ StageInv /\ SampleInv
    BY <1>1, CellFacts DEF Inv, IInv
  <2>2. main = "done" => total = IF users = 0 THEN 0 ELSE threads * Timed
    BY <2>1 DEF SampleInv, RowInv, Quota, Cell
  <2>3. main \in {"merge", "done"} => \A t \in T : serving[t] = -1
    <3>1. \A t \in T : t < threads
      BY <2>1 DEF T, Cell
    <3> QED
      BY <2>1, <3>1 DEF StageInv, SampleInv, SlotInv
  <2> QED
    BY <2>2, <2>3 DEF MergeComplete
<1> QED
  BY <1>1, Invariance, PTL

\* What runCell reports is the timed phase, all of it and nothing else.
THEOREM MeasurementExactCorrect == Spec => []MeasurementExact
BY WindowExactCorrect, MergeCompleteCorrect, PTL DEF MeasurementExact

------------------------------------------------------------------------------
(* Every user is measured *)

\* A number lies in the chunk its quotient names.
LEMMA QuotientChunk ==
  ASSUME NEW u \in Nat, NEW c \in Nat \ {0}
  PROVE  u \div c \in Nat /\ (u \div c) * c <= u /\ u < (u \div c) * c + c
OBVIOUS

\* Chunk numbers are ordered as the chunks are.
LEMMA ChunkOrder ==
  ASSUME NEW a \in Nat, NEW b \in Nat, NEW c \in Nat \ {0}, a * c < b * c
  PROVE  a < b
<1> SUFFICES ASSUME b <= a PROVE FALSE
  OBVIOUS
<1>1. b * c <= a * c
  BY ChunkMonotone
<1>2. a * c \in Nat /\ b * c \in Nat
  BY NextChunk
<1> QED
  BY <1>1, <1>2

\* With no fewer users than threads the shards hold all of them.
LEMMA ShardsCover ==
  ASSUME Cell, users >= threads, NEW u \in 0..users - 1
  PROVE  \E t \in T : \E k \in Nat : k < ShardFor(t).size /\ u = ShardFor(t).begin + k
<1> DEFINE chunk == users \div threads
           last == threads - 1
           q == u \div chunk
<1>1. chunk \in Nat \ {0} /\ users # 0 /\ users \in Nat /\ u \in Nat /\ u < users
  BY ChunkBound DEF Cell
<1>2. last \in T /\ last \in Nat /\ last + 1 = threads
  BY DEF T, Cell
<1>3. q \in Nat /\ q * chunk <= u /\ u < q * chunk + chunk /\ q * chunk \in Nat
  <2> HIDE DEF chunk
  <2> QED
    BY <1>1, QuotientChunk, NextChunk
<1>4. last * chunk \in Nat
  <2> HIDE DEF chunk, last
  <2> QED
    BY <1>1, <1>2, NextChunk
<1>5. CASE last * chunk <= u
  <2>1. ShardFor(last) = [begin |-> last * chunk, size |-> users - last * chunk]
    BY <1>1, <1>2 DEF ShardFor
  <2> DEFINE begin == last * chunk
             k == u - begin
  <2>2. ShardFor(last).begin = begin /\ ShardFor(last).size = users - begin /\ begin \in Nat /\ begin <= u
    BY <1>4, <1>5, <2>1
  <2> HIDE DEF begin
  <2>3. k \in Nat /\ k < users - begin /\ u = begin + k
    BY <1>1, <2>2
  <2> QED
    BY <1>2, <2>2, <2>3
<1>6. CASE u < last * chunk
  <2>1. q < last
    <3>1. q * chunk < last * chunk
      <4> DEFINE x == q * chunk
                 y == last * chunk
      <4>1. x \in Nat /\ y \in Nat /\ x <= u /\ u < y
        BY <1>3, <1>4, <1>6
      <4> HIDE DEF x, y
      <4>2. x < y
        BY <1>1, <4>1
      <4> QED
        BY <4>2 DEF x, y
    <3> HIDE DEF chunk, q, last
    <3> QED
      BY <1>1, <1>2, <1>3, <3>1, ChunkOrder
  <2>2. q \in T /\ q + 1 # threads
    BY <1>2, <1>3, <2>1 DEF T, Cell
  <2>3. ShardFor(q) = [begin |-> q * chunk, size |-> chunk]
    BY <1>1, <2>2 DEF ShardFor
  <2> DEFINE begin == q * chunk
             k == u - begin
  <2>4. /\ ShardFor(q).begin = begin /\ ShardFor(q).size = chunk
        /\ begin \in Nat /\ begin <= u /\ u < begin + chunk
    BY <1>3, <2>3
  <2> HIDE DEF begin, chunk, q
  <2>5. k \in Nat /\ k < chunk /\ u = begin + k
    BY <1>1, <2>4
  <2> QED
    BY <2>2, <2>4, <2>5
<1>7. last * chunk <= u \/ u < last * chunk
  <2> HIDE DEF chunk, last
  <2> QED
    BY <1>1, <1>4
<1> QED
  BY <1>5, <1>6, <1>7

\* What a thread has timed, in the order of its shard.
CoverInv(t) ==
  /\ pc[t] \in {"timed", "exited"} =>
       \A k \in Nat : k < served[t] /\ k < ShardFor(t).size => ShardFor(t).begin + k \in measured
  /\ serving[t] # -1 => serving[t] = ShardFor(t).begin + (served[t] % ShardFor(t).size)
  /\ pc[t] = "exited" => served[t] >= Timed \/ ShardFor(t).size = 0

Covered == \A t \in T : CoverInv(t)

\* Nothing is timed at the start.
LEMMA InitCovered == Init => Covered
BY DEF Init, Covered, CoverInv

\* A number below the modulus is its own remainder.
LEMMA SmallRemainder ==
  ASSUME NEW a \in Nat, NEW c \in Nat \ {0}, a < c
  PROVE  a % c = a
OBVIOUS

\* A thread's k-th timed request is for the k-th user of its shard.
LEMMA StepCovered ==
  ASSUME Inv, Covered, [Next]_vars
  PROVE  Covered'
<1>1. TypeOK /\ Cell /\ SampleInv /\ StageInv
  BY CellFacts DEF Inv, IInv
<1>2. UNCHANGED cell /\ T' = T /\ (\A t \in T : ShardFor(t)' = ShardFor(t)) /\ measured \subseteq measured'
  <2>1. UNCHANGED cell /\ measured \subseteq measured'
    BY DEF Next, Main, Finished, Spawn, OpenWindow, Release, NotifyAll, Join, CloseWindow, Merge,
           Worker, Begin, End, CountDown, PassGo, Park, Return, Recheck, vars, workerVars
  <2> QED
    BY <2>1 DEF cell, T, ShardFor
<1>3. ASSUME NEW t \in T, pc'[t] \in {"timed", "exited"} => pc'[t] = pc[t],
             served'[t] = served[t], serving'[t] = serving[t]
      PROVE  CoverInv(t)'
  <2> DEFINE s == ShardFor(t)
  <2>1. CoverInv(t) /\ s' = s
    BY <1>2 DEF Covered
  <2> HIDE DEF s
  <2> QED
    BY <1>2, <1>3, <2>1 DEF CoverInv, s
<1>4. ASSUME NEW t \in T, Worker(t) \/ Recheck(t)
      PROVE  Covered'
  <2>1. ASSUME NEW v \in T, v # t
        PROVE  CoverInv(v)'
    <3>1. pc'[v] = pc[v] /\ served'[v] = served[v] /\ serving'[v] = serving[v]
      BY <1>1, <1>4, <2>1 DEF Worker, Begin, End, CountDown, PassGo, Park, Return, Recheck,
                              TypeOK, workerVars
    <3> QED
      BY <1>3, <3>1
  <2>2. CoverInv(t)'
    <3> DEFINE b == ShardFor(t).begin
               z == ShardFor(t).size
    <3>1. /\ ShardFor(t)'.begin = b /\ ShardFor(t)'.size = z
          /\ b \in Nat /\ z \in Nat /\ served[t] \in Nat /\ SlotInv(t)
      BY <1>1, <1>2, ShardWithin DEF TypeOK, SampleInv
    <3>2. /\ pc[t] \in {"timed", "exited"} =>
               \A k \in Nat : k < served[t] /\ k < z => b + k \in measured
          /\ serving[t] # -1 => serving[t] = b + (served[t] % z)
          /\ pc[t] = "exited" => served[t] >= Timed \/ z = 0
      BY DEF Covered, CoverInv
    <3> SUFFICES /\ pc'[t] \in {"timed", "exited"} =>
                      \A k \in Nat : k < served'[t] /\ k < z => b + k \in measured'
                 /\ serving'[t] # -1 => serving'[t] = b + (served'[t] % z)
                 /\ pc'[t] = "exited" => served'[t] >= Timed \/ z = 0
      BY <3>1 DEF CoverInv
    <3>3. CASE Begin(t)
      <4>1. pc' = pc /\ served' = served /\ measured' = measured /\ serving'[t] = b + (served[t] % z)
        BY <1>1, <3>3 DEF Begin, TypeOK
      <4> QED
        BY <3>2, <4>1
    <3>4. CASE End(t)
      <4>1. /\ pc' = pc /\ served'[t] = served[t] + 1 /\ serving'[t] = -1
            /\ serving[t] # -1 /\ pc[t] \in {"warmup", "timed"}
            /\ pc[t] = "timed" => serving[t] \in measured'
        BY <1>1, <3>1, <3>4 DEF End, TypeOK, SlotInv
      <4>2. ASSUME pc[t] = "timed", NEW k \in Nat, k < served[t] + 1, k < z
            PROVE  b + k \in measured'
        <5>1. CASE k < served[t]
          BY <1>2, <3>2, <4>2, <5>1
        <5>2. CASE k = served[t]
          <6>1. served[t] % z = k
            BY <3>1, <4>2, <5>2, SmallRemainder
          <6>2. serving[t] = b + k
            BY <3>2, <4>1, <6>1
          <6> QED
            BY <4>1, <4>2, <6>2
        <5> HIDE DEF b, z
        <5> QED
          BY <3>1, <4>2, <5>1, <5>2
      <4> QED
        BY <4>1, <4>2
    <3>5. CASE PassGo(t)
      <4>1. pc'[t] = "timed" /\ served'[t] = 0 /\ serving'[t] = -1
        BY <1>1, <3>1, <3>5 DEF PassGo, TypeOK, SlotInv
      <4> QED
        BY <4>1
    <3>6. CASE Return(t)
      <4>1. /\ pc[t] = "timed" /\ pc'[t] = "exited" /\ serving'[t] = -1
            /\ served' = served /\ measured' = measured
            /\ served[t] >= Timed \/ z = 0
        BY <1>1, <3>6 DEF Return, LoopDone, TypeOK, workerVars
      <4> QED
        BY <3>2, <4>1
    <3>7. CASE CountDown(t) \/ Park(t) \/ Recheck(t)
      <4>1. pc'[t] \in {"check", "parked"} /\ served' = served /\ serving' = serving
        BY <1>1, <3>7 DEF CountDown, Park, Recheck, TypeOK, workerVars
      <4> QED
        BY <3>2, <4>1
    <3> QED
      BY <1>4, <3>3, <3>4, <3>5, <3>6, <3>7 DEF Worker
  <2> QED
    BY <1>2, <2>1, <2>2 DEF Covered
<1>5. CASE Main \/ UNCHANGED vars
  <2>1. ASSUME NEW t \in T
        PROVE  /\ served'[t] = served[t] /\ serving'[t] = serving[t]
               /\ pc'[t] \in {"timed", "exited"} => pc'[t] = pc[t]
    <3>1. CASE Spawn
      <4>1. spawned \in T
        BY <1>1, <3>1 DEF Spawn, TypeOK, T, Cell
      <4> QED
        BY <1>1, <3>1, <4>1 DEF Spawn, TypeOK, workerVars
    <3>2. CASE NotifyAll
      BY <3>2 DEF NotifyAll, workerVars
    <3> QED
      BY <1>5, <3>1, <3>2 DEF Main, OpenWindow, Release, Join, CloseWindow, Merge, workerVars, vars
  <2> QED
    BY <1>2, <1>3, <2>1 DEF Covered
<1> QED
  BY <1>4, <1>5 DEF Next, Finished

\* Threads with users of their own serve them apart, and when the requests go
\* round every shard all users are measured (shardFor, makeRequest's modulo).
THEOREM UsersSplitCorrect == Spec => []UsersSplit
<1>1. Init => Inv /\ Covered
  BY InitInv, InitSamples, InitCovered DEF Inv
<1>2. Inv /\ Covered /\ [Next]_vars => (Inv /\ Covered)'
  BY StepInv, StepCovered
<1>3. ASSUME Inv, Covered PROVE EveryUserMeasured
  <2> SUFFICES ASSUME main = "done", users >= threads, \A t \in T : Timed >= ShardFor(t).size
               PROVE  measured = 0..users - 1
    BY DEF EveryUserMeasured
  <2>1. TypeOK /\ Cell /\ StageInv
    BY <1>3, CellFacts DEF Inv, IInv
  <2>2. ASSUME NEW u \in 0..users - 1
        PROVE  u \in measured
    <3>1. PICK t \in T : \E k \in Nat : k < ShardFor(t).size /\ u = ShardFor(t).begin + k
      BY <2>1, ShardsCover
    <3>2. PICK k \in Nat : k < ShardFor(t).size /\ u = ShardFor(t).begin + k
      BY <3>1
    <3>3. pc[t] = "exited" /\ CoverInv(t)
      BY <1>3, <2>1 DEF StageInv, Covered, T, Cell
    <3>4. ShardFor(t).size \in Nat /\ Timed >= ShardFor(t).size /\ served[t] \in Nat /\ Timed \in Nat
      BY <2>1, ShardWithin, CellAssumption DEF TypeOK
    <3> DEFINE z == ShardFor(t).size
    <3>5. k < served[t]
      <4>1. served[t] >= Timed \/ z = 0
        BY <3>3 DEF CoverInv
      <4>2. k < z /\ z \in Nat /\ Timed >= z
        BY <3>2, <3>4
      <4> HIDE DEF z
      <4> QED
        BY <3>4, <4>1, <4>2
    <3> QED
      BY <3>2, <3>3, <3>5 DEF CoverInv
  <2> QED
    BY <2>1, <2>2 DEF TypeOK
<1> QED
  BY <1>1, <1>2, <1>3, UsersDisjointCorrect, PTL DEF Spec, UsersSplit
=============================================================================
