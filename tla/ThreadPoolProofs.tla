-------------------------- MODULE ThreadPoolProofs --------------------------
(***************************************************************************)
(* Theorems about ThreadPool, for every number of tasks, callers, threads  *)
(* and ring places, and every set of faults.                               *)
(***************************************************************************)
EXTENDS ThreadPool, FiniteSetTheorems, TLAPS

(* The manager's loop variables stay inside the loops that use them.       *)
ManagerOK ==
  /\ manager \in {"loop", "sample", "shrink", "sleep"} => idx = 0 /\ add = 0
  /\ manager = "count" => idx < ThreadMax /\ add < ThreadMin
  /\ manager = "signal" => idx < ThreadMin /\ add = 0

TypeInv == TypeOK /\ ManagerOK

LEMMA InitTypeInv == Init => TypeInv
<1> SUFFICES ASSUME Init PROVE TypeInv
  OBVIOUS
<1>1. PICK failed \in SUBSET (0 .. ThreadMin - 1) :
        /\ worker = [s \in Slots |-> IF s >= ThreadMin THEN "none"
                                     ELSE IF s \in failed THEN "gone" ELSE "loop"]
        /\ phantom = Cardinality(failed)
  BY DEF Init
<1>2. phantom \in Nat
  <2>1. IsFiniteSet(0 .. ThreadMin - 1)
    BY FS_Interval, PoolAssumption
  <2>2. IsFiniteSet(failed)
    BY <2>1, FS_Subset
  <2> QED BY <1>1, <2>2, FS_CardinalityType
<1>3. worker \in [Slots -> WorkerPC]
  BY <1>1 DEF WorkerPC
<1>4. TypeOK
  <2>1. queue_task \in [Ring -> Tasks \cup {NoTask}]
    BY DEF Init
  <2>2. job \in [Slots -> Tasks \cup {NoTask}]
    BY DEF Init
  <2>3. producer \in [Producers -> ProducerPC] /\ hand \in [Producers -> Tasks \cup {NoTask}]
    BY DEF Init, ProducerPC
  <2>4. queue_front \in Ring /\ queue_rear \in Ring /\ queue_cur \in 0 .. QueueMax
    BY PoolAssumption DEF Init, Ring
  <2>5. /\ thread_alive \in Int /\ thread_busy \in Int /\ killno \in Int
        /\ shut_down \in {0, 1}
    BY PoolAssumption DEF Init
  <2>6. manager \in ManagerPC /\ idx \in 0 .. ThreadMax /\ add \in 0 .. ThreadMin
    BY PoolAssumption DEF Init, ManagerPC
  <2>7. shrink \in BOOLEAN /\ updater \in {"up", "dead"}
    BY DEF Init
  <2> QED BY <1>2, <1>3, <2>1, <2>2, <2>3, <2>4, <2>5, <2>6, <2>7 DEF TypeOK
<1> QED BY <1>4 DEF Init, TypeInv, ManagerOK

LEMMA NextPosInRing == ASSUME NEW i \in Ring PROVE NextPos(i) \in Ring
BY PoolAssumption DEF NextPos, Ring

LEMMA StepTypeInv == TypeInv /\ [Next]_vars => TypeInv'
<1> SUFFICES ASSUME TypeInv, [Next]_vars PROVE TypeInv'
  OBVIOUS
<1> USE PoolAssumption DEF TypeInv, TypeOK, ManagerOK, ring, counters, crew,
    callers, mgr, WorkerPC, ProducerPC, ManagerPC
<1>1. CASE UNCHANGED vars
  BY <1>1 DEF vars
<1>2. ASSUME NEW p \in Producers, NEW t \in Tasks, Submit(p, t) PROVE TypeInv'
  BY <1>2 DEF Submit
<1>3. ASSUME NEW p \in Producers, AddWait(p) PROVE TypeInv'
  BY <1>3 DEF AddWait
<1>4. ASSUME NEW p \in Producers, AddRefused(p) PROVE TypeInv'
  BY <1>4 DEF AddRefused
<1>5. ASSUME NEW p \in Producers, AddTask(p) PROVE TypeInv'
  <2>1. queue_front' \in Ring
    BY <1>5, NextPosInRing DEF AddTask
  <2>2. queue_cur' \in 0 .. QueueMax
    BY <1>5 DEF AddTask, RingFull
  <2> QED BY <1>5, <2>1, <2>2 DEF AddTask
<1>6. ASSUME NEW p \in Producers, AddSignal(p) PROVE TypeInv'
  BY <1>6 DEF AddSignal, WakeWorker, At
<1>7. ASSUME NEW p \in Producers, AddSpurious(p) PROVE TypeInv'
  BY <1>7 DEF AddSpurious
<1>8. ASSUME NEW s \in Slots, WorkerLoop(s) PROVE TypeInv'
  BY <1>8 DEF WorkerLoop
<1>9. ASSUME NEW s \in Slots, WorkerWait(s) PROVE TypeInv'
  BY <1>9 DEF WorkerWait
<1>10. ASSUME NEW s \in Slots, WorkerSpurious(s) PROVE TypeInv'
  BY <1>10 DEF WorkerSpurious
<1>11. ASSUME NEW s \in Slots, WorkerKilled(s) PROVE TypeInv'
  BY <1>11 DEF WorkerKilled
<1>12. ASSUME NEW s \in Slots, WorkerTake(s) PROVE TypeInv'
  <2>1. queue_rear' \in Ring
    BY <1>12, NextPosInRing DEF WorkerTake
  <2>2. queue_cur' \in 0 .. QueueMax
    BY <1>12 DEF WorkerTake
  <2>3. job' \in [Slots -> Tasks \cup {NoTask}]
    BY <1>12 DEF WorkerTake, NextTask
  <2> QED BY <1>12, <2>1, <2>2, <2>3 DEF WorkerTake
<1>13. ASSUME NEW s \in Slots, WorkerSignal(s) PROVE TypeInv'
  BY <1>13 DEF WorkerSignal, WakeProducer, ProdAt
<1>14. ASSUME NEW s \in Slots, JobReturn(s) PROVE TypeInv'
  BY <1>14 DEF JobReturn
<1>15. ASSUME NEW s \in Slots, WorkerSigPipe(s) PROVE TypeInv'
  BY <1>15 DEF WorkerSigPipe, HandlePipe
<1>16. CASE UpdaterSigPipe
  BY <1>16 DEF UpdaterSigPipe, HandlePipe
<1>17. CASE ManagerLoop
  BY <1>17 DEF ManagerLoop
<1>18. CASE ManagerSample
  BY <1>18 DEF ManagerSample
<1>19. CASE GrowSkip
  BY <1>19 DEF GrowSkip
<1>20. CASE GrowCreate
  <2>1. worker' \in [Slots -> WorkerPC] /\ phantom' \in Nat
    BY <1>20 DEF GrowCreate
  <2> QED BY <1>20, <2>1 DEF GrowCreate
<1>21. CASE GrowCount
  BY <1>21 DEF GrowCount
<1>22. CASE GrowDone
  <2>1. shrink' \in BOOLEAN /\ manager' \in {"shrink", "sleep"}
    BY <1>22 DEF GrowDone
  <2> QED BY <1>22, <2>1 DEF GrowDone
<1>23. CASE ManagerShrink
  BY <1>23 DEF ManagerShrink
<1>24. CASE ManagerSignal
  BY <1>24 DEF ManagerSignal, WakeWorker, At
<1>25. CASE ManagerSleep
  BY <1>25 DEF ManagerSleep
<1>26. CASE Destroy
  BY <1>26 DEF Destroy
<1> QED
  BY <1>1, <1>2, <1>3, <1>4, <1>5, <1>6, <1>7, <1>8, <1>9, <1>10, <1>11, <1>12,
     <1>13, <1>14, <1>15, <1>16, <1>17, <1>18, <1>19, <1>20, <1>21, <1>22, <1>23,
     <1>24, <1>25, <1>26
  DEF Next, ProducerStep, WorkerStep, ManagerStep

(* Every index stays inside its array and every thread at a known place,   *)
(* whatever the sizes and the faults: the ring never indexes past          *)
(* queue_max nor the manager past tids[thread_max - 1].                    *)
THEOREM TypeCorrect == Spec => []TypeOK
<1>1. Init => TypeInv
  BY InitTypeInv
<1>2. TypeInv /\ [Next]_vars => TypeInv'
  BY StepTypeInv
<1>3. TypeInv => TypeOK
  BY DEF TypeInv
<1> QED BY <1>1, <1>2, <1>3, PTL DEF Spec

-----------------------------------------------------------------------------
(* A count n of members when one candidate was in or out, and is now.      *)
Moved(n, was, is) == IF was THEN (IF is THEN n ELSE n - 1)
                            ELSE (IF is THEN n + 1 ELSE n)

(* How a cardinality changes when one element may enter or leave.          *)
LEMMA CountMove ==
  ASSUME NEW S, IsFiniteSet(S), NEW T, NEW d, \A x : x # d => (x \in S <=> x \in T)
  PROVE  /\ Cardinality(S) \in Nat /\ Cardinality(T) \in Nat
         /\ Cardinality(T) = Moved(Cardinality(S), d \in S, d \in T)
<1>1. Cardinality(S) \in Nat
  BY FS_CardinalityType
<1>2. CASE d \in T
  <2>1. T = S \cup {d} /\ Cardinality(S \cup {d}) \in Nat
    BY <1>2, FS_AddElement, FS_CardinalityType
  <2>2. Cardinality(T) = IF d \in S THEN Cardinality(S) ELSE Cardinality(S) + 1
    BY <2>1, FS_AddElement
  <2> QED BY <1>1, <1>2, <2>1, <2>2 DEF Moved
<1>3. CASE d \notin T
  <2>1. T = S \ {d} /\ Cardinality(S \ {d}) \in Nat
    BY <1>3, FS_RemoveElement, FS_CardinalityType
  <2>2. Cardinality(T) = IF d \in S THEN Cardinality(S) - 1 ELSE Cardinality(S)
    BY <2>1, FS_RemoveElement
  <2> QED BY <1>1, <1>3, <2>1, <2>2 DEF Moved
<1> QED BY <1>2, <1>3

LEMMA SetsFinite ==
  /\ IsFiniteSet(BusySlots) /\ IsFiniteSet(LiveSlots)
  /\ \A pc : IsFiniteSet(At(pc)) /\ IsFiniteSet(ProdAt(pc))
<1>1. 0 \in Int /\ ThreadMax - 1 \in Int
  BY PoolAssumption
<1>2. IsFiniteSet(Slots) /\ IsFiniteSet(Producers)
  BY <1>1, FS_Interval, PoolAssumption DEF Slots
<1>3. BusySlots \in SUBSET Slots /\ LiveSlots \in SUBSET Slots
  BY DEF BusySlots, LiveSlots
<1>4. \A pc : At(pc) \in SUBSET Slots /\ ProdAt(pc) \in SUBSET Producers
  BY DEF At, ProdAt
<1> QED BY <1>2, <1>3, <1>4, FS_Subset

(* A worker moves: how the counted sets of slots change.                   *)
LEMMA WorkerMove ==
  ASSUME TypeOK, NEW s \in Slots, NEW w, worker' = [worker EXCEPT ![s] = w]
  PROVE  /\ \A pc : /\ Cardinality(At(pc)) \in Nat /\ Cardinality(At(pc)') \in Nat
                    /\ Cardinality(At(pc)')
                         = Moved(Cardinality(At(pc)), worker[s] = pc, w = pc)
         /\ Cardinality(BusySlots) \in Nat
         /\ Cardinality(BusySlots')
              = Moved(Cardinality(BusySlots), worker[s] \in {"signal", "run"},
                      w \in {"signal", "run"})
         /\ Cardinality(LiveSlots) \in Nat
         /\ Cardinality(LiveSlots')
              = Moved(Cardinality(LiveSlots), worker[s] \notin {"none", "gone"},
                      w \notin {"none", "gone"})
<1>1. DOMAIN worker = Slots
  BY DEF TypeOK
<1>2. ASSUME NEW pc
      PROVE  /\ Cardinality(At(pc)) \in Nat /\ Cardinality(At(pc)') \in Nat
             /\ Cardinality(At(pc)')
                  = Moved(Cardinality(At(pc)), worker[s] = pc, w = pc)
  <2>1. /\ \A x : x # s => (x \in At(pc) <=> x \in At(pc)')
        /\ (s \in At(pc)' <=> w = pc) /\ (s \in At(pc) <=> worker[s] = pc)
    BY <1>1 DEF At
  <2> QED BY <2>1, SetsFinite, CountMove DEF Moved
<1>3. /\ Cardinality(BusySlots) \in Nat
      /\ Cardinality(BusySlots')
           = Moved(Cardinality(BusySlots), worker[s] \in {"signal", "run"},
                   w \in {"signal", "run"})
  <2>1. /\ \A x : x # s => (x \in BusySlots <=> x \in BusySlots')
        /\ s \in BusySlots' <=> w \in {"signal", "run"}
        /\ s \in BusySlots <=> worker[s] \in {"signal", "run"}
    BY <1>1 DEF BusySlots
  <2> QED BY <2>1, SetsFinite, CountMove DEF Moved
<1>4. /\ Cardinality(LiveSlots) \in Nat
      /\ Cardinality(LiveSlots')
           = Moved(Cardinality(LiveSlots), worker[s] \notin {"none", "gone"},
                   w \notin {"none", "gone"})
  <2>1. /\ \A x : x # s => (x \in LiveSlots <=> x \in LiveSlots')
        /\ s \in LiveSlots' <=> w \notin {"none", "gone"}
        /\ s \in LiveSlots <=> worker[s] \notin {"none", "gone"}
    BY <1>1 DEF LiveSlots, Live
  <2> QED BY <2>1, SetsFinite, CountMove DEF Moved
<1> QED BY <1>2, <1>3, <1>4

LEMMA ProducerMove ==
  ASSUME TypeOK, NEW p \in Producers, NEW w, producer' = [producer EXCEPT ![p] = w]
  PROVE  \A pc : /\ Cardinality(ProdAt(pc)) \in Nat /\ Cardinality(ProdAt(pc)') \in Nat
                 /\ Cardinality(ProdAt(pc)')
                      = Moved(Cardinality(ProdAt(pc)), producer[p] = pc, w = pc)
<1>1. DOMAIN producer = Producers
  BY DEF TypeOK
<1>2. ASSUME NEW pc
      PROVE  /\ Cardinality(ProdAt(pc)) \in Nat /\ Cardinality(ProdAt(pc)') \in Nat
             /\ Cardinality(ProdAt(pc)')
                  = Moved(Cardinality(ProdAt(pc)), producer[p] = pc, w = pc)
  <2>1. /\ \A x : x # p => (x \in ProdAt(pc) <=> x \in ProdAt(pc)')
        /\ (p \in ProdAt(pc)' <=> w = pc) /\ (p \in ProdAt(pc) <=> producer[p] = pc)
    BY <1>1 DEF ProdAt
  <2> QED BY <2>1, SetsFinite, CountMove DEF Moved
<1> QED BY <1>2

LEMMA CountsKept ==
  /\ UNCHANGED worker => /\ UNCHANGED <<BusySlots, LiveSlots>>
                         /\ \A pc : At(pc)' = At(pc)
  /\ UNCHANGED producer => \A pc : ProdAt(pc)' = ProdAt(pc)
BY DEF BusySlots, LiveSlots, Live, At, ProdAt

-----------------------------------------------------------------------------
LEMMA InitCounters == Init => CountersMatchThreads
<1> SUFFICES ASSUME Init PROVE CountersMatchThreads
  OBVIOUS
<1>1. PICK failed \in SUBSET (0 .. ThreadMin - 1) :
        /\ worker = [s \in Slots |-> IF s >= ThreadMin THEN "none"
                                     ELSE IF s \in failed THEN "gone" ELSE "loop"]
        /\ phantom = Cardinality(failed)
  BY DEF Init
<1>2. BusySlots = {}
  BY <1>1 DEF BusySlots
<1>3. LiveSlots = (0 .. ThreadMin - 1) \ failed
  BY <1>1, PoolAssumption DEF LiveSlots, Live, Slots
<1>4. /\ IsFiniteSet(0 .. ThreadMin - 1)
      /\ Cardinality(0 .. ThreadMin - 1) = ThreadMin
  <2>1. 0 \in Int /\ ThreadMin - 1 \in Int
    BY PoolAssumption
  <2> QED BY <2>1, FS_Interval, PoolAssumption
<1>5. /\ (0 .. ThreadMin - 1) \cap failed = failed
      /\ Cardinality(failed) \in Nat
  BY <1>4, FS_Subset, FS_CardinalityType
<1>6. Cardinality(LiveSlots) = ThreadMin - Cardinality(failed)
  <2>1. Cardinality((0 .. ThreadMin - 1) \ failed)
          = Cardinality(0 .. ThreadMin - 1) - Cardinality((0 .. ThreadMin - 1) \cap failed)
    BY <1>4, FS_Difference
  <2> QED BY <2>1, <1>3, <1>4, <1>5
<1> QED BY <1>1, <1>2, <1>5, <1>6, FS_EmptySet, PoolAssumption
    DEF Init, CountersMatchThreads, B2N

(* A worker moves and the counters follow it.                              *)
LEMMA CountersMove ==
  ASSUME TypeInv, TypeInv', CountersMatchThreads, NEW s \in Slots, NEW w,
         worker' = [worker EXCEPT ![s] = w], UNCHANGED <<updater, shut_down>>,
         thread_busy' = Moved(thread_busy, worker[s] \in {"signal", "run"},
                              w \in {"signal", "run"}),
         thread_alive' + B2N(manager' = "count") - phantom'
           = Moved(thread_alive + B2N(manager = "count") - phantom,
                   worker[s] \notin {"none", "gone"}, w \notin {"none", "gone"})
  PROVE  CountersMatchThreads'
<1>1. /\ Cardinality(BusySlots) \in Nat
      /\ Cardinality(BusySlots')
           = Moved(Cardinality(BusySlots), worker[s] \in {"signal", "run"},
                   w \in {"signal", "run"})
      /\ Cardinality(LiveSlots) \in Nat
      /\ Cardinality(LiveSlots')
           = Moved(Cardinality(LiveSlots), worker[s] \notin {"none", "gone"},
                   w \notin {"none", "gone"})
  BY WorkerMove DEF TypeInv
<1>2. /\ thread_busy \in Int /\ thread_alive \in Int /\ phantom \in Int
      /\ thread_busy' \in Int /\ thread_alive' \in Int /\ phantom' \in Int
  BY DEF TypeInv, TypeOK
<1>3. PICK c \in {0, 1}, d \in {0, 1}, o \in {0, 1} :
        c = B2N(manager = "count") /\ d = B2N(manager' = "count") /\ o = B2N(updater = "dead")
  BY DEF B2N
<1>4. thread_busy' + o = Cardinality(BusySlots')
  BY <1>1, <1>2, <1>3 DEF CountersMatchThreads, Moved
<1>5. /\ thread_alive + o + c - phantom >= Cardinality(LiveSlots)
      /\ shut_down = 1 => thread_alive + o + c - phantom = Cardinality(LiveSlots)
  BY <1>3 DEF CountersMatchThreads
<1>6. thread_alive' + d - phantom'
        = Moved(thread_alive + c - phantom,
                worker[s] \notin {"none", "gone"}, w \notin {"none", "gone"})
  BY <1>3
<1>7. /\ thread_alive' + o + d - phantom' >= Cardinality(LiveSlots')
      /\ shut_down = 1 => thread_alive' + o + d - phantom' = Cardinality(LiveSlots')
  <2>1. \A m, a \in Int, x, y \in BOOLEAN :
          /\ Moved(m, x, y) \in Int /\ Moved(a, x, y) - Moved(m, x, y) = a - m
    BY DEF Moved
  <2>2. /\ thread_alive + c - phantom \in Int /\ Cardinality(LiveSlots) \in Int
    BY <1>1, <1>2
  <2>3. PICK x \in BOOLEAN, y \in BOOLEAN :
          (x <=> worker[s] \notin {"none", "gone"}) /\ (y <=> w \notin {"none", "gone"})
    OBVIOUS
  <2>4. /\ Cardinality(LiveSlots') = Moved(Cardinality(LiveSlots), x, y)
        /\ thread_alive' + d - phantom' = Moved(thread_alive + c - phantom, x, y)
    BY <1>1, <1>6, <2>3 DEF Moved
  <2>5. /\ Cardinality(LiveSlots') \in Int
        /\ (thread_alive' + d - phantom') - Cardinality(LiveSlots')
             = (thread_alive + c - phantom) - Cardinality(LiveSlots)
    BY <2>1, <2>2, <2>4
  <2> QED BY <1>2, <1>5, <2>2, <2>5
<1> QED BY <1>3, <1>4, <1>7 DEF CountersMatchThreads

LEMMA StepCounters ==
  TypeInv /\ CountersMatchThreads /\ [Next]_vars => CountersMatchThreads'
<1> SUFFICES ASSUME TypeInv, CountersMatchThreads, [Next]_vars
             PROVE  CountersMatchThreads'
  OBVIOUS
<1>1. TypeOK /\ TypeInv'
  BY StepTypeInv DEF TypeInv
<1>2. ASSUME UNCHANGED <<thread_alive, thread_busy, shut_down, worker, updater, phantom>>,
             manager = "count" <=> manager' = "count"
      PROVE  CountersMatchThreads'
  BY <1>2, CountsKept DEF CountersMatchThreads, B2N
<1>3. ASSUME NEW s \in Slots, NEW w, worker' = [worker EXCEPT ![s] = w],
             worker[s] \in {"signal", "run"} <=> w \in {"signal", "run"},
             worker[s] \in {"none", "gone"} <=> w \in {"none", "gone"},
             UNCHANGED <<thread_alive, thread_busy, shut_down, updater, phantom>>,
             manager = "count" <=> manager' = "count"
      PROVE  CountersMatchThreads'
  BY <1>1, <1>3, CountersMove DEF TypeOK, B2N, Moved
<1>4. ASSUME WakeWorker, manager = "count" <=> manager' = "count",
             UNCHANGED <<thread_alive, thread_busy, shut_down, updater, phantom>>
      PROVE  CountersMatchThreads'
  BY <1>2, <1>3, <1>4 DEF WakeWorker, At
<1> USE DEF counters, crew, callers, mgr
<1>5. ASSUME NEW s \in Slots, WorkerLoop(s) PROVE CountersMatchThreads'
  <2>1. CASE shut_down # 0
    BY <1>3, <1>5, <2>1 DEF WorkerLoop
  <2>2. CASE shut_down = 0
    <3>1. /\ worker' = [worker EXCEPT ![s] = "gone"] /\ worker[s] = "loop"
          /\ UNCHANGED <<thread_alive, thread_busy, shut_down, updater, phantom, manager>>
      BY <1>5, <2>2 DEF WorkerLoop
    <3>2. /\ Cardinality(BusySlots') = Cardinality(BusySlots)
          /\ Cardinality(BusySlots) \in Nat /\ Cardinality(LiveSlots) \in Nat
          /\ Cardinality(LiveSlots') = Cardinality(LiveSlots) - 1
      BY <1>1, <3>1, WorkerMove DEF Moved
    <3> QED BY <1>1, <2>2, <3>1, <3>2 DEF TypeOK, CountersMatchThreads, B2N
  <2> QED BY <2>1, <2>2
<1>6. ASSUME NEW s \in Slots, WorkerWait(s) \/ WorkerSpurious(s) \/ WorkerSignal(s)
      PROVE  CountersMatchThreads'
  BY <1>3, <1>6 DEF WorkerWait, WorkerSpurious, WorkerSignal
<1>7. ASSUME NEW s \in Slots, WorkerKilled(s) PROVE CountersMatchThreads'
  <2>1. /\ worker' = [worker EXCEPT ![s] = "gone"] /\ worker[s] = "take"
        /\ UNCHANGED <<thread_busy, shut_down, updater, phantom, manager>>
        /\ thread_alive' = thread_alive - 1
    BY <1>7 DEF WorkerKilled
  <2>2. thread_alive' + B2N(manager' = "count") - phantom'
          = Moved(thread_alive + B2N(manager = "count") - phantom,
                  worker[s] \notin {"none", "gone"}, "gone" \notin {"none", "gone"})
    BY <1>1, <2>1 DEF TypeOK, B2N, Moved
  <2>3. thread_busy' = Moved(thread_busy, worker[s] \in {"signal", "run"},
                             "gone" \in {"signal", "run"})
    BY <2>1 DEF Moved
  <2> QED BY <1>1, <2>1, <2>2, <2>3, CountersMove
<1>8. ASSUME NEW s \in Slots, WorkerTake(s) PROVE CountersMatchThreads'
  BY <1>1, <1>8, CountersMove DEF WorkerTake, TypeOK, B2N, Moved
<1>9. ASSUME NEW s \in Slots, JobReturn(s) PROVE CountersMatchThreads'
  BY <1>1, <1>9, CountersMove DEF JobReturn, TypeOK, B2N, Moved
<1>10. ASSUME NEW s \in Slots, WorkerSigPipe(s) PROVE CountersMatchThreads'
  <2>1. /\ worker' = [worker EXCEPT ![s] = "gone"] /\ worker[s] = "run"
        /\ UNCHANGED <<shut_down, updater, phantom, manager>>
        /\ thread_alive' = thread_alive - 1 /\ thread_busy' = thread_busy - 1
    BY <1>10 DEF WorkerSigPipe, HandlePipe
  <2>2. thread_alive' + B2N(manager' = "count") - phantom'
          = Moved(thread_alive + B2N(manager = "count") - phantom,
                  worker[s] \notin {"none", "gone"}, "gone" \notin {"none", "gone"})
    BY <1>1, <2>1 DEF TypeOK, B2N, Moved
  <2>3. thread_busy' = Moved(thread_busy, worker[s] \in {"signal", "run"},
                             "gone" \in {"signal", "run"})
    BY <2>1 DEF Moved
  <2> QED BY <1>1, <2>1, <2>2, <2>3, CountersMove
<1>11. CASE UpdaterSigPipe
  BY <1>1, <1>11, CountsKept DEF TypeOK, UpdaterSigPipe, HandlePipe, CountersMatchThreads, B2N
<1>12. CASE GrowCreate
  <2>1. /\ idx \in Slots /\ worker[idx] \in {"none", "gone"}
        /\ manager = "grow" /\ manager' = "count"
        /\ UNCHANGED <<thread_alive, thread_busy, shut_down, updater>>
    BY <1>1, <1>12, PoolAssumption DEF TypeOK, GrowCreate, SlotLooksFree, Slots
  <2>2. CASE worker' = [worker EXCEPT ![idx] = "loop"] /\ UNCHANGED phantom
    <3>1. thread_alive' + B2N(manager' = "count") - phantom'
            = Moved(thread_alive + B2N(manager = "count") - phantom,
                    worker[idx] \notin {"none", "gone"}, "loop" \notin {"none", "gone"})
      BY <1>1, <2>1, <2>2 DEF TypeOK, B2N, Moved
    <3>2. thread_busy' = Moved(thread_busy, worker[idx] \in {"signal", "run"},
                               "loop" \in {"signal", "run"})
      BY <2>1 DEF Moved
    <3> QED BY <1>1, <2>1, <2>2, <3>1, <3>2, CountersMove
  <2>3. CASE worker' = [worker EXCEPT ![idx] = "gone"] /\ phantom' = phantom + 1
    <3>1. thread_alive' + B2N(manager' = "count") - phantom'
            = Moved(thread_alive + B2N(manager = "count") - phantom,
                    worker[idx] \notin {"none", "gone"}, "gone" \notin {"none", "gone"})
      BY <1>1, <2>1, <2>3 DEF TypeOK, B2N, Moved
    <3>2. thread_busy' = Moved(thread_busy, worker[idx] \in {"signal", "run"},
                               "gone" \in {"signal", "run"})
      BY <2>1 DEF Moved
    <3> QED BY <1>1, <2>1, <2>3, <3>1, <3>2, CountersMove
  <2> QED BY <1>12, <2>2, <2>3 DEF GrowCreate
<1>13. CASE GrowCount
  BY <1>1, <1>13, CountsKept DEF TypeOK, GrowCount, CountersMatchThreads, B2N
<1>14. CASE Destroy
  BY <1>1, <1>14, CountsKept DEF TypeOK, Destroy, CountersMatchThreads, B2N
<1>15. CASE ManagerSignal
  BY <1>4, <1>15 DEF ManagerSignal
<1>16. CASE UNCHANGED vars \/ ManagerLoop \/ ManagerSample \/ GrowSkip \/ GrowDone
            \/ ManagerShrink \/ ManagerSleep
  BY <1>2, <1>16 DEF vars, ManagerLoop, ManagerSample, GrowSkip, GrowDone,
     ManagerShrink, ManagerSleep
<1>17. ASSUME NEW p \in Producers,
              \/ \E t \in Tasks : Submit(p, t)
              \/ AddWait(p) \/ AddRefused(p) \/ AddTask(p) \/ AddSpurious(p)
       PROVE  CountersMatchThreads'
  BY <1>2, <1>17 DEF Submit, AddWait, AddRefused, AddTask, AddSpurious
<1>18. ASSUME NEW p \in Producers, AddSignal(p) PROVE CountersMatchThreads'
  BY <1>4, <1>18 DEF AddSignal
<1> QED
  BY <1>5, <1>6, <1>7, <1>8, <1>9, <1>10, <1>11, <1>12, <1>13, <1>14, <1>15, <1>16,
     <1>17, <1>18
  DEF Next, ProducerStep, WorkerStep, ManagerStep

(* The counters the manager steers by agree with the threads there are,    *)
(* at every step of every interleaving, whatever dies or fails to start,   *)
(* up to the updater's SIGPIPE and the failed creations, counted exactly.  *)
THEOREM CountersCorrect == Spec => []CountersMatchThreads
<1>1. Init => TypeInv /\ CountersMatchThreads
  BY InitTypeInv, InitCounters
<1>2. TypeInv /\ CountersMatchThreads /\ [Next]_vars
        => (TypeInv /\ CountersMatchThreads)'
  BY StepTypeInv, StepCounters
<1> QED BY <1>1, <1>2, PTL DEF Spec

(* A signal on `empty' wakes one sleeping worker, if there is one.         *)
LEMMA WorkerWoken ==
  ASSUME TypeOK, WakeWorker
  PROVE  /\ Cardinality(At("signal")') = Cardinality(At("signal"))
         /\ \/ At("wait") = {} /\ UNCHANGED worker
            \/ Cardinality(At("take")') = Cardinality(At("take")) + 1
<1>1. CASE At("wait") = {} /\ UNCHANGED worker
  BY <1>1, CountsKept
<1>2. CASE \E s \in At("wait") : worker' = [worker EXCEPT ![s] = "take"]
  <2>1. PICK s \in Slots : worker[s] = "wait" /\ worker' = [worker EXCEPT ![s] = "take"]
    BY <1>2 DEF At
  <2>2. \A pc : /\ Cardinality(At(pc)) \in Nat /\ Cardinality(At(pc)') \in Nat
                /\ Cardinality(At(pc)')
                     = Moved(Cardinality(At(pc)), worker[s] = pc, "take" = pc)
    <3>1. worker' = [worker EXCEPT ![s] = "take"]
      BY <2>1
    <3> QED BY <3>1, WorkerMove
  <2> QED BY <2>1, <2>2 DEF Moved
<1> QED BY <1>1, <1>2 DEF WakeWorker

-----------------------------------------------------------------------------
LEMMA InitNoStrandedProducer == Init => NoStrandedProducer
BY FS_EmptySet DEF Init, NoStrandedProducer, ProdAt

LEMMA StepNoStrandedProducer ==
  TypeInv /\ NoStrandedProducer /\ [Next]_vars => NoStrandedProducer'
<1> SUFFICES ASSUME TypeInv, NoStrandedProducer, [Next]_vars
             PROVE  NoStrandedProducer'
  OBVIOUS
<1>1. /\ TypeOK /\ queue_cur \in Int /\ QueueMax \in Int
      /\ \A pc : Cardinality(At(pc)) \in Nat /\ Cardinality(ProdAt(pc)) \in Nat
  BY SetsFinite, FS_CardinalityType, PoolAssumption DEF TypeInv, TypeOK
<1>2. ASSUME UNCHANGED <<queue_cur, shut_down>>, UNCHANGED producer,
             Cardinality(At("signal")') = Cardinality(At("signal"))
      PROVE  NoStrandedProducer'
  BY <1>2, CountsKept DEF NoStrandedProducer
<1>3. ASSUME NEW s \in Slots, NEW w, worker' = [worker EXCEPT ![s] = w],
             worker[s] # "signal", w # "signal",
             UNCHANGED <<queue_cur, shut_down>>, UNCHANGED producer
      PROVE  NoStrandedProducer'
  BY <1>1, <1>2, <1>3, WorkerMove DEF Moved
<1>4. ASSUME WakeWorker
      PROVE  Cardinality(At("signal")') = Cardinality(At("signal"))
  BY <1>1, <1>4, WorkerWoken
<1> USE DEF counters, crew, callers, mgr, ring
<1>5. ASSUME NEW p \in Producers, NEW t \in Tasks, Submit(p, t) PROVE NoStrandedProducer'
  <2>1. /\ producer' = [producer EXCEPT ![p] = "add"] /\ producer[p] = "idle"
        /\ UNCHANGED <<queue_cur, shut_down, worker>>
    BY <1>5 DEF Submit
  <2>2. Cardinality(ProdAt("add")') = Cardinality(ProdAt("add")) + 1
    BY <1>1, <2>1, ProducerMove DEF Moved
  <2>3. ProdAt("full")' = ProdAt("full")
    BY <1>1, <2>1 DEF ProdAt, TypeOK
  <2> QED BY <1>1, <2>1, <2>2, <2>3, CountsKept DEF NoStrandedProducer
<1>6. ASSUME NEW p \in Producers, AddWait(p) PROVE NoStrandedProducer'
  <2>1. /\ producer' = [producer EXCEPT ![p] = "full"] /\ producer[p] = "add"
        /\ UNCHANGED <<queue_cur, shut_down, worker>> /\ queue_cur = QueueMax
    BY <1>6 DEF AddWait, RingFull
  <2>2. /\ Cardinality(ProdAt("add")') \in Nat /\ Cardinality(At("signal")') \in Nat
    BY <1>1, <2>1, CountsKept, ProducerMove
  <2> QED BY <1>1, <2>1, <2>2 DEF NoStrandedProducer
<1>7. ASSUME NEW p \in Producers, AddRefused(p) PROVE NoStrandedProducer'
  BY <1>7 DEF AddRefused, NoStrandedProducer
<1>8. ASSUME NEW p \in Producers, AddTask(p) PROVE NoStrandedProducer'
  <2>1. /\ producer' = [producer EXCEPT ![p] = "signal"] /\ producer[p] = "add"
        /\ UNCHANGED <<shut_down, worker>> /\ queue_cur' = queue_cur + 1
    BY <1>8 DEF AddTask
  <2>2. Cardinality(ProdAt("add")') = Cardinality(ProdAt("add")) - 1
    BY <1>1, <2>1, ProducerMove DEF Moved
  <2>3. ProdAt("full")' = ProdAt("full")
    BY <1>1, <2>1 DEF ProdAt, TypeOK
  <2> QED BY <1>1, <2>1, <2>2, <2>3, CountsKept DEF NoStrandedProducer
<1>9. ASSUME NEW p \in Producers, AddSignal(p) PROVE NoStrandedProducer'
  <2>1. /\ producer' = [producer EXCEPT ![p] = "idle"] /\ producer[p] = "signal"
        /\ UNCHANGED <<shut_down, queue_cur>> /\ WakeWorker
    BY <1>9 DEF AddSignal
  <2>2. Cardinality(ProdAt("add")') = Cardinality(ProdAt("add"))
    BY <1>1, <2>1, ProducerMove DEF Moved
  <2>3. ProdAt("full")' = ProdAt("full")
    BY <1>1, <2>1 DEF ProdAt, TypeOK
  <2> QED BY <1>1, <1>4, <2>1, <2>2, <2>3 DEF NoStrandedProducer
<1>10. ASSUME NEW p \in Producers, producer[p] = "full",
              producer' = [producer EXCEPT ![p] = "add"], UNCHANGED <<shut_down, queue_cur>>,
              Cardinality(At("signal")') \in Nat,
              Cardinality(At("signal")') >= Cardinality(At("signal")) - 1
       PROVE  NoStrandedProducer'
  <2>1. Cardinality(ProdAt("add")') = Cardinality(ProdAt("add")) + 1
    BY <1>1, <1>10, ProducerMove DEF Moved
  <2>2. ProdAt("full") # {}
    BY <1>10 DEF ProdAt
  <2> QED BY <1>1, <1>10, <2>1, <2>2 DEF NoStrandedProducer
<1>11. ASSUME NEW p \in Producers, AddSpurious(p) PROVE NoStrandedProducer'
  <2>1. /\ producer[p] = "full" /\ producer' = [producer EXCEPT ![p] = "add"]
        /\ UNCHANGED <<shut_down, queue_cur, worker>>
    BY <1>11 DEF AddSpurious
  <2>2. /\ Cardinality(At("signal")') \in Nat
        /\ Cardinality(At("signal")') >= Cardinality(At("signal")) - 1
    BY <1>1, <2>1, CountsKept
  <2> QED BY <1>1, <1>10, <2>1, <2>2
<1>12. ASSUME NEW s \in Slots, WorkerTake(s) PROVE NoStrandedProducer'
  <2>1. /\ worker' = [worker EXCEPT ![s] = "signal"] /\ worker[s] = "take"
        /\ UNCHANGED <<shut_down, producer>> /\ queue_cur' = queue_cur - 1
    BY <1>12 DEF WorkerTake
  <2>2. Cardinality(At("signal")') = Cardinality(At("signal")) + 1
    BY <1>1, <2>1, WorkerMove DEF Moved
  <2> QED BY <1>1, <2>1, <2>2, CountsKept DEF NoStrandedProducer
<1>13. ASSUME NEW s \in Slots, WorkerSignal(s) PROVE NoStrandedProducer'
  <2>1. /\ worker' = [worker EXCEPT ![s] = "run"] /\ worker[s] = "signal"
        /\ UNCHANGED <<shut_down, queue_cur>> /\ WakeProducer
    BY <1>13 DEF WorkerSignal
  <2>2. Cardinality(At("signal")') = Cardinality(At("signal")) - 1
    BY <1>1, <2>1, WorkerMove DEF Moved
  <2>3. s \in At("signal")
    BY <2>1 DEF At
  <2>4. Cardinality(At("signal")') \in Nat
    BY <1>1, <2>2, <2>3, SetsFinite, FS_EmptySet
  <2>5. CASE ProdAt("full") = {} /\ UNCHANGED producer
    BY <2>5, CountsKept DEF NoStrandedProducer
  <2>6. CASE \E p \in ProdAt("full") : producer' = [producer EXCEPT ![p] = "add"]
    <3>1. PICK p \in Producers : /\ producer[p] = "full"
                                 /\ producer' = [producer EXCEPT ![p] = "add"]
      BY <2>6 DEF ProdAt
    <3>2. Cardinality(At("signal")') >= Cardinality(At("signal")) - 1
      BY <1>1, <2>2
    <3> QED BY <1>10, <2>1, <2>4, <3>1, <3>2
  <2> QED BY <2>1, <2>5, <2>6 DEF WakeProducer
<1>14. ASSUME NEW s \in Slots,
              \/ WorkerLoop(s) \/ WorkerWait(s) \/ WorkerSpurious(s) \/ WorkerKilled(s)
              \/ JobReturn(s) \/ WorkerSigPipe(s)
       PROVE  NoStrandedProducer'
  BY <1>3, <1>14 DEF WorkerLoop, WorkerWait, WorkerSpurious, WorkerKilled, JobReturn,
     WorkerSigPipe
<1>15. CASE GrowCreate
  <2>1. idx \in Slots /\ worker[idx] # "signal" /\ UNCHANGED <<queue_cur, shut_down, producer>>
    BY <1>1, <1>15, PoolAssumption DEF TypeOK, GrowCreate, SlotLooksFree, Slots
  <2> QED BY <1>3, <1>15, <2>1 DEF GrowCreate
<1>16. CASE Destroy
  BY <1>16 DEF Destroy, NoStrandedProducer
<1>17. CASE ManagerSignal
  BY <1>2, <1>4, <1>17 DEF ManagerSignal
<1>18. CASE UNCHANGED vars \/ UpdaterSigPipe \/ ManagerLoop \/ ManagerSample \/ GrowSkip
            \/ GrowCount \/ GrowDone \/ ManagerShrink \/ ManagerSleep
  BY <1>2, <1>18, CountsKept DEF vars, UpdaterSigPipe, ManagerLoop, ManagerSample, GrowSkip,
     GrowCount, GrowDone, ManagerShrink, ManagerSleep
<1> QED
  BY <1>5, <1>6, <1>7, <1>8, <1>9, <1>11, <1>12, <1>13, <1>14, <1>15, <1>16, <1>17, <1>18
  DEF Next, ProducerStep, WorkerStep, ManagerStep

(* No signal on `full' is lost: while a caller sleeps on it, every free    *)
(* place of the ring is matched by a worker that has yet to send its       *)
(* signal or by a caller already awake.                                    *)
THEOREM ProducersNotStranded == Spec => []NoStrandedProducer
<1>1. Init => TypeInv /\ NoStrandedProducer
  BY InitTypeInv, InitNoStrandedProducer
<1>2. TypeInv /\ NoStrandedProducer /\ [Next]_vars => (TypeInv /\ NoStrandedProducer)'
  BY StepTypeInv, StepNoStrandedProducer
<1> QED BY <1>1, <1>2, PTL DEF Spec

-----------------------------------------------------------------------------
(* While the manager grows the pool, the threads it may still add fit,     *)
(* even with the one put back that a dead updater took from the count: the *)
(* growth test is a strict "<" ...                                         *)
GrowthLeavesRoom ==
  LET alive == thread_alive + B2N(updater = "dead")
  IN /\ alive <= ThreadMax
     /\ manager \in {"grow", "count"} => alive + (ThreadMin - add) <= ThreadMax

(* ... so a pool of less than twice thread_min never decides to shrink.    *)
NeverShrinks ==
  ShrinkImpossible => killno <= 0 /\ manager \notin {"shrink", "signal"} /\ ~shrink

ShrinkInv == CountersMatchThreads /\ GrowthLeavesRoom /\ NeverShrinks

LEMMA InitShrinkInv == Init => ShrinkInv
BY InitCounters, PoolAssumption
   DEF Init, ShrinkInv, GrowthLeavesRoom, NeverShrinks, B2N

LEMMA StepGrowthLeavesRoom ==
  TypeInv /\ GrowthLeavesRoom /\ [Next]_vars => GrowthLeavesRoom'
<1> SUFFICES ASSUME TypeInv, GrowthLeavesRoom, [Next]_vars PROVE GrowthLeavesRoom'
  OBVIOUS
<1> USE PoolAssumption DEF TypeInv, TypeOK, ManagerOK, GrowthLeavesRoom, B2N
<1>1. CASE UNCHANGED <<thread_alive, manager, add, updater>>
  BY <1>1
<1>2. CASE thread_alive' = thread_alive - 1 /\ UNCHANGED <<manager, add, updater>>
  BY <1>2
<1>3. CASE UpdaterSigPipe
  BY <1>3 DEF UpdaterSigPipe, HandlePipe, mgr
<1>4. CASE ManagerLoop
  BY <1>4 DEF ManagerLoop, counters
<1>5. CASE ManagerSample
  BY <1>5 DEF ManagerSample, NeedsGrowth, RoomToGrow, counters
<1>6. CASE GrowCreate
  BY <1>6 DEF GrowCreate, counters
<1>7. CASE GrowCount
  BY <1>7 DEF GrowCount
<1>8. CASE GrowDone
  BY <1>8 DEF GrowDone, counters
<1>9. CASE ManagerShrink \/ ManagerSignal \/ ManagerSleep
  BY <1>9 DEF ManagerShrink, ManagerSignal, ManagerSleep, counters
<1> QED
  BY <1>1, <1>2, <1>3, <1>4, <1>5, <1>6, <1>7, <1>8, <1>9
  DEF Next, ProducerStep, WorkerStep, ManagerStep, vars, counters, mgr,
      Submit, AddWait, AddRefused, AddTask, AddSignal, AddSpurious, WorkerLoop,
      WorkerWait, WorkerSpurious, WorkerKilled, WorkerTake, WorkerSignal,
      JobReturn, WorkerSigPipe, HandlePipe, GrowSkip, Destroy

LEMMA StepNeverShrinks == TypeInv /\ ShrinkInv /\ [Next]_vars => NeverShrinks'
<1> SUFFICES ASSUME TypeInv, ShrinkInv, [Next]_vars, ShrinkImpossible
             PROVE  killno' <= 0 /\ manager' \notin {"shrink", "signal"} /\ ~shrink'
  BY DEF NeverShrinks, ShrinkImpossible
<1>1. /\ killno \in Int /\ killno <= 0 /\ manager \in ManagerPC
      /\ manager \notin {"shrink", "signal"} /\ shrink = FALSE
  BY DEF TypeInv, TypeOK, ShrinkInv, NeverShrinks
<1>2. ~NeedsShrink
  <2>1. Cardinality(BusySlots) \in Nat
    BY SetsFinite, FS_CardinalityType
  <2>2. thread_busy + B2N(updater = "dead") = Cardinality(BusySlots)
    BY DEF ShrinkInv, CountersMatchThreads
  <2>3. thread_alive + B2N(updater = "dead") <= ThreadMax
    BY DEF ShrinkInv, GrowthLeavesRoom
  <2>4. /\ thread_alive \in Int /\ thread_busy \in Int /\ ThreadMin \in Int
        /\ ThreadMax \in Int /\ B2N(updater = "dead") \in Int /\ ThreadMax < 2 * ThreadMin
    BY PoolAssumption DEF TypeInv, TypeOK, B2N, ShrinkImpossible
  <2>5. ~(thread_alive - thread_busy - ThreadMin >= ThreadMin)
    BY <2>1, <2>2, <2>3, <2>4
  <2> QED BY <2>5 DEF NeedsShrink
<1>3. CASE UNCHANGED <<killno, manager, shrink>>
  BY <1>1, <1>3
<1>4. ASSUME NEW s \in Slots, WorkerKilled(s)
      PROVE  killno' <= 0 /\ manager' \notin {"shrink", "signal"} /\ ~shrink'
  BY <1>1, <1>4 DEF WorkerKilled, mgr
<1>5. CASE ManagerSample
  <2>1. /\ killno' = killno /\ shrink' = (NeedsGrowth /\ NeedsShrink)
        /\ manager' = IF NeedsGrowth THEN "grow"
                      ELSE IF NeedsShrink THEN "shrink" ELSE "sleep"
    BY <1>5 DEF ManagerSample, counters
  <2> QED BY <1>1, <1>2, <2>1
<1>6. CASE ManagerLoop \/ GrowSkip \/ GrowCreate \/ GrowCount \/ GrowDone \/ ManagerSleep
  BY <1>1, <1>6 DEF ManagerLoop, GrowSkip, GrowCreate, GrowCount, GrowDone, ManagerSleep,
     counters
<1>7. ~ManagerShrink /\ ~ManagerSignal
  BY <1>1 DEF ManagerShrink, ManagerSignal
<1> QED
  BY <1>3, <1>4, <1>5, <1>6, <1>7
  DEF Next, ProducerStep, WorkerStep, ManagerStep, vars, counters, mgr,
      Submit, AddWait, AddRefused, AddTask, AddSignal, AddSpurious, WorkerLoop,
      WorkerWait, WorkerSpurious, WorkerTake, WorkerSignal, JobReturn, WorkerSigPipe,
      HandlePipe, UpdaterSigPipe, Destroy

LEMMA StepShrinkInv == TypeInv /\ ShrinkInv /\ [Next]_vars => ShrinkInv'
BY StepCounters, StepGrowthLeavesRoom, StepNeverShrinks DEF ShrinkInv

(* The manager never counts more threads than thread_max, although it      *)
(* decides on a snapshot that is stale by the time it creates them, threads *)
(* die meanwhile, and a creation may fail unnoticed.                       *)
THEOREM AliveBounded == Spec => []AliveBelowMax
<1>1. Init => TypeInv /\ ShrinkInv
  BY InitTypeInv, InitShrinkInv
<1>2. TypeInv /\ ShrinkInv /\ [Next]_vars => (TypeInv /\ ShrinkInv)'
  BY StepTypeInv, StepShrinkInv
<1>3. TypeInv /\ ShrinkInv => AliveBelowMax
  BY PoolAssumption DEF TypeInv, TypeOK, ShrinkInv, GrowthLeavesRoom, AliveBelowMax, B2N
<1> QED BY <1>1, <1>2, <1>3, PTL DEF Spec

LEMMA InitNoStrandedTask == Init => NoStrandedTask
BY DEF Init, NoStrandedTask, At

LEMMA StepNoStrandedTask ==
  TypeInv /\ ShrinkInv /\ NoStrandedTask /\ [Next]_vars => NoStrandedTask'
<1> SUFFICES ASSUME TypeInv, ShrinkInv, NoStrandedTask, [Next]_vars, ShrinkImpossible
             PROVE  NoStrandedTask'
  BY DEF NoStrandedTask, ShrinkImpossible
<1>1. /\ TypeOK /\ queue_cur \in Nat /\ killno \in Int /\ shut_down \in {0, 1}
      /\ killno <= 0 /\ manager \notin {"shrink", "signal"}
      /\ \A pc : Cardinality(At(pc)) \in Nat /\ Cardinality(ProdAt(pc)) \in Nat
  BY SetsFinite, FS_CardinalityType DEF TypeInv, TypeOK, ShrinkInv, NeverShrinks
<1>2. ASSUME UNCHANGED <<queue_cur, shut_down>>, UNCHANGED worker,
             Cardinality(ProdAt("signal")') = Cardinality(ProdAt("signal"))
      PROVE  NoStrandedTask'
  BY <1>2, CountsKept DEF NoStrandedTask
<1>3. ASSUME NEW s \in Slots, NEW w, worker' = [worker EXCEPT ![s] = w],
             worker[s] # "take", w # "wait",
             UNCHANGED <<queue_cur, shut_down>>,
             Cardinality(ProdAt("signal")') = Cardinality(ProdAt("signal"))
      PROVE  NoStrandedTask'
  <2>1. Cardinality(At("take")') >= Cardinality(At("take"))
    <3>1. /\ \A x : x # s => (x \in At("take") <=> x \in At("take")')
          /\ s \notin At("take")
      BY <1>1, <1>3 DEF At, TypeOK
    <3> QED BY <1>1, <3>1, SetsFinite, CountMove DEF Moved
  <2>2. At("wait")' \subseteq At("wait")
    BY <1>1, <1>3 DEF At, TypeOK
  <2>3. Cardinality(At("take")') \in Nat
    BY <1>1, <1>3, WorkerMove
  <2> QED BY <1>1, <1>3, <2>1, <2>2, <2>3 DEF NoStrandedTask
<1>4. ASSUME NEW p \in Producers, NEW w, producer' = [producer EXCEPT ![p] = w],
             producer[p] # "signal", w # "signal"
      PROVE  Cardinality(ProdAt("signal")') = Cardinality(ProdAt("signal"))
  BY <1>1, <1>4, ProducerMove DEF Moved
<1> USE DEF counters, crew, callers, mgr, ring
<1>5. ASSUME NEW p \in Producers,
             \/ \E t \in Tasks : Submit(p, t)
             \/ AddWait(p) \/ AddRefused(p) \/ AddSpurious(p)
      PROVE  NoStrandedTask'
  BY <1>2, <1>4, <1>5 DEF Submit, AddWait, AddRefused, AddSpurious
<1>6. ASSUME NEW p \in Producers, AddTask(p) PROVE NoStrandedTask'
  <2>1. /\ producer' = [producer EXCEPT ![p] = "signal"] /\ producer[p] = "add"
        /\ UNCHANGED <<shut_down, worker>> /\ queue_cur' = queue_cur + 1
    BY <1>6 DEF AddTask
  <2>2. Cardinality(ProdAt("signal")') = Cardinality(ProdAt("signal")) + 1
    BY <1>1, <2>1, ProducerMove DEF Moved
  <2> QED BY <1>1, <2>1, <2>2, CountsKept DEF NoStrandedTask
<1>7. ASSUME NEW p \in Producers, AddSignal(p) PROVE NoStrandedTask'
  <2>1. /\ producer' = [producer EXCEPT ![p] = "idle"] /\ producer[p] = "signal"
        /\ UNCHANGED <<shut_down, queue_cur>> /\ WakeWorker
    BY <1>7 DEF AddSignal
  <2>2. Cardinality(ProdAt("signal")') = Cardinality(ProdAt("signal")) - 1
    BY <1>1, <2>1, ProducerMove DEF Moved
  <2>3. CASE At("wait") = {} /\ UNCHANGED worker
    BY <2>3, CountsKept DEF NoStrandedTask
  <2>4. CASE At("wait") # {} /\ Cardinality(At("take")') = Cardinality(At("take")) + 1
    BY <1>1, <2>1, <2>2, <2>4 DEF NoStrandedTask
  <2> QED BY <1>1, <2>1, <2>3, <2>4, WorkerWoken DEF WakeWorker
<1>8. ASSUME NEW s \in Slots, WorkerLoop(s) PROVE NoStrandedTask'
  BY <1>3, <1>8, CountsKept DEF WorkerLoop
<1>9. ASSUME NEW s \in Slots, WorkerWait(s) PROVE NoStrandedTask'
  <2>1. /\ worker' = [worker EXCEPT ![s] = "wait"] /\ queue_cur' = 0
        /\ UNCHANGED producer
    BY <1>9 DEF WorkerWait
  <2>2. Cardinality(At("take")') \in Nat /\ Cardinality(ProdAt("signal")') \in Nat
    BY <1>1, <2>1, WorkerMove, CountsKept
  <2> QED BY <2>1, <2>2 DEF NoStrandedTask
<1>10. ASSUME NEW s \in Slots, WorkerKilled(s) PROVE NoStrandedTask'
  BY <1>1, <1>10 DEF WorkerKilled, NoStrandedTask
<1>11. ASSUME NEW s \in Slots, WorkerTake(s) PROVE NoStrandedTask'
  <2>1. /\ worker' = [worker EXCEPT ![s] = "signal"] /\ worker[s] = "take"
        /\ UNCHANGED <<shut_down, producer>> /\ queue_cur' = queue_cur - 1
    BY <1>11 DEF WorkerTake
  <2>2. Cardinality(At("take")') = Cardinality(At("take")) - 1
    BY <1>1, <2>1, WorkerMove DEF Moved
  <2>3. At("wait")' = At("wait")
    BY <1>1, <2>1 DEF At, TypeOK
  <2> QED BY <1>1, <2>1, <2>2, <2>3, CountsKept DEF NoStrandedTask
<1>12. ASSUME WakeProducer
       PROVE  Cardinality(ProdAt("signal")') = Cardinality(ProdAt("signal"))
  <2>1. CASE UNCHANGED producer
    BY <2>1, CountsKept
  <2>2. CASE \E p \in ProdAt("full") : producer' = [producer EXCEPT ![p] = "add"]
    <3>1. PICK p \in Producers : /\ producer[p] = "full"
                                 /\ producer' = [producer EXCEPT ![p] = "add"]
      BY <2>2 DEF ProdAt
    <3> QED BY <1>4, <3>1
  <2> QED BY <1>12, <2>1, <2>2 DEF WakeProducer
<1>13. ASSUME NEW s \in Slots, WorkerSignal(s) PROVE NoStrandedTask'
  <2>1. /\ worker' = [worker EXCEPT ![s] = "run"] /\ worker[s] = "signal"
        /\ UNCHANGED <<shut_down, queue_cur>> /\ WakeProducer
    BY <1>13 DEF WorkerSignal
  <2> QED BY <1>3, <1>12, <2>1
<1>14. ASSUME NEW s \in Slots, WorkerSpurious(s) \/ JobReturn(s) \/ WorkerSigPipe(s)
       PROVE  NoStrandedTask'
  BY <1>3, <1>14, CountsKept DEF WorkerSpurious, JobReturn, WorkerSigPipe
<1>15. CASE GrowCreate
  <2>1. idx \in Slots /\ worker[idx] # "take" /\ UNCHANGED <<queue_cur, shut_down, producer>>
    BY <1>1, <1>15, PoolAssumption DEF TypeOK, GrowCreate, SlotLooksFree, Slots
  <2> QED BY <1>3, <1>15, <2>1, CountsKept DEF GrowCreate
<1>16. CASE Destroy
  BY <1>16 DEF Destroy, NoStrandedTask
<1>17. ~ManagerSignal
  BY <1>1 DEF ManagerSignal
<1>18. CASE UNCHANGED vars \/ UpdaterSigPipe \/ ManagerLoop \/ ManagerSample \/ GrowSkip
            \/ GrowCount \/ GrowDone \/ ManagerShrink \/ ManagerSleep
  BY <1>2, <1>18, CountsKept DEF vars, UpdaterSigPipe, ManagerLoop, ManagerSample, GrowSkip,
     GrowCount, GrowDone, ManagerShrink, ManagerSleep
<1> QED
  BY <1>5, <1>6, <1>7, <1>8, <1>9, <1>10, <1>11, <1>13, <1>14, <1>15, <1>16, <1>17, <1>18
  DEF Next, ProducerStep, WorkerStep, ManagerStep

(* No signal on `empty' is lost in a pool too small to shrink: while a     *)
(* worker sleeps on it, every queued task is matched by a worker about to  *)
(* look or by a signal a caller has yet to send.                           *)
THEOREM TasksNotStranded == Spec => []NoStrandedTask
<1>1. Init => TypeInv /\ ShrinkInv /\ NoStrandedTask
  BY InitTypeInv, InitShrinkInv, InitNoStrandedTask
<1>2. TypeInv /\ ShrinkInv /\ NoStrandedTask /\ [Next]_vars
        => (TypeInv /\ ShrinkInv /\ NoStrandedTask)'
  BY StepTypeInv, StepShrinkInv, StepNoStrandedTask
<1> QED BY <1>1, <1>2, PTL DEF Spec
=============================================================================
