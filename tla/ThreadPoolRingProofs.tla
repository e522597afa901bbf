------------------------ MODULE ThreadPoolRingProofs ------------------------
(***************************************************************************)
(* The ring of ThreadPool holds every accepted task once, in order, for    *)
(* every size of the ring and number of callers, workers and tasks.        *)
(***************************************************************************)
EXTENDS ThreadPoolProofs, Sequences, SequenceTheorems

(* A caller holds a task from the call of thread_task_add to the write     *)
(* into the ring, and no two callers hold the same one.                    *)
HandsOK ==
  /\ \A p \in Producers : hand[p] # NoTask <=> producer[p] \in {"add", "full"}
  /\ \A p, q \in Producers : hand[p] = hand[q] /\ hand[p] # NoTask => p = q

CopyInv == OneCopy /\ HandsOK

-----------------------------------------------------------------------------
(* Arithmetic of the ring, without "%".                                    *)
LEMMA NextPosValue ==
  ASSUME NEW i \in Ring
  PROVE  NextPos(i) = IF i + 1 = QueueMax THEN 0 ELSE i + 1
BY PoolAssumption DEF NextPos, Ring

LEMMA PosValue ==
  ASSUME queue_rear \in Ring, NEW k \in 0 .. QueueMax
  PROVE  Pos(k) = IF queue_rear + k < QueueMax THEN queue_rear + k
                                               ELSE queue_rear + k - QueueMax
BY PoolAssumption DEF Pos, Ring

LEMMA PosInRing ==
  ASSUME queue_rear \in Ring, NEW k \in 0 .. QueueMax
  PROVE  Pos(k) \in Ring
BY PosValue, PoolAssumption DEF Ring

LEMMA PosInjective ==
  ASSUME queue_rear \in Ring, NEW k \in 0 .. QueueMax - 1,
         NEW l \in 0 .. QueueMax - 1, Pos(k) = Pos(l)
  PROVE  k = l
<1>1. k \in 0 .. QueueMax /\ l \in 0 .. QueueMax
  BY PoolAssumption
<1> QED BY <1>1, PosValue, PoolAssumption DEF Ring

LEMMA PosNext ==
  ASSUME queue_rear \in Ring, NEW k \in 0 .. QueueMax - 1
  PROVE  NextPos(Pos(k)) = Pos(k + 1)
<1>1. k \in 0 .. QueueMax /\ k + 1 \in 0 .. QueueMax
  BY PoolAssumption
<1>2. NextPos(Pos(k)) = IF Pos(k) + 1 = QueueMax THEN 0 ELSE Pos(k) + 1
  BY <1>1, PosInRing, NextPosValue
<1> QED BY <1>1, <1>2, PosValue, PoolAssumption DEF Ring

(* Once the rear has moved, the k-th place is the one that was next.       *)
LEMMA PosShift ==
  ASSUME queue_rear \in Ring, queue_cur \in 1 .. QueueMax,
         queue_rear' = NextPos(queue_rear)
  PROVE  \A k \in 0 .. queue_cur - 1 : Pos(k)' = Pos(k + 1)
<1> SUFFICES ASSUME NEW k \in 0 .. queue_cur - 1 PROVE Pos(k)' = Pos(k + 1)
  OBVIOUS
<1>1. Pos(k)' = (NextPos(queue_rear) + k) % QueueMax
  BY DEF Pos
<1>2. k \in 0 .. QueueMax /\ k + 1 \in 0 .. QueueMax /\ k \in Int
  BY PoolAssumption
<1>3. NextPos(queue_rear) = IF queue_rear + 1 = QueueMax THEN 0 ELSE queue_rear + 1
  BY NextPosValue
<1>4. Pos(k + 1) = IF queue_rear + (k + 1) < QueueMax THEN queue_rear + (k + 1)
                   ELSE queue_rear + (k + 1) - QueueMax
  BY <1>2, PosValue
<1>5. (NextPos(queue_rear) + k) % QueueMax
        = IF NextPos(queue_rear) + k < QueueMax THEN NextPos(queue_rear) + k
          ELSE NextPos(queue_rear) + k - QueueMax
  <2>1. NextPos(queue_rear) \in 0 .. QueueMax - 1
    BY NextPosInRing DEF Ring
  <2>2. \A i, j \in Int : 0 <= i /\ i < QueueMax /\ 0 <= j /\ j <= QueueMax =>
          (i + j) % QueueMax = IF i + j < QueueMax THEN i + j ELSE i + j - QueueMax
    BY PoolAssumption
  <2> QED BY <1>2, <2>1, <2>2, PoolAssumption
<1> QED BY <1>1, <1>2, <1>3, <1>4, <1>5, PoolAssumption DEF Ring

-----------------------------------------------------------------------------
(* Where a task may be, as quantified facts rather than set images.        *)
LEMMA HeldIs == ASSUME NEW t PROVE t \in Held <=> t # NoTask /\ \E s \in Slots : job[s] = t
BY DEF Held

LEMMA InHandIs ==
  ASSUME NEW t PROVE t \in InHand <=> t # NoTask /\ \E p \in Producers : hand[p] = t
BY DEF InHand

LEMMA QueuedIs ==
  ASSUME NEW t
  PROVE  t \in Queued <=> \E k \in 0 .. queue_cur - 1 : queue_task[Pos(k)] = t
BY DEF Queued

LEMMA InitCopyInv == Init => CopyInv
<1> SUFFICES ASSUME Init PROVE CopyInv
  OBVIOUS
<1>1. RingIndices /\ QueuedOnce
  <2>1. queue_front = 0 /\ Pos(0) = 0 % QueueMax /\ queue_cur = 0
    BY DEF Init, Pos
  <2> QED BY <2>1, PoolAssumption DEF RingIndices, QueuedOnce
<1>2. HeldOnce
  <2>1. \A s \in Slots : job[s] = NoTask
    BY DEF Init
  <2>2. \A s \in Slots : worker[s] \notin {"signal", "run"}
    BY DEF Init
  <2> QED BY <2>1, <2>2, HeldIs DEF HeldOnce
<1>3. HandsOK
  BY DEF Init, HandsOK
<1> QED BY <1>1, <1>2, <1>3 DEF CopyInv, OneCopy

-----------------------------------------------------------------------------
(* The steps that touch neither the ring nor what a thread holds.          *)
LEMMA StepKeepsCopies ==
  ASSUME TypeInv, CopyInv, UNCHANGED <<ring, job, hand>>,
         \A s \in Slots : worker'[s] \in {"signal", "run"}
                           <=> worker[s] \in {"signal", "run"},
         \A p \in Producers : producer'[p] \in {"add", "full"}
                           <=> producer[p] \in {"add", "full"}
  PROVE  CopyInv'
<1>1. /\ Held' = Held /\ InHand' = InHand
      /\ \A k \in 0 .. queue_cur - 1 : Pos(k)' = Pos(k)
      /\ Pos(queue_cur)' = Pos(queue_cur)
  BY DEF Held, InHand, Pos, ring
<1>2. OneCopy'
  BY <1>1 DEF CopyInv, OneCopy, RingIndices, QueuedOnce, HeldOnce, ring
<1> QED BY <1>2 DEF CopyInv, HandsOK

LEMMA SubmitKeeps ==
  ASSUME TypeInv, CopyInv, NEW p \in Producers, NEW t \in Tasks, Submit(p, t)
  PROVE  CopyInv'
<1>1. /\ hand' = [hand EXCEPT ![p] = t] /\ producer' = [producer EXCEPT ![p] = "add"]
      /\ t \notin Outstanding /\ UNCHANGED <<ring, worker, job>> /\ t # NoTask
  BY PoolAssumption DEF Submit, crew
<1>2. /\ Held' = Held
      /\ \A k \in 0 .. queue_cur - 1 : Pos(k)' = Pos(k)
      /\ Pos(queue_cur)' = Pos(queue_cur)
  BY <1>1 DEF Held, Pos, ring
<1>3. InHand' \subseteq InHand \cup {t}
  BY <1>1 DEF InHand, TypeInv, TypeOK
<1>4. QueuedOnce'
  BY <1>1, <1>2, <1>3 DEF CopyInv, OneCopy, QueuedOnce, Queued, Outstanding, ring
<1>5. HeldOnce'
  BY <1>1, <1>2, <1>3 DEF CopyInv, OneCopy, HeldOnce, Outstanding
<1>6. HandsOK'
  BY <1>1, InHandIs DEF CopyInv, HandsOK, Outstanding, TypeInv, TypeOK
<1>7. RingIndices'
  BY <1>1, <1>2 DEF CopyInv, OneCopy, RingIndices, ring
<1> QED BY <1>4, <1>5, <1>6, <1>7 DEF CopyInv, OneCopy

LEMMA AddRefusedKeeps ==
  ASSUME TypeInv, CopyInv, NEW p \in Producers, AddRefused(p)
  PROVE  CopyInv'
<1>1. /\ hand' = [hand EXCEPT ![p] = NoTask]
      /\ producer' = [producer EXCEPT ![p] = "gone"]
      /\ UNCHANGED <<ring, worker, job>>
  BY DEF AddRefused, crew
<1>2. /\ Held' = Held
      /\ \A k \in 0 .. queue_cur - 1 : Pos(k)' = Pos(k)
      /\ Pos(queue_cur)' = Pos(queue_cur)
  BY <1>1 DEF Held, Pos, ring
<1>3. InHand' \subseteq InHand
  BY <1>1 DEF InHand, TypeInv, TypeOK
<1>4. OneCopy'
  BY <1>1, <1>2, <1>3 DEF CopyInv, OneCopy, RingIndices, QueuedOnce, HeldOnce, ring
<1>5. HandsOK'
  BY <1>1 DEF CopyInv, HandsOK, TypeInv, TypeOK
<1> QED BY <1>4, <1>5 DEF CopyInv

(* The new task is written at Pos(queue_cur), a place no queued task has.  *)
LEMMA AddTaskKeeps ==
  ASSUME TypeInv, CopyInv, NEW p \in Producers, AddTask(p)
  PROVE  CopyInv'
<1> DEFINE t == hand[p]
<1>1. /\ hand' = [hand EXCEPT ![p] = NoTask]
      /\ producer' = [producer EXCEPT ![p] = "signal"]
      /\ queue_task' = [queue_task EXCEPT ![queue_front] = t]
      /\ queue_front' = NextPos(queue_front)
      /\ queue_cur' = queue_cur + 1
      /\ UNCHANGED <<queue_rear, worker, job>>
      /\ producer[p] = "add"
  BY DEF AddTask, crew
<1>2. queue_cur \in 0 .. QueueMax - 1 /\ queue_rear \in Ring
  BY PoolAssumption DEF AddTask, RingFull, TypeInv, TypeOK
<1>3. \A k \in 0 .. queue_cur : Pos(k)' = Pos(k)
  BY <1>1 DEF Pos
<1>4. queue_front = Pos(queue_cur)
  BY DEF CopyInv, OneCopy, RingIndices
<1>5. RingIndices'
  <2>1. queue_front' = Pos(queue_cur + 1)
    BY <1>1, <1>2, <1>4, PosNext
  <2>2. Pos(queue_cur)' = Pos(queue_cur + 1)
    BY <1>1 DEF Pos
  <2> QED BY <2>1, <2>2 DEF RingIndices
<1>6. t \in Tasks /\ t \in InHand /\ t \notin Held
  BY <1>1, InHandIs DEF CopyInv, HandsOK, OneCopy, HeldOnce, TypeInv, TypeOK
<1>7. Held' = Held
  BY <1>1 DEF Held
<1>8. InHand' \subseteq InHand /\ t \notin InHand'
  BY <1>1 DEF InHand, CopyInv, HandsOK, TypeInv, TypeOK
<1>9. /\ queue_task'[Pos(queue_cur)] = t
      /\ \A k \in 0 .. queue_cur - 1 : /\ queue_task'[Pos(k)] = queue_task[Pos(k)]
                                       /\ queue_task[Pos(k)] # t
  <2>1. queue_task'[Pos(queue_cur)] = t
    BY <1>1, <1>2, <1>4 DEF TypeInv, TypeOK
  <2>2. ASSUME NEW k \in 0 .. queue_cur - 1
        PROVE  queue_task'[Pos(k)] = queue_task[Pos(k)] /\ queue_task[Pos(k)] # t
    <3>1. k \in 0 .. QueueMax - 1 /\ k # queue_cur /\ k \in 0 .. QueueMax
      BY <1>2, PoolAssumption
    <3>2. Pos(k) # Pos(queue_cur)
      BY <1>2, <3>1, PosInjective
    <3>3. Pos(k) \in Ring
      BY <1>2, <3>1, PosInRing
    <3> QED BY <1>1, <1>4, <1>6, <3>2, <3>3
        DEF CopyInv, OneCopy, QueuedOnce, TypeInv, TypeOK
  <2> QED BY <2>1, <2>2
<1>10. QueuedOnce'
  <2>1. \A k \in 0 .. queue_cur : k = queue_cur \/ k \in 0 .. queue_cur - 1
    BY <1>2
  <2>2. (0 .. queue_cur - 1)' = 0 .. queue_cur
    BY <1>1, <1>2, PoolAssumption
  <2>3. \A k \in 0 .. queue_cur :
          queue_task'[Pos(k)] \in Tasks \ (Held' \cup InHand')
    BY <2>1, <1>6, <1>7, <1>8, <1>9 DEF CopyInv, OneCopy, QueuedOnce
  <2>4. \A k, l \in 0 .. queue_cur :
          queue_task'[Pos(k)] = queue_task'[Pos(l)] => k = l
    BY <2>1, <1>9 DEF CopyInv, OneCopy, QueuedOnce
  <2> QED BY <2>2, <2>3, <2>4, <1>3 DEF QueuedOnce
<1>11. HeldOnce'
  BY <1>1, <1>7, <1>8 DEF CopyInv, OneCopy, HeldOnce
<1>12. HandsOK'
  BY <1>1 DEF CopyInv, HandsOK, TypeInv, TypeOK
<1> QED BY <1>5, <1>10, <1>11, <1>12 DEF CopyInv, OneCopy

(* The oldest task leaves Pos(0), and every other moves one place closer.  *)
LEMMA WorkerTakeKeeps ==
  ASSUME TypeInv, CopyInv, NEW s \in Slots, WorkerTake(s)
  PROVE  CopyInv'
<1> DEFINE t == queue_task[queue_rear]
<1>1. /\ job' = [job EXCEPT ![s] = t]
      /\ worker' = [worker EXCEPT ![s] = "signal"]
      /\ queue_rear' = NextPos(queue_rear)
      /\ queue_cur' = queue_cur - 1
      /\ UNCHANGED <<queue_task, queue_front, producer, hand>>
      /\ worker[s] = "take"
  BY DEF WorkerTake, NextTask, callers
<1>2. queue_cur \in 1 .. QueueMax /\ queue_rear \in Ring
  BY PoolAssumption DEF WorkerTake, TypeInv, TypeOK
<1>3. Pos(0) = queue_rear /\ NextPos(queue_rear) = Pos(1)
  <2>1. 0 \in 0 .. QueueMax /\ 0 \in 0 .. QueueMax - 1
    BY PoolAssumption
  <2>2. Pos(0) = queue_rear
    BY <1>2, <2>1, PosValue, PoolAssumption DEF Ring
  <2> QED BY <1>2, <2>1, <2>2, PosNext
<1>4. \A k \in 0 .. queue_cur - 1 : Pos(k)' = Pos(k + 1)
  BY <1>1, <1>2, PosShift
<1>5. t = queue_task[Pos(0)] /\ t \in Tasks /\ t \notin Held /\ t \notin InHand
  BY <1>2, <1>3 DEF CopyInv, OneCopy, QueuedOnce
<1>6. InHand' = InHand
  BY <1>1 DEF InHand
<1>7. Held' \subseteq Held \cup {t}
  BY <1>1 DEF Held, TypeInv, TypeOK
<1>8. RingIndices'
  <2>1. queue_cur - 1 \in 0 .. queue_cur - 1 /\ queue_cur - 1 + 1 = queue_cur
    BY <1>2
  <2>2. (queue_rear' + queue_cur') % QueueMax = Pos(queue_cur)
    <3>1. queue_rear' + queue_cur' = NextPos(queue_rear) + (queue_cur - 1)
      BY <1>1
    <3>2. (NextPos(queue_rear) + (queue_cur - 1)) % QueueMax = Pos(queue_cur - 1 + 1)
      <4>1. \A k \in 0 .. queue_cur - 1 :
              (NextPos(queue_rear) + k) % QueueMax = Pos(k + 1)
        BY <1>1, <1>4 DEF Pos
      <4> QED BY <2>1, <4>1
    <3> QED BY <2>1, <3>1, <3>2
  <2>3. queue_front' = Pos(queue_cur)
    BY <1>1 DEF CopyInv, OneCopy, RingIndices
  <2> QED BY <2>2, <2>3 DEF RingIndices, Pos
<1>9. QueuedOnce'
  <2>1. (0 .. queue_cur - 1)' = 0 .. queue_cur - 2
    BY <1>1, <1>2
  <2>2. \A k \in 0 .. queue_cur - 2 :
          /\ k \in 0 .. queue_cur - 1 /\ k + 1 \in 0 .. queue_cur - 1 /\ k + 1 # 0
          /\ Pos(k)' = Pos(k + 1)
    BY <1>2, <1>4
  <2>3. \A k \in 0 .. queue_cur - 2 :
          queue_task[Pos(k + 1)] \in Tasks \ (Held' \cup InHand')
    <3>1. 0 \in 0 .. queue_cur - 1
      BY <1>2
    <3> QED BY <2>2, <3>1, <1>5, <1>6, <1>7 DEF CopyInv, OneCopy, QueuedOnce
  <2>4. \A k, l \in 0 .. queue_cur - 2 :
          queue_task[Pos(k + 1)] = queue_task[Pos(l + 1)] => k = l
    <3>1. \A k, l \in 0 .. queue_cur - 2 : k + 1 = l + 1 => k = l
      BY <1>2
    <3> QED BY <2>2, <3>1 DEF CopyInv, OneCopy, QueuedOnce
  <2>5. \A k \in 0 .. queue_cur - 2 : queue_task'[Pos(k)'] = queue_task[Pos(k + 1)]
    BY <1>1, <2>2
  <2>6. \A k \in 0 .. queue_cur - 2 :
          /\ queue_task'[Pos(k)'] \in Tasks \ (Held' \cup InHand')
          /\ \A l \in 0 .. queue_cur - 2 :
               queue_task'[Pos(k)'] = queue_task'[Pos(l)'] => k = l
    BY <2>3, <2>4, <2>5
  <2> QED BY <2>1, <2>6 DEF QueuedOnce
<1>10. HeldOnce'
  <2>1. \A r \in Slots : r # s => job'[r] = job[r] /\ worker'[r] = worker[r]
    BY <1>1 DEF TypeInv, TypeOK
  <2>2. job'[s] = t /\ worker'[s] = "signal" /\ t # NoTask
    BY <1>1, <1>5, PoolAssumption DEF TypeInv, TypeOK
  <2>3. \A r \in Slots : job[r] # t
    BY <1>5, <2>2, HeldIs
  <2> QED BY <1>5, <1>6, <1>7, <2>1, <2>2, <2>3 DEF CopyInv, OneCopy, HeldOnce
<1>11. HandsOK'
  BY <1>1 DEF CopyInv, HandsOK
<1> QED BY <1>8, <1>9, <1>10, <1>11 DEF CopyInv, OneCopy

(* A job ends, by returning or with its thread.                            *)
LEMMA EndKeeps ==
  ASSUME TypeInv, CopyInv, NEW s \in Slots, JobReturn(s) \/ WorkerSigPipe(s)
  PROVE  CopyInv'
<1>1. /\ job' = [job EXCEPT ![s] = NoTask]
      /\ \E w \in {"loop", "gone"} : worker' = [worker EXCEPT ![s] = w]
      /\ UNCHANGED <<ring, producer, hand>>
  BY DEF JobReturn, WorkerSigPipe, callers
<1>2. /\ InHand' = InHand
      /\ \A k \in 0 .. queue_cur - 1 : Pos(k)' = Pos(k)
      /\ Pos(queue_cur)' = Pos(queue_cur)
  BY <1>1 DEF InHand, Pos, ring
<1>3. Held' \subseteq Held
  BY <1>1 DEF Held, TypeInv, TypeOK
<1>4. RingIndices' /\ QueuedOnce'
  BY <1>1, <1>2, <1>3 DEF CopyInv, OneCopy, RingIndices, QueuedOnce, ring
<1>5. HeldOnce'
  BY <1>1, <1>2, <1>3 DEF CopyInv, OneCopy, HeldOnce, TypeInv, TypeOK
<1>6. HandsOK'
  BY <1>1 DEF CopyInv, HandsOK
<1> QED BY <1>4, <1>5, <1>6 DEF CopyInv, OneCopy

-----------------------------------------------------------------------------
LEMMA StepCopyInv == TypeInv /\ CopyInv /\ [Next]_vars => CopyInv'
<1> SUFFICES ASSUME TypeInv, CopyInv, [Next]_vars PROVE CopyInv'
  OBVIOUS
<1>1. CASE UNCHANGED vars
  BY <1>1, StepKeepsCopies DEF vars, crew, callers
<1>2. ASSUME NEW p \in Producers, NEW t \in Tasks, Submit(p, t) PROVE CopyInv'
  BY <1>2, SubmitKeeps
<1>3. ASSUME NEW p \in Producers, AddRefused(p) PROVE CopyInv'
  BY <1>3, AddRefusedKeeps
<1>4. ASSUME NEW p \in Producers, AddTask(p) PROVE CopyInv'
  BY <1>4, AddTaskKeeps
<1>5. ASSUME NEW s \in Slots, WorkerTake(s) PROVE CopyInv'
  BY <1>5, WorkerTakeKeeps
<1>6. ASSUME NEW s \in Slots, JobReturn(s) \/ WorkerSigPipe(s) PROVE CopyInv'
  BY <1>6, EndKeeps
<1>7. ASSUME UNCHANGED <<ring, job, hand>>, UNCHANGED producer,
             \A s \in Slots : worker'[s] \in {"signal", "run"}
                               <=> worker[s] \in {"signal", "run"}
      PROVE  CopyInv'
  BY <1>7, StepKeepsCopies
<1>8. ASSUME UNCHANGED <<ring, job, hand>>, UNCHANGED worker,
             \A p \in Producers : producer'[p] \in {"add", "full"}
                               <=> producer[p] \in {"add", "full"}
      PROVE  CopyInv'
  BY <1>8, StepKeepsCopies
<1>9. ASSUME NEW p \in Producers, AddWait(p) \/ AddSpurious(p) PROVE CopyInv'
  BY <1>9, <1>8 DEF AddWait, AddSpurious, crew, TypeInv, TypeOK
<1>10. ASSUME WakeWorker
       PROVE  \A s \in Slots : worker'[s] \in {"signal", "run"}
                               <=> worker[s] \in {"signal", "run"}
  BY <1>10 DEF WakeWorker, At, TypeInv, TypeOK
<1>11. ASSUME NEW p \in Producers, AddSignal(p) PROVE CopyInv'
  <2>1. /\ producer' = [producer EXCEPT ![p] = "idle"] /\ producer[p] = "signal"
        /\ WakeWorker /\ UNCHANGED <<ring, job, hand>>
    BY <1>11 DEF AddSignal
  <2> QED BY <2>1, <1>10, StepKeepsCopies DEF TypeInv, TypeOK
<1>12. CASE ManagerSignal
  BY <1>12, <1>7, <1>10 DEF ManagerSignal, callers
<1>13. ASSUME NEW s \in Slots,
              WorkerLoop(s) \/ WorkerWait(s) \/ WorkerSpurious(s) \/ WorkerKilled(s)
       PROVE  CopyInv'
  BY <1>13, <1>7 DEF WorkerLoop, WorkerWait, WorkerSpurious, WorkerKilled, callers,
     TypeInv, TypeOK
<1>14. ASSUME NEW s \in Slots, WorkerSignal(s) PROVE CopyInv'
  <2>1. /\ worker' = [worker EXCEPT ![s] = "run"] /\ worker[s] = "signal"
        /\ WakeProducer /\ UNCHANGED <<ring, job, hand>>
    BY <1>14 DEF WorkerSignal
  <2>2. \A p \in Producers : producer'[p] \in {"add", "full"}
                            <=> producer[p] \in {"add", "full"}
    BY <2>1 DEF WakeProducer, ProdAt, TypeInv, TypeOK
  <2> QED BY <2>1, <2>2, StepKeepsCopies DEF TypeInv, TypeOK
<1>15. CASE GrowCreate
  BY <1>15, <1>7 DEF GrowCreate, SlotLooksFree, callers, TypeInv, TypeOK
<1>16. CASE \/ UpdaterSigPipe \/ Destroy \/ ManagerLoop \/ ManagerSample
            \/ GrowSkip \/ GrowCount \/ GrowDone \/ ManagerShrink \/ ManagerSleep
  BY <1>16, <1>7 DEF UpdaterSigPipe, Destroy, ManagerLoop, ManagerSample, GrowSkip,
     GrowCount, GrowDone, ManagerShrink, ManagerSleep, callers, crew
<1> QED
  BY <1>1, <1>2, <1>3, <1>4, <1>5, <1>6, <1>9, <1>11, <1>12, <1>13, <1>14, <1>15, <1>16
  DEF Next, ProducerStep, WorkerStep, ManagerStep

(* The ring never laps itself and no task is in two places, for every size *)
(* of ring and pool, any number of callers, and every fault: a task that   *)
(* thread_task_add accepted is neither overwritten nor run twice.          *)
THEOREM TasksAreSingle == Spec => []OneCopy
<1>1. Init => TypeInv /\ CopyInv
  BY InitTypeInv, InitCopyInv
<1>2. TypeInv /\ CopyInv /\ [Next]_vars => (TypeInv /\ CopyInv)'
  BY StepTypeInv, StepCopyInv
<1>3. TypeInv /\ CopyInv => OneCopy
  BY DEF CopyInv
<1> QED BY <1>1, <1>2, <1>3, PTL DEF Spec

-----------------------------------------------------------------------------
(* The pool implements TaskQueue.                                          *)

(* TaskQueue's cardinality is the one the library's theorems are about.    *)
LEMMA TQCardinality == ASSUME NEW S PROVE TQ!Cardinality(S) = Cardinality(S)
BY DEF TQ!Cardinality, Cardinality

(* The refinement mapping of `pending': the ring, read from its rear.      *)
PendingTasks == [k \in 1 .. queue_cur |-> queue_task[Pos(k - 1)]]

LEMMA PendingIs ==
  ASSUME TypeInv, CopyInv
  PROVE  /\ PendingTasks \in Seq(Tasks) /\ Len(PendingTasks) = queue_cur
         /\ \A k \in 1 .. queue_cur : PendingTasks[k] = queue_task[Pos(k - 1)]
         /\ TQ!Pending = Queued
<1>1. queue_cur \in Nat
  BY PoolAssumption DEF TypeInv, TypeOK
<1>2. \A k \in 1 .. queue_cur : k - 1 \in 0 .. queue_cur - 1
  BY <1>1
<1>3. \A k \in 1 .. queue_cur : queue_task[Pos(k - 1)] \in Tasks
  BY <1>2 DEF CopyInv, OneCopy, QueuedOnce
<1>4. PendingTasks \in [1 .. queue_cur -> Tasks]
  BY <1>3 DEF PendingTasks
<1>5. PendingTasks \in Seq(Tasks) /\ Len(PendingTasks) = queue_cur
  BY <1>1, <1>4
<1>6. \A k \in 0 .. queue_cur - 1 : k + 1 \in 1 .. queue_cur /\ (k + 1) - 1 = k
  BY <1>1
<1>7. TQ!Pending = {PendingTasks[k] : k \in 1 .. queue_cur}
  BY DEF TQ!Pending, PendingTasks
<1>8. {PendingTasks[k] : k \in 1 .. queue_cur} = Queued
  BY <1>2, <1>6 DEF PendingTasks, Queued
<1> QED BY <1>5, <1>7, <1>8 DEF PendingTasks

LEMMA PendingStays ==
  (TypeInv /\ CopyInv)' =>
    (PendingTasks \in Seq(Tasks) /\ Len(PendingTasks) = queue_cur)'
<1>1. TypeInv /\ CopyInv =>
        PendingTasks \in Seq(Tasks) /\ Len(PendingTasks) = queue_cur
  BY PendingIs
<1> QED BY <1>1, PTL

(* As many tasks are held as there are workers holding one.                *)
LEMMA HeldFits ==
  ASSUME TypeInv, CopyInv, NEW s \in Slots, job[s] = NoTask
  PROVE  Cardinality(Held) < ThreadMax
<1> DEFINE f == [t \in Held |-> CHOOSE r \in Slots : job[r] = t]
<1>1. \A t \in Held : f[t] \in Slots /\ job[f[t]] = t /\ f[t] # s
  BY DEF Held
<1>2. f \in Injection(Held, Slots \ {s})
  <2>1. f \in [Held -> Slots \ {s}]
    BY <1>1
  <2>2. \A t, u \in Held : f[t] = f[u] => t = u
    BY <1>1
  <2> QED BY <2>1, <2>2 DEF Injection, IsInjective
<1>3. /\ IsFiniteSet(Slots) /\ Cardinality(Slots) = ThreadMax
  <2>1. 0 \in Int /\ ThreadMax - 1 \in Int
    BY PoolAssumption
  <2> QED BY <2>1, FS_Interval, PoolAssumption DEF Slots
<1>4. IsFiniteSet(Slots \ {s}) /\ Cardinality(Slots \ {s}) = ThreadMax - 1
  BY <1>3, FS_RemoveElement
<1>5. IsFiniteSet(Held) /\ Cardinality(Held) <= ThreadMax - 1
  BY <1>2, <1>4, FS_Injection
<1> QED BY <1>5, FS_CardinalityType, PoolAssumption

LEMMA InitRefines == Init => TQ!Init
<1> SUFFICES ASSUME Init PROVE TQ!Init
  OBVIOUS
<1>1. queue_cur = 0 /\ \A s \in Slots : job[s] = NoTask
  BY DEF Init
<1>2. Held = {}
  BY <1>1 DEF Held
<1>3. PendingTasks = << >>
  BY <1>1 DEF PendingTasks
<1> QED BY <1>2, <1>3 DEF TQ!Init, PendingTasks

LEMMA AddTaskAccepts ==
  ASSUME TypeInv, CopyInv, TypeInv', CopyInv', NEW p \in Producers, AddTask(p)
  PROVE  TQ!Accept(hand[p]) /\ hand[p] \in Tasks
<1> DEFINE t == hand[p]
<1>1. /\ producer[p] = "add" /\ queue_cur # QueueMax
      /\ queue_task' = [queue_task EXCEPT ![queue_front] = t]
      /\ queue_cur' = queue_cur + 1
      /\ UNCHANGED <<queue_rear, job>>
  BY DEF AddTask, RingFull, crew
<1>2. queue_cur \in 0 .. QueueMax - 1 /\ queue_rear \in Ring
  BY <1>1, PoolAssumption DEF TypeInv, TypeOK
<1>3. t \in Tasks /\ t \in InHand /\ t \notin Held
  BY <1>1, InHandIs DEF CopyInv, HandsOK, OneCopy, HeldOnce, TypeInv, TypeOK
<1>4. t \notin Queued
  BY <1>3, QueuedIs DEF CopyInv, OneCopy, QueuedOnce
<1>5. \A k \in 0 .. queue_cur : Pos(k)' = Pos(k)
  BY <1>1 DEF Pos
<1>6. /\ queue_front = Pos(queue_cur) /\ queue_task'[Pos(queue_cur)] = t
      /\ \A k \in 0 .. queue_cur - 1 : queue_task'[Pos(k)] = queue_task[Pos(k)]
  <2>1. queue_front = Pos(queue_cur)
    BY DEF CopyInv, OneCopy, RingIndices
  <2>2. queue_task'[Pos(queue_cur)] = t
    BY <1>1, <2>1 DEF TypeInv, TypeOK
  <2>3. ASSUME NEW k \in 0 .. queue_cur - 1
        PROVE  queue_task'[Pos(k)] = queue_task[Pos(k)]
    <3>1. k \in 0 .. QueueMax - 1 /\ k # queue_cur /\ k \in 0 .. QueueMax
      BY <1>2, PoolAssumption
    <3>2. Pos(k) # Pos(queue_cur)
      BY <1>2, <3>1, PosInjective
    <3>3. Pos(k) \in Ring
      BY <1>2, <3>1, PosInRing
    <3> QED BY <1>1, <2>1, <3>2, <3>3 DEF TypeInv, TypeOK
  <2> QED BY <2>1, <2>2, <2>3
<1>7. PendingTasks' = Append(PendingTasks, t)
  <2>1. /\ PendingTasks \in Seq(Tasks) /\ Len(PendingTasks) = queue_cur
        /\ PendingTasks' \in Seq(Tasks) /\ Len(PendingTasks') = queue_cur'
    BY PendingIs, PendingStays
  <2>2. /\ \A k \in 1 .. queue_cur : PendingTasks'[k] = PendingTasks[k]
        /\ PendingTasks'[queue_cur + 1] = t
    <3>1. PendingTasks' = [k \in 1 .. queue_cur + 1 |-> queue_task'[Pos(k - 1)']]
      BY <1>1 DEF PendingTasks
    <3>2. \A k \in 1 .. queue_cur : k - 1 \in 0 .. queue_cur - 1 /\ k - 1 \in 0 .. queue_cur
                                   /\ k \in 1 .. queue_cur + 1
      BY <1>2, PoolAssumption
    <3>3. \A k \in 1 .. queue_cur : PendingTasks'[k] = PendingTasks[k]
      BY <1>5, <1>6, <3>1, <3>2 DEF PendingTasks
    <3>4. queue_cur + 1 \in 1 .. queue_cur + 1 /\ queue_cur + 1 - 1 = queue_cur
          /\ queue_cur \in 0 .. queue_cur
      BY <1>2, PoolAssumption
    <3>5. PendingTasks'[queue_cur + 1] = t
      BY <1>5, <1>6, <3>1, <3>4
    <3> QED BY <3>3, <3>5
  <2>3. /\ Append(PendingTasks, t) \in Seq(Tasks)
        /\ Len(Append(PendingTasks, t)) = queue_cur + 1
        /\ \A k \in 1 .. queue_cur : Append(PendingTasks, t)[k] = PendingTasks[k]
        /\ Append(PendingTasks, t)[queue_cur + 1] = t
    BY <1>2, <1>3, <2>1, AppendProperties
  <2>4. \A k \in 1 .. queue_cur + 1 : PendingTasks'[k] = Append(PendingTasks, t)[k]
    <3>1. \A k \in 1 .. queue_cur + 1 : k \in 1 .. queue_cur \/ k = queue_cur + 1
      BY <1>2
    <3> QED BY <2>2, <2>3, <3>1
  <2> QED BY <1>1, <2>1, <2>3, <2>4, SeqEqual
<1>8. Held' = Held
  BY <1>1 DEF Held
<1>9. Len(PendingTasks) < QueueMax /\ t \notin TQ!Pending \cup Held
  BY <1>2, <1>3, <1>4, PendingIs, PoolAssumption
<1> QED BY <1>3, <1>7, <1>8, <1>9 DEF TQ!Accept, PendingTasks

LEMMA WorkerTakeStarts ==
  ASSUME TypeInv, CopyInv, TypeInv', CopyInv', NEW s \in Slots, WorkerTake(s)
  PROVE  TQ!Start
<1> DEFINE t == queue_task[queue_rear]
<1>1. /\ worker[s] = "take" /\ queue_cur # 0
      /\ job' = [job EXCEPT ![s] = t]
      /\ queue_rear' = NextPos(queue_rear)
      /\ queue_cur' = queue_cur - 1 /\ queue_task' = queue_task
  BY DEF WorkerTake, NextTask
<1>2. queue_cur \in 1 .. QueueMax /\ queue_rear \in Ring
  BY <1>1, PoolAssumption DEF TypeInv, TypeOK
<1>3. job[s] = NoTask
  BY <1>1 DEF CopyInv, OneCopy, HeldOnce
<1>4. Pos(0) = queue_rear
  <2>1. 0 \in 0 .. QueueMax
    BY PoolAssumption
  <2> QED BY <1>2, <2>1, PosValue, PoolAssumption DEF Ring
<1>5. \A k \in 0 .. queue_cur - 1 : Pos(k)' = Pos(k + 1)
  BY <1>1, <1>2, PosShift
<1>6. /\ PendingTasks \in Seq(Tasks) /\ Len(PendingTasks) = queue_cur
      /\ PendingTasks' \in Seq(Tasks) /\ Len(PendingTasks') = queue_cur'
  BY PendingIs, PendingStays
<1>7. PendingTasks # << >> /\ Head(PendingTasks) = t /\ t \in Tasks
  <2>1. 1 \in 1 .. queue_cur /\ 1 - 1 = 0
    BY <1>2
  <2>2. PendingTasks[1] = t /\ PendingTasks[1] \in Tasks
    BY <1>4, <1>6, <2>1, PendingIs
  <2> QED BY <1>1, <1>6, <2>2
<1>8. PendingTasks' = Tail(PendingTasks)
  <2>1. /\ Tail(PendingTasks) \in Seq(Tasks) /\ Len(Tail(PendingTasks)) = queue_cur - 1
        /\ \A k \in 1 .. queue_cur - 1 : Tail(PendingTasks)[k] = PendingTasks[k + 1]
    BY <1>2, <1>6, <1>7, HeadTailProperties
  <2>2. ASSUME NEW k \in 1 .. queue_cur - 1
        PROVE  PendingTasks'[k] = PendingTasks[k + 1]
    <3>1. /\ k - 1 \in 0 .. queue_cur - 1 /\ k + 1 \in 1 .. queue_cur
          /\ (k - 1) + 1 = (k + 1) - 1
      BY <1>2
    <3>2. PendingTasks' = [i \in 1 .. queue_cur - 1 |-> queue_task[Pos(i - 1)']]
      BY <1>1 DEF PendingTasks
    <3>3. Pos(k - 1)' = Pos((k - 1) + 1)
      BY <1>5, <3>1
    <3>4. PendingTasks'[k] = queue_task[Pos((k + 1) - 1)]
      BY <3>1, <3>2, <3>3
    <3> QED BY <3>1, <3>4, PendingIs
  <2>3. \A k \in 1 .. queue_cur - 1 : PendingTasks'[k] = Tail(PendingTasks)[k]
    BY <2>1, <2>2
  <2> QED BY <1>1, <1>6, <2>1, <2>3, SeqEqual
<1>9. Held' = Held \cup {t}
  <2>1. t # NoTask /\ \A r \in Slots : job'[r] = IF r = s THEN t ELSE job[r]
    BY <1>1, <1>7, PoolAssumption DEF TypeInv, TypeOK
  <2>2. \A u : u \in Held' <=> u # NoTask /\ \E r \in Slots : job'[r] = u
    BY DEF Held
  <2> QED BY <1>3, <2>1, <2>2, HeldIs
<1>10. TQ!Cardinality(Held) < ThreadMax
  BY <1>3, HeldFits, TQCardinality
<1> QED BY <1>7, <1>8, <1>9, <1>10 DEF TQ!Start, PendingTasks

LEMMA EndEnds ==
  ASSUME TypeInv, CopyInv, NEW s \in Slots, JobReturn(s) \/ WorkerSigPipe(s)
  PROVE  TQ!End(job[s]) /\ job[s] \in Tasks
<1>1. /\ worker[s] = "run" /\ job' = [job EXCEPT ![s] = NoTask]
      /\ UNCHANGED ring
  BY DEF JobReturn, WorkerSigPipe
<1>2. job[s] # NoTask /\ job[s] \in Tasks
  BY <1>1 DEF CopyInv, OneCopy, HeldOnce, TypeInv, TypeOK
<1>3. PendingTasks' = PendingTasks
  BY <1>1 DEF PendingTasks, Pos, ring
<1>4. Held' = Held \ {job[s]}
  <2>1. \A r \in Slots : job'[r] = IF r = s THEN NoTask ELSE job[r]
    BY <1>1 DEF TypeInv, TypeOK
  <2>2. \A u : u \in Held' <=> u # NoTask /\ \E r \in Slots : job'[r] = u
    BY DEF Held
  <2>3. \A r \in Slots : job[r] = job[s] => r = s
    BY <1>2 DEF CopyInv, OneCopy, HeldOnce
  <2> QED BY <1>2, <2>1, <2>2, <2>3, HeldIs
<1>5. job[s] \in Held
  BY <1>2, HeldIs
<1> QED BY <1>2, <1>3, <1>4, <1>5 DEF TQ!End, PendingTasks

LEMMA StepRefines ==
  TypeInv /\ CopyInv /\ TypeInv' /\ CopyInv' /\ [Next]_vars => [TQ!Next]_TQ!vars
<1> SUFFICES ASSUME TypeInv, CopyInv, TypeInv', CopyInv', [Next]_vars
             PROVE  TQ!Next \/ UNCHANGED TQ!vars
  OBVIOUS
<1>1. ASSUME NEW p \in Producers, AddTask(p) PROVE TQ!Next
  BY <1>1, AddTaskAccepts DEF TQ!Next
<1>2. ASSUME NEW s \in Slots, WorkerTake(s) PROVE TQ!Next
  BY <1>2, WorkerTakeStarts DEF TQ!Next
<1>3. ASSUME NEW s \in Slots, JobReturn(s) \/ WorkerSigPipe(s) PROVE TQ!Next
  BY <1>3, EndEnds DEF TQ!Next
<1>4. CASE UNCHANGED <<ring, job>>
  BY <1>4 DEF TQ!vars, Held, Pos, ring
<1> QED
  BY <1>1, <1>2, <1>3, <1>4
  DEF Next, ProducerStep, WorkerStep, ManagerStep, vars, crew,
      Submit, AddWait, AddRefused, AddSignal, AddSpurious, WorkerLoop,
      WorkerWait, WorkerSpurious, WorkerKilled, WorkerSignal, UpdaterSigPipe,
      ManagerLoop, ManagerSample, GrowSkip, GrowCreate, GrowCount, GrowDone,
      ManagerShrink, ManagerSignal, ManagerSleep, Destroy

(* The pool implements the bounded FIFO queue, for every size and every    *)
(* interleaving of callers, workers, manager and faults: a task accepted   *)
(* by thread_task_add starts once, in the order of acceptance, and ends    *)
(* at most once.                                                           *)
THEOREM ImplementsTaskQueue == Spec => RefinesTaskQueue
<1>1. Init => TypeInv /\ CopyInv
  BY InitTypeInv, InitCopyInv
<1>2. TypeInv /\ CopyInv /\ [Next]_vars => (TypeInv /\ CopyInv)'
  BY StepTypeInv, StepCopyInv
<1>3. Init => TQ!Init
  BY InitRefines
<1>4. TypeInv /\ CopyInv /\ (TypeInv /\ CopyInv)' /\ [Next]_vars => [TQ!Next]_TQ!vars
  BY StepRefines
<1> QED BY <1>1, <1>2, <1>3, <1>4, PTL DEF Spec, TQ!Spec, RefinesTaskQueue
=============================================================================
