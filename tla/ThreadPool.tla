------------------------------ MODULE ThreadPool ------------------------------
(***************************************************************************)
(* The worker pool of thread_pool.c and its manager thread of              *)
(* thread_pool_manager.c.                                                  *)
(*                                                                         *)
(* Grain.  Every access to the counters and to the ring is made under      *)
(* pool->lock, so a critical section is one step.  What the code does      *)
(* outside the lock is a step of its own: reading pool->shut_down, both    *)
(* condition signals, the jobs, pthread_create, and the manager's use of   *)
(* the snapshot it took under the lock.  pthread_cond_wait releases the    *)
(* lock and sleeps in one step, and may wake without a signal.             *)
(*                                                                         *)
(* The tids table is `worker': a slot is an index of tids.  A task is a    *)
(* label for a (job, arg) pair; a label may be submitted again once the    *)
(* pool is done with it, so behaviours are unbounded and states are not.   *)
(***************************************************************************)
EXTENDS Integers, FiniteSets

CONSTANTS
  Tasks,       \* labels of the (job, arg) pairs
  NoTask,      \* "no task in this slot / hand"
  Producers,   \* threads calling thread_task_add (only main, in main.c)
  ThreadMax,   \* pool->thread_max, 1000 in main.c
  ThreadMin,   \* pool->thread_min, 10 in main.c
  QueueMax,    \* pool->queue_max, 1000 in main.c
  AliveFloor,  \* the literal 10 of the manager's growth test
  Faults       \* the environment events that may happen, see FaultKinds

FaultKinds ==
  { "sigpipe",          \* a job writes to a socket its peer has closed
    "updater_sigpipe",  \* so does the update thread, which is no worker
    "create_fails",     \* pthread_create fails (its result is not read)
    "spurious",         \* pthread_cond_wait returns without a signal
    "stale_tid",        \* if_thread_alive is asked about a thread that is gone
    "destroy" }         \* thread_pool_destory is called

ASSUME PoolAssumption ==
  /\ NoTask \notin Tasks
  /\ ThreadMin \in Nat \ {0}
  /\ ThreadMax \in Nat \ {0}
  /\ ThreadMin <= ThreadMax
  /\ QueueMax \in Nat \ {0}
  /\ AliveFloor \in Nat \ {0}
  /\ IsFiniteSet(Producers)
  /\ Faults \subseteq FaultKinds

Slots == 0 .. ThreadMax - 1        \* indices of pool->tids
Ring  == 0 .. QueueMax - 1         \* indices of pool->queue_task

VARIABLES
  queue_task,    \* the ring; a taken entry is left as it was
  queue_front,   \* where the next task is written
  queue_rear,    \* where the next task is read
  queue_cur,     \* tasks in the ring
  thread_alive, thread_busy, killno, shut_down,
  worker,        \* per slot of tids: where that thread is
  job,           \* per slot: the task the thread has copied out of the ring
  producer,      \* per producer: where it is in thread_task_add
  hand,          \* per producer: the task it is adding
  manager,       \* where the manager thread is
  idx, add,      \* its loop variables
  shrink,        \* the shrink test held on its snapshot, to act on after growing
  updater,       \* "up" until a SIGPIPE ends thread_time_update_func's thread
  phantom        \* history: times a failed pthread_create was counted alive

ring     == <<queue_task, queue_front, queue_rear, queue_cur>>
counters == <<thread_alive, thread_busy, killno>>
mgr      == <<manager, idx, add, shrink>>
callers  == <<producer, hand>>
crew     == <<worker, job>>
vars == <<ring, counters, shut_down, crew, callers, mgr, updater, phantom>>

(* "none": tids[s] is 0.  "gone": the thread ended and tids[s] keeps its   *)
(* id, or it was never created and tids[s] is unspecified.                 *)
WorkerPC   == {"none", "loop", "take", "wait", "signal", "run", "gone"}
ProducerPC == {"idle", "add", "full", "signal", "gone"}
ManagerPC  == {"loop", "sample", "grow", "count", "shrink", "signal",
               "sleep", "gone"}

Live(s)    == worker[s] \notin {"none", "gone"}
LiveSlots  == {s \in Slots : Live(s)}
BusySlots  == {s \in Slots : worker[s] \in {"signal", "run"}}
At(pc)     == {s \in Slots : worker[s] = pc}
ProdAt(pc) == {p \in Producers : producer[p] = pc}

Pos(k)      == (queue_rear + k) % QueueMax       \* ring index of the k-th task
Queued      == {queue_task[Pos(k)] : k \in 0 .. queue_cur - 1}
Held        == {job[s] : s \in Slots} \ {NoTask}
InHand      == {hand[p] : p \in Producers} \ {NoTask}
Outstanding == Queued \cup Held \cup InHand

TypeOK ==
  /\ queue_task \in [Ring -> Tasks \cup {NoTask}]
  /\ queue_front \in Ring
  /\ queue_rear \in Ring
  /\ queue_cur \in 0 .. QueueMax
  /\ thread_alive \in Int
  /\ thread_busy \in Int
  /\ killno \in Int
  /\ shut_down \in {0, 1}
  /\ worker \in [Slots -> WorkerPC]
  /\ job \in [Slots -> Tasks \cup {NoTask}]
  /\ producer \in [Producers -> ProducerPC]
  /\ hand \in [Producers -> Tasks \cup {NoTask}]
  /\ manager \in ManagerPC
  /\ idx \in 0 .. ThreadMax
  /\ add \in 0 .. ThreadMin
  /\ shrink \in BOOLEAN
  /\ updater \in {"up", "dead"}
  /\ phantom \in Nat

(* thread_pool_create, up to the manager's first instruction.  The first   *)
(* ThreadMin threads are counted alive, whether or not they could be made. *)
Init ==
  /\ queue_task = [k \in Ring |-> NoTask]
  /\ queue_front = 0 /\ queue_rear = 0 /\ queue_cur = 0
  /\ thread_alive = ThreadMin /\ thread_busy = 0 /\ killno = 0
  /\ shut_down = 1
  /\ \E failed \in SUBSET (0 .. ThreadMin - 1) :
       /\ failed = {} \/ "create_fails" \in Faults
       /\ worker = [s \in Slots |-> IF s >= ThreadMin THEN "none"
                                   ELSE IF s \in failed THEN "gone" ELSE "loop"]
       /\ phantom = Cardinality(failed)
  /\ job = [s \in Slots |-> NoTask]
  /\ producer = [p \in Producers |-> "idle"]
  /\ hand = [p \in Producers |-> NoTask]
  /\ manager = "loop" /\ idx = 0 /\ add = 0 /\ shrink = FALSE
  /\ updater = "up"

-----------------------------------------------------------------------------
(* The ring.  (A definition marked "mutant" is a plausible slip in the one *)
(* after it; no specification uses it, see README.)                        *)

NoWrap(i)  == i + 1                                               \* mutant
NextPos(i) == (i + 1) % QueueMax

FullLate == queue_cur > QueueMax                                  \* mutant
RingFull == queue_cur = QueueMax

NewestTask == queue_task[(queue_front + QueueMax - 1) % QueueMax] \* mutant
NextTask   == queue_task[queue_rear]

-----------------------------------------------------------------------------
(* thread_task_add.                                                        *)

(* handle_request calls thread_task_add with a task.                       *)
Submit(p, t) ==
  /\ producer[p] = "idle"
  /\ t \notin Outstanding
  /\ producer' = [producer EXCEPT ![p] = "add"]
  /\ hand' = [hand EXCEPT ![p] = t]
  /\ UNCHANGED <<ring, counters, shut_down, crew, mgr, updater, phantom>>

AddWait(p) ==
  /\ producer[p] = "add"
  /\ RingFull
  /\ shut_down = 1
  /\ producer' = [producer EXCEPT ![p] = "full"]
  /\ UNCHANGED <<ring, counters, shut_down, crew, hand, mgr, updater, phantom>>

AddRefused(p) ==
  /\ producer[p] = "add"
  /\ shut_down # 1
  /\ producer' = [producer EXCEPT ![p] = "gone"]
  /\ hand' = [hand EXCEPT ![p] = NoTask]
  /\ UNCHANGED <<ring, counters, shut_down, crew, mgr, updater, phantom>>

AddTask(p) ==
  /\ producer[p] = "add"
  /\ ~RingFull
  /\ shut_down = 1
  /\ queue_task' = [queue_task EXCEPT ![queue_front] = hand[p]]
  /\ queue_front' = NextPos(queue_front)
  /\ queue_cur' = queue_cur + 1
  /\ producer' = [producer EXCEPT ![p] = "signal"]
  /\ hand' = [hand EXCEPT ![p] = NoTask]
  /\ UNCHANGED <<queue_rear, counters, shut_down, crew, mgr, updater, phantom>>

(* pthread_cond_signal(&pool->empty): one sleeping worker wakes, if any.   *)
WakeNoWorker == UNCHANGED worker                                  \* mutant
WakeWorker ==
  \/ At("wait") = {} /\ UNCHANGED worker
  \/ \E s \in At("wait") : worker' = [worker EXCEPT ![s] = "take"]

AddSignal(p) ==
  /\ producer[p] = "signal"
  /\ producer' = [producer EXCEPT ![p] = "idle"]
  /\ WakeWorker
  /\ UNCHANGED <<ring, counters, shut_down, job, hand, mgr, updater, phantom>>

(* pthread_cond_wait(&pool->full) returning without a signal.              *)
AddSpurious(p) ==
  /\ "spurious" \in Faults
  /\ producer[p] = "full"
  /\ producer' = [producer EXCEPT ![p] = "add"]
  /\ UNCHANGED <<ring, counters, shut_down, crew, hand, mgr, updater, phantom>>

-----------------------------------------------------------------------------
(* thread_worker_func, run by the thread in slot s.                        *)

(* The test of the outer loop, made without the lock; leaving through it   *)
(* does not touch thread_alive.                                            *)
WorkerLoop(s) ==
  /\ worker[s] = "loop"
  /\ worker' = [worker EXCEPT ![s] = IF shut_down # 0 THEN "take" ELSE "gone"]
  /\ UNCHANGED <<ring, counters, shut_down, job, callers, mgr, updater, phantom>>

WorkerWait(s) ==
  /\ worker[s] = "take"
  /\ queue_cur = 0
  /\ worker' = [worker EXCEPT ![s] = "wait"]
  /\ UNCHANGED <<ring, counters, shut_down, job, callers, mgr, updater, phantom>>

WorkerSpurious(s) ==
  /\ "spurious" \in Faults
  /\ worker[s] = "wait"
  /\ worker' = [worker EXCEPT ![s] = "take"]
  /\ UNCHANGED <<ring, counters, shut_down, job, callers, mgr, updater, phantom>>

(* With a task in the ring the thread leaves without taking it.            *)
WorkerKilled(s) ==
  /\ worker[s] = "take"
  /\ queue_cur # 0
  /\ shut_down # 1 \/ killno > 0
  /\ killno' = killno - 1
  /\ thread_alive' = thread_alive - 1
  /\ worker' = [worker EXCEPT ![s] = "gone"]
  /\ UNCHANGED <<ring, thread_busy, shut_down, job, callers, mgr, updater, phantom>>

WorkerTake(s) ==
  /\ worker[s] = "take"
  /\ queue_cur # 0
  /\ shut_down = 1 /\ killno <= 0
  /\ job' = [job EXCEPT ![s] = NextTask]
  /\ thread_busy' = thread_busy + 1
  /\ queue_cur' = queue_cur - 1
  /\ queue_rear' = NextPos(queue_rear)
  /\ worker' = [worker EXCEPT ![s] = "signal"]
  /\ UNCHANGED <<queue_task, queue_front, thread_alive, killno, shut_down,
                 callers, mgr, updater, phantom>>

(* pthread_cond_signal(&pool->full): one blocked producer wakes, if any.   *)
WakeNoProducer == UNCHANGED producer                              \* mutant
WakeProducer ==
  \/ ProdAt("full") = {} /\ UNCHANGED producer
  \/ \E p \in ProdAt("full") : producer' = [producer EXCEPT ![p] = "add"]

WorkerSignal(s) ==
  /\ worker[s] = "signal"
  /\ worker' = [worker EXCEPT ![s] = "run"]
  /\ WakeProducer
  /\ UNCHANGED <<ring, counters, shut_down, job, hand, mgr, updater, phantom>>

JobReturn(s) ==
  /\ worker[s] = "run"
  /\ thread_busy' = thread_busy - 1
  /\ job' = [job EXCEPT ![s] = NoTask]
  /\ worker' = [worker EXCEPT ![s] = "loop"]
  /\ UNCHANGED <<ring, thread_alive, killno, shut_down, callers, mgr, updater, phantom>>

(* handle_pipe, the SIGPIPE handler: a thread wrote to a closed socket and *)
(* ends there, counted out of both counters.                               *)
HandlePipeHalf ==                                                 \* mutant
  thread_alive' = thread_alive - 1 /\ UNCHANGED thread_busy
HandlePipe ==
  thread_alive' = thread_alive - 1 /\ thread_busy' = thread_busy - 1

(* The thread is a worker, inside its job.                                 *)
WorkerSigPipe(s) ==
  /\ "sigpipe" \in Faults
  /\ worker[s] = "run"
  /\ HandlePipe
  /\ job' = [job EXCEPT ![s] = NoTask]
  /\ worker' = [worker EXCEPT ![s] = "gone"]
  /\ UNCHANGED <<ring, killno, shut_down, callers, mgr, updater, phantom>>

(* The thread is the news updater, which was never counted in.             *)
UpdaterSigPipe ==
  /\ "updater_sigpipe" \in Faults
  /\ updater = "up"
  /\ updater' = "dead"
  /\ HandlePipe
  /\ UNCHANGED <<ring, killno, shut_down, crew, callers, mgr, phantom>>

-----------------------------------------------------------------------------
(* thread_manager_func.                                                    *)

(* The float quotient busy/alive*100 >= 80 is 5*busy >= 4*alive when alive *)
(* is positive; when it is not, the third disjunct already holds.          *)
RoomUnchecked == TRUE                                             \* mutant
RoomToGrow == thread_alive + ThreadMin < ThreadMax

NeedsGrowth ==
  /\ \/ queue_cur >= thread_alive - thread_busy
     \/ 5 * thread_busy >= 4 * thread_alive
     \/ thread_alive < AliveFloor
  /\ RoomToGrow

NeedsShrink ==
  /\ 2 * thread_busy <= thread_alive - thread_busy
  /\ thread_alive - thread_busy - ThreadMin >= ThreadMin

ManagerLoop ==
  /\ manager = "loop"
  /\ manager' = IF shut_down # 0 THEN "sample" ELSE "gone"
  /\ UNCHANGED <<ring, counters, shut_down, crew, callers, idx, add, shrink,
                 updater, phantom>>

(* The snapshot under the lock.  Only the two tests read it afterwards, so *)
(* the model keeps their outcomes instead of the three numbers.  (idx, add *)
(* and shrink are put back to their first values once they are dead.)      *)
ManagerSample ==
  /\ manager = "sample"
  /\ shrink' = (NeedsGrowth /\ NeedsShrink)
  /\ manager' = IF NeedsGrowth THEN "grow"
                ELSE IF NeedsShrink THEN "shrink" ELSE "sleep"
  /\ UNCHANGED <<ring, counters, shut_down, crew, callers, idx, add, updater,
                 phantom>>

(* if_thread_alive on the id of an ended detached thread is undefined; it  *)
(* answers ESRCH, or says alive when the id has been reused.               *)
SlotLooksFree(s) == worker[s] \in {"none", "gone"}
SlotLooksUsed(s) == Live(s) \/ (worker[s] = "gone" /\ "stale_tid" \in Faults)

GrowSkip ==
  /\ manager = "grow"
  /\ idx < ThreadMax /\ add < ThreadMin
  /\ SlotLooksUsed(idx)
  /\ idx' = idx + 1
  /\ UNCHANGED <<ring, counters, shut_down, crew, callers, manager, add, shrink,
                 updater, phantom>>

(* A failed pthread_create leaves tids[idx] unspecified.                   *)
GrowCreate ==
  /\ manager = "grow"
  /\ idx < ThreadMax /\ add < ThreadMin
  /\ SlotLooksFree(idx)
  /\ manager' = "count"
  /\ \/ worker' = [worker EXCEPT ![idx] = "loop"] /\ UNCHANGED phantom
     \/ /\ "create_fails" \in Faults
        /\ worker' = [worker EXCEPT ![idx] = "gone"]
        /\ phantom' = phantom + 1
  /\ UNCHANGED <<ring, counters, shut_down, job, callers, idx, add, shrink, updater>>

GrowCount ==
  /\ manager = "count"
  /\ thread_alive' = thread_alive + 1
  /\ add' = add + 1
  /\ idx' = idx + 1
  /\ manager' = "grow"
  /\ UNCHANGED <<ring, thread_busy, killno, shut_down, crew, callers, shrink,
                 updater, phantom>>

GrowDone ==
  /\ manager = "grow"
  /\ idx >= ThreadMax \/ add >= ThreadMin
  /\ idx' = 0 /\ add' = 0 /\ shrink' = FALSE
  /\ manager' = IF shrink THEN "shrink" ELSE "sleep"
  /\ UNCHANGED <<ring, counters, shut_down, crew, callers, updater, phantom>>

ManagerShrink ==
  /\ manager = "shrink"
  /\ killno' = ThreadMin
  /\ manager' = "signal"
  /\ UNCHANGED <<ring, thread_alive, thread_busy, shut_down, crew, callers, idx,
                 add, shrink, updater, phantom>>

ManagerSignal ==
  /\ manager = "signal"
  /\ IF idx + 1 = ThreadMin
       THEN idx' = 0 /\ manager' = "sleep"
       ELSE idx' = idx + 1 /\ UNCHANGED manager
  /\ WakeWorker
  /\ UNCHANGED <<ring, counters, shut_down, job, callers, add, shrink, updater,
                 phantom>>

(* sleep(TIMEOUT) returns.                                                 *)
ManagerSleep ==
  /\ manager = "sleep"
  /\ manager' = "loop"
  /\ UNCHANGED <<ring, counters, shut_down, crew, callers, idx, add, shrink,
                 updater, phantom>>

-----------------------------------------------------------------------------
(* thread_pool_destory: the flag is cleared without the lock and nobody is *)
(* signalled; the threads are detached, so pthread_join does not wait.     *)
Destroy ==
  /\ "destroy" \in Faults
  /\ shut_down = 1
  /\ shut_down' = 0
  /\ UNCHANGED <<ring, counters, crew, callers, mgr, updater, phantom>>

ProducerStep(p) ==
  AddWait(p) \/ AddRefused(p) \/ AddTask(p) \/ AddSignal(p)

(* A worker's own steps, up to the job's: none depends on the job ending.  *)
WorkerStep(s) ==
  WorkerLoop(s) \/ WorkerWait(s) \/ WorkerKilled(s) \/ WorkerTake(s)
    \/ WorkerSignal(s)

ManagerStep ==
  \/ ManagerLoop \/ ManagerSample \/ GrowSkip \/ GrowCreate \/ GrowCount
  \/ GrowDone \/ ManagerShrink \/ ManagerSignal \/ ManagerSleep

Next ==
  \/ \E p \in Producers, t \in Tasks : Submit(p, t)
  \/ \E p \in Producers : ProducerStep(p) \/ AddSpurious(p)
  \/ \E s \in Slots : \/ WorkerStep(s) \/ WorkerSpurious(s)
                      \/ JobReturn(s) \/ WorkerSigPipe(s)
  \/ ManagerStep
  \/ UpdaterSigPipe
  \/ Destroy

Spec == Init /\ [][Next]_vars

(* Fairness the scheduler gives: a thread that can run does.  No fairness  *)
(* on JobReturn (a handler may block on a socket for ever), on Submit (the *)
(* clients), on spurious wakeups or on the faults.                         *)
Fairness ==
  /\ \A p \in Producers : WF_vars(ProducerStep(p))
  /\ \A s \in Slots : WF_vars(WorkerStep(s))
  /\ WF_vars(ManagerStep)

FairSpec == Spec /\ Fairness
-----------------------------------------------------------------------------
(* Properties.                                                             *)

B2N(b) == IF b THEN 1 ELSE 0

(* The counters the manager steers by agree with the threads there are.    *)
(* thread_busy counts the workers holding a task; thread_alive counts the  *)
(* living workers, plus every failed pthread_create.  Both are one short   *)
(* for ever once the update thread has died of SIGPIPE, and thread_alive   *)
(* lags a creation by the manager's "count" step.  After a shutdown the    *)
(* workers that leave through the loop test stay counted.                  *)
CountersMatchThreads ==
  LET lost  == B2N(updater = "dead")
      alive == thread_alive + lost + B2N(manager = "count") - phantom
  IN /\ thread_busy + lost = Cardinality(BusySlots)
     /\ alive >= Cardinality(LiveSlots)
     /\ shut_down = 1 => alive = Cardinality(LiveSlots)

(* The ring never laps itself: the write index is queue_cur ahead of the   *)
(* read index, and no accepted task is in two places (twice in the ring,   *)
(* in the ring and held by a worker, or held by two workers).              *)
RingIndices == queue_front = Pos(queue_cur)

QueuedOnce ==
  \A k \in 0 .. queue_cur - 1 :
    /\ queue_task[Pos(k)] \in Tasks \ (Held \cup InHand)
    /\ \A l \in 0 .. queue_cur - 1 :
         queue_task[Pos(k)] = queue_task[Pos(l)] => k = l

HeldOnce ==
  /\ \A s \in Slots : job[s] # NoTask <=> worker[s] \in {"signal", "run"}
  /\ \A s1, s2 \in Slots : job[s1] = job[s2] /\ job[s1] # NoTask => s1 = s2
  /\ Held \cap InHand = {}

OneCopy == RingIndices /\ QueuedOnce /\ HeldOnce

(* The signal on `full' is sent after the lock is released.  While some    *)
(* producer sleeps on `full', every free place of the ring is matched by a *)
(* worker that has yet to signal or a producer already awake.              *)
NoStrandedProducer ==
  shut_down = 1 /\ ProdAt("full") # {} =>
    QueueMax - queue_cur <= Cardinality(At("signal")) + Cardinality(ProdAt("add"))

(* The signal on `empty' too.  When the sizes rule a shrink out and some   *)
(* worker sleeps on `empty', every queued task is matched by a worker that *)
(* is awake and about to look, or by a signal a producer has yet to send.  *)
(* (A shrink breaks this: the woken worker leaves and the task stays.)     *)
ShrinkImpossible == ThreadMax < 2 * ThreadMin

NoStrandedTask ==
  ShrinkImpossible /\ shut_down = 1 /\ At("wait") # {} =>
    queue_cur <= Cardinality(At("take")) + Cardinality(ProdAt("signal"))

(* The pool implements the bounded FIFO queue: tasks start in the order    *)
(* they were added, none is lost, duplicated or overwritten, whatever the       *)
(* interleaving of callers, workers, manager and faults.                   *)
TQ == INSTANCE TaskQueue WITH
        pending <- [k \in 1 .. queue_cur |-> queue_task[Pos(k - 1)]],
        running <- Held

RefinesTaskQueue == TQ!Spec

(* The sizes thread_pool_create was given are kept: growth, decided on a   *)
(* snapshot, never counts past thread_max ...                              *)
AliveBelowMax == thread_alive <= ThreadMax

(* ... but shrinking, decided on one too, does not keep thread_min.        *)
KeepsThreadMin ==
  Faults = {} => Cardinality(LiveSlots) >= ThreadMin

(* thread_pool_destory joins every thread of tids, so those that are not   *)
(* inside a job should end; but nobody wakes the ones asleep on `empty'.   *)
DestroyEndsWorkers == shut_down = 0 ~> LiveSlots \subseteq At("run")

IdleSlots == At("loop") \cup At("take") \cup At("wait")

(* Work conservation: it is never for ever that a task is queued while     *)
(* some worker has nothing to do.  Jobs need not end.                      *)
NoIdleStarvation == []<>(queue_cur = 0 \/ IdleSlots = {})

(* A producer does not sleep for ever beside a ring with room in it.       *)
NoBlockedProducer == []<>(ProdAt("full") = {} \/ queue_cur = QueueMax)
=============================================================================
