------------------------------ MODULE TaskQueue ------------------------------
(***************************************************************************)
(* What the thread pool promises its callers, without threads, locks,      *)
(* condition variables or a ring buffer: a bounded first-in first-out      *)
(* queue of tasks.  A task is appended at most once, starts only when it   *)
(* is the oldest one pending, runs on one thread, and ends once.           *)
(* ThreadPool.tla is shown to implement this module.                       *)
(***************************************************************************)
EXTENDS Naturals, Sequences, FiniteSets

CONSTANTS
  Tasks,      \* labels of the (job, arg) pairs handed to the pool
  QueueMax,   \* capacity of the queue
  ThreadMax   \* most tasks that can run at the same time

VARIABLES
  pending,    \* tasks accepted and not yet started, oldest first
  running     \* tasks some worker has taken and not yet finished

vars == <<pending, running>>

Pending == {pending[k] : k \in DOMAIN pending}

TypeOK ==
  /\ pending \in Seq(Tasks)
  /\ Len(pending) <= QueueMax
  /\ running \in SUBSET Tasks
  /\ Cardinality(running) <= ThreadMax

Init ==
  /\ pending = <<>>
  /\ running = {}

(* The pool accepts a task that is not in it, when the queue has room.     *)
Accept(t) ==
  /\ t \notin Pending \cup running
  /\ Len(pending) < QueueMax
  /\ pending' = Append(pending, t)
  /\ UNCHANGED running

(* Some worker takes the oldest pending task.                              *)
Start ==
  /\ pending # <<>>
  /\ Cardinality(running) < ThreadMax
  /\ running' = running \cup {Head(pending)}
  /\ pending' = Tail(pending)

(* A running task ends: its job returned, or its worker died under it.     *)
End(t) ==
  /\ t \in running
  /\ running' = running \ {t}
  /\ UNCHANGED pending

Next ==
  \/ \E t \in Tasks : Accept(t)
  \/ Start
  \/ \E t \in Tasks : End(t)

Spec == Init /\ [][Next]_vars
=============================================================================
