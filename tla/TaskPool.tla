------------------------------ MODULE TaskPool ------------------------------
(***************************************************************************)
(* What a pool of threads promises its callers, without threads, mutex or  *)
(* ring buffer (the comments of kernel/libhaplo/pool.c and of              *)
(* kernel/include/haplo/pool.h): the tasks handed to the pool start in the *)
(* order they were handed over, each is executed once, at most NbSlots of  *)
(* them are queued and at most NbWorkers are executed at the same time,    *)
(* and the pool is closed only when nothing is left to do.                 *)
(* Pool.tla is shown to implement this specification.                      *)
(***************************************************************************)
EXTENDS Naturals, Sequences, FiniteSets, SequencesExt

CONSTANTS
  Tasks,      \* the calls to haplo_pool_run, each a task of its own
  NbSlots,    \* capacity of the queue
  NbWorkers   \* number of threads

VARIABLES
  queue,      \* tasks handed over and not started, oldest first
  active,     \* tasks being executed
  finished,   \* tasks executed
  open        \* the pool has not been closed

vars == <<queue, active, finished, open>>

Init ==
  /\ queue = <<>>
  /\ active = {}
  /\ finished = {}
  /\ open = TRUE

Submit(t) ==
  /\ open
  /\ t \notin ToSet(queue) \cup active \cup finished
  /\ Len(queue) < NbSlots
  /\ queue' = Append(queue, t)
  /\ UNCHANGED <<active, finished, open>>

Start ==
  /\ open
  /\ queue # <<>>
  /\ Cardinality(active) < NbWorkers
  /\ active' = active \cup {Head(queue)}
  /\ queue' = Tail(queue)
  /\ UNCHANGED <<finished, open>>

Finish(t) ==
  /\ t \in active
  /\ active' = active \ {t}
  /\ finished' = finished \cup {t}
  /\ UNCHANGED <<queue, open>>

Close ==
  /\ open
  /\ queue = <<>>
  /\ active = {}
  /\ open' = FALSE
  /\ UNCHANGED <<queue, active, finished>>

Next ==
  \/ \E t \in Tasks : Submit(t) \/ Finish(t)
  \/ Start
  \/ Close

Spec == Init /\ [][Next]_vars
=============================================================================
