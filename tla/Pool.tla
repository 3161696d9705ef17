-------------------------------- MODULE Pool --------------------------------
(***************************************************************************)
(* The pool of threads of kernel/libhaplo/pool.c.                          *)
(*                                                                         *)
(* Worker threads run pool_do; client threads call haplo_pool_run; the     *)
(* thread that owns the pool also calls haplo_pool_wait and                *)
(* haplo_pool_free.  Everything but the loop test of line 60 is read and   *)
(* written under pool->mutex, so each critical section is one action; the  *)
(* signals, which the code sends after it has unlocked the mutex, are      *)
(* actions of their own, and pthread_cond_wait is a state of the thread    *)
(* which a signal, a broadcast or a spurious wakeup ends.                  *)
(***************************************************************************)
EXTENDS Integers, FiniteSets

CONSTANTS
  Workers,    \* threads created by haplo_pool_new
  Clients,    \* threads that hand tasks over
  Owner,      \* the client that waits for the tasks and frees the pool
  NbSlots,    \* pool->nb_slots
  Tasks,      \* calls to haplo_pool_run: a task is a (function, data) pair
  NoTask      \* content of a slot that was never written

ASSUME PoolAssumption ==
  /\ IsFiniteSet(Workers)
  /\ IsFiniteSet(Clients)
  /\ Workers \cap Clients = {}
  /\ Owner \in Clients
  /\ NbSlots \in Nat \ {0}
  /\ NoTask \notin Tasks

VARIABLES
  head,       \* pool->head
  pending,    \* pool->pending
  running,    \* pool->running
  alive,      \* pool->alive
  slots,      \* pool->functions and pool->data
  pc,         \* where each thread is
  task,       \* local variables function and data of each thread
  closing,    \* the owner has called haplo_pool_free
  submitted,  \* history: tasks whose haplo_pool_run stored them in a slot
  executed    \* history: how often function(data) was called for a task

poolVars == <<head, pending, running, alive, slots>>
history  == <<submitted, executed>>
vars     == <<poolVars, pc, task, closing, history>>

Threads == Workers \cup Clients
Slots   == 0 .. NbSlots - 1

(***************************************************************************)
(* Program counters.  A worker goes round                                  *)
(*   loop -> take [-> sleep_push -> take] -> popped -> work -> end ->      *)
(*   ended -> loop, or leaves the loop and is dead.                        *)
(* A client is idle, or in haplo_pool_run (run, sleep_pop, pushed), or in  *)
(* haplo_pool_wait (wait, sleep_finish), or in haplo_pool_free (the same   *)
(* two with closing set, then kill, broadcast, join, freed).               *)
(***************************************************************************)
WorkerPC == {"loop", "take", "sleep_push", "popped", "work", "end", "ended",
             "dead"}
ClientPC == {"idle", "run", "sleep_pop", "pushed"}
OwnerPC  == {"wait", "sleep_finish", "kill", "broadcast", "join", "freed"}

At(S, where) == {t \in S : pc[t] = where}

(***************************************************************************)
(* haplo_pool_new: an empty ring and every worker at the top of its loop.  *)
(***************************************************************************)
Init ==
  /\ head = 0
  /\ pending = 0
  /\ running = 0
  /\ alive = TRUE
  /\ slots = [i \in Slots |-> NoTask]
  /\ pc = [t \in Threads |-> IF t \in Workers THEN "loop" ELSE "idle"]
  /\ task = [t \in Threads |-> NoTask]
  /\ closing = FALSE
  /\ submitted = {}
  /\ executed = [t \in Tasks |-> 0]

Goto(t, where) == pc' = [pc EXCEPT ![t] = where]

(***************************************************************************)
(* pthread_cond_signal: one of the threads of S asleep at `asleep', if any,*)
(* goes back to the mutex (`awake'); the caller goes on.                   *)
(***************************************************************************)
Signal(self, S, asleep, awake, next) ==
  IF At(S, asleep) = {}
  THEN Goto(self, next)
  ELSE \E t \in At(S, asleep) :
         pc' = [pc EXCEPT ![t] = awake, ![self] = next]

(***************************************************************************)
(* pthread_cond_wait may return without a signal.                          *)
(***************************************************************************)
SpuriousWakeup(t) ==
  /\ \/ pc[t] = "sleep_push"   /\ Goto(t, "take")
     \/ pc[t] = "sleep_pop"    /\ Goto(t, "run")
     \/ pc[t] = "sleep_finish" /\ Goto(t, "wait")
  /\ UNCHANGED <<poolVars, task, closing, history>>

-----------------------------------------------------------------------------
(* pool_do *)

\* while(pool->alive), read without the mutex.
Loop(w) ==
  /\ pc[w] = "loop"
  /\ Goto(w, IF alive THEN "take" ELSE "dead")
  /\ UNCHANGED <<poolVars, task, closing, history>>

\* No task: sleep on cond_push.
TakeSleep(w) ==
  /\ pc[w] = "take"
  /\ pending = 0
  /\ Goto(w, "sleep_push")
  /\ UNCHANGED <<poolVars, task, closing, history>>

\* The "task" is the one haplo_pool_free simulates.
TakeDie(w) ==
  /\ pc[w] = "take"
  /\ pending # 0
  /\ ~alive
  /\ Goto(w, "dead")
  /\ UNCHANGED <<poolVars, task, closing, history>>

NextHead == IF head + 1 = NbSlots THEN 0 ELSE head + 1

\* Mutant: the head of the ring is not advanced.
TakeKeepsHead(w) ==
  /\ pc[w] = "take"
  /\ pending # 0
  /\ alive
  /\ task' = [task EXCEPT ![w] = slots[head]]
  /\ pending' = pending - 1
  /\ running' = running + 1
  /\ Goto(w, "popped")
  /\ UNCHANGED <<head, alive, slots, closing, history>>

Take(w) ==
  /\ pc[w] = "take"
  /\ pending # 0
  /\ alive
  /\ task' = [task EXCEPT ![w] = slots[head]]
  /\ pending' = pending - 1
  /\ head' = NextHead
  /\ running' = running + 1
  /\ Goto(w, "popped")
  /\ UNCHANGED <<alive, slots, closing, history>>

\* Mutant: a signal only when the ring stops being full.
SignalPopIfWasFull(w) ==
  /\ pc[w] = "popped"
  /\ IF pending = NbSlots - 1
     THEN Signal(w, Clients, "sleep_pop", "run", "work")
     ELSE Goto(w, "work")
  /\ UNCHANGED <<poolVars, task, closing, history>>

SignalPop(w) ==
  /\ pc[w] = "popped"
  /\ Signal(w, Clients, "sleep_pop", "run", "work")
  /\ UNCHANGED <<poolVars, task, closing, history>>

\* function(data)
Work(w) ==
  /\ pc[w] = "work"
  /\ executed' = [executed EXCEPT ![task[w]] = @ + 1]
  /\ Goto(w, "end")
  /\ UNCHANGED <<poolVars, task, closing, submitted>>

End(w) ==
  /\ pc[w] = "end"
  /\ running' = running - 1
  /\ Goto(w, "ended")
  /\ UNCHANGED <<head, pending, alive, slots, task, closing, history>>

\* Mutant: the end of a task is not signalled.
EndUnsignalled(w) ==
  /\ pc[w] = "ended"
  /\ Goto(w, "loop")
  /\ UNCHANGED <<poolVars, task, closing, history>>

SignalFinish(w) ==
  /\ pc[w] = "ended"
  /\ Signal(w, Clients, "sleep_finish", "wait", "loop")
  /\ UNCHANGED <<poolVars, task, closing, history>>

-----------------------------------------------------------------------------
(* haplo_pool_run *)

\* A client calls haplo_pool_run with a new task.  Nobody uses a pool that
\* its owner is freeing.
CallRun(c, t) ==
  /\ pc[c] = "idle"
  /\ ~closing
  /\ t \notin submitted
  /\ \A d \in Clients : pc[d] \in {"run", "sleep_pop"} => task[d] # t
  /\ task' = [task EXCEPT ![c] = t]
  /\ Goto(c, "run")
  /\ UNCHANGED <<poolVars, closing, history>>

RunSleep(c) ==
  /\ pc[c] = "run"
  /\ pending = NbSlots
  /\ Goto(c, "sleep_pop")
  /\ UNCHANGED <<poolVars, task, closing, history>>

\* Mutant: a full ring does not stop the client.
RunPushWhenFull(c) ==
  /\ pc[c] = "run"
  /\ slots' = [slots EXCEPT ![(head + pending) % NbSlots] = task[c]]
  /\ pending' = pending + 1
  /\ submitted' = submitted \cup {task[c]}
  /\ Goto(c, "pushed")
  /\ UNCHANGED <<head, running, alive, task, closing, executed>>

RunPush(c) ==
  /\ pc[c] = "run"
  /\ pending # NbSlots
  /\ slots' = [slots EXCEPT ![(head + pending) % NbSlots] = task[c]]
  /\ pending' = pending + 1
  /\ submitted' = submitted \cup {task[c]}
  /\ Goto(c, "pushed")
  /\ UNCHANGED <<head, running, alive, task, closing, executed>>

\* Mutant: a signal only when the ring stops being empty.
SignalPushIfWasEmpty(c) ==
  /\ pc[c] = "pushed"
  /\ IF pending = 1
     THEN Signal(c, Workers, "sleep_push", "take", "idle")
     ELSE Goto(c, "idle")
  /\ UNCHANGED <<poolVars, task, closing, history>>

\* Mutant: the signal goes to pending_pop, where the clients sleep.
SignalPushToClients(c) ==
  /\ pc[c] = "pushed"
  /\ Signal(c, Clients, "sleep_pop", "run", "idle")
  /\ UNCHANGED <<poolVars, task, closing, history>>

SignalPush(c) ==
  /\ pc[c] = "pushed"
  /\ Signal(c, Workers, "sleep_push", "take", "idle")
  /\ UNCHANGED <<poolVars, task, closing, history>>

-----------------------------------------------------------------------------
(* haplo_pool_wait, alone or as the first call of haplo_pool_free *)

CallWait ==
  /\ pc[Owner] = "idle"
  /\ Goto(Owner, "wait")
  /\ UNCHANGED <<poolVars, task, closing, history>>

WaitSleep ==
  /\ pc[Owner] = "wait"
  /\ running # 0 \/ pending # 0
  /\ Goto(Owner, "sleep_finish")
  /\ UNCHANGED <<poolVars, task, closing, history>>

\* Mutant: tasks that have started are not waited for.
WaitForPendingOnly ==
  /\ pc[Owner] = "wait"
  /\ pending = 0
  /\ Goto(Owner, IF closing THEN "kill" ELSE "idle")
  /\ UNCHANGED <<poolVars, task, closing, history>>

WaitReturn ==
  /\ pc[Owner] = "wait"
  /\ running = 0
  /\ pending = 0
  /\ Goto(Owner, IF closing THEN "kill" ELSE "idle")
  /\ UNCHANGED <<poolVars, task, closing, history>>

-----------------------------------------------------------------------------
(* haplo_pool_free *)

\* Mutant: haplo_pool_free does not begin with haplo_pool_wait.
FreeAtOnce ==
  /\ \A c \in Clients : pc[c] = "idle"
  /\ ~closing
  /\ closing' = TRUE
  /\ Goto(Owner, "kill")
  /\ UNCHANGED <<poolVars, task, history>>

\* The owner frees the pool when no other client is in a call.
CallFree ==
  /\ \A c \in Clients : pc[c] = "idle"
  /\ ~closing
  /\ closing' = TRUE
  /\ Goto(Owner, "wait")
  /\ UNCHANGED <<poolVars, task, history>>

\* alive = 0, and a simulated task to get the workers out of their wait.
Kill ==
  /\ pc[Owner] = "kill"
  /\ alive' = FALSE
  /\ pending' = 1
  /\ Goto(Owner, "broadcast")
  /\ UNCHANGED <<head, running, slots, task, closing, history>>

\* Mutant: pthread_cond_signal in the place of pthread_cond_broadcast.
SignalOneWorker ==
  /\ pc[Owner] = "broadcast"
  /\ Signal(Owner, Workers, "sleep_push", "take", "join")
  /\ UNCHANGED <<poolVars, task, closing, history>>

BroadcastPush ==
  /\ pc[Owner] = "broadcast"
  /\ pc' = [t \in Threads |->
              IF t = Owner THEN "join"
              ELSE IF t \in At(Workers, "sleep_push") THEN "take"
              ELSE pc[t]]
  /\ UNCHANGED <<poolVars, task, closing, history>>

\* pthread_join of every thread, then the pool is released.
Join ==
  /\ pc[Owner] = "join"
  /\ \A w \in Workers : pc[w] = "dead"
  /\ Goto(Owner, "freed")
  /\ UNCHANGED <<poolVars, task, closing, history>>

\* After haplo_pool_free the pool is gone: nothing is left to do.
Freed ==
  /\ pc[Owner] = "freed"
  /\ UNCHANGED vars

-----------------------------------------------------------------------------
WorkerStep(w) ==
  \/ Loop(w) \/ TakeSleep(w) \/ TakeDie(w) \/ Take(w) \/ SignalPop(w)
  \/ Work(w) \/ End(w) \/ SignalFinish(w)

\* Steps of a client inside a call.
RunStep(c) == RunSleep(c) \/ RunPush(c) \/ SignalPush(c)

OwnerStep ==
  WaitSleep \/ WaitReturn \/ Kill \/ BroadcastPush \/ Join

Calls ==
  \/ \E c \in Clients, t \in Tasks : CallRun(c, t)
  \/ CallWait
  \/ CallFree

Next ==
  \/ \E w \in Workers : WorkerStep(w)
  \/ \E c \in Clients : RunStep(c)
  \/ OwnerStep
  \/ Calls
  \/ \E t \in Threads : SpuriousWakeup(t)
  \/ Freed

Spec == Init /\ [][Next]_vars

(***************************************************************************)
(* The scheduler runs every thread that can run, and the mutex, held for a *)
(* few instructions at a time, is granted in the end to a thread that asks *)
(* for it.  Nothing obliges a client to call, and no wakeup is spurious by *)
(* obligation.                                                             *)
(***************************************************************************)
Fairness ==
  /\ \A w \in Workers : WF_vars(WorkerStep(w))
  /\ \A c \in Clients : WF_vars(RunStep(c))
  /\ WF_vars(OwnerStep)

FairSpec == Spec /\ Fairness

-----------------------------------------------------------------------------
(* What holds in every state *)

\* Slots of the ring that hold a task not started: pending of them from head,
\* going round at NbSlots.  The task simulated by haplo_pool_free has no slot.
Live ==
  IF alive
  THEN {i \in Slots : \/ head <= i /\ i < head + pending
                      \/ i + NbSlots < head + pending}
  ELSE {}

\* Workers between line 88 (running += 1) and line 104 (running -= 1).
Busy == {w \in Workers : pc[w] \in {"popped", "work", "end"}}

\* Workers that have taken a task and have not executed it.
Holding == {w \in Workers : pc[w] \in {"popped", "work"}}

\* Every variable has a value of its type; the ring never holds more than
\* NbSlots tasks (lines 126-159 and the fields of haplo_pool_t).
TypeOK ==
  /\ head \in Slots
  /\ pending \in 0 .. NbSlots
  /\ running \in Nat
  /\ alive \in BOOLEAN
  /\ slots \in [Slots -> Tasks \cup {NoTask}]
  /\ pc \in [Threads -> WorkerPC \cup ClientPC \cup OwnerPC]
  /\ \A w \in Workers : pc[w] \in WorkerPC
  /\ \A c \in Clients : pc[c] \in ClientPC \cup OwnerPC
  /\ \A c \in Clients \ {Owner} : pc[c] \in ClientPC
  /\ task \in [Threads -> Tasks \cup {NoTask}]
  /\ closing \in BOOLEAN
  /\ submitted \subseteq Tasks
  /\ executed \in [Tasks -> Nat]

\* pool->running counts the workers between the pop and the end of a task:
\* the two critical sections of pool_do keep the counter exact (lines 80-105).
RunningCount == running = Cardinality(Busy)

\* Each task that haplo_pool_run stored is, at any moment, in one place: in the
\* part of the ring still to be taken, in the hands of one worker, or executed,
\* once.  Two workers never take the same slot and no slot is overwritten
\* before it is taken (lines 80-88 and 180-183).
ExactlyOnce ==
  /\ \A t \in Tasks : executed[t] <= IF t \in submitted THEN 1 ELSE 0
  /\ \A t \in submitted :
       executed[t] = 0 => \/ \E i \in Live : slots[i] = t
                          \/ \E w \in Holding : task[w] = t

\* No lost wakeup on cond_push: as long as a worker sleeps, there are at least
\* as many workers on their way to the queue, or signals about to be sent, as
\* there are queued tasks (one signal per push, line 186, is enough although
\* the signal is sent after the mutex was released).
QueuedTaskHasTaker ==
  alive /\ At(Workers, "sleep_push") # {}
    => pending <= Cardinality(At(Workers, "take"))
                    + Cardinality(At(Clients, "pushed"))

\* No lost wakeup on cond_pop: as long as a client sleeps in haplo_pool_run,
\* every free slot has a client on its way to it or a signal about to be sent
\* (one signal per pop, line 91).
FreeSlotHasTaker ==
  At(Clients, "sleep_pop") # {}
    => NbSlots - pending <= Cardinality(At(Clients, "run"))
                              + Cardinality(At(Workers, "popped"))

\* No lost wakeup on cond_finish: while the owner sleeps in haplo_pool_wait,
\* either tasks remain or a worker is about to signal their end (line 106).
WaiterIsWoken ==
  pc[Owner] = "sleep_finish"
    => running + pending > 0 \/ At(Workers, "ended") # {}

\* No wakeup is lost, on any of the three conditions.
NoLostWakeup == QueuedTaskHasTaker /\ FreeSlotHasTaker /\ WaiterIsWoken

\* haplo_pool_wait returns, to its caller or to haplo_pool_free, only when
\* every task handed over before has been executed ("Wait for ALL tasks in a
\* threads pool to be accomplished", line 193).
WaitForAll ==
  [][pc[Owner] = "wait" /\ pc'[Owner] \in {"idle", "kill"}
       => \A t \in submitted : executed[t] = 1]_vars

(***************************************************************************)
(* The pool implements TaskPool.                                           *)
(***************************************************************************)
Abstract == INSTANCE TaskPool WITH
  NbWorkers <- Cardinality(Workers),
  queue     <- [k \in 1 .. (IF alive THEN pending ELSE 0) |->
                  slots[(head + k - 1) % NbSlots]],
  active    <- {task[w] : w \in Holding},
  finished  <- {t \in Tasks : executed[t] # 0},
  open      <- alive

\* Every step of the pool is a step of the abstract task queue or leaves it
\* alone: tasks start in the order of the calls, once each, and the pool is
\* closed when the queue is empty and nothing is active.
Implements == Abstract!Spec

\* A task that was stored is executed in the end (pool_do takes every task).
EveryTaskExecuted ==
  \A t \in Tasks : t \in submitted ~> executed[t] = 1

\* Every call returns: no client stays asleep on a full ring, the wait for the
\* tasks ends, and haplo_pool_free, which wakes every worker and joins it, ends
\* (lines 177, 200 and 225-235).
CallsReturn ==
  /\ \A c \in Clients : pc[c] = "run" ~> pc[c] = "idle"
  /\ pc[Owner] = "wait" ~> pc[Owner] \in {"idle", "kill"}
  /\ closing ~> pc[Owner] = "freed"
=============================================================================
