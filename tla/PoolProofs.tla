----------------------------- MODULE PoolProofs -----------------------------
(***************************************************************************)
(* Theorems about Pool, for every number of workers, clients, slots and    *)
(* tasks.                                                                  *)
(***************************************************************************)
EXTENDS Pool, FiniteSetTheorems, SequenceTheorems, TLAPS

-----------------------------------------------------------------------------
(* The parts of the inductive invariant *)

\* The owner's program counter, alive and closing agree: alive is cleared
\* between the end of the wait and the broadcast of haplo_pool_free, with every
\* other client outside a call and nothing queued or running.
Shutdown ==
  /\ alive <=> pc[Owner] \notin {"broadcast", "join", "freed"}
  /\ pc[Owner] \in {"kill", "broadcast", "join", "freed"} => closing
  /\ closing => /\ \A c \in Clients \ {Owner} : pc[c] = "idle"
                /\ pc[Owner] \in OwnerPC
  /\ pc[Owner] = "kill" => running = 0 /\ pending = 0
  /\ ~alive => running = 0

Requesting == {c \in Clients : pc[c] \in {"run", "sleep_pop"}}

\* The task of a client inside haplo_pool_run is not stored yet, and is not
\* that of another client.
Requested ==
  \A c \in Requesting :
    /\ task[c] \in Tasks \ submitted
    /\ \A d \in Requesting \ {c} : task[d] # task[c]

\* What the live part of the ring holds is stored, not executed, held by no
\* worker, and in no other live slot.
LiveTasks ==
  \A i \in Live :
    /\ slots[i] \in submitted
    /\ executed[slots[i]] = 0
    /\ \A j \in Live \ {i} : slots[j] # slots[i]
    /\ \A w \in Holding : task[w] # slots[i]

\* A task in the hands of a worker is stored, not executed, and in the hands
\* of no other worker.
HeldTasks ==
  \A w \in Holding :
    /\ task[w] \in submitted
    /\ executed[task[w]] = 0
    /\ \A v \in Holding \ {w} : task[v] # task[w]

\* What a client wants to store is a task.
RequestTyped ==
  \A c \in Clients : pc[c] \in {"run", "sleep_pop"} => task[c] \in Tasks

CountInv == TypeOK /\ RunningCount /\ Shutdown /\ RequestTyped

Items == Requested /\ LiveTasks /\ HeldTasks /\ ExactlyOnce

IInv == CountInv /\ Items

-----------------------------------------------------------------------------
(* Arithmetic of the ring *)

\* The index of haplo_pool_run, (head+pending) % nb_slots, needs one
\* subtraction at most.
LEMMA RingIndex ==
  ASSUME NEW N \in Nat \ {0}, NEW h \in 0 .. N - 1, NEW p \in 0 .. N - 1
  PROVE  (h + p) % N = IF h + p < N THEN h + p ELSE h + p - N
<1>1. CASE h + p < N
  BY <1>1
<1>2. CASE h + p >= N
  <2>1. (h + p) % N = (h + p - N) % N
    OBVIOUS
  <2>2. h + p - N \in 0 .. N - 1
    BY <1>2
  <2> QED
    BY <1>2, <2>1, <2>2
<1> QED
  BY <1>1, <1>2
-----------------------------------------------------------------------------
(* Type correctness, with the exactness of pool->running *)

PC == WorkerPC \cup ClientPC \cup OwnerPC

\* What pthread_cond_signal does to the program counters: the caller goes on,
\* one sleeper at most goes back to the mutex, nobody else moves.
LEMMA SignalMoves ==
  ASSUME pc \in [Threads -> PC],
         NEW self \in Threads, NEW S, S \subseteq Threads,
         NEW asleep \in PC, NEW awake \in PC, NEW next \in PC,
         pc[self] # asleep, Signal(self, S, asleep, awake, next)
  PROVE  /\ pc' \in [Threads -> PC]
         /\ pc'[self] = next
         /\ \A t \in Threads \ {self} :
              \/ pc'[t] = pc[t]
              \/ t \in S /\ pc[t] = asleep /\ pc'[t] = awake
<1>1. CASE At(S, asleep) = {}
  BY <1>1 DEF Signal, Goto
<1>2. CASE At(S, asleep) # {}
  <2>1. PICK t \in At(S, asleep) :
           pc' = [pc EXCEPT ![t] = awake, ![self] = next]
    BY <1>2 DEF Signal
  <2>2. t \in Threads /\ t # self /\ t \in S /\ pc[t] = asleep
    BY <2>1 DEF At
  <2> QED
    BY <2>1, <2>2
<1> QED
  BY <1>1, <1>2

\* In the pool haplo_pool_new returns (lines 126-159) no worker is busy,
\* pool->running is 0 and nobody is closing.
LEMMA CountInit == Init => CountInv
<1> SUFFICES ASSUME Init PROVE CountInv
  OBVIOUS
<1> USE PoolAssumption DEF Init
<1>1. TypeOK
  <2>1. \A w \in Workers : pc[w] = "loop"
    BY DEF Threads
  <2>2. \A c \in Clients : pc[c] = "idle"
    BY DEF Threads
  <2>3. pc \in [Threads -> WorkerPC \cup ClientPC \cup OwnerPC]
    BY DEF WorkerPC, ClientPC
  <2>4. head \in Slots /\ pending \in 0 .. NbSlots
    BY DEF Slots
  <2> QED
    BY <2>1, <2>2, <2>3, <2>4 DEF TypeOK, WorkerPC, ClientPC
<1>2. RunningCount
  <2>1. Busy = {}
    BY DEF Busy, Threads
  <2> QED
    BY <2>1, FS_EmptySet DEF RunningCount
<1>3. Shutdown
  BY DEF Shutdown, Threads
<1>4. RequestTyped
  BY DEF RequestTyped, Threads
<1> QED
  BY <1>1, <1>2, <1>3, <1>4 DEF CountInv

\* A step that keeps the set of busy workers and the counter keeps the count.
LEMMA CountKept ==
  ASSUME RunningCount, Busy' = Busy, running' = running
  PROVE  RunningCount'
BY DEF RunningCount

\* A busy worker is counted.
LEMMA BusyPositive ==
  ASSUME TypeOK, RunningCount, NEW w \in Busy
  PROVE  /\ running >= 1
         /\ Cardinality(Busy \ {w}) = running - 1
         /\ IsFiniteSet(Busy)
<1>1. IsFiniteSet(Busy)
  BY PoolAssumption, FS_Subset DEF Busy
<1>2. /\ Cardinality(Busy \ {w}) = Cardinality(Busy) - 1
      /\ Cardinality(Busy \ {w}) \in Nat
  BY <1>1, FS_RemoveElement, FS_CardinalityType
<1> QED
  BY <1>1, <1>2 DEF TypeOK, RunningCount

\* Every step of a worker, a client or the owner keeps the types, the counter
\* pool->running equal to the number of busy workers, and the shutdown of
\* haplo_pool_free (lines 214-250) behind the last task: one step per action.
LEMMA CountNext == CountInv /\ [Next]_vars => CountInv'
<1> SUFFICES ASSUME CountInv, [Next]_vars PROVE CountInv'
  OBVIOUS
<1> USE PoolAssumption
<1> USE DEF CountInv, Threads, poolVars, history
<1>1. ASSUME NEW w \in Workers, Loop(w) PROVE CountInv'
  <2>1. TypeOK'
    BY <1>1 DEF Loop, Goto, TypeOK, WorkerPC, ClientPC, OwnerPC
  <2>2. Busy' = Busy
    BY <1>1 DEF Loop, Goto, TypeOK, Busy
  <2>3. Shutdown'
    BY <1>1 DEF Loop, Goto, TypeOK, Shutdown, OwnerPC, ClientPC, WorkerPC
  <2>9. RequestTyped'
    BY <1>1 DEF Loop, Goto, TypeOK, RequestTyped, WorkerPC
  <2> QED
    BY <1>1, <2>1, <2>2, <2>3, CountKept, <2>9 DEF Loop, Goto
<1>2. ASSUME NEW w \in Workers, TakeSleep(w) PROVE CountInv'
  <2>1. TypeOK'
    BY <1>2 DEF TakeSleep, Goto, TypeOK, WorkerPC, ClientPC, OwnerPC
  <2>2. Busy' = Busy
    BY <1>2 DEF TakeSleep, Goto, TypeOK, Busy
  <2>3. Shutdown'
    BY <1>2 DEF TakeSleep, Goto, TypeOK, Shutdown, OwnerPC, ClientPC, WorkerPC
  <2>9. RequestTyped'
    BY <1>2 DEF TakeSleep, Goto, TypeOK, RequestTyped, WorkerPC
  <2> QED
    BY <1>2, <2>1, <2>2, <2>3, CountKept, <2>9 DEF TakeSleep, Goto
<1>3. ASSUME NEW w \in Workers, TakeDie(w) PROVE CountInv'
  <2>1. TypeOK'
    BY <1>3 DEF TakeDie, Goto, TypeOK, WorkerPC, ClientPC, OwnerPC
  <2>2. Busy' = Busy
    BY <1>3 DEF TakeDie, Goto, TypeOK, Busy
  <2>3. Shutdown'
    BY <1>3 DEF TakeDie, Goto, TypeOK, Shutdown, OwnerPC, ClientPC, WorkerPC
  <2>9. RequestTyped'
    BY <1>3 DEF TakeDie, Goto, TypeOK, RequestTyped, WorkerPC
  <2> QED
    BY <1>3, <2>1, <2>2, <2>3, CountKept, <2>9 DEF TakeDie, Goto
<1>4. ASSUME NEW w \in Workers, Take(w) PROVE CountInv'
  <2>1. TypeOK'
    BY <1>4 DEF Take, Goto, NextHead, TypeOK, Slots, WorkerPC
  <2>2. Busy' = Busy \cup {w} /\ w \notin Busy
    BY <1>4 DEF Take, Goto, TypeOK, Busy
  <2>3. RunningCount'
    <3>1. IsFiniteSet(Busy)
      BY FS_Subset DEF Busy
    <3>2. Cardinality(Busy \cup {w}) = Cardinality(Busy) + 1
      BY <2>2, <3>1, FS_AddElement
    <3> QED
      BY <1>4, <2>2, <3>2 DEF Take, RunningCount
  <2>4. Shutdown'
    BY <1>4 DEF Take, Goto, TypeOK, Shutdown, WorkerPC, OwnerPC, ClientPC
  <2>9. RequestTyped'
    BY <1>4 DEF Take, Goto, TypeOK, RequestTyped, WorkerPC
  <2> QED
    BY <2>1, <2>3, <2>4, <2>9
<1>5. ASSUME NEW w \in Workers, SignalPop(w) PROVE CountInv'
  <2>0. /\ pc' \in [Threads -> PC]
        /\ pc'[w] = "work"
        /\ \A t \in Threads \ {w} :
             \/ pc'[t] = pc[t]
             \/ t \in Clients /\ pc[t] = "sleep_pop" /\ pc'[t] = "run"
    <3>1. pc \in [Threads -> PC]
      BY DEF TypeOK, PC
    <3>2. Signal(w, Clients, "sleep_pop", "run", "work")
      BY <1>5 DEF SignalPop
    <3>4. w \in Threads /\ Clients \subseteq Threads /\ pc[w] # "sleep_pop"
      BY <1>5 DEF SignalPop
    <3>3. "sleep_pop" \in PC /\ "run" \in PC /\ "work" \in PC
      BY DEF PC, WorkerPC, ClientPC, OwnerPC
    <3> QED
      BY <3>1, <3>2, <3>3, <3>4, SignalMoves
  <2>1. TypeOK'
    BY <1>5, <2>0 DEF SignalPop, TypeOK, PC, WorkerPC, ClientPC, OwnerPC
  <2>2. Busy' = Busy
    BY <1>5, <2>0 DEF SignalPop, TypeOK, Busy
  <2>3. Shutdown'
    BY <1>5, <2>0 DEF SignalPop, TypeOK, Shutdown, OwnerPC, ClientPC, WorkerPC
  <2>9. RequestTyped'
    BY <1>5, <2>0 DEF SignalPop, TypeOK, RequestTyped, WorkerPC
  <2> QED
    BY <1>5, <2>1, <2>2, <2>3, CountKept, <2>9 DEF SignalPop
<1>6. ASSUME NEW w \in Workers, Work(w) PROVE CountInv'
  <2>1. TypeOK'
    <3>1. executed' \in [Tasks -> Nat]
      <4>1. CASE task[w] \in Tasks
        BY <1>6, <4>1 DEF Work, TypeOK
      <4>2. CASE task[w] \notin Tasks
        BY <1>6, <4>2 DEF Work, TypeOK
      <4> QED
        BY <4>1, <4>2
    <3>2. /\ pc' \in [Threads -> WorkerPC \cup ClientPC \cup OwnerPC]
          /\ pc'[w] = "end"
          /\ \A t \in Threads \ {w} : pc'[t] = pc[t]
      BY <1>6 DEF Work, Goto, TypeOK, WorkerPC
    <3> QED
      BY <1>6, <3>1, <3>2 DEF Work, TypeOK, WorkerPC
  <2>2. Busy' = Busy
    BY <1>6 DEF Work, Goto, TypeOK, Busy
  <2>3. Shutdown'
    BY <1>6 DEF Work, Goto, TypeOK, Shutdown, OwnerPC, ClientPC, WorkerPC
  <2>9. RequestTyped'
    BY <1>6 DEF Work, Goto, TypeOK, RequestTyped, WorkerPC
  <2> QED
    BY <1>6, <2>1, <2>2, <2>3, CountKept, <2>9 DEF Work, Goto
<1>7. ASSUME NEW w \in Workers, End(w) PROVE CountInv'
  <2>1. w \in Busy
    BY <1>7 DEF End, Busy
  <2>2. running >= 1 /\ Cardinality(Busy \ {w}) = running - 1
    BY <2>1, BusyPositive
  <2>3. TypeOK'
    BY <1>7, <2>2 DEF End, Goto, TypeOK, WorkerPC
  <2>4. Busy' = Busy \ {w}
    BY <1>7 DEF End, Goto, TypeOK, Busy
  <2>5. RunningCount'
    BY <1>7, <2>2, <2>4 DEF End, RunningCount
  <2>6. Shutdown'
    BY <1>7, <2>2 DEF End, Goto, TypeOK, Shutdown, WorkerPC, OwnerPC, ClientPC
  <2>9. RequestTyped'
    BY <1>7 DEF End, Goto, TypeOK, RequestTyped, WorkerPC
  <2> QED
    BY <2>3, <2>5, <2>6, <2>9
<1>8. ASSUME NEW w \in Workers, SignalFinish(w) PROVE CountInv'
  <2>0. /\ pc' \in [Threads -> PC]
        /\ pc'[w] = "loop"
        /\ \A t \in Threads \ {w} :
             \/ pc'[t] = pc[t]
             \/ t \in Clients /\ pc[t] = "sleep_finish" /\ pc'[t] = "wait"
    <3>1. pc \in [Threads -> PC]
      BY DEF TypeOK, PC
    <3>2. Signal(w, Clients, "sleep_finish", "wait", "loop")
      BY <1>8 DEF SignalFinish
    <3>4. w \in Threads /\ Clients \subseteq Threads /\ pc[w] # "sleep_finish"
      BY <1>8 DEF SignalFinish
    <3>3. "sleep_finish" \in PC /\ "wait" \in PC /\ "loop" \in PC
      BY DEF PC, WorkerPC, ClientPC, OwnerPC
    <3> QED
      BY <3>1, <3>2, <3>3, <3>4, SignalMoves
  <2>1. TypeOK'
    BY <1>8, <2>0 DEF SignalFinish, TypeOK, PC, WorkerPC, ClientPC, OwnerPC
  <2>2. Busy' = Busy
    BY <1>8, <2>0 DEF SignalFinish, TypeOK, Busy
  <2>3. Shutdown'
    BY <1>8, <2>0 DEF SignalFinish, TypeOK, Shutdown, OwnerPC, ClientPC, WorkerPC
  <2>9. RequestTyped'
    BY <1>8, <2>0 DEF SignalFinish, TypeOK, RequestTyped, WorkerPC
  <2> QED
    BY <1>8, <2>1, <2>2, <2>3, CountKept, <2>9 DEF SignalFinish
<1>9. ASSUME NEW c \in Clients, RunSleep(c) PROVE CountInv'
  <2>1. TypeOK'
    BY <1>9 DEF RunSleep, Goto, TypeOK, WorkerPC, ClientPC, OwnerPC
  <2>2. Busy' = Busy
    BY <1>9 DEF RunSleep, Goto, TypeOK, Busy
  <2>3. Shutdown'
    BY <1>9 DEF RunSleep, Goto, TypeOK, Shutdown, OwnerPC, ClientPC, WorkerPC
  <2>9. RequestTyped'
    BY <1>9 DEF RunSleep, Goto, TypeOK, RequestTyped, WorkerPC
  <2> QED
    BY <1>9, <2>1, <2>2, <2>3, CountKept, <2>9 DEF RunSleep, Goto
<1>10. ASSUME NEW c \in Clients, RunPush(c) PROVE CountInv'
  <2>1. TypeOK'
    <3>1. pending' \in 0 .. NbSlots
      BY <1>10 DEF RunPush, TypeOK
    <3>2. task[c] \in Tasks
      BY <1>10 DEF RunPush, RequestTyped
    <3>3. /\ pc' \in [Threads -> WorkerPC \cup ClientPC \cup OwnerPC]
          /\ pc'[c] = "pushed"
          /\ \A t \in Threads \ {c} : pc'[t] = pc[t]
      BY <1>10 DEF RunPush, Goto, TypeOK, ClientPC
    <3>4. slots' \in [Slots -> Tasks \cup {NoTask}]
      BY <1>10 DEF RunPush, TypeOK
    <3> QED
      BY <1>10, <3>1, <3>2, <3>3, <3>4 DEF RunPush, TypeOK, ClientPC
  <2>2. Busy' = Busy
    BY <1>10 DEF RunPush, Goto, TypeOK, Busy
  <2>3. Shutdown'
    BY <1>10 DEF RunPush, Goto, TypeOK, Shutdown, OwnerPC, ClientPC, WorkerPC
  <2>9. RequestTyped'
    BY <1>10 DEF RunPush, Goto, TypeOK, RequestTyped, WorkerPC
  <2> QED
    BY <1>10, <2>1, <2>2, <2>3, CountKept, <2>9 DEF RunPush
<1>11. ASSUME NEW c \in Clients, SignalPush(c) PROVE CountInv'
  <2>0. /\ pc' \in [Threads -> PC]
        /\ pc'[c] = "idle"
        /\ \A t \in Threads \ {c} :
             \/ pc'[t] = pc[t]
             \/ t \in Workers /\ pc[t] = "sleep_push" /\ pc'[t] = "take"
    <3>1. pc \in [Threads -> PC]
      BY DEF TypeOK, PC
    <3>2. Signal(c, Workers, "sleep_push", "take", "idle")
      BY <1>11 DEF SignalPush
    <3>4. c \in Threads /\ Workers \subseteq Threads /\ pc[c] # "sleep_push"
      BY <1>11 DEF SignalPush
    <3>3. "sleep_push" \in PC /\ "take" \in PC /\ "idle" \in PC
      BY DEF PC, WorkerPC, ClientPC, OwnerPC
    <3> QED
      BY <3>1, <3>2, <3>3, <3>4, SignalMoves
  <2>1. TypeOK'
    BY <1>11, <2>0 DEF SignalPush, TypeOK, PC, WorkerPC, ClientPC, OwnerPC
  <2>2. Busy' = Busy
    BY <1>11, <2>0 DEF SignalPush, TypeOK, Busy
  <2>3. Shutdown'
    BY <1>11, <2>0 DEF SignalPush, TypeOK, Shutdown, OwnerPC, ClientPC, WorkerPC
  <2>9. RequestTyped'
    BY <1>11, <2>0 DEF SignalPush, TypeOK, RequestTyped, WorkerPC
  <2> QED
    BY <1>11, <2>1, <2>2, <2>3, CountKept, <2>9 DEF SignalPush
<1>12. ASSUME CallWait PROVE CountInv'
  <2>1. TypeOK'
    BY <1>12 DEF CallWait, Goto, TypeOK, WorkerPC, ClientPC, OwnerPC
  <2>2. Busy' = Busy
    BY <1>12 DEF CallWait, Goto, TypeOK, Busy
  <2>3. Shutdown'
    BY <1>12 DEF CallWait, Goto, TypeOK, Shutdown, OwnerPC, ClientPC, WorkerPC
  <2>9. RequestTyped'
    BY <1>12 DEF CallWait, Goto, TypeOK, RequestTyped, WorkerPC
  <2> QED
    BY <1>12, <2>1, <2>2, <2>3, CountKept, <2>9 DEF CallWait, Goto
<1>13. ASSUME WaitSleep PROVE CountInv'
  <2>1. TypeOK'
    BY <1>13 DEF WaitSleep, Goto, TypeOK, WorkerPC, ClientPC, OwnerPC
  <2>2. Busy' = Busy
    BY <1>13 DEF WaitSleep, Goto, TypeOK, Busy
  <2>3. Shutdown'
    BY <1>13 DEF WaitSleep, Goto, TypeOK, Shutdown, OwnerPC, ClientPC, WorkerPC
  <2>9. RequestTyped'
    BY <1>13 DEF WaitSleep, Goto, TypeOK, RequestTyped, WorkerPC
  <2> QED
    BY <1>13, <2>1, <2>2, <2>3, CountKept, <2>9 DEF WaitSleep, Goto
<1>14. ASSUME WaitReturn PROVE CountInv'
  <2>1. TypeOK'
    BY <1>14 DEF WaitReturn, Goto, TypeOK, WorkerPC, ClientPC, OwnerPC
  <2>2. Busy' = Busy
    BY <1>14 DEF WaitReturn, Goto, TypeOK, Busy
  <2>3. Shutdown'
    BY <1>14 DEF WaitReturn, Goto, TypeOK, Shutdown, OwnerPC, ClientPC, WorkerPC
  <2>9. RequestTyped'
    BY <1>14 DEF WaitReturn, Goto, TypeOK, RequestTyped, WorkerPC
  <2> QED
    BY <1>14, <2>1, <2>2, <2>3, CountKept, <2>9 DEF WaitReturn, Goto
<1>15. ASSUME CallFree PROVE CountInv'
  <2>1. TypeOK'
    BY <1>15 DEF CallFree, Goto, TypeOK, WorkerPC, ClientPC, OwnerPC
  <2>2. Busy' = Busy
    BY <1>15 DEF CallFree, Goto, TypeOK, Busy
  <2>3. Shutdown'
    BY <1>15 DEF CallFree, Goto, TypeOK, Shutdown, OwnerPC, ClientPC, WorkerPC
  <2>9. RequestTyped'
    BY <1>15 DEF CallFree, Goto, TypeOK, RequestTyped, WorkerPC
  <2> QED
    BY <1>15, <2>1, <2>2, <2>3, CountKept, <2>9 DEF CallFree, Goto
<1>16. ASSUME Kill PROVE CountInv'
  <2>1. TypeOK'
    <3>1. /\ pc' \in [Threads -> WorkerPC \cup ClientPC \cup OwnerPC]
          /\ pc'[Owner] = "broadcast"
          /\ \A t \in Threads \ {Owner} : pc'[t] = pc[t]
      BY <1>16 DEF Kill, Goto, TypeOK, OwnerPC
    <3>2. pending' \in 0 .. NbSlots
      BY <1>16 DEF Kill
    <3>3. alive' \in BOOLEAN
      BY <1>16, Zenon DEF Kill
    <3> QED
      BY <1>16, <3>1, <3>2, <3>3 DEF Kill, TypeOK, OwnerPC
  <2>2. Busy' = Busy
    BY <1>16 DEF Kill, Goto, TypeOK, Busy
  <2>3. Shutdown'
    BY <1>16 DEF Kill, Goto, TypeOK, Shutdown, OwnerPC, ClientPC, WorkerPC
  <2>9. RequestTyped'
    BY <1>16 DEF Kill, Goto, TypeOK, RequestTyped, WorkerPC
  <2> QED
    BY <1>16, <2>1, <2>2, <2>3, CountKept, <2>9 DEF Kill, Goto
<1>17. ASSUME BroadcastPush PROVE CountInv'
  <2>1. TypeOK'
    BY <1>17 DEF BroadcastPush, At, TypeOK, WorkerPC, ClientPC, OwnerPC
  <2>2. Busy' = Busy
    BY <1>17 DEF BroadcastPush, At, TypeOK, Busy
  <2>3. Shutdown'
    BY <1>17 DEF BroadcastPush, At, TypeOK, Shutdown, OwnerPC, ClientPC, WorkerPC
  <2>9. RequestTyped'
    BY <1>17 DEF BroadcastPush, At, TypeOK, RequestTyped, WorkerPC
  <2> QED
    BY <1>17, <2>1, <2>2, <2>3, CountKept, <2>9 DEF BroadcastPush, At
<1>18. ASSUME Join PROVE CountInv'
  <2>1. TypeOK'
    BY <1>18 DEF Join, Goto, TypeOK, WorkerPC, ClientPC, OwnerPC
  <2>2. Busy' = Busy
    BY <1>18 DEF Join, Goto, TypeOK, Busy
  <2>3. Shutdown'
    BY <1>18 DEF Join, Goto, TypeOK, Shutdown, OwnerPC, ClientPC, WorkerPC
  <2>9. RequestTyped'
    BY <1>18 DEF Join, Goto, TypeOK, RequestTyped, WorkerPC
  <2> QED
    BY <1>18, <2>1, <2>2, <2>3, CountKept, <2>9 DEF Join, Goto
<1>19. ASSUME NEW c \in Clients, NEW t \in Tasks, CallRun(c, t) PROVE CountInv'
  <2>1. TypeOK'
    BY <1>19 DEF CallRun, Goto, TypeOK, WorkerPC, ClientPC, OwnerPC
  <2>2. Busy' = Busy
    BY <1>19 DEF CallRun, Goto, TypeOK, Busy
  <2>3. Shutdown'
    BY <1>19 DEF CallRun, Goto, TypeOK, Shutdown, OwnerPC, ClientPC, WorkerPC
  <2>9. RequestTyped'
    BY <1>19 DEF CallRun, Goto, TypeOK, RequestTyped, WorkerPC
  <2> QED
    BY <1>19, <2>1, <2>2, <2>3, CountKept, <2>9 DEF CallRun, Goto
<1>20. ASSUME NEW t \in Threads, SpuriousWakeup(t) PROVE CountInv'
  <2>1. TypeOK'
    BY <1>20 DEF SpuriousWakeup, Goto, TypeOK, WorkerPC, ClientPC, OwnerPC
  <2>2. Busy' = Busy
    BY <1>20 DEF SpuriousWakeup, Goto, TypeOK, Busy
  <2>3. Shutdown'
    BY <1>20 DEF SpuriousWakeup, Goto, TypeOK, Shutdown, OwnerPC, ClientPC, WorkerPC
  <2>9. RequestTyped'
    BY <1>20 DEF SpuriousWakeup, Goto, TypeOK, RequestTyped, WorkerPC
  <2> QED
    BY <1>20, <2>1, <2>2, <2>3, CountKept, <2>9 DEF SpuriousWakeup, Goto
<1>21. CASE UNCHANGED vars
  BY <1>21 DEF vars, TypeOK, RunningCount, Busy, Shutdown, RequestTyped
<1> QED
  BY <1>1, <1>2, <1>3, <1>4, <1>5, <1>6, <1>7, <1>8, <1>9, <1>10, <1>11, <1>12, <1>13, <1>14, <1>15, <1>16, <1>17, <1>18, <1>19, <1>20, <1>21
  DEF Next, WorkerStep, RunStep, OwnerStep, Calls, Freed

\* The type invariant, and the bounds of the ring that it states (lines
\* 126-189), hold for pools of every size.
THEOREM TypeCorrect == Spec => []TypeOK
<1>1. CountInv => TypeOK
  BY DEF CountInv
<1> QED
  BY CountInit, CountNext, <1>1, PTL DEF Spec

-----------------------------------------------------------------------------
(* Each task is in one place *)

\* The ring of a new pool (lines 126-159) is empty and nobody holds a task.
LEMMA ItemsInit == Init => Items
<1> SUFFICES ASSUME Init PROVE Items
  OBVIOUS
<1> USE PoolAssumption DEF Init
<1>1. Live = {}
  BY DEF Live, Slots
<1>2. Holding = {} /\ Requesting = {}
  BY DEF Holding, Requesting, Threads
<1> QED
  BY <1>1, <1>2 DEF Items, Requested, LiveTasks, HeldTasks, ExactlyOnce

\* A step that leaves the ring, the tasks and their holders alone.
LEMMA ItemsKept ==
  ASSUME Items,
         UNCHANGED <<head, pending, alive, slots, task, submitted, executed>>,
         Holding' = Holding, Requesting' = Requesting
  PROVE  Items'
<1>1. Live' = Live
  BY DEF Live
<1> QED
  BY <1>1 DEF Items, Requested, LiveTasks, HeldTasks, ExactlyOnce

\* The ring without its head.
LEMMA LiveAfterTake ==
  ASSUME TypeOK, NEW w \in Workers, Take(w)
  PROVE  head \in Live /\ Live' = Live \ {head}
<1> USE PoolAssumption
<1>1. head \in 0 .. NbSlots - 1 /\ pending \in 1 .. NbSlots
  BY DEF TypeOK, Slots, Take
<1>2. head \in Live
  BY <1>1 DEF Live, Slots, Take
<1>3. Live' = {i \in Slots : \/ head' <= i /\ i < head' + pending'
                             \/ i + NbSlots < head' + pending'}
  BY DEF Live, Take
<1>4. CASE head + 1 = NbSlots
  BY <1>1, <1>2, <1>3, <1>4 DEF Live, Slots, Take, NextHead
<1>5. CASE head + 1 # NbSlots
  BY <1>1, <1>2, <1>3, <1>5 DEF Live, Slots, Take, NextHead
<1> QED
  BY <1>2, <1>4, <1>5

\* The ring with one more slot, which was not part of it.
LEMMA LiveAfterPush ==
  ASSUME TypeOK, alive, NEW c \in Clients, RunPush(c)
  PROVE  LET i == (head + pending) % NbSlots
         IN  i \in Slots /\ i \notin Live /\ Live' = Live \cup {i}
<1> USE PoolAssumption
<1> DEFINE i == (head + pending) % NbSlots
<1>1. head \in 0 .. NbSlots - 1 /\ pending \in 0 .. NbSlots - 1
  BY DEF TypeOK, Slots, RunPush
<1>2. i = IF head + pending < NbSlots THEN head + pending
                                      ELSE head + pending - NbSlots
  BY <1>1, RingIndex
<1>3. /\ Live' \subseteq Slots
      /\ \A k \in Slots :
           k \in Live' <=> \/ head <= k /\ k < head + pending + 1
                          \/ k + NbSlots < head + pending + 1
  <2>1. head' = head /\ pending' = pending + 1
    BY DEF RunPush
  <2>2. alive'
    BY Zenon DEF RunPush
  <2>3. Live' = {k \in Slots : \/ head' <= k /\ k < head' + pending'
                               \/ k + NbSlots < head' + pending'}
    BY <2>2, Zenon DEF Live
  <2> QED
    BY <1>1, <2>1, <2>3
<1>4. /\ Live \subseteq Slots
      /\ \A k \in Slots :
           k \in Live <=> \/ head <= k /\ k < head + pending
                         \/ k + NbSlots < head + pending
  BY DEF Live
<1> HIDE DEF i
<1>5. i \in Slots
  BY <1>1, <1>2 DEF Slots
<1>6. i \notin Live
  BY <1>1, <1>2 DEF Live, Slots
<1>7. ASSUME NEW k \in Slots PROVE k \in Live' <=> k \in Live \/ k = i
  <2>0. k \in 0 .. NbSlots - 1
    BY DEF Slots
  <2>1. CASE head + pending < NbSlots
    BY <1>1, <1>2, <1>3, <1>4, <2>0, <2>1
  <2>2. CASE head + pending >= NbSlots
    <3>1. i = head + pending - NbSlots
      BY <1>1, <1>2, <2>2
    <3>2. k + NbSlots < head + pending + 1
            <=> k + NbSlots < head + pending \/ k = i
      BY <1>1, <2>0, <3>1
    <3>3. k < head + pending
      BY <1>1, <2>0, <2>2
    <3> QED
      BY <1>1, <1>3, <1>4, <2>0, <2>2, <3>2, <3>3
  <2> QED
    BY <1>1, <2>1, <2>2
<1>8. Live' = Live \cup {i}
  BY <1>3, <1>5, <1>7, <1>4
<1> QED
  BY <1>5, <1>6, <1>8 DEF i

\* A worker takes the head of the ring: the task goes from the ring to it.
LEMMA ItemsTake ==
  ASSUME CountInv, Items, NEW w \in Workers, Take(w)
  PROVE  Items'
<1>1. TypeOK
  BY DEF CountInv
<1>2. head \in Live /\ Live' = Live \ {head}
  BY <1>1, LiveAfterTake
<1>3. Holding' = Holding \cup {w} /\ w \notin Holding
  BY <1>1 DEF Take, Goto, TypeOK, Holding, Threads
<1>4. Requesting' = Requesting
  BY <1>1, PoolAssumption DEF Take, Goto, TypeOK, Requesting, Threads, WorkerPC
<1>5. /\ task'[w] = slots[head]
      /\ \A t \in Threads \ {w} : task'[t] = task[t]
      /\ UNCHANGED <<slots, submitted, executed>>
  BY <1>1 DEF Take, TypeOK, history, Threads
<1>6. Holding \subseteq Threads \ {w} /\ Requesting \subseteq Threads \ {w}
  BY <1>3, PoolAssumption DEF Holding, Requesting, Threads
<1>7. Requested'
  BY <1>4, <1>5, <1>6 DEF Items, Requested
<1>8. LiveTasks'
  BY <1>2, <1>3, <1>5, <1>6 DEF Items, LiveTasks
<1>9. HeldTasks'
  BY <1>2, <1>3, <1>5, <1>6 DEF Items, HeldTasks, LiveTasks
<1>10. ExactlyOnce'
  BY <1>2, <1>3, <1>5, <1>6 DEF Items, ExactlyOnce
<1> QED
  BY <1>7, <1>8, <1>9, <1>10 DEF Items

\* A worker executes its task.
LEMMA ItemsWork ==
  ASSUME CountInv, Items, NEW w \in Workers, Work(w)
  PROVE  Items'
<1>1. TypeOK
  BY DEF CountInv
<1>2. Live' = Live
  BY DEF Work, Live, poolVars
<1>3. Holding' = Holding \ {w} /\ w \in Holding
  BY <1>1 DEF Work, Goto, TypeOK, Holding, Threads
<1>4. Requesting' = Requesting
  BY <1>1, PoolAssumption DEF Work, Goto, TypeOK, Requesting, Threads
<1>5. UNCHANGED <<slots, task, submitted>>
  BY DEF Work, poolVars
<1>6. task[w] \in submitted /\ task[w] \in Tasks /\ executed[task[w]] = 0
  BY <1>1, <1>3 DEF Items, HeldTasks, TypeOK
<1>7. executed' = [executed EXCEPT ![task[w]] = 1]
  BY <1>6 DEF Work
<1>8. /\ executed'[task[w]] = 1
      /\ \A t \in Tasks \ {task[w]} : executed'[t] = executed[t]
  BY <1>1, <1>6, <1>7 DEF TypeOK
<1>9. Requested'
  BY <1>4, <1>5 DEF Items, Requested
<1>10. LiveTasks'
  BY <1>1, <1>2, <1>3, <1>5, <1>8 DEF Items, LiveTasks, TypeOK
<1>11. HeldTasks'
  BY <1>1, <1>3, <1>5, <1>8 DEF Items, HeldTasks, TypeOK
<1>12. ExactlyOnce'
  BY <1>1, <1>2, <1>3, <1>5, <1>6, <1>8 DEF Items, ExactlyOnce, TypeOK
<1> QED
  BY <1>9, <1>10, <1>11, <1>12 DEF Items

\* A client stores its task in the first free slot of the ring.
LEMMA ItemsPush ==
  ASSUME CountInv, Items, NEW c \in Clients, RunPush(c)
  PROVE  Items'
<1> DEFINE i == (head + pending) % NbSlots
           t == task[c]
<1>1. TypeOK
  BY DEF CountInv
<1>2. alive
  BY DEF CountInv, TypeOK, Shutdown, RunPush, OwnerPC
<1>3. i \in Slots /\ i \notin Live /\ Live' = Live \cup {i} /\ Live \subseteq Slots
  BY <1>1, <1>2, LiveAfterPush DEF Live
<1>4. Holding' = Holding
  BY <1>1, PoolAssumption DEF RunPush, Goto, TypeOK, Holding, Threads
<1>5. Requesting' = Requesting \ {c} /\ c \in Requesting
  BY <1>1 DEF RunPush, Goto, TypeOK, Requesting, Threads
<1>6. UNCHANGED <<task, executed>> /\ submitted' = submitted \cup {t}
  BY DEF RunPush
<1>7. slots' = [slots EXCEPT ![i] = t]
  BY DEF RunPush
<1> HIDE DEF i
<1>8. slots'[i] = t /\ \A k \in Live : slots'[k] = slots[k]
  BY <1>1, <1>3, <1>7 DEF TypeOK
<1>9. t \in Tasks /\ t \notin submitted
  BY <1>5 DEF Items, Requested
<1>10. executed[t] = 0
  BY <1>1, <1>9 DEF Items, ExactlyOnce, TypeOK
<1> HIDE DEF t
<1>11. Requested'
  BY <1>5, <1>6 DEF Items, Requested, t
<1>12. LiveTasks'
  BY <1>3, <1>4, <1>6, <1>8, <1>9, <1>10 DEF Items, LiveTasks, HeldTasks
<1>13. HeldTasks'
  BY <1>4, <1>6 DEF Items, HeldTasks
<1>14. ExactlyOnce'
  BY <1>1, <1>3, <1>4, <1>6, <1>8, <1>10 DEF Items, ExactlyOnce, TypeOK
<1> QED
  BY <1>11, <1>12, <1>13, <1>14 DEF Items

\* Every step keeps each task in one place: with the client that has not yet
\* stored it, in one live slot of the ring, with the worker that popped it, or
\* executed (lines 80-91 and 176-189).
LEMMA ItemsNext == CountInv /\ Items /\ [Next]_vars => Items'
<1> SUFFICES ASSUME CountInv, Items, [Next]_vars PROVE Items'
  OBVIOUS
<1> USE PoolAssumption
<1> USE DEF Threads, poolVars, history
<1> DEFINE Kept == UNCHANGED <<head, pending, alive, slots, task, submitted,
                               executed>>
<1>0. TypeOK
  BY DEF CountInv
<1>1. ASSUME NEW w \in Workers, Loop(w) PROVE Items'
  <2>1. Kept
    BY <1>1 DEF Loop
  <2>2. Holding' = Holding
    BY <1>0, <1>1 DEF Loop, Goto, TypeOK, Holding
  <2>3. Requesting' = Requesting
    BY <1>0, <1>1 DEF Loop, Goto, TypeOK, Requesting
  <2> QED
    BY <2>1, <2>2, <2>3, ItemsKept
<1>2. ASSUME NEW w \in Workers, TakeSleep(w) PROVE Items'
  <2>1. Kept
    BY <1>2 DEF TakeSleep
  <2>2. Holding' = Holding
    BY <1>0, <1>2 DEF TakeSleep, Goto, TypeOK, Holding
  <2>3. Requesting' = Requesting
    BY <1>0, <1>2 DEF TakeSleep, Goto, TypeOK, Requesting
  <2> QED
    BY <2>1, <2>2, <2>3, ItemsKept
<1>3. ASSUME NEW w \in Workers, TakeDie(w) PROVE Items'
  <2>1. Kept
    BY <1>3 DEF TakeDie
  <2>2. Holding' = Holding
    BY <1>0, <1>3 DEF TakeDie, Goto, TypeOK, Holding
  <2>3. Requesting' = Requesting
    BY <1>0, <1>3 DEF TakeDie, Goto, TypeOK, Requesting
  <2> QED
    BY <2>1, <2>2, <2>3, ItemsKept
<1>4. ASSUME NEW w \in Workers, Take(w) PROVE Items'
  BY <1>4, ItemsTake
<1>5. ASSUME NEW w \in Workers, SignalPop(w) PROVE Items'
  <2>0. /\ pc'[w] = "work"
        /\ \A t \in Threads \ {w} :
             \/ pc'[t] = pc[t]
             \/ t \in Clients /\ pc[t] = "sleep_pop" /\ pc'[t] = "run"
    <3>1. pc \in [Threads -> PC]
      BY <1>0 DEF TypeOK, PC
    <3>2. Signal(w, Clients, "sleep_pop", "run", "work")
      BY <1>5 DEF SignalPop
    <3>3. "sleep_pop" \in PC /\ "run" \in PC /\ "work" \in PC
      BY DEF PC, WorkerPC, ClientPC, OwnerPC
    <3>4. w \in Threads /\ Clients \subseteq Threads /\ pc[w] # "sleep_pop"
      BY <1>5 DEF SignalPop
    <3> QED
      BY <3>1, <3>2, <3>3, <3>4, SignalMoves
  <2>1. Kept
    BY <1>5 DEF SignalPop
  <2>2. Holding' = Holding
    BY <1>5, <2>0 DEF SignalPop, Holding
  <2>3. Requesting' = Requesting
    BY <1>5, <2>0 DEF SignalPop, Requesting
  <2> QED
    BY <2>1, <2>2, <2>3, ItemsKept
<1>6. ASSUME NEW w \in Workers, Work(w) PROVE Items'
  BY <1>6, ItemsWork
<1>7. ASSUME NEW w \in Workers, End(w) PROVE Items'
  <2>1. Kept
    BY <1>7 DEF End
  <2>2. Holding' = Holding
    BY <1>0, <1>7 DEF End, Goto, TypeOK, Holding
  <2>3. Requesting' = Requesting
    BY <1>0, <1>7 DEF End, Goto, TypeOK, Requesting
  <2> QED
    BY <2>1, <2>2, <2>3, ItemsKept
<1>8. ASSUME NEW w \in Workers, SignalFinish(w) PROVE Items'
  <2>0. /\ pc'[w] = "loop"
        /\ \A t \in Threads \ {w} :
             \/ pc'[t] = pc[t]
             \/ t \in Clients /\ pc[t] = "sleep_finish" /\ pc'[t] = "wait"
    <3>1. pc \in [Threads -> PC]
      BY <1>0 DEF TypeOK, PC
    <3>2. Signal(w, Clients, "sleep_finish", "wait", "loop")
      BY <1>8 DEF SignalFinish
    <3>3. "sleep_finish" \in PC /\ "wait" \in PC /\ "loop" \in PC
      BY DEF PC, WorkerPC, ClientPC, OwnerPC
    <3>4. w \in Threads /\ Clients \subseteq Threads /\ pc[w] # "sleep_finish"
      BY <1>8 DEF SignalFinish
    <3> QED
      BY <3>1, <3>2, <3>3, <3>4, SignalMoves
  <2>1. Kept
    BY <1>8 DEF SignalFinish
  <2>2. Holding' = Holding
    BY <1>8, <2>0 DEF SignalFinish, Holding
  <2>3. Requesting' = Requesting
    BY <1>8, <2>0 DEF SignalFinish, Requesting
  <2> QED
    BY <2>1, <2>2, <2>3, ItemsKept
<1>9. ASSUME NEW c \in Clients, RunSleep(c) PROVE Items'
  <2>1. Kept
    BY <1>9 DEF RunSleep
  <2>2. Holding' = Holding
    BY <1>0, <1>9 DEF RunSleep, Goto, TypeOK, Holding
  <2>3. Requesting' = Requesting
    BY <1>0, <1>9 DEF RunSleep, Goto, TypeOK, Requesting
  <2> QED
    BY <2>1, <2>2, <2>3, ItemsKept
<1>10. ASSUME NEW c \in Clients, RunPush(c) PROVE Items'
  BY <1>10, ItemsPush
<1>11. ASSUME NEW c \in Clients, SignalPush(c) PROVE Items'
  <2>0. /\ pc'[c] = "idle"
        /\ \A t \in Threads \ {c} :
             \/ pc'[t] = pc[t]
             \/ t \in Workers /\ pc[t] = "sleep_push" /\ pc'[t] = "take"
    <3>1. pc \in [Threads -> PC]
      BY <1>0 DEF TypeOK, PC
    <3>2. Signal(c, Workers, "sleep_push", "take", "idle")
      BY <1>11 DEF SignalPush
    <3>3. "sleep_push" \in PC /\ "take" \in PC /\ "idle" \in PC
      BY DEF PC, WorkerPC, ClientPC, OwnerPC
    <3>4. c \in Threads /\ Workers \subseteq Threads /\ pc[c] # "sleep_push"
      BY <1>11 DEF SignalPush
    <3> QED
      BY <3>1, <3>2, <3>3, <3>4, SignalMoves
  <2>1. Kept
    BY <1>11 DEF SignalPush
  <2>2. Holding' = Holding
    BY <1>11, <2>0 DEF SignalPush, Holding
  <2>3. Requesting' = Requesting
    BY <1>11, <2>0 DEF SignalPush, Requesting
  <2> QED
    BY <2>1, <2>2, <2>3, ItemsKept
<1>12. ASSUME CallWait PROVE Items'
  <2>1. Kept
    BY <1>12 DEF CallWait
  <2>2. Holding' = Holding
    BY <1>0, <1>12 DEF CallWait, Goto, TypeOK, Holding
  <2>3. Requesting' = Requesting
    BY <1>0, <1>12 DEF CallWait, Goto, TypeOK, Requesting
  <2> QED
    BY <2>1, <2>2, <2>3, ItemsKept
<1>13. ASSUME WaitSleep PROVE Items'
  <2>1. Kept
    BY <1>13 DEF WaitSleep
  <2>2. Holding' = Holding
    BY <1>0, <1>13 DEF WaitSleep, Goto, TypeOK, Holding
  <2>3. Requesting' = Requesting
    BY <1>0, <1>13 DEF WaitSleep, Goto, TypeOK, Requesting
  <2> QED
    BY <2>1, <2>2, <2>3, ItemsKept
<1>14. ASSUME WaitReturn PROVE Items'
  <2>1. Kept
    BY <1>14 DEF WaitReturn
  <2>2. Holding' = Holding
    BY <1>0, <1>14 DEF WaitReturn, Goto, TypeOK, Holding
  <2>3. Requesting' = Requesting
    BY <1>0, <1>14 DEF WaitReturn, Goto, TypeOK, Requesting
  <2> QED
    BY <2>1, <2>2, <2>3, ItemsKept
<1>15. ASSUME CallFree PROVE Items'
  <2>1. Kept
    BY <1>15 DEF CallFree
  <2>2. Holding' = Holding
    BY <1>0, <1>15 DEF CallFree, Goto, TypeOK, Holding
  <2>3. Requesting' = Requesting
    BY <1>0, <1>15 DEF CallFree, Goto, TypeOK, Requesting
  <2> QED
    BY <2>1, <2>2, <2>3, ItemsKept
<1>16. ASSUME Kill PROVE Items'
  <2>1. Live = {} /\ Live' = {}
    <3>1. pending = 0 /\ head \in Slots
      BY <1>0, <1>16 DEF Kill, CountInv, Shutdown, TypeOK
    <3>2. Live = {}
      BY <3>1 DEF Live, Slots
    <3>3. ~alive'
      BY <1>16, Zenon DEF Kill
    <3> QED
      BY <3>2, <3>3 DEF Live
  <2>2. Holding' = Holding
    BY <1>0, <1>16 DEF Kill, Goto, TypeOK, Holding
  <2>3. Requesting' = Requesting
    BY <1>0, <1>16 DEF Kill, Goto, TypeOK, Requesting
  <2>4. UNCHANGED <<slots, task, submitted, executed>>
    BY <1>16 DEF Kill
  <2> QED
    BY <2>1, <2>2, <2>3, <2>4
    DEF Items, Requested, LiveTasks, HeldTasks, ExactlyOnce
<1>17. ASSUME BroadcastPush PROVE Items'
  <2>1. Kept
    BY <1>17 DEF BroadcastPush
  <2>2. Holding' = Holding
    BY <1>0, <1>17 DEF BroadcastPush, At, TypeOK, Holding
  <2>3. Requesting' = Requesting
    BY <1>0, <1>17 DEF BroadcastPush, At, TypeOK, Requesting
  <2> QED
    BY <2>1, <2>2, <2>3, ItemsKept
<1>18. ASSUME Join PROVE Items'
  <2>1. Kept
    BY <1>18 DEF Join
  <2>2. Holding' = Holding
    BY <1>0, <1>18 DEF Join, Goto, TypeOK, Holding
  <2>3. Requesting' = Requesting
    BY <1>0, <1>18 DEF Join, Goto, TypeOK, Requesting
  <2> QED
    BY <2>1, <2>2, <2>3, ItemsKept
<1>19. ASSUME NEW c \in Clients, NEW t \in Tasks, CallRun(c, t) PROVE Items'
  <2>1. UNCHANGED <<slots, submitted, executed>> /\ Live' = Live
    BY <1>19 DEF CallRun, Live
  <2>2. Holding' = Holding
    BY <1>0, <1>19 DEF CallRun, Goto, TypeOK, Holding
  <2>3. Requesting' = Requesting \cup {c} /\ c \notin Requesting
    BY <1>0, <1>19 DEF CallRun, Goto, TypeOK, Requesting
  <2>4. task'[c] = t /\ \A d \in Threads \ {c} : task'[d] = task[d]
    BY <1>0, <1>19 DEF CallRun, TypeOK
  <2>5. Holding \subseteq Threads \ {c} /\ Requesting \subseteq Threads \ {c}
    BY <2>3 DEF Holding, Requesting
  <2>6. t \in Tasks \ submitted /\ \A d \in Requesting : task[d] # t
    BY <1>19 DEF CallRun, Requesting
  <2>7. Requested'
    BY <2>1, <2>3, <2>4, <2>5, <2>6 DEF Items, Requested
  <2>8. LiveTasks' /\ HeldTasks' /\ ExactlyOnce'
    BY <2>1, <2>2, <2>4, <2>5 DEF Items, LiveTasks, HeldTasks, ExactlyOnce
  <2> QED
    BY <2>7, <2>8 DEF Items
<1>20. ASSUME NEW t \in Threads, SpuriousWakeup(t) PROVE Items'
  <2>1. Kept
    BY <1>20 DEF SpuriousWakeup
  <2>2. Holding' = Holding
    BY <1>0, <1>20 DEF SpuriousWakeup, Goto, TypeOK, Holding
  <2>3. Requesting' = Requesting
    BY <1>0, <1>20 DEF SpuriousWakeup, Goto, TypeOK, Requesting
  <2> QED
    BY <2>1, <2>2, <2>3, ItemsKept
<1>21. CASE UNCHANGED vars
  <2>1. Holding' = Holding /\ Requesting' = Requesting
    BY <1>21 DEF vars, Holding, Requesting
  <2> QED
    BY <1>21, <2>1, ItemsKept DEF vars
<1> QED
  BY <1>1, <1>2, <1>3, <1>4, <1>5, <1>6, <1>7, <1>8, <1>9, <1>10, <1>11, <1>12, <1>13, <1>14, <1>15, <1>16, <1>17, <1>18, <1>19, <1>20, <1>21
  DEF Next, WorkerStep, RunStep, OwnerStep, Calls, Freed

\* The inductive invariant holds in every reachable state: the count of the busy
\* workers together with the places of the tasks (lines 80-205).
THEOREM Invariance == Spec => []IInv
<1>1. Init => IInv
  BY CountInit, ItemsInit DEF IInv
<1>2. IInv /\ [Next]_vars => IInv'
  BY CountNext, ItemsNext DEF IInv
<1> QED
  BY <1>1, <1>2, PTL DEF Spec

\* No task is lost and none is executed twice (lines 80-91 and 176-186).
THEOREM EachTaskOnce == Spec => []ExactlyOnce
<1>1. IInv => ExactlyOnce
  BY DEF IInv, Items
<1> QED
  BY Invariance, <1>1, PTL

\* With both counters at zero the ring is empty and no worker holds a task, so
\* whatever was stored was executed (lines 80-105 and 197-205).
LEMMA NothingLeft ==
  IInv /\ running = 0 /\ pending = 0 => \A t \in submitted : executed[t] = 1
<1> SUFFICES ASSUME IInv, running = 0, pending = 0, NEW t \in submitted
             PROVE  executed[t] = 1
  OBVIOUS
<1> USE PoolAssumption
<1>1. TypeOK /\ RunningCount /\ ExactlyOnce
  BY DEF IInv, CountInv, Items
<1>2. Live = {}
  BY <1>1 DEF Live, Slots, TypeOK
<1>3. Holding = {}
  <2>1. IsFiniteSet(Busy)
    BY FS_Subset DEF Busy
  <2>2. Busy = {}
    BY <1>1, <2>1, FS_EmptySet DEF RunningCount
  <2> QED
    BY <2>2 DEF Holding, Busy
<1>4. executed[t] # 0 /\ t \in Tasks
  BY <1>1, <1>2, <1>3 DEF ExactlyOnce, TypeOK
<1> QED
  BY <1>1, <1>4 DEF ExactlyOnce, TypeOK

\* haplo_pool_wait returns only when everything handed over is executed: the
\* counters it tests are zero only when the ring is empty and no worker is
\* between the pop and the end of a task (lines 197-205).
THEOREM WaitIsABarrier == Spec => WaitForAll
<1> DEFINE A == pc[Owner] = "wait" /\ pc'[Owner] \in {"idle", "kill"}
                  => \A t \in submitted : executed[t] = 1
<1>1. IInv /\ [Next]_vars => [A]_vars
  <2> SUFFICES ASSUME IInv, Next, pc[Owner] = "wait",
                      pc'[Owner] \in {"idle", "kill"}
               PROVE  \A t \in submitted : executed[t] = 1
    BY DEF A
  <2> USE PoolAssumption DEF Threads
  <2>1. TypeOK /\ RunningCount /\ Shutdown /\ ExactlyOnce
    BY DEF IInv, CountInv, Items
  <2>2. WaitReturn
    BY <2>1 DEF Next, WorkerStep, RunStep, OwnerStep, Calls, Freed, vars,
      TypeOK, Loop, TakeSleep, TakeDie, Take, SignalPop, Work, End,
      SignalFinish, RunSleep, RunPush, SignalPush, CallRun, CallWait, CallFree,
      WaitSleep, Kill, BroadcastPush, Join, SpuriousWakeup, Goto, Signal, At
  <2>3. running = 0 /\ pending = 0
    BY <2>2 DEF WaitReturn
  <2> QED
    BY <2>3, NothingLeft
<1>2. Spec => [][A]_vars
  BY Invariance, <1>1, PTL DEF Spec
<1> QED
  BY <1>2 DEF WaitForAll

-----------------------------------------------------------------------------
(***************************************************************************)
(* No wakeup is lost: the three parts of NoLostWakeup are inductive, given *)
(* the types and the shutdown of IInv.                                     *)
(***************************************************************************)

(* Threads at a place, as one of them moves *)

LEMMA AtFinite ==
  ASSUME NEW S \in {Workers, Clients}, NEW x
  PROVE  IsFiniteSet(At(S, x)) /\ Cardinality(At(S, x)) \in Nat
<1>1. IsFiniteSet(S) /\ At(S, x) \in SUBSET S
  BY PoolAssumption DEF At
<1> QED
  BY <1>1, FS_Subset, FS_CardinalityType

LEMMA AtKept ==
  ASSUME NEW S, NEW x, \A t \in S : pc'[t] = x <=> pc[t] = x
  PROVE  At(S, x)' = At(S, x)
BY DEF At

LEMMA AtJoined ==
  ASSUME NEW S \in {Workers, Clients}, NEW x, NEW t \in S, pc[t] # x, pc'[t] = x,
         \A u \in S \ {t} : pc'[u] = x <=> pc[u] = x
  PROVE  Cardinality(At(S, x)') = Cardinality(At(S, x)) + 1
<1>1. At(S, x)' = At(S, x) \cup {t} /\ t \notin At(S, x)
  BY DEF At
<1> QED
  BY <1>1, AtFinite, FS_AddElement

LEMMA AtLeft ==
  ASSUME NEW S \in {Workers, Clients}, NEW x, NEW t \in S, pc[t] = x, pc'[t] # x,
         \A u \in S \ {t} : pc'[u] = x <=> pc[u] = x
  PROVE  Cardinality(At(S, x)') = Cardinality(At(S, x)) - 1
<1>1. At(S, x)' = At(S, x) \ {t} /\ t \in At(S, x)
  BY DEF At
<1> QED
  BY <1>1, AtFinite, FS_RemoveElement

\* A thread goes from one place to another, and nobody else moves.
Moves(t, from, to) ==
  pc[t] = from /\ pc'[t] = to /\ \A u \in Threads \ {t} : pc'[u] = pc[u]

LEMMA GotoMoves ==
  ASSUME TypeOK, NEW t \in Threads, NEW to, Goto(t, to)
  PROVE  Moves(t, pc[t], to)
BY DEF Goto, TypeOK, Moves, Threads

\* pthread_cond_signal: the caller goes on, and one sleeper with it if there is one.
LEMMA SignalWakes ==
  ASSUME TypeOK, NEW self \in Threads, NEW S, S \subseteq Threads,
         NEW asleep, NEW awake, NEW next, pc[self] # asleep,
         Signal(self, S, asleep, awake, next)
  PROVE  \/ /\ At(S, asleep) = {} /\ Moves(self, pc[self], next)
         \/ \E t \in S :
              /\ t # self /\ pc[t] = asleep /\ pc'[t] = awake /\ pc'[self] = next
              /\ \A u \in Threads \ {t, self} : pc'[u] = pc[u]
<1>1. CASE At(S, asleep) = {}
  BY <1>1, GotoMoves DEF Signal
<1>2. CASE At(S, asleep) # {}
  <2>1. PICK t \in At(S, asleep) : pc' = [pc EXCEPT ![t] = awake, ![self] = next]
    BY <1>2 DEF Signal
  <2>2. t \in S /\ t \in Threads /\ t # self /\ pc[t] = asleep
    BY <2>1 DEF At
  <2> QED
    BY <2>1, <2>2 DEF TypeOK, Threads
<1> QED
  BY <1>1, <1>2

LEMMA PopSignalled ==
  ASSUME TypeOK, NEW w \in Workers, SignalPop(w)
  PROVE  /\ UNCHANGED poolVars /\ pc[w] = "popped"
         /\ \/ /\ At(Clients, "sleep_pop") = {} /\ Moves(w, "popped", "work")
            \/ \E t \in Clients :
                 /\ t # w /\ pc[t] = "sleep_pop" /\ pc'[t] = "run" /\ pc'[w] = "work"
                 /\ \A u \in Threads \ {t, w} : pc'[u] = pc[u]
<1>1. /\ TypeOK /\ w \in Threads /\ Clients \subseteq Threads /\ pc[w] # "sleep_pop"
      /\ Signal(w, Clients, "sleep_pop", "run", "work")
  BY DEF SignalPop, Threads
<1>2. UNCHANGED poolVars /\ pc[w] = "popped"
  BY DEF SignalPop, poolVars
<1>3. \/ /\ At(Clients, "sleep_pop") = {} /\ Moves(w, pc[w], "work")
      \/ \E t \in Clients :
           /\ t # w /\ pc[t] = "sleep_pop" /\ pc'[t] = "run" /\ pc'[w] = "work"
           /\ \A u \in Threads \ {t, w} : pc'[u] = pc[u]
  BY <1>1, SignalWakes, Zenon
<1> QED
  BY <1>2, <1>3

LEMMA FinishSignalled ==
  ASSUME TypeOK, NEW w \in Workers, SignalFinish(w)
  PROVE  /\ UNCHANGED poolVars /\ pc[w] = "ended"
         /\ \/ /\ At(Clients, "sleep_finish") = {} /\ Moves(w, "ended", "loop")
            \/ \E t \in Clients :
                 /\ t # w /\ pc[t] = "sleep_finish" /\ pc'[t] = "wait" /\ pc'[w] = "loop"
                 /\ \A u \in Threads \ {t, w} : pc'[u] = pc[u]
<1>1. /\ TypeOK /\ w \in Threads /\ Clients \subseteq Threads /\ pc[w] # "sleep_finish"
      /\ Signal(w, Clients, "sleep_finish", "wait", "loop")
  BY DEF SignalFinish, Threads
<1>2. UNCHANGED poolVars /\ pc[w] = "ended"
  BY DEF SignalFinish, poolVars
<1>3. \/ /\ At(Clients, "sleep_finish") = {} /\ Moves(w, pc[w], "loop")
      \/ \E t \in Clients :
           /\ t # w /\ pc[t] = "sleep_finish" /\ pc'[t] = "wait" /\ pc'[w] = "loop"
           /\ \A u \in Threads \ {t, w} : pc'[u] = pc[u]
  BY <1>1, SignalWakes, Zenon
<1> QED
  BY <1>2, <1>3

LEMMA PushSignalled ==
  ASSUME TypeOK, NEW c \in Clients, SignalPush(c)
  PROVE  /\ UNCHANGED poolVars /\ pc[c] = "pushed"
         /\ \/ /\ At(Workers, "sleep_push") = {} /\ Moves(c, "pushed", "idle")
            \/ \E t \in Workers :
                 /\ t # c /\ pc[t] = "sleep_push" /\ pc'[t] = "take" /\ pc'[c] = "idle"
                 /\ \A u \in Threads \ {t, c} : pc'[u] = pc[u]
<1>1. /\ TypeOK /\ c \in Threads /\ Workers \subseteq Threads /\ pc[c] # "sleep_push"
      /\ Signal(c, Workers, "sleep_push", "take", "idle")
  BY DEF SignalPush, Threads
<1>2. UNCHANGED poolVars /\ pc[c] = "pushed"
  BY DEF SignalPush, poolVars
<1>3. \/ /\ At(Workers, "sleep_push") = {} /\ Moves(c, pc[c], "idle")
      \/ \E t \in Workers :
           /\ t # c /\ pc[t] = "sleep_push" /\ pc'[t] = "take" /\ pc'[c] = "idle"
           /\ \A u \in Threads \ {t, c} : pc'[u] = pc[u]
  BY <1>1, SignalWakes, Zenon
<1> QED
  BY <1>2, <1>3

-----------------------------------------------------------------------------
(* The workers asleep on pending_push *)

Takers == Cardinality(At(Workers, "take"))
Pushed == Cardinality(At(Clients, "pushed"))

\* Where a step leaves the queue, the sleepers, the takers and the signals to come alone.
LEMMA QueuedKept ==
  ASSUME QueuedTaskHasTaker, pending' = pending, alive' = alive,
         \A w \in Workers : pc'[w] = "sleep_push" <=> pc[w] = "sleep_push",
         \A w \in Workers : pc'[w] = "take" <=> pc[w] = "take",
         \A c \in Clients : pc'[c] = "pushed" <=> pc[c] = "pushed"
  PROVE  QueuedTaskHasTaker'
<1>1. /\ At(Workers, "sleep_push")' = At(Workers, "sleep_push")
      /\ At(Workers, "take")' = At(Workers, "take")
      /\ At(Clients, "pushed")' = At(Clients, "pushed")
  BY AtKept
<1> QED
  BY <1>1 DEF QueuedTaskHasTaker

\* One signal per push is enough (pool.c:186).
LEMMA QueuedNext ==
  ASSUME CountInv, QueuedTaskHasTaker, [Next]_vars
  PROVE  QueuedTaskHasTaker'
<1> USE PoolAssumption DEF CountInv, Threads, poolVars, history
<1>0. /\ Takers \in Nat /\ Pushed \in Nat /\ pending \in Nat
      /\ alive /\ At(Workers, "sleep_push") # {} => pending <= Takers + Pushed
  BY AtFinite DEF TypeOK, QueuedTaskHasTaker, Takers, Pushed
<1>1. ASSUME NEW w \in Workers, Loop(w) PROVE QueuedTaskHasTaker'
  <2>1. /\ pending' = pending /\ alive' = alive /\ Moves(w, "loop", IF alive THEN "take" ELSE "dead")
    BY <1>1, GotoMoves DEF Loop
  <2>2. CASE alive
    <3>1. /\ At(Workers, "sleep_push")' = At(Workers, "sleep_push")
          /\ At(Clients, "pushed")' = At(Clients, "pushed")
      BY <2>1, <2>2, AtKept DEF Moves
    <3>2. Cardinality(At(Workers, "take")') = Takers + 1
      BY <2>1, <2>2, AtJoined DEF Moves, Takers
    <3> QED
      BY <1>0, <2>1, <3>1, <3>2 DEF QueuedTaskHasTaker, Pushed
  <2>3. CASE ~alive
    BY <2>1, <2>3 DEF QueuedTaskHasTaker
  <2> QED
    BY <2>2, <2>3
<1>2. ASSUME NEW w \in Workers, TakeSleep(w) PROVE QueuedTaskHasTaker'
  <2>1. pending' = 0 /\ Cardinality(At(Workers, "take")') \in Nat /\ Cardinality(At(Clients, "pushed")') \in Nat
    <3>1. /\ IsFiniteSet(At(Workers, "take")') /\ IsFiniteSet(At(Clients, "pushed")')
      <4>1. At(Workers, "take")' \in SUBSET Workers /\ At(Clients, "pushed")' \in SUBSET Clients
        BY DEF At
      <4> QED
        BY <4>1, FS_Subset
    <3> QED
      BY <1>2, <3>1, FS_CardinalityType DEF TakeSleep
  <2> QED
    BY <2>1 DEF QueuedTaskHasTaker
<1>3. ASSUME NEW w \in Workers, TakeDie(w) PROVE QueuedTaskHasTaker'
  BY <1>3 DEF TakeDie, QueuedTaskHasTaker
<1>4. ASSUME NEW w \in Workers, Take(w) PROVE QueuedTaskHasTaker'
  <2>1. pending' = pending - 1 /\ alive' = alive /\ Moves(w, "take", "popped")
    BY <1>4, GotoMoves DEF Take
  <2>2. /\ At(Workers, "sleep_push")' = At(Workers, "sleep_push")
        /\ At(Clients, "pushed")' = At(Clients, "pushed")
    BY <2>1, AtKept DEF Moves
  <2>3. Cardinality(At(Workers, "take")') = Takers - 1
    BY <2>1, AtLeft DEF Moves, Takers
  <2> QED
    BY <1>0, <2>1, <2>2, <2>3 DEF QueuedTaskHasTaker, Pushed
<1>5. ASSUME NEW w \in Workers, SignalPop(w) PROVE QueuedTaskHasTaker'
  <2>1. pending' = pending /\ alive' = alive /\ pc[w] = "popped"
    BY <1>5, PopSignalled
  <2>2. \/ Moves(w, "popped", "work")
        \/ \E t \in Clients : /\ t # w /\ pc[t] = "sleep_pop" /\ pc'[t] = "run" /\ pc'[w] = "work"
                              /\ \A u \in Threads \ {t, w} : pc'[u] = pc[u]
    BY <1>5, PopSignalled
  <2> QED
    BY <2>1, <2>2, QueuedKept DEF Moves
<1>6. ASSUME NEW w \in Workers, Work(w) \/ End(w) PROVE QueuedTaskHasTaker'
  <2>1. pending' = pending /\ alive' = alive /\ (Moves(w, "work", "end") \/ Moves(w, "end", "ended"))
    BY <1>6, GotoMoves DEF Work, End
  <2> QED
    BY <2>1, QueuedKept DEF Moves
<1>7. ASSUME NEW w \in Workers, SignalFinish(w) PROVE QueuedTaskHasTaker'
  <2>1. pending' = pending /\ alive' = alive /\ pc[w] = "ended"
    BY <1>7, FinishSignalled
  <2>2. \/ Moves(w, "ended", "loop")
        \/ \E t \in Clients : /\ t # w /\ pc[t] = "sleep_finish" /\ pc'[t] = "wait" /\ pc'[w] = "loop"
                              /\ \A u \in Threads \ {t, w} : pc'[u] = pc[u]
    BY <1>7, FinishSignalled
  <2> QED
    BY <2>1, <2>2, QueuedKept DEF Moves
<1>8. ASSUME NEW c \in Clients, RunSleep(c) PROVE QueuedTaskHasTaker'
  <2>1. pending' = pending /\ alive' = alive /\ Moves(c, "run", "sleep_pop")
    BY <1>8, GotoMoves DEF RunSleep
  <2> QED
    BY <2>1, QueuedKept DEF Moves
<1>9. ASSUME NEW c \in Clients, RunPush(c) PROVE QueuedTaskHasTaker'
  <2>1. pending' = pending + 1 /\ alive' = alive /\ Moves(c, "run", "pushed")
    BY <1>9, GotoMoves DEF RunPush
  <2>2. /\ At(Workers, "sleep_push")' = At(Workers, "sleep_push")
        /\ At(Workers, "take")' = At(Workers, "take")
    BY <2>1, AtKept DEF Moves
  <2>3. Cardinality(At(Clients, "pushed")') = Pushed + 1
    BY <2>1, AtJoined DEF Moves, Pushed
  <2> QED
    BY <1>0, <2>1, <2>2, <2>3 DEF QueuedTaskHasTaker, Takers
<1>10. ASSUME NEW c \in Clients, SignalPush(c) PROVE QueuedTaskHasTaker'
  <2>1. pending' = pending /\ alive' = alive /\ pc[c] = "pushed"
    BY <1>10, PushSignalled
  <2>2. \/ At(Workers, "sleep_push") = {} /\ Moves(c, "pushed", "idle")
        \/ \E t \in Workers : /\ t # c /\ pc[t] = "sleep_push" /\ pc'[t] = "take" /\ pc'[c] = "idle"
                              /\ \A u \in Threads \ {t, c} : pc'[u] = pc[u]
    BY <1>10, PushSignalled
  <2>3. CASE At(Workers, "sleep_push") = {} /\ Moves(c, "pushed", "idle")
    <3>1. At(Workers, "sleep_push")' = {}
      BY <2>3, AtKept DEF Moves
    <3> QED
      BY <3>1 DEF QueuedTaskHasTaker
  <2>4. ASSUME NEW t \in Workers, t # c, pc[t] = "sleep_push", pc'[t] = "take", pc'[c] = "idle",
               \A u \in Threads \ {t, c} : pc'[u] = pc[u]
        PROVE  QueuedTaskHasTaker'
    <3>1. At(Workers, "sleep_push") # {}
      BY <2>4 DEF At
    <3>2. Cardinality(At(Workers, "take")') = Takers + 1
      BY <2>4, AtJoined DEF Takers
    <3>3. Cardinality(At(Clients, "pushed")') = Pushed - 1
      BY <2>1, <2>4, AtLeft DEF Pushed
    <3> QED
      BY <1>0, <2>1, <3>1, <3>2, <3>3 DEF QueuedTaskHasTaker
  <2> QED
    BY <2>2, <2>3, <2>4
<1>11. ASSUME NEW c \in Clients, NEW k \in Tasks, CallRun(c, k) PROVE QueuedTaskHasTaker'
  <2>1. pending' = pending /\ alive' = alive /\ Moves(c, "idle", "run")
    BY <1>11, GotoMoves DEF CallRun
  <2> QED
    BY <2>1, QueuedKept DEF Moves
<1>12. CASE CallWait \/ CallFree \/ WaitSleep \/ WaitReturn \/ Join
  <2>1. /\ pending' = pending /\ alive' = alive
        /\ pc[Owner] \in {"idle", "wait", "join"}
        /\ \E to \in {"wait", "sleep_finish", "idle", "kill", "freed"} : Moves(Owner, pc[Owner], to)
    BY <1>12, GotoMoves DEF CallWait, CallFree, WaitSleep, WaitReturn, Join
  <2> QED
    BY <2>1, QueuedKept DEF Moves
<1>13. CASE Kill
  BY <1>13 DEF Kill, QueuedTaskHasTaker
<1>14. CASE BroadcastPush
  <2>1. ~alive /\ alive' = alive
    BY <1>14 DEF BroadcastPush, Shutdown
  <2> QED
    BY <2>1 DEF QueuedTaskHasTaker
<1>15. ASSUME NEW t \in Threads, SpuriousWakeup(t) PROVE QueuedTaskHasTaker'
  <2>1. pending' = pending /\ alive' = alive
    BY <1>15 DEF SpuriousWakeup
  <2>2. CASE Moves(t, "sleep_push", "take")
    <3>1. t \in Workers /\ At(Workers, "sleep_push") # {}
      BY <2>2 DEF Moves, TypeOK, ClientPC, OwnerPC, At
    <3>2. Cardinality(At(Workers, "take")') = Takers + 1
      BY <2>2, <3>1, AtJoined DEF Moves, Takers
    <3>3. At(Clients, "pushed")' = At(Clients, "pushed")
      BY <2>2, <3>1, AtKept DEF Moves
    <3> QED
      BY <1>0, <2>1, <3>1, <3>2, <3>3 DEF QueuedTaskHasTaker, Pushed
  <2>3. CASE Moves(t, "sleep_pop", "run") \/ Moves(t, "sleep_finish", "wait")
    BY <2>1, <2>3, QueuedKept DEF Moves
  <2> QED
    BY <1>15, <2>2, <2>3, GotoMoves DEF SpuriousWakeup
<1>16. CASE Freed \/ UNCHANGED vars
  <2>1. UNCHANGED vars
    BY <1>16 DEF Freed
  <2> QED
    BY <2>1, QueuedKept DEF vars
<1> QED
  BY <1>1, <1>2, <1>3, <1>4, <1>5, <1>6, <1>7, <1>8, <1>9, <1>10, <1>11, <1>12, <1>13, <1>14,
     <1>15, <1>16 DEF Next, WorkerStep, RunStep, OwnerStep, Calls
-----------------------------------------------------------------------------
(* The clients asleep on pending_pop *)

Runners == Cardinality(At(Clients, "run"))
Popped == Cardinality(At(Workers, "popped"))

LEMMA FreeKept ==
  ASSUME FreeSlotHasTaker, pending' = pending,
         \A c \in Clients : pc'[c] = "sleep_pop" <=> pc[c] = "sleep_pop",
         \A c \in Clients : pc'[c] = "run" <=> pc[c] = "run",
         \A w \in Workers : pc'[w] = "popped" <=> pc[w] = "popped"
  PROVE  FreeSlotHasTaker'
<1>1. /\ At(Clients, "sleep_pop")' = At(Clients, "sleep_pop")
      /\ At(Clients, "run")' = At(Clients, "run")
      /\ At(Workers, "popped")' = At(Workers, "popped")
  BY AtKept
<1> QED
  BY <1>1 DEF FreeSlotHasTaker

\* One signal per pop is enough (pool.c:91).
LEMMA FreeNext ==
  ASSUME CountInv, FreeSlotHasTaker, [Next]_vars
  PROVE  FreeSlotHasTaker'
<1> USE PoolAssumption DEF CountInv, Threads, poolVars, history
<1>0. /\ Runners \in Nat /\ Popped \in Nat /\ pending \in 0 .. NbSlots
      /\ At(Clients, "sleep_pop") # {} => NbSlots - pending <= Runners + Popped
  BY AtFinite DEF TypeOK, FreeSlotHasTaker, Runners, Popped
<1>1. ASSUME NEW w \in Workers, Loop(w) \/ TakeSleep(w) \/ TakeDie(w) PROVE FreeSlotHasTaker'
  <2>1. /\ pending' = pending /\ pc[w] \in {"loop", "take"}
        /\ \E to \in {"take", "sleep_push", "dead"} : Moves(w, pc[w], to)
    BY <1>1, GotoMoves DEF Loop, TakeSleep, TakeDie
  <2> QED
    BY <2>1, FreeKept DEF Moves
<1>2. ASSUME NEW w \in Workers, Take(w) PROVE FreeSlotHasTaker'
  <2>1. pending' = pending - 1 /\ Moves(w, "take", "popped")
    BY <1>2, GotoMoves DEF Take
  <2>2. /\ At(Clients, "sleep_pop")' = At(Clients, "sleep_pop")
        /\ At(Clients, "run")' = At(Clients, "run")
    BY <2>1, AtKept DEF Moves
  <2>3. Cardinality(At(Workers, "popped")') = Popped + 1
    BY <2>1, AtJoined DEF Moves, Popped
  <2> QED
    BY <1>0, <2>1, <2>2, <2>3 DEF FreeSlotHasTaker, Runners
<1>3. ASSUME NEW w \in Workers, SignalPop(w) PROVE FreeSlotHasTaker'
  <2>1. pending' = pending /\ pc[w] = "popped"
    BY <1>3, PopSignalled
  <2>2. \/ At(Clients, "sleep_pop") = {} /\ Moves(w, "popped", "work")
        \/ \E t \in Clients : /\ t # w /\ pc[t] = "sleep_pop" /\ pc'[t] = "run" /\ pc'[w] = "work"
                              /\ \A u \in Threads \ {t, w} : pc'[u] = pc[u]
    BY <1>3, PopSignalled
  <2>3. CASE At(Clients, "sleep_pop") = {} /\ Moves(w, "popped", "work")
    <3>1. At(Clients, "sleep_pop")' = {}
      BY <2>3, AtKept DEF Moves
    <3> QED
      BY <3>1 DEF FreeSlotHasTaker
  <2>4. ASSUME NEW t \in Clients, t # w, pc[t] = "sleep_pop", pc'[t] = "run", pc'[w] = "work",
               \A u \in Threads \ {t, w} : pc'[u] = pc[u]
        PROVE  FreeSlotHasTaker'
    <3>1. At(Clients, "sleep_pop") # {}
      BY <2>4 DEF At
    <3>2. Cardinality(At(Clients, "run")') = Runners + 1
      BY <2>4, AtJoined DEF Runners
    <3>3. Cardinality(At(Workers, "popped")') = Popped - 1
      BY <2>1, <2>4, AtLeft DEF Popped
    <3> QED
      BY <1>0, <2>1, <3>1, <3>2, <3>3 DEF FreeSlotHasTaker
  <2> QED
    BY <2>2, <2>3, <2>4
<1>4. ASSUME NEW w \in Workers, Work(w) \/ End(w) PROVE FreeSlotHasTaker'
  <2>1. pending' = pending /\ (Moves(w, "work", "end") \/ Moves(w, "end", "ended"))
    BY <1>4, GotoMoves DEF Work, End
  <2> QED
    BY <2>1, FreeKept DEF Moves
<1>5. ASSUME NEW w \in Workers, SignalFinish(w) PROVE FreeSlotHasTaker'
  <2>1. pending' = pending /\ pc[w] = "ended"
    BY <1>5, FinishSignalled
  <2>2. \/ Moves(w, "ended", "loop")
        \/ \E t \in Clients : /\ t # w /\ pc[t] = "sleep_finish" /\ pc'[t] = "wait" /\ pc'[w] = "loop"
                              /\ \A u \in Threads \ {t, w} : pc'[u] = pc[u]
    BY <1>5, FinishSignalled
  <2> QED
    BY <2>1, <2>2, FreeKept DEF Moves
<1>6. ASSUME NEW c \in Clients, RunSleep(c) PROVE FreeSlotHasTaker'
  <2>1. NbSlots - pending' = 0 /\ Cardinality(At(Clients, "run")') \in Nat /\ Cardinality(At(Workers, "popped")') \in Nat
    <3>1. IsFiniteSet(At(Clients, "run")') /\ IsFiniteSet(At(Workers, "popped")')
      <4>1. At(Clients, "run")' \in SUBSET Clients /\ At(Workers, "popped")' \in SUBSET Workers
        BY DEF At
      <4> QED
        BY <4>1, FS_Subset
    <3> QED
      BY <1>6, <3>1, FS_CardinalityType DEF RunSleep
  <2> QED
    BY <2>1 DEF FreeSlotHasTaker
<1>7. ASSUME NEW c \in Clients, RunPush(c) PROVE FreeSlotHasTaker'
  <2>1. pending' = pending + 1 /\ Moves(c, "run", "pushed")
    BY <1>7, GotoMoves DEF RunPush
  <2>2. /\ At(Clients, "sleep_pop")' = At(Clients, "sleep_pop")
        /\ At(Workers, "popped")' = At(Workers, "popped")
    BY <2>1, AtKept DEF Moves
  <2>3. Cardinality(At(Clients, "run")') = Runners - 1
    BY <2>1, AtLeft DEF Moves, Runners
  <2> QED
    BY <1>0, <2>1, <2>2, <2>3 DEF FreeSlotHasTaker, Popped
<1>8. ASSUME NEW c \in Clients, SignalPush(c) PROVE FreeSlotHasTaker'
  <2>1. pending' = pending /\ pc[c] = "pushed"
    BY <1>8, PushSignalled
  <2>2. \/ Moves(c, "pushed", "idle")
        \/ \E t \in Workers : /\ t # c /\ pc[t] = "sleep_push" /\ pc'[t] = "take" /\ pc'[c] = "idle"
                              /\ \A u \in Threads \ {t, c} : pc'[u] = pc[u]
    BY <1>8, PushSignalled
  <2> QED
    BY <2>1, <2>2, FreeKept DEF Moves
<1>9. ASSUME NEW c \in Clients, NEW k \in Tasks, CallRun(c, k) PROVE FreeSlotHasTaker'
  <2>1. pending' = pending /\ Moves(c, "idle", "run")
    BY <1>9, GotoMoves DEF CallRun
  <2>2. /\ At(Clients, "sleep_pop")' = At(Clients, "sleep_pop")
        /\ At(Workers, "popped")' = At(Workers, "popped")
    BY <2>1, AtKept DEF Moves
  <2>3. Cardinality(At(Clients, "run")') = Runners + 1
    BY <2>1, AtJoined DEF Moves, Runners
  <2> QED
    BY <1>0, <2>1, <2>2, <2>3 DEF FreeSlotHasTaker, Popped
<1>10. CASE CallWait \/ CallFree \/ WaitSleep \/ WaitReturn \/ Join
  <2>1. /\ pending' = pending /\ pc[Owner] \in {"idle", "wait", "join"}
        /\ \E to \in {"wait", "sleep_finish", "idle", "kill", "freed"} : Moves(Owner, pc[Owner], to)
    BY <1>10, GotoMoves DEF CallWait, CallFree, WaitSleep, WaitReturn, Join
  <2> QED
    BY <2>1, FreeKept DEF Moves
<1>11. CASE Kill
  <2>1. pc[Owner] = "kill" /\ Moves(Owner, "kill", "broadcast")
    BY <1>11, GotoMoves DEF Kill
  <2>2. \A c \in Clients : pc'[c] # "sleep_pop"
    BY <2>1 DEF Moves, Shutdown
  <2>3. At(Clients, "sleep_pop")' = {}
    BY <2>2 DEF At
  <2> QED
    BY <2>3 DEF FreeSlotHasTaker
<1>12. CASE BroadcastPush
  <2>1. /\ pending' = pending /\ pc[Owner] = "broadcast" /\ pc'[Owner] = "join"
        /\ \A c \in Clients \ {Owner} : pc'[c] = pc[c]
        /\ \A w \in Workers : pc'[w] = IF pc[w] = "sleep_push" THEN "take" ELSE pc[w]
    BY <1>12 DEF BroadcastPush, At
  <2> QED
    BY <2>1, FreeKept
<1>13. ASSUME NEW t \in Threads, SpuriousWakeup(t) PROVE FreeSlotHasTaker'
  <2>1. pending' = pending
    BY <1>13 DEF SpuriousWakeup
  <2>2. CASE Moves(t, "sleep_pop", "run")
    <3>1. t \in Clients /\ At(Clients, "sleep_pop") # {}
      BY <2>2 DEF Moves, TypeOK, WorkerPC, At
    <3>2. Cardinality(At(Clients, "run")') = Runners + 1
      BY <2>2, <3>1, AtJoined DEF Moves, Runners
    <3>3. At(Workers, "popped")' = At(Workers, "popped")
      BY <2>2, <3>1, AtKept DEF Moves
    <3> QED
      BY <1>0, <2>1, <3>1, <3>2, <3>3 DEF FreeSlotHasTaker, Popped
  <2>3. CASE Moves(t, "sleep_push", "take") \/ Moves(t, "sleep_finish", "wait")
    BY <2>1, <2>3, FreeKept DEF Moves
  <2> QED
    BY <1>13, <2>2, <2>3, GotoMoves DEF SpuriousWakeup
<1>14. CASE Freed \/ UNCHANGED vars
  <2>1. UNCHANGED vars
    BY <1>14 DEF Freed
  <2> QED
    BY <2>1, FreeKept DEF vars
<1> QED
  BY <1>1, <1>2, <1>3, <1>4, <1>5, <1>6, <1>7, <1>8, <1>9, <1>10, <1>11, <1>12, <1>13, <1>14
     DEF Next, WorkerStep, RunStep, OwnerStep, Calls

-----------------------------------------------------------------------------
(* The owner asleep on pending_finish *)

Waiting == pc[Owner] = "sleep_finish"

\* The end of the last task is signalled after the counters were updated (pool.c:100-106).
LEMMA WaiterNext ==
  ASSUME CountInv, CountInv', WaiterIsWoken, [Next]_vars
  PROVE  WaiterIsWoken'
<1> USE PoolAssumption DEF CountInv, Threads, poolVars, history
<1>0. running \in Nat /\ pending \in Nat /\ running' \in Nat /\ pending' \in Nat
  BY DEF TypeOK
<1>1. ASSUME NEW w \in Workers, Loop(w) \/ TakeSleep(w) \/ TakeDie(w) \/ Work(w) PROVE WaiterIsWoken'
  <2>1. /\ running' = running /\ pending' = pending /\ pc[w] \in {"loop", "take", "work"}
        /\ \E to \in {"take", "sleep_push", "dead", "end"} : Moves(w, pc[w], to)
    BY <1>1, GotoMoves DEF Loop, TakeSleep, TakeDie, Work
  <2>2. At(Workers, "ended")' = At(Workers, "ended") /\ pc'[Owner] = pc[Owner]
    BY <2>1, AtKept DEF Moves
  <2> QED
    BY <2>1, <2>2 DEF WaiterIsWoken
<1>2. ASSUME NEW w \in Workers, Take(w) PROVE WaiterIsWoken'
  BY <1>0, <1>2 DEF Take, WaiterIsWoken
<1>3. ASSUME NEW w \in Workers, SignalPop(w) PROVE WaiterIsWoken'
  <2>1. running' = running /\ pending' = pending /\ pc[w] = "popped"
    BY <1>3, PopSignalled
  <2>2. \/ Moves(w, "popped", "work")
        \/ \E t \in Clients : /\ t # w /\ pc[t] = "sleep_pop" /\ pc'[t] = "run" /\ pc'[w] = "work"
                              /\ \A u \in Threads \ {t, w} : pc'[u] = pc[u]
    BY <1>3, PopSignalled
  <2>3. At(Workers, "ended")' = At(Workers, "ended") /\ (Waiting' => Waiting)
    BY <2>1, <2>2, AtKept DEF Moves, Waiting
  <2> QED
    BY <2>1, <2>3 DEF WaiterIsWoken, Waiting
<1>4. ASSUME NEW w \in Workers, End(w) PROVE WaiterIsWoken'
  <2>1. pc'[w] = "ended"
    BY <1>4, GotoMoves DEF End, Moves
  <2>2. At(Workers, "ended")' # {}
    BY <2>1 DEF At
  <2> QED
    BY <2>2 DEF WaiterIsWoken
<1>5. ASSUME NEW w \in Workers, SignalFinish(w) PROVE WaiterIsWoken'
  <2>1. \/ At(Clients, "sleep_finish") = {} /\ Moves(w, "ended", "loop")
        \/ \E t \in Clients : /\ t # w /\ pc[t] = "sleep_finish" /\ pc'[t] = "wait" /\ pc'[w] = "loop"
                              /\ \A u \in Threads \ {t, w} : pc'[u] = pc[u]
    BY <1>5, FinishSignalled
  <2>2. CASE At(Clients, "sleep_finish") = {} /\ Moves(w, "ended", "loop")
    BY <2>2 DEF Moves, At, WaiterIsWoken
  <2>3. ASSUME NEW t \in Clients, pc[t] = "sleep_finish", pc'[t] = "wait" PROVE WaiterIsWoken'
    <3>1. t = Owner
      BY <2>3 DEF TypeOK, ClientPC
    <3> QED
      BY <2>3, <3>1 DEF WaiterIsWoken
  <2> QED
    BY <2>1, <2>2, <2>3
<1>6. ASSUME NEW c \in Clients, RunPush(c) PROVE WaiterIsWoken'
  BY <1>0, <1>6 DEF RunPush, WaiterIsWoken
<1>7. ASSUME NEW c \in Clients, RunSleep(c) \/ \E k \in Tasks : CallRun(c, k) PROVE WaiterIsWoken'
  <2>1. /\ running' = running /\ pending' = pending
        /\ \E to \in {"sleep_pop", "run"} : Moves(c, pc[c], to)
    BY <1>7, GotoMoves DEF RunSleep, CallRun
  <2>2. At(Workers, "ended")' = At(Workers, "ended") /\ (Waiting' => Waiting)
    BY <2>1, AtKept DEF Moves, Waiting
  <2> QED
    BY <2>1, <2>2 DEF WaiterIsWoken, Waiting
<1>8. ASSUME NEW c \in Clients, SignalPush(c) PROVE WaiterIsWoken'
  <2>1. running' = running /\ pending' = pending /\ pc[c] = "pushed"
    BY <1>8, PushSignalled
  <2>2. \/ Moves(c, "pushed", "idle")
        \/ \E t \in Workers : /\ t # c /\ pc[t] = "sleep_push" /\ pc'[t] = "take" /\ pc'[c] = "idle"
                              /\ \A u \in Threads \ {t, c} : pc'[u] = pc[u]
    BY <1>8, PushSignalled
  <2>3. At(Workers, "ended")' = At(Workers, "ended") /\ (Waiting' => Waiting)
    BY <2>1, <2>2, AtKept DEF Moves, Waiting
  <2> QED
    BY <2>1, <2>3 DEF WaiterIsWoken, Waiting
<1>9. CASE WaitSleep
  BY <1>0, <1>9 DEF WaitSleep, WaiterIsWoken
<1>10. CASE CallWait \/ CallFree \/ WaitReturn \/ Join \/ Kill
  <2>1. ~Waiting'
    BY <1>10 DEF CallWait, CallFree, WaitReturn, Join, Kill, Goto, TypeOK, Waiting
  <2> QED
    BY <2>1 DEF WaiterIsWoken, Waiting
<1>11. CASE BroadcastPush
  BY <1>11 DEF BroadcastPush, WaiterIsWoken
<1>12. ASSUME NEW t \in Threads, SpuriousWakeup(t) PROVE WaiterIsWoken'
  <2>1. /\ running' = running /\ pending' = pending
        /\ Moves(t, "sleep_push", "take") \/ Moves(t, "sleep_pop", "run") \/ Moves(t, "sleep_finish", "wait")
    BY <1>12, GotoMoves DEF SpuriousWakeup
  <2>2. At(Workers, "ended")' = At(Workers, "ended") /\ (Waiting' => Waiting)
    BY <2>1, AtKept DEF Moves, Waiting
  <2> QED
    BY <2>1, <2>2 DEF WaiterIsWoken, Waiting
<1>13. CASE Freed \/ UNCHANGED vars
  BY <1>13 DEF Freed, vars, WaiterIsWoken, At
<1> QED
  BY <1>1, <1>2, <1>3, <1>4, <1>5, <1>6, <1>7, <1>8, <1>9, <1>10, <1>11, <1>12, <1>13
     DEF Next, WorkerStep, RunStep, OwnerStep, Calls

-----------------------------------------------------------------------------
\* Whatever the interleaving and the spurious wakeups, a thread of the pool sleeps
\* only while what it waits for is not there, or while the thread that is to wake it,
\* or take its place, is on its way (pool.c).
THEOREM WakeupsKept == Spec => []NoLostWakeup
<1>1. Init => CountInv /\ NoLostWakeup
  <2>1. Init => CountInv
    BY CountInit
  <2>2. ASSUME Init PROVE NoLostWakeup
    <3>1. At(Workers, "sleep_push") = {} /\ At(Clients, "sleep_pop") = {} /\ pc[Owner] # "sleep_finish"
      BY <2>2, PoolAssumption DEF Init, At, Threads
    <3> QED
      BY <3>1 DEF NoLostWakeup, QueuedTaskHasTaker, FreeSlotHasTaker, WaiterIsWoken
  <2> QED
    BY <2>1, <2>2
<1>2. CountInv /\ NoLostWakeup /\ [Next]_vars => (CountInv /\ NoLostWakeup)'
  <2> SUFFICES ASSUME CountInv, NoLostWakeup, [Next]_vars PROVE CountInv' /\ NoLostWakeup'
    OBVIOUS
  <2>1. CountInv'
    BY CountNext
  <2>2. QueuedTaskHasTaker' /\ FreeSlotHasTaker' /\ WaiterIsWoken'
    BY <2>1, QueuedNext, FreeNext, WaiterNext DEF NoLostWakeup
  <2> QED
    BY <2>1, <2>2 DEF NoLostWakeup
<1> QED
  BY <1>1, <1>2, PTL DEF Spec

-----------------------------------------------------------------------------
(* The pool implements TaskPool, under the mapping of Abstract: each of its *)
(* steps is a step of the queue of tasks, or leaves it alone.               *)

\* What Abstract gives to the variables of TaskPool.
Length   == IF alive THEN pending ELSE 0
Queue    == [k \in 1 .. Length |-> slots[(head + k - 1) % NbSlots]]
Active   == {task[w] : w \in Holding}
Finished == {t \in Tasks : executed[t] # 0}

bar == <<Queue, Active, Finished, alive>>

-----------------------------------------------------------------------------
(* The queue and the ring *)

\* The slot of the k-th task from the head.
LEMMA SlotIndex ==
  ASSUME NEW h \in Slots, NEW k \in 1 .. NbSlots
  PROVE  /\ (h + k - 1) % NbSlots
              = IF h + k - 1 < NbSlots THEN h + k - 1 ELSE h + k - 1 - NbSlots
         /\ (h + k - 1) % NbSlots \in Slots
<1> DEFINE p == k - 1
<1>1. NbSlots \in Nat \ {0} /\ h \in 0 .. NbSlots - 1 /\ p \in 0 .. NbSlots - 1
  BY PoolAssumption DEF Slots
<1>2. (h + p) % NbSlots = IF h + p < NbSlots THEN h + p ELSE h + p - NbSlots
  BY <1>1, RingIndex
<1>3. h + p = h + k - 1
  BY <1>1
<1> QED
  BY <1>1, <1>2, <1>3 DEF Slots

\* The tasks of the queue are those of the live part of the ring.
LEMMA QueueIsLive ==
  ASSUME TypeOK, alive, NEW k \in 1 .. pending
  PROVE  (head + k - 1) % NbSlots \in Live
<1>1. /\ head \in 0 .. NbSlots - 1 /\ pending \in 0 .. NbSlots /\ k \in 1 .. NbSlots
      /\ NbSlots \in Nat \ {0} /\ head \in Slots
  BY PoolAssumption DEF TypeOK, Slots
<1> DEFINE i == (head + k - 1) % NbSlots
<1>2. i = (IF head + k - 1 < NbSlots THEN head + k - 1 ELSE head + k - 1 - NbSlots) /\ i \in Slots
  BY <1>1, SlotIndex
<1> HIDE DEF i
<1>3. (head <= i /\ i < head + pending) \/ i + NbSlots < head + pending
  BY <1>1, <1>2
<1>4. i \in Live
  BY <1>2, <1>3 DEF Live
<1> QED
  BY <1>4 DEF i

\* The queue is a sequence of tasks, stored and not executed, of NbSlots tasks
\* at most.
QueueTyped ==
  /\ Length \in 0 .. NbSlots
  /\ Queue \in Seq(Tasks) /\ Len(Queue) = Length
  /\ \A k \in 1 .. Length : Queue[k] \in submitted

LEMMA QueueType == IInv => QueueTyped
<1> SUFFICES ASSUME IInv PROVE QueueTyped
  OBVIOUS
<1>1. TypeOK /\ LiveTasks
  BY DEF IInv, CountInv, Items
<1>2. Length \in 0 .. NbSlots
  BY <1>1, PoolAssumption DEF TypeOK, Length
<1>3. ASSUME NEW k \in 1 .. Length PROVE slots[(head + k - 1) % NbSlots] \in submitted
  <2>1. alive /\ Length = pending
    BY <1>2, <1>3 DEF Length
  <2>2. (head + k - 1) % NbSlots \in Live
    BY <1>1, <2>1, QueueIsLive
  <2> QED
    BY <1>1, <2>2 DEF LiveTasks
<1>4. Queue \in [1 .. Length -> Tasks]
  BY <1>1, <1>3 DEF Queue, TypeOK
<1>5. Queue \in Seq(Tasks) /\ Len(Queue) = Length
  BY <1>2, <1>4
<1> QED
  BY <1>2, <1>3, <1>5 DEF Queue, QueueTyped

\* A step that leaves the ring, the tasks and their holders alone leaves the
\* abstract queue alone.
LEMMA BarKept ==
  ASSUME UNCHANGED <<head, pending, alive, slots, executed>>, Holding' = Holding,
         \A w \in Holding : task'[w] = task[w]
  PROVE  bar' = bar
<1>1. Queue' = Queue
  BY DEF Queue, Length
<1>2. Active' = Active
  BY DEF Active
<1>3. Finished' = Finished
  BY DEF Finished
<1> QED
  BY <1>1, <1>2, <1>3 DEF bar

-----------------------------------------------------------------------------
(* The steps that change the queue *)

\* A task is stored behind the others (lines 180-183): Submit.
LEMMA PushSubmits ==
  ASSUME IInv, IInv', NEW c \in Clients, RunPush(c), NEW t, t = task[c]
  PROVE  Abstract!Submit(t)
<1>1. TypeOK /\ Shutdown /\ Items /\ RequestTyped
  BY DEF IInv, CountInv
<1>2. alive /\ alive'
  BY <1>1, Zenon DEF TypeOK, Shutdown, RunPush, OwnerPC, ClientPC
<1>3. c \in Requesting /\ t \in Tasks \ submitted
  BY <1>1 DEF RunPush, Requesting, Items, Requested
<1>4. /\ Length = pending /\ Length' = pending + 1 /\ pending \in 0 .. NbSlots - 1
      /\ Length' \in 0 .. NbSlots
  BY <1>1, <1>2, PoolAssumption DEF Length, RunPush, TypeOK
<1>5. /\ Queue \in Seq(Tasks) /\ Len(Queue) = pending
      /\ \A k \in 1 .. pending : Queue[k] \in submitted
  BY <1>4, QueueType DEF QueueTyped
<1>6. Queue' \in Seq(Tasks) /\ Len(Queue') = pending + 1
  <2>1. Queue' \in Seq(Tasks) /\ Len(Queue') = Length'
    <3>1. (IInv => QueueTyped)'
      BY QueueType, PTL
    <3> QED
      BY <3>1 DEF QueueTyped
  <2> QED
    BY <1>4, <2>1
<1>7. t \notin Abstract!ToSet(Queue) \cup Active \cup Finished
  <2>1. t \notin Abstract!ToSet(Queue)
    <3>1. DOMAIN Queue = 1 .. pending
      BY <1>4 DEF Queue
    <3> QED
      BY <1>3, <1>5, <3>1 DEF Abstract!ToSet
  <2>2. t \notin Active
    BY <1>1, <1>3 DEF Active, Items, HeldTasks
  <2>3. t \notin Finished
    BY <1>1, <1>3 DEF Finished, Items, ExactlyOnce, TypeOK
  <2> QED
    BY <2>1, <2>2, <2>3
<1>8. Queue' = Append(Queue, t)
  <2>1. /\ Append(Queue, t) \in Seq(Tasks) /\ Len(Append(Queue, t)) = pending + 1
        /\ \A k \in 1 .. pending : Append(Queue, t)[k] = Queue[k]
        /\ Append(Queue, t)[pending + 1] = t
    BY <1>3, <1>4, <1>5, AppendProperties
  <2>2. /\ head' = head /\ head \in Slots
        /\ slots' = [slots EXCEPT ![(head + pending) % NbSlots] = t]
    BY <1>1 DEF RunPush, TypeOK
  <2>3. /\ (head + pending) % NbSlots \in Slots /\ (head + pending) % NbSlots \notin Live
    BY <1>1, <1>2, LiveAfterPush
  <2>4. Queue'[pending + 1] = t
    <3>1. Queue'[pending + 1] = slots'[(head + (pending + 1) - 1) % NbSlots]
      BY <1>4, <2>2 DEF Queue
    <3>2. head + (pending + 1) - 1 = head + pending
      BY <1>4, <2>2 DEF Slots
    <3> QED
      BY <1>1, <2>2, <2>3, <3>1, <3>2 DEF TypeOK
  <2>5. ASSUME NEW k \in 1 .. pending PROVE Queue'[k] = Queue[k]
    <3>1. (head + k - 1) % NbSlots \in Live
      BY <1>1, <1>2, QueueIsLive
    <3>2. (head + k - 1) % NbSlots # (head + pending) % NbSlots /\ (head + k - 1) % NbSlots \in Slots
      BY <2>3, <3>1 DEF Live
    <3>3. k \in 1 .. Length /\ k \in 1 .. Length'
      BY <1>4
    <3>4. slots'[(head + k - 1) % NbSlots] = slots[(head + k - 1) % NbSlots]
      BY <1>1, <2>2, <3>2 DEF TypeOK
    <3> QED
      BY <2>2, <3>3, <3>4 DEF Queue
  <2>6. ASSUME NEW k \in 1 .. pending + 1 PROVE Queue'[k] = Append(Queue, t)[k]
    <3>1. CASE k = pending + 1
      BY <2>1, <2>4, <3>1
    <3>2. CASE k # pending + 1
      BY <1>4, <2>1, <2>5, <3>2
    <3> QED
      BY <3>1, <3>2
  <2> QED
    BY <1>6, <2>1, <2>6, SeqEqual
<1>9. Holding' = Holding /\ task' = task /\ executed' = executed
  BY <1>1, PoolAssumption DEF RunPush, Goto, TypeOK, Holding, Threads
<1>10. Active' = Active /\ Finished' = Finished
  BY <1>9 DEF Active, Finished
<1>11. Len(Queue) < NbSlots
  BY <1>4, <1>5, PoolAssumption
<1> QED
  BY <1>2, <1>7, <1>8, <1>10, <1>11, Zenon
  DEF Abstract!Submit, Queue, Length, Active, Finished

\* A worker without a task leaves room for one more active task.
LEMMA ActiveBound ==
  ASSUME TypeOK, NEW w \in Workers, w \notin Holding
  PROVE  Cardinality(Active) < Cardinality(Workers)
<1> DEFINE f == [v \in Holding |-> task[v]]
<1>1. Holding \in SUBSET Workers /\ Holding # Workers /\ IsFiniteSet(Workers)
  BY PoolAssumption DEF Holding
<1>2. /\ IsFiniteSet(Holding) /\ Cardinality(Holding) < Cardinality(Workers)
      /\ Cardinality(Holding) \in Nat /\ Cardinality(Workers) \in Nat
  <2>1. IsFiniteSet(Holding) /\ Cardinality(Holding) <= Cardinality(Workers)
    BY <1>1, FS_Subset
  <2>2. Cardinality(Holding) # Cardinality(Workers)
    BY <1>1, FS_Subset
  <2>3. Cardinality(Holding) \in Nat /\ Cardinality(Workers) \in Nat
    BY <1>1, <2>1, FS_CardinalityType
  <2> QED
    BY <2>1, <2>2, <2>3
<1>3. f \in Surjection(Holding, Active)
  BY DEF Active, Surjection
<1>4. IsFiniteSet(Active) /\ Cardinality(Active) <= Cardinality(Holding)
  BY <1>2, <1>3, FS_Surjection
<1>5. Cardinality(Active) \in Nat
  BY <1>4, FS_CardinalityType
<1> QED
  BY <1>2, <1>4, <1>5

\* The worker that pops takes the oldest task (lines 83-88): Start.
LEMMA TakeStarts ==
  ASSUME IInv, IInv', NEW w \in Workers, Take(w)
  PROVE  Abstract!Start
<1>1. TypeOK
  BY DEF IInv, CountInv
<1>2. alive /\ alive' = alive
  BY Zenon DEF Take
<1>3. /\ Length = pending /\ Length' = pending - 1 /\ pending \in 1 .. NbSlots
  BY <1>1, <1>2, PoolAssumption DEF Length, Take, TypeOK
<1>4. Queue \in Seq(Tasks) /\ Len(Queue) = pending /\ Queue # <<>>
  <2>1. Queue \in Seq(Tasks) /\ Len(Queue) = pending
    BY <1>3, QueueType DEF QueueTyped
  <2> QED
    BY <1>3, <2>1, EmptySeq
<1>5. Queue' \in Seq(Tasks) /\ Len(Queue') = pending - 1
  <2>1. Queue' \in Seq(Tasks) /\ Len(Queue') = Length'
    <3>1. (IInv => QueueTyped)'
      BY QueueType, PTL
    <3> QED
      BY <3>1 DEF QueueTyped
  <2> QED
    BY <1>3, <2>1
<1>6. /\ head \in Slots /\ head' \in Slots /\ slots' = slots /\ NbSlots \in Nat \ {0}
      /\ head' = IF head + 1 = NbSlots THEN 0 ELSE head + 1
  <2>1. TypeOK'
    BY DEF IInv, CountInv
  <2> QED
    BY <1>1, <2>1, PoolAssumption DEF Take, TypeOK, NextHead
<1>7. Queue' = Tail(Queue)
  <2>1. /\ Tail(Queue) \in Seq(Tasks) /\ Len(Tail(Queue)) = pending - 1
        /\ \A k \in 1 .. pending - 1 : Tail(Queue)[k] = Queue[k + 1]
    BY <1>3, <1>4, HeadTailProperties
  <2>2. ASSUME NEW k \in 1 .. pending - 1 PROVE Queue'[k] = Queue[k + 1]
    <3>1. k \in 1 .. Length' /\ k + 1 \in 1 .. Length /\ k \in 1 .. NbSlots /\ k + 1 \in 1 .. NbSlots
      BY <1>3, <1>6
    <3>2. Queue'[k] = slots[(head' + k - 1) % NbSlots] /\ Queue[k + 1] = slots[(head + (k + 1) - 1) % NbSlots]
      BY <1>6, <3>1 DEF Queue
    <3>3. (head' + k - 1) % NbSlots = IF head' + k - 1 < NbSlots THEN head' + k - 1 ELSE head' + k - 1 - NbSlots
      BY <1>6, <3>1, SlotIndex
    <3>4. (head + (k + 1) - 1) % NbSlots
            = IF head + (k + 1) - 1 < NbSlots THEN head + (k + 1) - 1 ELSE head + (k + 1) - 1 - NbSlots
      BY <1>6, <3>1, SlotIndex
    <3>5. (head' + k - 1) % NbSlots = (head + (k + 1) - 1) % NbSlots
      BY <1>3, <1>6, <3>1, <3>3, <3>4 DEF Slots
    <3> QED
      BY <3>2, <3>5
  <2> QED
    BY <1>5, <2>1, <2>2, SeqEqual
<1>8. Head(Queue) = slots[head]
  <2>1. Head(Queue) = Queue[1]
    BY <1>4
  <2>2. 1 \in 1 .. Length /\ 1 \in 1 .. NbSlots
    BY <1>3, <1>6
  <2>3. Queue[1] = slots[(head + 1 - 1) % NbSlots]
    BY <2>2 DEF Queue
  <2>4. (head + 1 - 1) % NbSlots = head
    BY <1>6, <2>2, SlotIndex DEF Slots
  <2> QED
    BY <2>1, <2>3, <2>4
<1>9. Holding' = Holding \cup {w} /\ w \notin Holding
  BY <1>1 DEF Take, Goto, TypeOK, Holding, Threads
<1>10. task'[w] = slots[head] /\ \A v \in Holding : task'[v] = task[v]
  BY <1>1, <1>9 DEF Take, TypeOK, Threads, Holding
<1>11. Active' = Active \cup {Head(Queue)}
  BY <1>8, <1>9, <1>10 DEF Active
<1>12. Finished' = Finished
  BY DEF Take, history, Finished
<1>13. Cardinality(Active) < Cardinality(Workers)
  BY <1>1, <1>9, ActiveBound
<1>14. alive /\ UNCHANGED <<Finished, alive>>
  BY <1>2, <1>12
<1>15. Abstract!Cardinality(Active) = Cardinality(Active)
  BY DEF Abstract!Cardinality, Cardinality
<1> QED
  BY <1>4, <1>7, <1>11, <1>13, <1>14, <1>15, Zenon
  DEF Abstract!Start, Queue, Length, Active, Finished

\* A task is over when its function returns (line 96): Finish.
LEMMA WorkFinishes ==
  ASSUME IInv, NEW w \in Workers, Work(w), NEW t, t = task[w]
  PROVE  t \in Tasks /\ Abstract!Finish(t)
<1>1. TypeOK /\ Items
  BY DEF IInv, CountInv
<1>2. Holding' = Holding \ {w} /\ w \in Holding
  BY <1>1 DEF Work, Goto, TypeOK, Holding, Threads
<1>3. UNCHANGED <<head, pending, alive, slots, task>>
  BY DEF Work, poolVars
<1>4. /\ t \in Tasks /\ executed[t] = 0
      /\ \A v \in Holding \ {w} : task[v] # t
  BY <1>1, <1>2 DEF Items, HeldTasks, TypeOK
<1>5. /\ executed'[t] = 1
      /\ \A u \in Tasks \ {t} : executed'[u] = executed[u]
  BY <1>1, <1>4 DEF Work, TypeOK
<1>6. Active' = Active \ {t} /\ t \in Active
  BY <1>2, <1>3, <1>4 DEF Active
<1>7. Finished' = Finished \cup {t}
  BY <1>4, <1>5 DEF Finished
<1>8. Queue' = Queue
  BY <1>3 DEF Queue, Length
<1> QED
  BY <1>3, <1>4, <1>6, <1>7, <1>8, Zenon
  DEF Abstract!Finish, Queue, Length, Active, Finished

\* The pool dies with an empty ring and nobody at work (lines 217-222): Close.
LEMMA KillCloses ==
  ASSUME IInv, Kill
  PROVE  Abstract!Close
<1>1. TypeOK /\ RunningCount /\ Shutdown
  BY DEF IInv, CountInv
<1>2. running = 0 /\ pending = 0
  BY <1>1 DEF Kill, Shutdown
<1>3. alive
  BY <1>1, Zenon DEF Kill, Shutdown
<1>4. alive' = FALSE
  BY Zenon DEF Kill
<1>5. Holding = {} /\ Holding' = {}
  <2>1. IsFiniteSet(Busy)
    BY PoolAssumption, FS_Subset DEF Busy
  <2>2. Busy = {}
    BY <1>1, <1>2, <2>1, FS_EmptySet DEF RunningCount
  <2>3. Holding = {}
    BY <2>2 DEF Busy, Holding
  <2>4. Holding' = Holding
    BY <1>1, PoolAssumption DEF Kill, Goto, TypeOK, Holding, Threads
  <2> QED
    BY <2>3, <2>4
<1>6. Active = {} /\ Active' = {}
  BY <1>5 DEF Active
<1>7. Length = 0 /\ Length' = 0
  BY <1>2, <1>3, <1>4 DEF Length
<1>8. Queue = <<>> /\ Queue' = <<>>
  BY <1>7 DEF Queue
<1>9. Finished' = Finished
  BY DEF Kill, history, Finished
<1> QED
  BY <1>3, <1>4, <1>6, <1>8, <1>9, Zenon
  DEF Abstract!Close, Queue, Length, Active, Finished

-----------------------------------------------------------------------------
(* Every step *)

\* A step that leaves the abstract queue alone: every step of the pool but
\* those of the four lemmas above.
Silent ==
  \/ \E w \in Workers : \/ Loop(w) \/ TakeSleep(w) \/ TakeDie(w) \/ SignalPop(w)
                        \/ End(w) \/ SignalFinish(w)
  \/ \E c \in Clients : RunSleep(c) \/ SignalPush(c)
  \/ WaitSleep \/ WaitReturn \/ BroadcastPush \/ Join
  \/ Calls
  \/ \E t \in Threads : SpuriousWakeup(t)
  \/ UNCHANGED vars

\* Signals wake threads that hold no task.
LEMMA SignalKeepsHolding ==
  ASSUME TypeOK, NEW self \in Threads, NEW S, S \subseteq Threads,
         NEW asleep \in PC \ {"popped", "work"}, NEW awake \in PC \ {"popped", "work"},
         NEW next \in PC, pc[self] # asleep, Signal(self, S, asleep, awake, next),
         next \in {"popped", "work"} <=> pc[self] \in {"popped", "work"}
  PROVE  Holding' = Holding
<1>1. pc \in [Threads -> PC]
  BY DEF TypeOK, PC
<1>2. /\ pc'[self] = next
      /\ \A t \in Threads \ {self} :
           \/ pc'[t] = pc[t]
           \/ t \in S /\ pc[t] = asleep /\ pc'[t] = awake
  BY <1>1, SignalMoves
<1>3. ASSUME NEW w \in Workers
      PROVE  pc'[w] \in {"popped", "work"} <=> pc[w] \in {"popped", "work"}
  BY <1>2 DEF Threads
<1> QED
  BY <1>3 DEF Holding

LEMMA SilentKeeps ==
  ASSUME IInv, Silent
  PROVE  bar' = bar
<1> USE PoolAssumption DEF Threads, poolVars, history
<1>0. TypeOK
  BY DEF IInv, CountInv
<1> DEFINE Kept == /\ UNCHANGED <<head, pending, alive, slots, task, executed>>
                   /\ Holding' = Holding
<1>a. Kept => bar' = bar
  BY BarKept
<1>1. ASSUME NEW w \in Workers, Loop(w) \/ TakeSleep(w) \/ TakeDie(w) \/ End(w)
      PROVE  Kept
  <2>1. UNCHANGED <<head, pending, alive, slots, task, executed>>
    BY <1>1 DEF Loop, TakeSleep, TakeDie, End
  <2>2. Holding' = Holding
    BY <1>0, <1>1 DEF Loop, TakeSleep, TakeDie, End, Goto, TypeOK, Holding
  <2> QED
    BY <2>1, <2>2
<1>2. ASSUME NEW w \in Workers, SignalPop(w) PROVE Kept
  <2>1. /\ Signal(w, Clients, "sleep_pop", "run", "work") /\ pc[w] = "popped"
        /\ UNCHANGED <<head, pending, alive, slots, task, executed>>
    BY <1>2 DEF SignalPop
  <2>2. Holding' = Holding
    BY <1>0, <2>1, SignalKeepsHolding DEF PC, WorkerPC, ClientPC, OwnerPC
  <2> QED
    BY <2>1, <2>2
<1>3. ASSUME NEW w \in Workers, SignalFinish(w) PROVE Kept
  <2>1. /\ Signal(w, Clients, "sleep_finish", "wait", "loop") /\ pc[w] = "ended"
        /\ UNCHANGED <<head, pending, alive, slots, task, executed>>
    BY <1>3 DEF SignalFinish
  <2>2. Holding' = Holding
    BY <1>0, <2>1, SignalKeepsHolding DEF PC, WorkerPC, ClientPC, OwnerPC
  <2> QED
    BY <2>1, <2>2
<1>4. ASSUME NEW c \in Clients, SignalPush(c) PROVE Kept
  <2>1. /\ Signal(c, Workers, "sleep_push", "take", "idle") /\ pc[c] = "pushed"
        /\ UNCHANGED <<head, pending, alive, slots, task, executed>>
    BY <1>4 DEF SignalPush
  <2>2. Holding' = Holding
    BY <1>0, <2>1, SignalKeepsHolding DEF PC, WorkerPC, ClientPC, OwnerPC
  <2> QED
    BY <2>1, <2>2
<1>5. ASSUME NEW c \in Clients, RunSleep(c) PROVE Kept
  <2>1. UNCHANGED <<head, pending, alive, slots, task, executed>>
    BY <1>5 DEF RunSleep
  <2>2. Holding' = Holding
    BY <1>0, <1>5 DEF RunSleep, Goto, TypeOK, Holding
  <2> QED
    BY <2>1, <2>2
<1>6. ASSUME WaitSleep \/ WaitReturn \/ Join \/ CallWait \/ CallFree PROVE Kept
  <2>1. UNCHANGED <<head, pending, alive, slots, task, executed>>
    BY <1>6 DEF WaitSleep, WaitReturn, Join, CallWait, CallFree
  <2>2. Holding' = Holding
    <3>1. PICK where \in PC \ {"popped", "work"} : Goto(Owner, where)
      BY <1>6 DEF WaitSleep, WaitReturn, Join, CallWait, CallFree, PC, ClientPC, OwnerPC
    <3> QED
      BY <1>0, <3>1 DEF Goto, TypeOK, Holding
  <2> QED
    BY <2>1, <2>2
<1>7. ASSUME BroadcastPush PROVE Kept
  <2>1. UNCHANGED <<head, pending, alive, slots, task, executed>>
    BY <1>7 DEF BroadcastPush
  <2>2. Holding' = Holding
    BY <1>0, <1>7 DEF BroadcastPush, At, TypeOK, Holding
  <2> QED
    BY <2>1, <2>2
<1>8. ASSUME NEW c \in Clients, NEW t \in Tasks, CallRun(c, t) PROVE bar' = bar
  <2>1. UNCHANGED <<head, pending, alive, slots, executed>>
    BY <1>8 DEF CallRun
  <2>2. Holding' = Holding
    BY <1>0, <1>8 DEF CallRun, Goto, TypeOK, Holding
  <2>3. \A w \in Holding : task'[w] = task[w]
    BY <1>0, <1>8 DEF CallRun, TypeOK, Holding
  <2> QED
    BY <2>1, <2>2, <2>3, BarKept
<1>9. ASSUME NEW t \in Threads, SpuriousWakeup(t) PROVE Kept
  <2>1. UNCHANGED <<head, pending, alive, slots, task, executed>>
    BY <1>9 DEF SpuriousWakeup
  <2>2. Holding' = Holding
    BY <1>0, <1>9 DEF SpuriousWakeup, Goto, TypeOK, Holding
  <2> QED
    BY <2>1, <2>2
<1>10. ASSUME UNCHANGED vars PROVE Kept
  BY <1>10 DEF vars, Holding
<1> QED
  BY <1>a, <1>1, <1>2, <1>3, <1>4, <1>5, <1>6, <1>7, <1>8, <1>9, <1>10 DEF Silent, Calls

LEMMA StepImplements ==
  ASSUME IInv, IInv', [Next]_vars
  PROVE  [Abstract!Next]_(Abstract!vars)
<1>1. CASE Silent
  <2>1. bar' = bar
    BY <1>1, SilentKeeps
  <2> QED
    BY <2>1, Zenon DEF bar, Abstract!vars, Queue, Length, Active, Finished
<1>2. ASSUME NEW c \in Clients, RunPush(c) PROVE Abstract!Next
  <2>1. PICK t \in Tasks : t = task[c]
    BY <1>2 DEF IInv, CountInv, RequestTyped, RunPush
  <2>2. Abstract!Submit(t)
    BY <1>2, <2>1, PushSubmits
  <2> QED
    BY <2>1, <2>2 DEF Abstract!Next
<1>3. ASSUME NEW w \in Workers, Take(w) PROVE Abstract!Next
  BY <1>3, TakeStarts DEF Abstract!Next
<1>4. ASSUME NEW w \in Workers, Work(w) PROVE Abstract!Next
  <2>1. PICK t : t = task[w]
    OBVIOUS
  <2>2. t \in Tasks /\ Abstract!Finish(t)
    BY <1>4, <2>1, WorkFinishes
  <2> QED
    BY <2>2 DEF Abstract!Next
<1>5. ASSUME Kill PROVE Abstract!Next
  BY <1>5, KillCloses DEF Abstract!Next
<1>6. \/ Silent
      \/ \E c \in Clients : RunPush(c)
      \/ \E w \in Workers : Take(w) \/ Work(w)
      \/ Kill
  BY DEF Next, WorkerStep, RunStep, OwnerStep, Silent, Freed
<1> QED
  BY <1>1, <1>2, <1>3, <1>4, <1>5, <1>6

LEMMA InitImplements == Init => Abstract!Init
<1> SUFFICES ASSUME Init PROVE Abstract!Init
  OBVIOUS
<1>1. Length = 0 /\ Queue = <<>>
  BY DEF Init, Length, Queue
<1>2. Active = {}
  BY PoolAssumption DEF Init, Active, Holding, Threads
<1>3. Finished = {}
  BY DEF Init, Finished
<1>4. alive = TRUE
  BY DEF Init
<1> QED
  BY <1>1, <1>2, <1>3, <1>4, Zenon DEF Abstract!Init, Queue, Length, Active, Finished

\* Whatever the interleaving of workers, clients, late signals and spurious
\* wakeups, the pool behaves as a queue: tasks start in the order of the calls,
\* once each, no more of them than there are slots wait and no more than there
\* are workers run, and the pool closes with nothing left (pool.c:55-250).
THEOREM PoolIsAQueue == Spec => Implements
<1>1. IInv /\ IInv' /\ [Next]_vars => [Abstract!Next]_(Abstract!vars)
  BY StepImplements
<1> QED
  BY <1>1, InitImplements, Invariance, PTL DEF Spec, Implements, Abstract!Spec
=============================================================================
