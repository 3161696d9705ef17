---------------------------- MODULE SolverProofs ----------------------------
(***************************************************************************)
(* Theorems about Solver, for every number of threads and every profile of *)
(* matrix.  The threaded factorization uses the pool as PoolProofs proves  *)
(* it to be, so its inductive invariant is a part of the one below.        *)
(***************************************************************************)
EXTENDS Solver, FiniteSetTheorems, TLAPS

PP == INSTANCE PoolProofs WITH Clients <- {Main}, Owner <- Main

-----------------------------------------------------------------------------
(* The parts of the inductive invariant *)

Params == [i : Nat, jMax : Nat]
Loops  == [line : Nat, column : Nat, end : Nat]
Places == {"idle", "sequence", "batch", "fill", "wait", "line", "free",
           "factorized", "invert"}

Typed ==
  /\ first \in Profiles
  /\ dots \in [DOMAIN first -> [DOMAIN first -> Nat]]
  /\ finished \subseteq DOMAIN first
  /\ ldlt \in BOOLEAN
  /\ where \in Places
  /\ I \in Nat \ {0}
  /\ nbJobs \in Nat
  /\ id \in Nat
  /\ params \in [0 .. NbSlots - 1 -> Params]
  /\ cursor \in [Threads -> Loops]

\* Main is inside haplo_pool_run, and its task is not in the ring yet.
Requests == pc[Main] \in {"run", "sleep_pop"}

Returned == pc[Main] \notin {"wait", "sleep_finish"}

\* The batch starts a number of whole batches after line 1.
Aligned == \E q \in Nat : I = q * NbSlots + 1

\* Where main is decides what I, nb_jobs and id may be (lines 276-309).
Control ==
  /\ where = "batch" => \/ I = Size
                        \/ I < Size /\ nbJobs = NbSlots /\ Aligned
  /\ where \in {"fill", "wait", "line"} =>
       /\ I < Size
       /\ Aligned
       /\ nbJobs \in 1 .. NbSlots
       /\ nbJobs = NbSlots \/ I + nbJobs = Size
  /\ where = "fill" => id \in 0 .. nbJobs
  /\ where = "wait" => id = nbJobs
  /\ where = "line" => id \in 0 .. nbJobs - 1 /\ I + nbJobs <= Size
  /\ where = "invert" => ldlt
  /\ Requests => where = "fill" /\ id # 0 /\ task[Main] = I + id - 1

\* The tasks stored in the ring so far are the lines of the batches so far.
Submissions ==
  /\ where = "batch" => submitted = 1 .. I - 1
  /\ where = "fill" =>
       submitted = IF Requests THEN 1 .. I + id - 2 ELSE 1 .. I + id - 1
  /\ where = "wait" => submitted = 1 .. I + id - 1
  /\ where = "line" => submitted = 1 .. I + nbJobs - 1
  /\ where = "sequence" => submitted = {}
  /\ where = "idle" /\ ~ldlt => submitted = {}

\* A task not executed yet is one of the batch being filled or waited for, and
\* a task that was executed was given a line of the matrix.
Executions ==
  /\ \A t \in submitted :
       executed[t] = 0 => where \in {"fill", "wait"} /\ t >= I
  /\ where = "wait" /\ Returned => \A t \in submitted : executed[t] # 0
  /\ \A t \in submitted : executed[t] # 0 => t < Size

\* The entries of params in use.
BatchParams ==
  where \in {"fill", "wait"} =>
    \A k \in 0 .. id - 1 : params[k] = [i |-> I + k, jMax |-> I]

FinishedLines ==
  /\ where \in {"batch", "fill", "wait"} => finished = 0 .. I - 1
  /\ where = "line" => finished = 0 .. I + id - 1
  /\ where = "sequence" => finished = 0 .. cursor[Main].line - 1
  /\ where \in {"free", "factorized", "invert"} => finished = DOMAIN first
  /\ where = "idle" => finished = IF ldlt THEN DOMAIN first ELSE {0}

\* The loops on j that are going on.
Loop(t, line, end) ==
  cursor[t].line = line /\ cursor[t].end = end /\ cursor[t].column >= 1

Cursors ==
  /\ \A w \in Workers :
       cursor[w] # NoCursor => /\ pc[w] = "work"
                               /\ task[w] < Size
                               /\ Loop(w, task[w], I)
  /\ where = "sequence" => /\ cursor[Main].line \in 1 .. Size - 1
                           /\ Loop(Main, cursor[Main].line, cursor[Main].line)
  /\ where = "line" => Loop(Main, I + id, I + id) /\ cursor[Main].column >= I
  /\ where \notin {"sequence", "line"} => cursor[Main] = NoCursor

\* The products of line i with the columns before `bound' were subtracted once,
\* or perhaps not for column 1, and no other product was.
Subtracted(i, bound) ==
  \A j \in DOMAIN first :
    dots[i][j] \in IF M!HasDot(i, j) /\ j < bound
                  THEN IF j = 1 THEN {0, 1} ELSE {1}
                  ELSE {0}

\* The columns the loop of thread t has gone through.
Bound(t) == IF cursor[t].column < cursor[t].end
            THEN cursor[t].column ELSE cursor[t].end

InLoop(i) == \E t \in Threads : cursor[t] # NoCursor /\ cursor[t].line = i

\* The lines whose task was executed.
Ran == {t \in submitted : executed[t] # 0}

\* How far each line is.
Progress ==
  /\ \A i \in finished : Subtracted(i, i)
  /\ \A t \in Threads :
       cursor[t] # NoCursor => Subtracted(cursor[t].line, Bound(t))
  /\ \A i \in DOMAIN first \ finished :
       ~InLoop(i) => Subtracted(i, IF i \in Ran THEN I ELSE 0)

Algorithm == Control /\ Submissions /\ Executions /\ BatchParams
             /\ FinishedLines /\ Cursors

SInv == Typed /\ Algorithm /\ Progress /\ PP!IInv
-----------------------------------------------------------------------------
(* The constants *)

\* The greater of two numbers (lines 151-152).
LEMMA MaxOfTwo ==
  ASSUME NEW a \in Nat, NEW b \in Nat
  PROVE  Max({a, b}) = IF a >= b THEN a ELSE b
<1>1. Max({a, b}) = CHOOSE x \in {a, b} : \A y \in {a, b} : x >= y
  BY DEF Max
<1>2. \E x \in {a, b} : \A y \in {a, b} : x >= y
  OBVIOUS
<1>3. Max({a, b}) \in {a, b} /\ \A y \in {a, b} : Max({a, b}) >= y
  BY <1>1, <1>2
<1> QED
  BY <1>3

\* The assumptions of Pool hold of the pool of the solver.
LEMMA PoolHolds == PP!PoolAssumption /\ NbSlots \in Nat \ {0}
<1>1. Cardinality(Workers) \in Nat \ {0}
  BY SolverAssumption, FS_CardinalityType, FS_EmptySet
<1>2. IsFiniteSet({Main})
  BY FS_Singleton
<1>3. NbSlots \in Nat \ {0}
  BY <1>1, SolverAssumption
<1> QED
  BY <1>2, <1>3, SolverAssumption DEF PP!PoolAssumption, PP!IsFiniteSet, IsFiniteSet

\* The matrix is a skyline of one line at least.
LEMMA Skyline ==
  ASSUME first \in Profiles
  PROVE  /\ Size \in Nat \ {0}
         /\ DOMAIN first = 0 .. Size - 1
         /\ \A i \in DOMAIN first : first[i] \in 0 .. i
         /\ 1 .. Size + NbSlots - 2 \subseteq Tasks
<1>1. Size \in Nat \ {0}
  BY ProfilesAssumption, FS_CardinalityType, FS_EmptySet DEF Size
<1>2. Cardinality(DOMAIN first) = M!Cardinality(DOMAIN first)
  BY DEF M!Cardinality, Cardinality
<1> QED
  BY <1>1, <1>2, ProfilesAssumption DEF Size, M!IsProfile

-----------------------------------------------------------------------------
(* The pool *)

\* The pool of the proofs is the pool of the solver, action by action.
LEMMA SameWorker ==
  ASSUME NEW w
  PROVE  /\ P!Loop(w) => PP!Loop(w)
         /\ P!TakeSleep(w) => PP!TakeSleep(w)
         /\ P!TakeDie(w) => PP!TakeDie(w)
         /\ P!Take(w) => PP!Take(w)
         /\ P!SignalPop(w) => PP!SignalPop(w)
         /\ P!Work(w) => PP!Work(w)
         /\ P!End(w) => PP!End(w)
         /\ P!SignalFinish(w) => PP!SignalFinish(w)
BY DEF P!Loop, PP!Loop, P!TakeSleep, PP!TakeSleep, P!TakeDie, PP!TakeDie,
       P!Take, PP!Take, P!SignalPop, PP!SignalPop, P!Work, PP!Work,
       P!End, PP!End, P!SignalFinish, PP!SignalFinish, P!Goto, PP!Goto,
       P!NextHead, PP!NextHead, P!Signal, PP!Signal, P!At, PP!At,
       P!history, PP!history, P!poolVars, PP!poolVars

\* The pool of the solver, with main its only client, is the pool PoolProofs
\* proves about.
LEMMA SameClient ==
  ASSUME NEW c, NEW t
  PROVE  /\ P!RunStep(c) => PP!RunStep(c)
         /\ P!OwnerStep => PP!OwnerStep
         /\ P!SpuriousWakeup(c) => PP!SpuriousWakeup(c)
         /\ P!CallRun(c, t) => PP!CallRun(c, t)
         /\ P!CallWait => PP!CallWait
         /\ P!CallFree => PP!CallFree
         /\ P!Init => PP!Init
BY DEF P!RunStep, PP!RunStep, P!RunSleep, PP!RunSleep, P!RunPush, PP!RunPush,
       P!SignalPush, PP!SignalPush, P!OwnerStep, PP!OwnerStep,
       P!WaitSleep, PP!WaitSleep, P!WaitReturn, PP!WaitReturn, P!Kill, PP!Kill,
       P!BroadcastPush, PP!BroadcastPush, P!Join, PP!Join,
       P!SpuriousWakeup, PP!SpuriousWakeup, P!CallRun, PP!CallRun,
       P!CallWait, PP!CallWait, P!CallFree, PP!CallFree, P!Goto, PP!Goto,
       P!Signal, PP!Signal, P!At, PP!At, P!history, PP!history,
       P!poolVars, PP!poolVars, P!Threads, PP!Threads, P!Init, PP!Init, P!Slots, PP!Slots

\* What main and the tasks see of a step of the pool: no task begins or ends,
\* a task is stored only for main, and haplo_pool_wait returns only when all of
\* them were executed.
PoolMoves ==
  /\ executed' = executed
  /\ task'[Main] = task[Main]
  /\ \A w \in Workers : pc[w] = "work" => pc'[w] = "work" /\ task'[w] = task[w]
  /\ Requests' => Requests
  /\ submitted' = IF Requests /\ ~Requests'
                  THEN submitted \cup {task[Main]} ELSE submitted
  /\ ~Returned /\ Returned' => \A t \in submitted : executed[t] # 0

\* What a step inside the pool may change of what the algorithm looks at: main
\* returns from haplo_pool_wait only when nothing is left to execute.
LEMMA PoolStepMoves ==
  ASSUME PP!IInv, PoolStep
  PROVE  PoolMoves
<1> USE PoolHolds, SolverAssumption
<1>0. PP!TypeOK
  BY DEF PP!IInv, PP!CountInv
<1> USE <1>0 DEF PoolMoves, Requests, Returned, PP!TypeOK, PP!Threads, P!Goto,
  P!Signal, P!At, P!poolVars, P!history, Threads
<1>1. ASSUME NEW w \in Workers, P!Loop(w) PROVE PoolMoves
  BY <1>1 DEF P!Loop
<1>2. ASSUME NEW w \in Workers, P!TakeSleep(w) PROVE PoolMoves
  BY <1>2 DEF P!TakeSleep
<1>3. ASSUME NEW w \in Workers, P!TakeDie(w) PROVE PoolMoves
  BY <1>3 DEF P!TakeDie
<1>4. ASSUME NEW w \in Workers, P!Take(w) PROVE PoolMoves
  BY <1>4 DEF P!Take
<1>5. ASSUME NEW w \in Workers, P!SignalPop(w) PROVE PoolMoves
  BY <1>5 DEF P!SignalPop
<1>6. ASSUME NEW w \in Workers, P!End(w) PROVE PoolMoves
  BY <1>6 DEF P!End
<1>7. ASSUME NEW w \in Workers, P!SignalFinish(w) PROVE PoolMoves
  BY <1>7 DEF P!SignalFinish
<1>8. ASSUME P!RunSleep(Main) PROVE PoolMoves
  BY <1>8 DEF P!RunSleep
<1>9. ASSUME P!RunPush(Main) PROVE PoolMoves
  BY <1>9 DEF P!RunPush
<1>10. ASSUME P!SignalPush(Main) PROVE PoolMoves
  BY <1>10 DEF P!SignalPush
<1>11. ASSUME P!WaitSleep PROVE PoolMoves
  BY <1>11 DEF P!WaitSleep
<1>12. ASSUME P!WaitReturn PROVE PoolMoves
  <2>1. \A t \in submitted : executed[t] # 0
    BY <1>12, PP!NothingLeft DEF P!WaitReturn
  <2> QED
    BY <1>12, <2>1 DEF P!WaitReturn
<1>13. ASSUME P!Kill PROVE PoolMoves
  BY <1>13 DEF P!Kill
<1>14. ASSUME P!BroadcastPush PROVE PoolMoves
  BY <1>14 DEF P!BroadcastPush, P!Threads
<1>15. ASSUME P!Join PROVE PoolMoves
  BY <1>15 DEF P!Join
<1>16. ASSUME NEW t \in Threads, P!SpuriousWakeup(t) PROVE PoolMoves
  BY <1>16 DEF P!SpuriousWakeup
<1> QED
  BY <1>1, <1>2, <1>3, <1>4, <1>5, <1>6, <1>7, <1>8, <1>9, <1>10, <1>11, <1>12,
     <1>13, <1>14, <1>15, <1>16
  DEF PoolStep, P!RunStep, P!OwnerStep

\* The line given to haplo_pool_run is a task.
LEMMA FillsTask ==
  ASSUME Typed, Control, where = "fill", id < nbJobs
  PROVE  I + id \in Tasks /\ id \in 0 .. NbSlots - 1
<1>1. Size \in Nat \ {0} /\ 1 .. Size + NbSlots - 2 \subseteq Tasks
  BY Skyline DEF Typed
<1>2. I \in Nat \ {0} /\ I < Size /\ nbJobs \in 1 .. NbSlots /\ id \in Nat
  BY DEF Typed, Control
<1>3. I + id \in 1 .. Size + NbSlots - 2
  BY <1>1, <1>2, PoolHolds
<1> QED
  BY <1>1, <1>2, <1>3, PoolHolds

\* Whatever the solver does, the pool does a step of its own or none.
LEMMA PoolSteps ==
  ASSUME Typed, Control, [Next]_vars
  PROVE  [PP!Next]_(PP!vars)
<1> USE DEF poolVars, PP!vars, PP!poolVars, PP!history
<1>1. ASSUME NEW threaded \in BOOLEAN, Solve(threaded) PROVE UNCHANGED PP!vars
  BY <1>1 DEF Solve
<1>2. ASSUME MainStep PROVE [PP!Next]_(PP!vars)
  <2>1. ASSUME SequenceColumn \/ SequenceFinish \/ Waited \/ LineColumn
                 \/ LineFinish \/ Freed \/ Factorized \/ Invert
        PROVE  UNCHANGED PP!vars
    BY <2>1 DEF SequenceColumn, SequenceFinish, Waited, LineColumn, LineFinish,
      Freed, Factorized, Invert
  <2>2. ASSUME Batch PROVE P!CallFree \/ UNCHANGED PP!vars
    BY <2>2 DEF Batch
  <2>3. ASSUME Fill PROVE P!CallRun(Main, I + id) /\ I + id \in Tasks
    BY <2>3, FillsTask DEF Fill
  <2>4. ASSUME FillEnd PROVE P!CallWait
    BY <2>4 DEF FillEnd
  <2> QED
    BY <1>2, <2>1, <2>2, <2>3, <2>4, SameClient
    DEF MainStep, PP!Next, PP!Calls
<1>3. ASSUME NEW w \in Workers, WorkerStep(w) PROVE [PP!Next]_(PP!vars)
  <2>1. P!Work(w) \/ UNCHANGED PP!vars
    BY <1>3 DEF WorkerStep, TaskBegin, TaskColumn, TaskEnd
  <2> QED
    BY <2>1, SameWorker DEF PP!Next, PP!WorkerStep
<1>4. ASSUME PoolStep PROVE PP!Next
  <2>1. ASSUME NEW w \in Workers,
               \/ P!Loop(w) \/ P!TakeSleep(w) \/ P!TakeDie(w) \/ P!Take(w)
               \/ P!SignalPop(w) \/ P!End(w) \/ P!SignalFinish(w)
        PROVE  PP!WorkerStep(w)
    BY <2>1, SameWorker DEF PP!WorkerStep
  <2>2. ASSUME NEW t \in Threads, P!SpuriousWakeup(t)
        PROVE  t \in PP!Threads /\ PP!SpuriousWakeup(t)
    BY <2>2, SameClient DEF Threads, PP!Threads
  <2>3. /\ P!RunStep(Main) => PP!RunStep(Main)
        /\ P!OwnerStep => PP!OwnerStep
    BY SameClient
  <2> QED
    BY <1>4, <2>1, <2>2, <2>3 DEF PoolStep, PP!Next
<1>5. ASSUME Done \/ UNCHANGED vars PROVE UNCHANGED PP!vars
  BY <1>5 DEF Done, vars
<1> QED
  BY <1>1, <1>2, <1>3, <1>4, <1>5 DEF Next

\* A step of the solver keeps the inductive invariant of its pool.
LEMMA PoolNext ==
  ASSUME Typed, Control, PP!IInv, [Next]_vars
  PROVE  PP!IInv'
<1>1. PP!CountInv' /\ PP!Items'
  BY PoolSteps, PoolHolds, PP!CountNext, PP!ItemsNext DEF PP!IInv
<1> QED
  BY <1>1 DEF PP!IInv

-----------------------------------------------------------------------------
(* The steps of main, the tasks and the pool keep the algorithm in order *)

\* The loop solver_line_factorize starts is after column j_min and after the
\* first column of the line (lines 151-155).
LEMMA CursorIs ==
  ASSUME Typed, NEW i \in DOMAIN first, NEW jMin \in Nat, NEW jMax \in Nat
  PROVE  /\ Cursor(i, jMin, jMax) \in Loops
         /\ Cursor(i, jMin, jMax) # NoCursor
         /\ Cursor(i, jMin, jMax).line = i
         /\ Cursor(i, jMin, jMax).end = jMax
         /\ Cursor(i, jMin, jMax).column =
              IF jMin >= first[i] THEN jMin + 1 ELSE first[i] + 1
         /\ Cursor(i, jMin, jMax).column >= jMin + 1
<1>1. first[i] \in Nat /\ i \in Nat
  BY Skyline DEF Typed
<1>2. Max({jMin, first[i]}) = IF jMin >= first[i] THEN jMin ELSE first[i]
  BY <1>1, MaxOfTwo
<1> DEFINE c == IF jMin >= first[i] THEN jMin + 1 ELSE first[i] + 1
<1>3. c \in Nat /\ c >= jMin + 1 /\ c # 0
  BY <1>1
<1>4. Cursor(i, jMin, jMax) = [line |-> i, column |-> c, end |-> jMax]
  BY <1>1, <1>2 DEF Cursor
<1> HIDE DEF c
<1>5. /\ Cursor(i, jMin, jMax) \in Loops
      /\ Cursor(i, jMin, jMax) # NoCursor
      /\ Cursor(i, jMin, jMax).line = i
      /\ Cursor(i, jMin, jMax).end = jMax
      /\ Cursor(i, jMin, jMax).column = c
  BY <1>1, <1>3, <1>4 DEF NoCursor, Loops
<1> QED
  BY <1>3, <1>5 DEF c

\* The remainder is unique.
LEMMA Remainder ==
  ASSUME NEW n \in Nat \ {0}, NEW q \in Nat, NEW r \in 0 .. n - 1
  PROVE  (q * n + r) % n = r
OBVIOUS

\* The k-th task of the batch is given the k-th entry of params.
LEMMA AlignedEntry ==
  ASSUME Aligned, NEW k \in 0 .. NbSlots - 1
  PROVE  ParamOf(I + k) = k
<1>1. PICK q \in Nat : I = q * NbSlots + 1
  BY DEF Aligned
<1>2. I + k - 1 = q * NbSlots + k
  BY <1>1, PoolHolds
<1>3. (q * NbSlots + k) % NbSlots = k
  BY PoolHolds, Remainder
<1> QED
  BY <1>1, <1>2, <1>3, PoolHolds DEF ParamOf

\* The first batch starts on line 1 (line 276).
LEMMA AlignedFirst == I = 1 => Aligned
<1>1. 1 = 0 * NbSlots + 1
  BY PoolHolds
<1> QED
  BY <1>1 DEF Aligned

\* So does, a whole batch later, the next one.
LEMMA AlignedNext ==
  ASSUME Aligned, I' = I + NbSlots
  PROVE  Aligned'
<1>1. PICK q \in Nat : I = q * NbSlots + 1
  BY DEF Aligned
<1>2. I' = (q + 1) * NbSlots + 1
  BY <1>1, PoolHolds
<1> QED
  BY <1>2 DEF Aligned

\* A task that a worker is about to run or runs is one of the batch, its entry
\* of params is its own, and no other worker has it.
LEMMA WorkerTask ==
  ASSUME Typed, Control, Submissions, Executions, BatchParams, PP!IInv,
         NEW w \in Workers, pc[w] = "work"
  PROVE  /\ task[w] \in submitted
         /\ executed[task[w]] = 0
         /\ where \in {"fill", "wait"}
         /\ task[w] \in I .. I + id - 1
         /\ params[ParamOf(task[w])] = [i |-> task[w], jMax |-> I]
         /\ \A v \in Workers \ {w} : pc[v] = "work" => task[v] # task[w]
<1>1. PP!HeldTasks
  BY DEF PP!IInv, PP!Items
<1>2. /\ task[w] \in submitted
      /\ executed[task[w]] = 0
      /\ \A v \in Workers \ {w} : pc[v] = "work" => task[v] # task[w]
  BY <1>1 DEF PP!HeldTasks, PP!Holding
<1>3. where \in {"fill", "wait"} /\ task[w] >= I
  BY <1>2 DEF Executions
<1>4. I \in Nat /\ id \in Nat /\ nbJobs \in 1 .. NbSlots /\ id <= nbJobs /\ Aligned
  BY <1>3 DEF Typed, Control
<1>5. task[w] \in I .. I + id - 1
  BY <1>2, <1>3, <1>4 DEF Submissions
<1>6. PICK k \in 0 .. id - 1 : task[w] = I + k
  <2>1. task[w] - I \in 0 .. id - 1 /\ task[w] = I + (task[w] - I)
    BY <1>4, <1>5
  <2> QED
    BY <2>1
<1>7. k \in 0 .. NbSlots - 1 /\ ParamOf(task[w]) = k
  BY <1>4, <1>6, PoolHolds, AlignedEntry
<1>8. params[k] = [i |-> I + k, jMax |-> I]
  BY <1>3, <1>6 DEF BatchParams
<1> QED
  BY <1>2, <1>3, <1>5, <1>6, <1>7, <1>8

\* A loop of a worker is that of its task.
LEMMA WorkerLoop ==
  ASSUME Typed, Algorithm, PP!IInv, NEW w \in Workers, cursor[w] # NoCursor
  PROVE  /\ pc[w] = "work"
         /\ cursor[w].line = task[w] /\ cursor[w].end = I
         /\ task[w] \in I .. I + id - 1 /\ task[w] \in DOMAIN first
         /\ where \in {"fill", "wait"}
         /\ cursor[Main] = NoCursor
<1>1. pc[w] = "work" /\ task[w] < Size /\ Loop(w, task[w], I)
  BY DEF Algorithm, Cursors
<1>2. where \in {"fill", "wait"} /\ task[w] \in I .. I + id - 1
  BY <1>1, WorkerTask DEF Algorithm
<1>3. cursor[Main] = NoCursor
  BY <1>2 DEF Algorithm, Cursors
<1> QED
  BY <1>1, <1>2, <1>3, Skyline DEF Loop, Typed

\* The sequential loop on line 1 (lines 357-359).
LEMMA FirstCursor ==
  ASSUME Typed, 1 \in DOMAIN first
  PROVE  /\ Cursor(1, 1, 1) \in Loops
         /\ Cursor(1, 1, 1).line = 1 /\ Cursor(1, 1, 1).end = 1
         /\ Cursor(1, 1, 1).column >= 1
<1>1. Cursor(1, 1, 1) \in Loops
  BY CursorIs
<1>2. Cursor(1, 1, 1).line = 1
  BY CursorIs
<1>3. Cursor(1, 1, 1).end = 1
  BY CursorIs
<1>4. Cursor(1, 1, 1).column >= 1 + 1
  BY CursorIs
<1> QED
  BY <1>1, <1>2, <1>3, <1>4 DEF Loops

\* solver() factorizes the matrix, or goes to the substitutions when that was
\* done by an earlier call (lines 426-455).
LEMMA SolveKeeps ==
  ASSUME Typed, Algorithm, PP!IInv, NEW threaded \in BOOLEAN, Solve(threaded)
  PROVE  Typed' /\ Algorithm'
<1> USE SolverAssumption, PoolHolds
<1> USE DEF Algorithm, Solve, matrix, poolVars
<1>0. /\ where = "idle"
      /\ UNCHANGED <<pc, task, submitted, executed, first, dots, finished, id,
                     params, ldlt>>
      /\ Size' = Size /\ Size \in Nat \ {0}
      /\ Requests' = Requests /\ ~Requests
      /\ \A w \in Workers : cursor[w] = NoCursor
  BY Skyline, WorkerLoop DEF Typed, Requests, Size, Control
<1>1. CASE ldlt
  <2>1. where' = "invert" /\ UNCHANGED <<I, nbJobs, cursor>>
    BY <1>1
  <2>2. Typed'
    BY <1>0, <2>1 DEF Typed, Places
  <2>3. Control' /\ Submissions' /\ BatchParams' /\ FinishedLines' /\ Cursors'
    BY <1>0, <1>1, <2>1
    DEF Control, Submissions, BatchParams, FinishedLines, Cursors
  <2>4. Executions'
    BY <1>0, <2>1 DEF Executions
  <2> QED
    BY <2>2, <2>3, <2>4
<1>2. CASE ~ldlt /\ threaded
  <2>1. where' = "batch" /\ I' = 1 /\ nbJobs' = NbSlots /\ cursor' = cursor
    BY <1>2
  <2>2. Typed'
    BY <1>0, <2>1 DEF Typed, Places
  <2>3. submitted = {}
    BY <1>0, <1>2 DEF Submissions
  <2>4. Control'
    <3>1. (I = 1 => Aligned)'
      BY AlignedFirst, PTL
    <3> QED
      BY <1>0, <2>1, <3>1 DEF Control
  <2>5. Submissions' /\ BatchParams' /\ FinishedLines' /\ Cursors' /\ Executions'
    BY <1>0, <1>2, <2>1, <2>3
    DEF Submissions, BatchParams, FinishedLines, Cursors, Executions
  <2> QED
    BY <2>2, <2>4, <2>5
<1>3. CASE ~ldlt /\ ~threaded /\ Size > 1
  <2>1. /\ where' = "sequence" /\ UNCHANGED <<I, nbJobs>>
        /\ cursor' = [cursor EXCEPT ![Main] = Cursor(1, 1, 1)]
    BY <1>3
  <2>2. 1 \in DOMAIN first
    BY <1>3, Skyline DEF Typed
  <2>3. /\ Cursor(1, 1, 1) \in Loops
        /\ Cursor(1, 1, 1).line = 1 /\ Cursor(1, 1, 1).end = 1
        /\ Cursor(1, 1, 1).column >= 1
    BY <2>2, FirstCursor
  <2>4. Typed' /\ cursor'[Main] = Cursor(1, 1, 1)
        /\ \A w \in Workers : cursor'[w] = NoCursor
    BY <1>0, <2>1, <2>3 DEF Typed, Places, Threads
  <2>5. submitted = {} /\ finished = {0}
    BY <1>0, <1>3 DEF Submissions, FinishedLines
  <2>6. Control' /\ Submissions' /\ BatchParams' /\ Executions'
    BY <1>0, <2>1, <2>5 DEF Control, Submissions, BatchParams, Executions
  <2>7. FinishedLines' /\ Cursors'
    BY <1>0, <1>3, <2>1, <2>3, <2>4, <2>5 DEF FinishedLines, Cursors, Loop
  <2> QED
    BY <2>4, <2>6, <2>7
<1>4. CASE ~ldlt /\ ~threaded /\ Size <= 1
  <2>1. where' = "factorized" /\ UNCHANGED <<I, nbJobs, cursor>>
    BY <1>0, <1>4
  <2>2. Typed'
    BY <1>0, <2>1 DEF Typed, Places
  <2>3. submitted = {} /\ finished = {0} /\ DOMAIN first = {0}
    BY <1>0, <1>4, Skyline DEF Submissions, FinishedLines, Typed
  <2>4. Algorithm'
    BY <1>0, <2>1, <2>3
    DEF Control, Submissions, BatchParams, FinishedLines, Cursors, Executions
  <2> QED
    BY <2>2, <2>4
<1> QED
  BY <1>0, <1>1, <1>2, <1>3, <1>4

\* One turn of the loop on j (lines 155-169).
LEMMA ColumnIs ==
  ASSUME Typed, NEW t \in Threads, cursor[t].line \in DOMAIN first, Column(t)
  PROVE  /\ cursor[t].column < cursor[t].end
         /\ UNCHANGED <<first, finished>>
         /\ dots' \in [DOMAIN first -> [DOMAIN first -> Nat]]
         /\ cursor' \in [Threads -> Loops]
         /\ cursor'[t].line = cursor[t].line
         /\ cursor'[t].end = cursor[t].end
         /\ cursor'[t].column = cursor[t].column + 1
         /\ cursor'[t] # NoCursor
         /\ \A u \in Threads \ {t} : cursor'[u] = cursor[u]
         /\ \A i \in DOMAIN first, j \in DOMAIN first :
              dots'[i][j] =
                IF i = cursor[t].line /\ j = cursor[t].column /\ M!HasDot(i, j)
                THEN dots[i][j] + 1 ELSE dots[i][j]
<1> DEFINE l == cursor[t].line
           c == cursor[t].column
<1>1. /\ c < cursor[t].end
      /\ dots' = IF M!HasDot(l, c) THEN [dots EXCEPT ![l][c] = @ + 1] ELSE dots
      /\ cursor' = [cursor EXCEPT ![t].column = c + 1]
      /\ UNCHANGED <<first, finished>>
  BY DEF Column
<1>2. cursor \in [Threads -> Loops] /\ cursor[t] \in Loops
  BY DEF Typed
<1>3. /\ cursor' \in [Threads -> Loops]
      /\ cursor'[t] = [cursor[t] EXCEPT !.column = c + 1]
      /\ \A u \in Threads \ {t} : cursor'[u] = cursor[u]
  BY <1>1, <1>2 DEF Loops
<1>4. /\ cursor'[t].line = l
      /\ cursor'[t].end = cursor[t].end
      /\ cursor'[t].column = c + 1
      /\ cursor'[t] # NoCursor
  BY <1>2, <1>3 DEF Loops, NoCursor
<1>5. l \in DOMAIN first /\ c \in Nat /\ DOMAIN first \subseteq Nat
  BY <1>2, Skyline DEF Loops, Typed
<1>6. M!HasDot(l, c) => c \in DOMAIN first
  BY <1>5, Skyline DEF Typed, M!HasDot, M!Stored
<1> HIDE DEF l, c
<1>7. dots \in [DOMAIN first -> [DOMAIN first -> Nat]]
  BY DEF Typed
<1>8. /\ dots' \in [DOMAIN first -> [DOMAIN first -> Nat]]
      /\ \A i \in DOMAIN first, j \in DOMAIN first :
           dots'[i][j] = IF i = l /\ j = c /\ M!HasDot(i, j)
                         THEN dots[i][j] + 1 ELSE dots[i][j]
  BY <1>1, <1>5, <1>6, <1>7
<1> QED
  BY <1>1, <1>3, <1>4, <1>8 DEF l, c

\* A step of the loop of main moves nothing but that loop.
LEMMA MainColumnKeeps ==
  ASSUME Typed, Algorithm, PP!IInv, SequenceColumn \/ LineColumn
  PROVE  Typed' /\ Algorithm'
<1> USE SolverAssumption, PoolHolds
<1>0. /\ where \in {"sequence", "line"} /\ Column(Main)
      /\ UNCHANGED <<pc, task, submitted, executed, I, nbJobs, id, params,
                     ldlt, where>>
  BY DEF SequenceColumn, LineColumn, poolVars, batch
<1>1. cursor[Main].line \in DOMAIN first /\ Main \in Threads
  BY <1>0, Skyline DEF Typed, Algorithm, Control, Cursors, Loop, Threads
<1>2. /\ UNCHANGED <<first, finished>>
      /\ dots' \in [DOMAIN first -> [DOMAIN first -> Nat]]
      /\ cursor' \in [Threads -> Loops]
      /\ cursor'[Main].line = cursor[Main].line
      /\ cursor'[Main].end = cursor[Main].end
      /\ cursor'[Main].column = cursor[Main].column + 1
      /\ \A w \in Workers : cursor'[w] = cursor[w]
  BY <1>0, <1>1, ColumnIs DEF Threads
<1>3. Size' = Size /\ Requests' = Requests /\ Returned' = Returned
  BY <1>0, <1>2 DEF Size, Requests, Returned
<1>4. Typed'
  BY <1>0, <1>2 DEF Typed
<1>5. Control' /\ Submissions' /\ BatchParams' /\ FinishedLines'
  BY <1>0, <1>2, <1>3
  DEF Algorithm, Control, Submissions, BatchParams, FinishedLines, Aligned
<1>6. Executions'
  BY <1>0, <1>2, <1>3 DEF Algorithm, Executions
<1>7. Cursors'
  <2>1. cursor[Main].column \in Nat
    BY <1>1 DEF Typed, Loops
  <2> QED
    BY <1>0, <1>2, <1>3, <2>1 DEF Algorithm, Cursors, Loop, Typed
<1> QED
  BY <1>4, <1>5, <1>6, <1>7 DEF Algorithm

\* Outside the parallel part no worker is in a loop.
LEMMA NoWorkerLoop ==
  ASSUME Typed, Algorithm, PP!IInv, where \notin {"fill", "wait"}
  PROVE  \A w \in Workers : cursor[w] = NoCursor
BY WorkerLoop

\* The sequential loop ends a line and takes the next (lines 357-361).
LEMMA SequenceFinishKeeps ==
  ASSUME Typed, Algorithm, PP!IInv, SequenceFinish
  PROVE  Typed' /\ Algorithm'
<1> USE SolverAssumption, PoolHolds
<1> DEFINE i == cursor[Main].line
<1>0. /\ where = "sequence"
      /\ finished' = finished \cup {i}
      /\ UNCHANGED <<pc, task, submitted, executed, I, nbJobs, id, params,
                     ldlt, first, dots>>
      /\ IF i + 1 < Size
         THEN where' = where /\ cursor' = [cursor EXCEPT ![Main] = Cursor(i + 1, 1, i + 1)]
         ELSE where' = "factorized" /\ cursor' = [cursor EXCEPT ![Main] = NoCursor]
  BY DEF SequenceFinish, FinishLine, poolVars, batch
<1>1. /\ i \in 1 .. Size - 1 /\ Size \in Nat
      /\ finished = 0 .. i - 1 /\ submitted = {}
      /\ DOMAIN first = 0 .. Size - 1
      /\ \A w \in Workers : cursor[w] = NoCursor
      /\ ~Requests
  BY <1>0, Skyline, NoWorkerLoop
  DEF Typed, Algorithm, Control, Cursors, FinishedLines, Submissions
<1>2. Size' = Size /\ Requests' = Requests /\ Returned' = Returned
  BY <1>0 DEF Size, Requests, Returned
<1> HIDE DEF i
<1>3. finished' = 0 .. i
  BY <1>0, <1>1
<1>4. Control' /\ Submissions' /\ BatchParams' /\ Executions'
  BY <1>0, <1>1, <1>2
  DEF Algorithm, Control, Submissions, BatchParams, Executions
<1>5. CASE i + 1 < Size
  <2>1. /\ i + 1 \in DOMAIN first /\ i + 1 \in Nat
        /\ where' = where
        /\ cursor' = [cursor EXCEPT ![Main] = Cursor(i + 1, 1, i + 1)]
    BY <1>0, <1>1, <1>5
  <2>2. /\ Cursor(i + 1, 1, i + 1) \in Loops
        /\ Cursor(i + 1, 1, i + 1).line = i + 1
        /\ Cursor(i + 1, 1, i + 1).end = i + 1
        /\ Cursor(i + 1, 1, i + 1).column >= 1 + 1
    BY <2>1, CursorIs
  <2>3. /\ cursor' \in [Threads -> Loops]
        /\ cursor'[Main] = Cursor(i + 1, 1, i + 1)
        /\ \A w \in Workers : cursor'[w] = NoCursor
    BY <1>1, <2>1, <2>2 DEF Typed, Threads
  <2>4. Typed'
    <3>1. finished' \subseteq DOMAIN first
      BY <1>1, <1>3, <1>5
    <3> QED
      BY <1>0, <2>1, <2>3, <3>1 DEF Typed
  <2>5. FinishedLines'
    BY <1>0, <1>1, <1>3, <2>1, <2>2, <2>3 DEF FinishedLines
  <2>6. Cursor(i + 1, 1, i + 1).column >= 1
    BY <2>2 DEF Loops
  <2>7. Cursors'
    BY <1>0, <1>1, <1>2, <1>5, <2>1, <2>2, <2>3, <2>6 DEF Cursors, Loop
  <2> QED
    BY <1>4, <2>4, <2>5, <2>7 DEF Algorithm
<1>6. CASE ~(i + 1 < Size)
  <2>1. /\ where' = "factorized"
        /\ cursor' = [cursor EXCEPT ![Main] = NoCursor]
    BY <1>0, <1>6
  <2>2. /\ cursor' \in [Threads -> Loops]
        /\ cursor'[Main] = NoCursor
        /\ \A w \in Workers : cursor'[w] = NoCursor
    BY <1>1, <2>1 DEF Typed, Threads, Loops, NoCursor
  <2>3. finished' = DOMAIN first
    BY <1>1, <1>3, <1>6
  <2>4. Typed'
    BY <1>0, <2>1, <2>2, <2>3 DEF Typed, Places
  <2>5. FinishedLines' /\ Cursors'
    BY <1>0, <2>1, <2>2, <2>3 DEF FinishedLines, Cursors
  <2> QED
    BY <1>4, <2>4, <2>5 DEF Algorithm
<1> QED
  BY <1>5, <1>6

\* The batch loop cuts the last batch, or ends (lines 276-284).
LEMMA BatchKeeps ==
  ASSUME Typed, Algorithm, PP!IInv, Batch
  PROVE  Typed' /\ Algorithm'
<1> USE SolverAssumption, PoolHolds
<1>0. /\ where = "batch"
      /\ UNCHANGED <<first, dots, finished, I, params, ldlt, cursor>>
      /\ I \in Nat \ {0} /\ nbJobs \in Nat
      /\ I = Size \/ (I < Size /\ nbJobs = NbSlots /\ Aligned)
      /\ submitted = 1 .. I - 1
      /\ finished = 0 .. I - 1
      /\ cursor[Main] = NoCursor
      /\ \A w \in Workers : cursor[w] = NoCursor
      /\ ~Requests
  <2>1. where = "batch" /\ UNCHANGED <<first, dots, finished, I, params, ldlt, cursor>>
    BY DEF Batch, matrix
  <2>2. \A w \in Workers : cursor[w] = NoCursor
    BY <2>1, NoWorkerLoop
  <2>3. /\ I = Size \/ (I < Size /\ nbJobs = NbSlots /\ Aligned)
        /\ ~Requests
    BY <2>1 DEF Algorithm, Control
  <2>4. submitted = 1 .. I - 1 /\ finished = 0 .. I - 1 /\ cursor[Main] = NoCursor
    BY <2>1 DEF Algorithm, Submissions, FinishedLines, Cursors
  <2> QED
    BY <2>1, <2>2, <2>3, <2>4 DEF Typed
<1>1. Size' = Size /\ Aligned' = Aligned /\ Size \in Nat /\ DOMAIN first = 0 .. Size - 1
  BY <1>0, Skyline DEF Size, Aligned, Typed
<1>2. \A t \in submitted : executed[t] # 0 /\ t < Size
  BY <1>0 DEF Algorithm, Executions
<1>3. CASE I < Size
  <2>1. /\ nbJobs' = IF I + NbThreads > Size THEN Size - I ELSE nbJobs
        /\ id' = 0 /\ where' = "fill"
        /\ UNCHANGED <<pc, task, submitted, executed>>
    BY <1>3 DEF Batch, poolVars
  <2>2. NbThreads \in Nat /\ NbSlots = 2 * NbThreads
    BY FS_CardinalityType DEF NbThreads
  <2>3. nbJobs' \in 1 .. NbSlots /\ (nbJobs' = NbSlots \/ I + nbJobs' = Size)
    BY <1>0, <1>1, <1>3, <2>1, <2>2
  <2>4. Requests' = Requests
    BY <2>1 DEF Requests
  <2>5. Typed'
    BY <1>0, <2>1, <2>3 DEF Typed, Places
  <2>6. Control' /\ Submissions'
    BY <1>0, <1>1, <1>3, <2>1, <2>3, <2>4 DEF Control, Submissions
  <2>7. Executions' /\ BatchParams' /\ FinishedLines' /\ Cursors'
    BY <1>0, <1>1, <1>2, <2>1
    DEF Executions, BatchParams, FinishedLines, Cursors
  <2> QED
    BY <2>5, <2>6, <2>7 DEF Algorithm
<1>4. CASE I = Size
  <2>1. /\ P!CallFree /\ where' = "free" /\ UNCHANGED <<nbJobs, id>>
    BY <1>1, <1>4 DEF Batch
  <2>2. UNCHANGED <<submitted, executed>> /\ ~Requests'
    <3>1. pc \in [Threads -> PP!WorkerPC \cup PP!ClientPC \cup PP!OwnerPC]
      BY DEF PP!IInv, PP!CountInv, PP!TypeOK, PP!Threads, Threads
    <3> QED
      BY <2>1, <3>1 DEF P!CallFree, P!Goto, P!history, Requests, Threads
  <2>3. finished = DOMAIN first
    BY <1>0, <1>1, <1>4
  <2>4. Typed'
    BY <1>0, <2>1 DEF Typed, Places
  <2>5. Control' /\ Submissions' /\ Executions' /\ BatchParams'
        /\ FinishedLines' /\ Cursors'
    BY <1>0, <1>1, <1>2, <2>1, <2>2, <2>3 DEF Control, Submissions, Executions,
      BatchParams, FinishedLines, Cursors
  <2> QED
    BY <2>4, <2>5 DEF Algorithm
<1> QED
  BY <1>0, <1>3, <1>4

\* The program counters have their types.
LEMMA PcTyped ==
  ASSUME PP!IInv
  PROVE  /\ pc \in [Threads -> PP!WorkerPC \cup PP!ClientPC \cup PP!OwnerPC]
         /\ task \in [Threads -> Tasks \cup {NoTask}]
         /\ submitted \subseteq Tasks
         /\ executed \in [Tasks -> Nat]
BY DEF PP!IInv, PP!CountInv, PP!TypeOK, PP!Threads, Threads

\* Main hands a line over to the pool (lines 286-294).
LEMMA FillKeeps ==
  ASSUME Typed, Algorithm, PP!IInv, Fill
  PROVE  Typed' /\ Algorithm'
<1> USE SolverAssumption, PoolHolds
<1>1. /\ where = "fill" /\ id < nbJobs
      /\ params' = [params EXCEPT ![id] = [i |-> I + id, jMax |-> I]]
      /\ P!CallRun(Main, I + id)
      /\ id' = id + 1
      /\ UNCHANGED <<first, dots, finished, I, nbJobs, ldlt, where, cursor>>
  BY DEF Fill, matrix
<1>2. /\ pc[Main] = "idle"
      /\ task' = [task EXCEPT ![Main] = I + id]
      /\ pc' = [pc EXCEPT ![Main] = "run"]
      /\ UNCHANGED <<submitted, executed>>
  BY <1>1 DEF P!CallRun, P!Goto, P!history
<1>3. /\ pc'[Main] = "run" /\ task'[Main] = I + id
      /\ \A w \in Workers : pc'[w] = pc[w] /\ task'[w] = task[w]
  BY <1>2, PcTyped DEF Threads
<1>4. Size' = Size /\ Aligned' = Aligned /\ Requests' /\ ~Requests
  BY <1>1, <1>2, <1>3 DEF Size, Aligned, Requests
<1>5. /\ I \in Nat \ {0} /\ nbJobs \in 1 .. NbSlots /\ id \in Nat
      /\ id \in 0 .. NbSlots - 1 /\ I < Size /\ Aligned
      /\ nbJobs = NbSlots \/ I + nbJobs = Size
  BY <1>1 DEF Typed, Algorithm, Control
<1>6. params' \in [0 .. NbSlots - 1 -> Params]
  BY <1>1, <1>5 DEF Typed, Params
<1>7. Typed'
  BY <1>1, <1>5, <1>6 DEF Typed
<1>8. Control'
  BY <1>1, <1>3, <1>4, <1>5 DEF Control
<1>9. Submissions'
  <2>1. submitted = 1 .. I + id - 1
    BY <1>1, <1>4 DEF Algorithm, Submissions
  <2>2. I' + id' - 2 = I + id - 1
    BY <1>1, <1>5
  <2> QED
    BY <1>1, <1>2, <1>4, <2>1, <2>2 DEF Submissions
<1>10. Executions'
  BY <1>1, <1>2, <1>4 DEF Algorithm, Executions
<1>11. BatchParams'
  <2> SUFFICES ASSUME NEW k \in 0 .. id' - 1
               PROVE  params'[k] = [i |-> I + k, jMax |-> I]
    BY <1>1 DEF BatchParams
  <2>1. CASE k = id
    BY <1>1, <1>5, <2>1 DEF Typed
  <2>2. CASE k # id
    <3>1. k \in 0 .. id - 1
      BY <1>1, <1>5, <2>2
    <3> QED
      BY <1>1, <1>5, <3>1 DEF Typed, Algorithm, BatchParams
  <2> QED
    BY <2>1, <2>2
<1>12. FinishedLines'
  BY <1>1 DEF Algorithm, FinishedLines
<1>13. Cursors'
  BY <1>1, <1>3, <1>4 DEF Algorithm, Cursors, Loop
<1> QED
  BY <1>7, <1>8, <1>9, <1>10, <1>11, <1>12, <1>13 DEF Algorithm

\* Every line of the batch is handed over (lines 288-299).
LEMMA FillEndKeeps ==
  ASSUME Typed, Algorithm, PP!IInv, FillEnd
  PROVE  Typed' /\ Algorithm'
<1> USE SolverAssumption, PoolHolds
<1>1. /\ where = "fill" /\ id = nbJobs /\ where' = "wait"
      /\ P!CallWait
      /\ UNCHANGED <<first, dots, finished, I, nbJobs, id, params, ldlt, cursor>>
  BY DEF FillEnd, matrix, batch
<1>2. /\ pc[Main] = "idle" /\ pc' = [pc EXCEPT ![Main] = "wait"]
      /\ UNCHANGED <<task, submitted, executed>>
  BY <1>1 DEF P!CallWait, P!Goto, P!history
<1>3. pc'[Main] = "wait" /\ \A w \in Workers : pc'[w] = pc[w]
  BY <1>2, PcTyped DEF Threads
<1>4. Size' = Size /\ Aligned' = Aligned /\ ~Requests' /\ ~Requests /\ ~Returned'
  BY <1>1, <1>2, <1>3 DEF Size, Aligned, Requests, Returned
<1>5. Typed'
  BY <1>1 DEF Typed, Places
<1>6. Control'
  BY <1>1, <1>4 DEF Algorithm, Control
<1>7. Submissions'
  BY <1>1, <1>2, <1>4 DEF Algorithm, Submissions
<1>8. Executions'
  BY <1>1, <1>2, <1>4 DEF Algorithm, Executions
<1>9. BatchParams' /\ FinishedLines'
  BY <1>1 DEF Algorithm, BatchParams, FinishedLines
<1>10. Cursors'
  BY <1>1, <1>2, <1>3, <1>4 DEF Algorithm, Cursors, Loop
<1> QED
  BY <1>5, <1>6, <1>7, <1>8, <1>9, <1>10 DEF Algorithm

\* Back from haplo_pool_wait, every task of the batch was executed.
LEMMA WaitedKeeps ==
  ASSUME Typed, Algorithm, PP!IInv, Waited
  PROVE  Typed' /\ Algorithm'
<1> USE SolverAssumption, PoolHolds
<1>1. /\ where = "wait" /\ pc[Main] = "idle" /\ id' = 0 /\ where' = "line"
      /\ cursor' = [cursor EXCEPT ![Main] = Cursor(I, I, I)]
      /\ UNCHANGED <<pc, task, submitted, executed, first, dots, finished, I,
                     nbJobs, params, ldlt>>
  BY DEF Waited, matrix, poolVars
<1>2. /\ I \in Nat \ {0} /\ nbJobs \in 1 .. NbSlots /\ id = nbJobs
      /\ I < Size /\ Aligned /\ (nbJobs = NbSlots \/ I + nbJobs = Size)
      /\ submitted = 1 .. I + nbJobs - 1
      /\ finished = 0 .. I - 1
  BY <1>1 DEF Typed, Algorithm, Control, Submissions, FinishedLines
<1>3. Size' = Size /\ Aligned' = Aligned /\ ~Requests' /\ Returned
  BY <1>1 DEF Size, Aligned, Requests, Returned
<1>4. \A t \in submitted : executed[t] # 0 /\ t < Size
  BY <1>1, <1>3 DEF Algorithm, Executions
<1>5. I + nbJobs <= Size
  <2>1. I + nbJobs - 1 < Size
    BY <1>2, <1>4
  <2> QED
    BY <1>2, <2>1, Skyline DEF Typed
<1>6. I \in DOMAIN first /\ I \in Nat
  BY <1>2, Skyline DEF Typed
<1>7. /\ Cursor(I, I, I) \in Loops
      /\ Cursor(I, I, I).line = I
      /\ Cursor(I, I, I).end = I
      /\ Cursor(I, I, I).column >= I + 1
  BY <1>6, CursorIs
<1>8. /\ cursor' \in [Threads -> Loops]
      /\ cursor'[Main] = Cursor(I, I, I)
      /\ \A w \in Workers : cursor'[w] = cursor[w]
  BY <1>1, <1>7 DEF Typed, Threads
<1>9. \A w \in Workers : cursor[w] = NoCursor
  <2> SUFFICES ASSUME NEW w \in Workers, cursor[w] # NoCursor PROVE FALSE
    OBVIOUS
  <2>1. task[w] \in submitted /\ executed[task[w]] = 0
    BY WorkerLoop, WorkerTask DEF Algorithm
  <2> QED
    BY <1>4, <2>1
<1>10. Typed'
  BY <1>1, <1>8 DEF Typed, Places
<1>11. Control'
  BY <1>1, <1>2, <1>3, <1>5 DEF Control
<1>12. Submissions' /\ Executions' /\ BatchParams'
  BY <1>1, <1>2, <1>3, <1>4 DEF Submissions, Executions, BatchParams
<1>13. FinishedLines'
  BY <1>1, <1>2 DEF FinishedLines
<1>14. Cursors'
  <2>1. Cursor(I, I, I).column >= 1 /\ Cursor(I, I, I).column >= I
    BY <1>2, <1>7 DEF Loops
  <2> QED
    BY <1>1, <1>2, <1>3, <1>7, <1>8, <1>9, <2>1 DEF Cursors, Loop
<1> QED
  BY <1>10, <1>11, <1>12, <1>13, <1>14 DEF Algorithm

\* Main ends a line of the batch: the next line, or the next batch.
LEMMA LineFinishKeeps ==
  ASSUME Typed, Algorithm, PP!IInv, LineFinish
  PROVE  Typed' /\ Algorithm'
<1> USE SolverAssumption, PoolHolds
<1>1. /\ where = "line" /\ finished' = finished \cup {cursor[Main].line}
      /\ UNCHANGED <<pc, task, submitted, executed, first, dots, nbJobs, params,
                     ldlt>>
      /\ IF id + 1 < nbJobs
         THEN /\ id' = id + 1
              /\ cursor' = [cursor EXCEPT ![Main] =
                              Cursor(I + id + 1, I - 1, I + id + 1)]
              /\ UNCHANGED <<I, where>>
         ELSE /\ I' = I + nbJobs
              /\ cursor' = [cursor EXCEPT ![Main] = NoCursor]
              /\ where' = "batch"
              /\ UNCHANGED id
  BY DEF LineFinish, FinishLine, poolVars
<1>2. /\ I \in Nat \ {0} /\ nbJobs \in 1 .. NbSlots /\ id \in 0 .. nbJobs - 1
      /\ I < Size /\ Aligned /\ (nbJobs = NbSlots \/ I + nbJobs = Size)
      /\ I + nbJobs <= Size
  BY <1>1 DEF Typed, Algorithm, Control
<1>3. /\ submitted = 1 .. I + nbJobs - 1
      /\ finished = 0 .. I + id - 1
      /\ cursor[Main].line = I + id
      /\ ~Requests
      /\ \A t \in submitted : executed[t] # 0 /\ t < Size
      /\ \A w \in Workers : cursor[w] = NoCursor
  BY <1>1, NoWorkerLoop DEF Algorithm, Control, Submissions, FinishedLines,
    Cursors, Loop, Executions
<1>4. Size' = Size /\ Requests' = Requests /\ Size \in Nat /\ DOMAIN first = 0 .. Size - 1
  BY <1>1, Skyline DEF Size, Requests, Typed
<1>5. finished' = 0 .. I + id /\ finished' \subseteq DOMAIN first
  BY <1>1, <1>2, <1>3, <1>4
<1>6. CASE id + 1 < nbJobs
  <2> DEFINE i == I + id + 1
             C == Cursor(i, I - 1, i)
  <2>1. /\ id' = id + 1 /\ UNCHANGED <<I, where>>
        /\ cursor' = [cursor EXCEPT ![Main] = C]
    BY <1>1, <1>6
  <2>2. i \in DOMAIN first /\ i \in Nat /\ I - 1 \in Nat
    BY <1>2, <1>4, <1>6
  <2>3. /\ C \in Loops
        /\ C.line = i /\ C.end = i
        /\ C.column >= I - 1 + 1
    <3> HIDE DEF i
    <3>1. /\ Cursor(i, I - 1, i) \in Loops
          /\ Cursor(i, I - 1, i).line = i
          /\ Cursor(i, I - 1, i).end = i
          /\ Cursor(i, I - 1, i).column >= I - 1 + 1
      BY <2>2, CursorIs
    <3> QED
      BY <3>1
  <2>4. C.column >= I /\ C.column >= 1
    BY <1>2, <2>3 DEF Loops
  <2>5. i = I' + id'
    BY <1>2, <2>1
  <2> HIDE DEF i, C
  <2>6. /\ cursor' \in [Threads -> Loops]
        /\ cursor'[Main] = C
        /\ \A w \in Workers : cursor'[w] = NoCursor
    BY <1>3, <2>1, <2>3 DEF Typed, Threads
  <2>7. Typed'
    BY <1>1, <1>2, <1>5, <2>1, <2>6 DEF Typed
  <2>8. Aligned'
    BY <1>2, <2>1 DEF Aligned
  <2>9. Control'
    BY <1>1, <1>2, <1>3, <1>4, <1>6, <2>1, <2>8 DEF Control
  <2>10. Submissions' /\ Executions' /\ BatchParams'
    BY <1>1, <1>3, <1>4, <2>1 DEF Submissions, Executions, BatchParams
  <2>11. FinishedLines'
    BY <1>1, <1>2, <1>5, <2>1 DEF FinishedLines
  <2>12. Cursors'
    BY <1>1, <1>4, <2>1, <2>3, <2>4, <2>5, <2>6 DEF Cursors, Loop
  <2> QED
    BY <2>7, <2>9, <2>10, <2>11, <2>12 DEF Algorithm
<1>7. CASE ~(id + 1 < nbJobs)
  <2>1. /\ I' = I + nbJobs /\ where' = "batch" /\ UNCHANGED id
        /\ cursor' = [cursor EXCEPT ![Main] = NoCursor]
    BY <1>1, <1>7
  <2>2. /\ cursor' \in [Threads -> Loops]
        /\ cursor'[Main] = NoCursor
        /\ \A w \in Workers : cursor'[w] = NoCursor
    BY <1>3, <2>1 DEF Typed, Threads, Loops, NoCursor
  <2>3. finished' = 0 .. I' - 1 /\ submitted' = 1 .. I' - 1 /\ I' \in Nat \ {0}
    BY <1>1, <1>2, <1>3, <1>5, <1>7, <2>1
  <2>4. Typed'
    BY <1>1, <1>5, <2>1, <2>2, <2>3 DEF Typed, Places
  <2>5. Control'
    <3>1. CASE I + nbJobs = Size
      BY <1>1, <1>3, <1>4, <2>1, <3>1 DEF Control
    <3>2. CASE I + nbJobs # Size
      <4>1. nbJobs = NbSlots /\ I' < Size
        BY <1>2, <1>4, <2>1, <3>2
      <4>2. Aligned'
        BY <1>2, <2>1, <4>1, AlignedNext
      <4> QED
        BY <1>1, <1>3, <1>4, <2>1, <4>1, <4>2 DEF Control
    <3> QED
      BY <3>1, <3>2
  <2>6. Submissions' /\ Executions' /\ BatchParams'
    BY <1>1, <1>3, <1>4, <2>1, <2>3 DEF Submissions, Executions, BatchParams
  <2>7. FinishedLines' /\ Cursors'
    BY <1>4, <2>1, <2>2, <2>3 DEF FinishedLines, Cursors
  <2> QED
    BY <2>4, <2>5, <2>6, <2>7 DEF Algorithm
<1> QED
  BY <1>6, <1>7

\* The pool is destroyed, and the substitutions run.
LEMMA EndKeeps ==
  ASSUME Typed, Algorithm, PP!IInv, Freed \/ Factorized \/ Invert
  PROVE  Typed' /\ Algorithm'
<1> USE SolverAssumption, PoolHolds
<1>1. /\ UNCHANGED <<pc, task, submitted, executed, first, dots, finished, I,
                     nbJobs, id, params, cursor>>
      /\ where \in {"free", "factorized", "invert"}
      /\ where' \in {"factorized", "invert", "idle"}
      /\ ldlt' \in BOOLEAN
  BY DEF Freed, Factorized, Invert, poolVars, matrix, batch, Typed
<1>2. where' \in {"invert", "idle"} => ldlt'
  BY DEF Freed, Factorized, Invert, Algorithm, Control
<1>3. /\ finished = DOMAIN first /\ cursor[Main] = NoCursor /\ ~Requests
      /\ \A w \in Workers : cursor[w] = NoCursor
      /\ \A t \in submitted : executed[t] # 0 /\ t < Size
  BY <1>1, NoWorkerLoop
  DEF Algorithm, FinishedLines, Cursors, Control, Executions
<1>4. Size' = Size /\ Requests' = Requests
  BY <1>1 DEF Size, Requests
<1>5. Typed'
  BY <1>1 DEF Typed, Places
<1>6. Control' /\ Submissions' /\ BatchParams' /\ Cursors'
  BY <1>1, <1>2, <1>3, <1>4 DEF Control, Submissions, BatchParams, Cursors
<1>7. Executions'
  BY <1>1, <1>3, <1>4 DEF Executions
<1>8. FinishedLines'
  BY <1>1, <1>2, <1>3 DEF FinishedLines
<1> QED
  BY <1>5, <1>6, <1>7, <1>8 DEF Algorithm

\* A worker reads its entry of params, which is still that of its line.
LEMMA TaskBeginKeeps ==
  ASSUME Typed, Algorithm, PP!IInv, NEW w \in Workers, TaskBegin(w)
  PROVE  Typed' /\ Algorithm'
<1> USE SolverAssumption, PoolHolds
<1>1. /\ pc[w] = "work" /\ cursor[w] = NoCursor
      /\ params[ParamOf(task[w])].i < Size
      /\ cursor' = [cursor EXCEPT ![w] =
                      Cursor(params[ParamOf(task[w])].i, 1,
                             params[ParamOf(task[w])].jMax)]
      /\ UNCHANGED <<pc, task, submitted, executed, first, dots, finished, I,
                     nbJobs, id, params, ldlt, where>>
  BY DEF TaskBegin, poolVars, matrix, batch
<1>2. /\ where \in {"fill", "wait"} /\ task[w] \in I .. I + id - 1
      /\ params[ParamOf(task[w])] = [i |-> task[w], jMax |-> I]
  BY <1>1, WorkerTask DEF Algorithm
<1>3. /\ task[w] < Size
      /\ cursor' = [cursor EXCEPT ![w] = Cursor(task[w], 1, I)]
  BY <1>1, <1>2
<1>4. task[w] \in DOMAIN first /\ I \in Nat
  BY <1>2, <1>3, Skyline DEF Typed
<1>5. /\ Cursor(task[w], 1, I) \in Loops
      /\ Cursor(task[w], 1, I).line = task[w]
      /\ Cursor(task[w], 1, I).end = I
      /\ Cursor(task[w], 1, I).column >= 1 + 1
  <2> DEFINE i == task[w]
  <2>1. i \in DOMAIN first
    BY <1>4
  <2> HIDE DEF i
  <2>2. Cursor(i, 1, I) \in Loops /\ Cursor(i, 1, I).line = i
    BY <1>4, <2>1, CursorIs
  <2>3. Cursor(i, 1, I).end = I
    BY <1>4, <2>1, CursorIs
  <2>4. Cursor(i, 1, I).column >= 1 + 1
    BY <1>4, <2>1, CursorIs
  <2> QED
    BY <2>2, <2>3, <2>4 DEF i
<1>6. Cursor(task[w], 1, I).column >= 1
  BY <1>5 DEF Loops
<1>7. /\ cursor' \in [Threads -> Loops]
      /\ cursor'[w] = Cursor(task[w], 1, I)
      /\ \A t \in Threads \ {w} : cursor'[t] = cursor[t]
  BY <1>3, <1>5 DEF Typed, Threads
<1>8. Size' = Size /\ Aligned' = Aligned /\ Requests' = Requests /\ Returned' = Returned
  BY <1>1 DEF Size, Aligned, Requests, Returned
<1>9. Typed'
  BY <1>1, <1>7 DEF Typed
<1>10. Control' /\ Submissions' /\ BatchParams'
  BY <1>1, <1>8 DEF Algorithm, Control, Submissions, BatchParams
<1>11. Executions'
  BY <1>1, <1>8 DEF Algorithm, Executions
<1>12. FinishedLines'
  BY <1>1, <1>2 DEF Algorithm, FinishedLines
<1>13. Cursors'
  BY <1>1, <1>2, <1>3, <1>5, <1>6, <1>7, <1>8
  DEF Algorithm, Cursors, Loop, Threads
<1> QED
  BY <1>9, <1>10, <1>11, <1>12, <1>13 DEF Algorithm

\* A worker goes through a column.
LEMMA TaskColumnKeeps ==
  ASSUME Typed, Algorithm, PP!IInv, NEW w \in Workers, TaskColumn(w)
  PROVE  Typed' /\ Algorithm'
<1> USE SolverAssumption, PoolHolds
<1>1. /\ cursor[w] # NoCursor /\ Column(w)
      /\ UNCHANGED <<pc, task, submitted, executed, I, nbJobs, id, params,
                     ldlt, where>>
  BY DEF TaskColumn, poolVars, batch
<1>2. /\ pc[w] = "work" /\ where \in {"fill", "wait"}
      /\ cursor[w].line \in DOMAIN first
  BY <1>1, WorkerLoop
<1>3. /\ UNCHANGED <<first, finished>>
      /\ dots' \in [DOMAIN first -> [DOMAIN first -> Nat]]
      /\ cursor' \in [Threads -> Loops]
      /\ cursor'[w].line = cursor[w].line
      /\ cursor'[w].end = cursor[w].end
      /\ cursor'[w].column = cursor[w].column + 1
      /\ \A t \in Threads \ {w} : cursor'[t] = cursor[t]
  BY <1>1, <1>2, ColumnIs DEF Threads
<1>4. Size' = Size /\ Aligned' = Aligned /\ Requests' = Requests /\ Returned' = Returned
  BY <1>1, <1>3 DEF Size, Aligned, Requests, Returned
<1>5. Typed'
  BY <1>1, <1>3 DEF Typed
<1>6. Control' /\ Submissions' /\ BatchParams'
  BY <1>1, <1>3, <1>4 DEF Algorithm, Control, Submissions, BatchParams
<1>7. Executions'
  BY <1>1, <1>4 DEF Algorithm, Executions
<1>8. FinishedLines'
  BY <1>1, <1>2, <1>3 DEF Algorithm, FinishedLines
<1>9. Cursors'
  <2>1. cursor[w].column \in Nat
    BY DEF Typed, Loops, Threads
  <2> QED
    BY <1>1, <1>2, <1>3, <1>4, <2>1 DEF Algorithm, Cursors, Loop, Threads
<1> QED
  BY <1>5, <1>6, <1>7, <1>8, <1>9 DEF Algorithm

\* A worker ends its task.
LEMMA TaskEndKeeps ==
  ASSUME Typed, Algorithm, PP!IInv, NEW w \in Workers, TaskEnd(w)
  PROVE  Typed' /\ Algorithm'
<1> USE SolverAssumption, PoolHolds
<1>1. /\ cursor[w] # NoCursor /\ P!Work(w)
      /\ cursor' = [cursor EXCEPT ![w] = NoCursor]
      /\ UNCHANGED <<first, dots, finished, I, nbJobs, id, params, ldlt, where>>
  BY DEF TaskEnd, matrix, batch
<1>2. /\ pc[w] = "work" /\ pc' = [pc EXCEPT ![w] = "end"]
      /\ executed' = [executed EXCEPT ![task[w]] = @ + 1]
      /\ UNCHANGED <<task, submitted>>
  BY <1>1 DEF P!Work, P!Goto, P!poolVars
<1>3. /\ where \in {"fill", "wait"} /\ task[w] \in DOMAIN first
      /\ task[w] \in submitted /\ executed[task[w]] = 0
      /\ submitted \subseteq Tasks
  BY <1>1, <1>2, WorkerLoop, WorkerTask, PcTyped DEF Algorithm
<1>4. /\ task[w] < Size
      /\ executed'[task[w]] = 1
      /\ \A t \in submitted \ {task[w]} : executed'[t] = executed[t]
  BY <1>2, <1>3, PcTyped, Skyline DEF Typed
<1>5. /\ cursor' \in [Threads -> Loops]
      /\ cursor'[w] = NoCursor
      /\ \A t \in Threads \ {w} : cursor'[t] = cursor[t]
  BY <1>1 DEF Typed, Threads, Loops, NoCursor
<1>6. \A t \in Threads \ {w} : pc'[t] = pc[t]
  BY <1>2, PcTyped DEF Threads
<1>7. Size' = Size /\ Aligned' = Aligned /\ Requests' = Requests /\ Returned' = Returned
  BY <1>1, <1>6 DEF Size, Aligned, Requests, Returned, Threads
<1>8. Typed'
  BY <1>1, <1>5 DEF Typed
<1>9. Control' /\ Submissions' /\ BatchParams'
  BY <1>1, <1>2, <1>7 DEF Algorithm, Control, Submissions, BatchParams
<1>10. Executions'
  BY <1>1, <1>2, <1>3, <1>4, <1>7 DEF Algorithm, Executions
<1>11. FinishedLines'
  BY <1>1, <1>3 DEF Algorithm, FinishedLines
<1>12. Cursors'
  BY <1>1, <1>2, <1>3, <1>5, <1>6, <1>7 DEF Algorithm, Cursors, Loop, Threads
<1> QED
  BY <1>8, <1>9, <1>10, <1>11, <1>12 DEF Algorithm

\* The steps inside the pool leave the algorithm where it is.
LEMMA PoolKeeps ==
  ASSUME Typed, Algorithm, PP!IInv, PoolStep
  PROVE  Typed' /\ Algorithm'
<1> USE SolverAssumption, PoolHolds
<1>1. UNCHANGED <<first, dots, finished, I, nbJobs, id, params, ldlt, where, cursor>>
  BY DEF PoolStep, matrix, batch
<1>2. PoolMoves
  BY PoolStepMoves
<1>3. Size' = Size /\ Aligned' = Aligned
  BY <1>1 DEF Size, Aligned
<1>4. Typed'
  BY <1>1 DEF Typed
<1>5. Control'
  BY <1>1, <1>2, <1>3 DEF Algorithm, Control, PoolMoves
<1>6. submitted' = submitted \/ /\ Requests /\ ~Requests' /\ where = "fill"
                                /\ task[Main] = I + id - 1 /\ id # 0
                                /\ submitted = 1 .. I + id - 2
                                /\ submitted' = submitted \cup {I + id - 1}
  BY <1>2 DEF PoolMoves, Algorithm, Control, Submissions
<1>7. Submissions'
  <2>1. CASE Requests /\ ~Requests'
    <3>1. /\ where = "fill" /\ id # 0 /\ submitted = 1 .. I + id - 2
          /\ submitted' = submitted \cup {I + id - 1}
      BY <1>2, <2>1 DEF PoolMoves, Algorithm, Control, Submissions
    <3>2. submitted' = 1 .. I + id - 1
      BY <3>1 DEF Typed
    <3> QED
      BY <1>1, <2>1, <3>1, <3>2 DEF Submissions
  <2>2. CASE ~(Requests /\ ~Requests')
    BY <1>1, <1>2, <2>2 DEF PoolMoves, Algorithm, Submissions
  <2> QED
    BY <2>1, <2>2
<1>8. Executions'
  <2>0. executed' = executed
    BY <1>2 DEF PoolMoves
  <2>1. ASSUME NEW t \in submitted' \ submitted
        PROVE  executed[t] = 0 /\ where = "fill" /\ t >= I
    <3>1. /\ where = "fill" /\ task[Main] = I + id - 1 /\ id # 0
          /\ t = I + id - 1 /\ Requests
      BY <1>6, <2>1
    <3>2. t \in Tasks \ submitted
      BY <3>1 DEF PP!IInv, PP!Items, PP!Requested, PP!Requesting, Requests
    <3>3. executed[t] = 0
      BY <3>2 DEF PP!IInv, PP!CountInv, PP!TypeOK, PP!Items, PP!ExactlyOnce
    <3> QED
      BY <3>1, <3>3 DEF Typed
  <2>2. submitted \subseteq submitted'
    BY <1>6
  <2>3. where = "wait" => submitted' = submitted
    BY <1>6
  <2>4. where = "wait" /\ Returned' => \A t \in submitted : executed[t] # 0
    BY <1>2 DEF PoolMoves, Algorithm, Executions
  <2> QED
    BY <1>1, <1>3, <2>0, <2>1, <2>2, <2>3, <2>4 DEF Algorithm, Executions
<1>9. BatchParams' /\ FinishedLines'
  BY <1>1 DEF Algorithm, BatchParams, FinishedLines
<1>10. Cursors'
  BY <1>1, <1>2, <1>3 DEF Algorithm, Cursors, Loop, PoolMoves
<1> QED
  BY <1>4, <1>5, <1>7, <1>8, <1>9, <1>10 DEF Algorithm

\* Every step keeps the algorithm in order.
LEMMA AlgorithmNext ==
  ASSUME Typed, Algorithm, PP!IInv, [Next]_vars
  PROVE  Typed' /\ Algorithm'
<1>1. ASSUME MainStep PROVE Typed' /\ Algorithm'
  BY <1>1, MainColumnKeeps, SequenceFinishKeeps, BatchKeeps, FillKeeps,
     FillEndKeeps, WaitedKeeps, LineFinishKeeps, EndKeeps DEF MainStep
<1>2. ASSUME NEW w \in Workers, WorkerStep(w) PROVE Typed' /\ Algorithm'
  BY <1>2, TaskBeginKeeps, TaskColumnKeeps, TaskEndKeeps DEF WorkerStep
<1>3. ASSUME Done \/ UNCHANGED vars PROVE Typed' /\ Algorithm'
  <2>1. UNCHANGED <<pc, task, submitted, executed, first, dots, finished, I,
                    nbJobs, id, params, ldlt, where, cursor>>
    BY <1>3 DEF Done, vars, poolVars, matrix, batch
  <2>2. /\ Size' = Size /\ Aligned' = Aligned /\ Requests' = Requests
        /\ Returned' = Returned
    BY <2>1 DEF Size, Aligned, Requests, Returned
  <2>3. Typed'
    BY <2>1 DEF Typed
  <2>4. Control' /\ Submissions' /\ BatchParams' /\ FinishedLines'
    BY <2>1, <2>2 DEF Algorithm, Control, Submissions, BatchParams, FinishedLines
  <2>5. Executions'
    BY <2>1, <2>2 DEF Algorithm, Executions
  <2>6. Cursors'
    BY <2>1, <2>2 DEF Algorithm, Cursors, Loop
  <2> QED
    BY <2>3, <2>4, <2>5, <2>6 DEF Algorithm
<1> QED
  BY <1>1, <1>2, <1>3, SolveKeeps, PoolKeeps DEF Next

-----------------------------------------------------------------------------
(* The steps keep the account of the products subtracted *)

\* What was subtracted depends on the matrix alone.
LEMMA SameMatrix ==
  ASSUME UNCHANGED <<first, dots>>, NEW i, NEW b
  PROVE  Subtracted(i, b)' <=> Subtracted(i, b)
BY DEF Subtracted, M!HasDot, M!Stored, M!From

\* There is no product in column 0, nor before the first column of a line.
LEMMA NoDotBefore ==
  ASSUME Typed, NEW i \in DOMAIN first, NEW j \in DOMAIN first,
         j = 0 \/ j <= first[i]
  PROVE  ~M!HasDot(i, j)
<1>1. first[i] \in Nat /\ first[j] \in Nat /\ j \in Nat
  BY Skyline DEF Typed
<1> QED
  BY <1>1 DEF M!HasDot, M!From, M!Stored

\* A loop starts after columns that have no product or had it subtracted
\* already; only column 1 may be skipped (lines 151-155).
LEMMA LoopStarts ==
  ASSUME Typed, NEW i \in DOMAIN first, NEW jMin \in Nat, NEW jMax \in Nat,
         NEW a \in Nat, Subtracted(i, a), a <= jMin + 1, a <= jMax,
         \/ jMin <= 1
         \/ a = jMin + 1
         \/ jMin >= jMax /\ a = jMax
  PROVE  LET c == Cursor(i, jMin, jMax).column
         IN  Subtracted(i, IF c < jMax THEN c ELSE jMax)
<1> DEFINE c == Cursor(i, jMin, jMax).column
           b == IF c < jMax THEN c ELSE jMax
<1>1. c = IF jMin >= first[i] THEN jMin + 1 ELSE first[i] + 1
  BY CursorIs
<1>2. first[i] \in Nat /\ DOMAIN first \subseteq Nat
  BY Skyline DEF Typed
<1>3. c \in Nat /\ b \in Nat /\ a <= b /\ b <= jMax /\ b <= c
  BY <1>1, <1>2
<1> HIDE DEF c, b
<1> SUFFICES ASSUME NEW j \in DOMAIN first
             PROVE  dots[i][j] \in IF M!HasDot(i, j) /\ j < b
                                   THEN IF j = 1 THEN {0, 1} ELSE {1}
                                   ELSE {0}
  BY DEF Subtracted, c, b
<1>4. dots[i][j] \in IF M!HasDot(i, j) /\ j < a
                     THEN IF j = 1 THEN {0, 1} ELSE {1}
                     ELSE {0}
  BY DEF Subtracted
<1>5. j \in Nat
  BY <1>2
<1>6. CASE j < a \/ j >= b
  BY <1>3, <1>4, <1>5, <1>6
<1>7. CASE a <= j /\ j < b
  <2>1. j = 1 \/ ~M!HasDot(i, j)
    <3>1. j = 0 \/ j = 1 \/ j <= first[i]
      BY <1>1, <1>2, <1>3, <1>5, <1>7
    <3> QED
      BY <3>1, NoDotBefore
  <2> QED
    BY <1>4, <1>5, <1>7, <2>1
<1> QED
  BY <1>3, <1>5, <1>6, <1>7

\* A step that leaves the matrix and the loops alone keeps the account.
LEMMA ProgressKept ==
  ASSUME Typed, Progress, UNCHANGED <<first, dots, finished, cursor>>,
         Ran' = Ran, I' = I \/ Ran \subseteq finished
  PROVE  Progress'
<1>1. \A i, b : Subtracted(i, b)' <=> Subtracted(i, b)
  BY SameMatrix
<1>2. \A i : InLoop(i)' <=> InLoop(i)
  BY DEF InLoop
<1>3. \A i \in finished' : Subtracted(i, i)'
  BY <1>1 DEF Progress
<1>4. \A t \in Threads :
        cursor'[t] # NoCursor => Subtracted(cursor[t].line, Bound(t))'
  BY <1>1 DEF Progress, Bound
<1>5. \A i \in DOMAIN first' \ finished' :
        ~InLoop(i)' => Subtracted(i, IF i \in Ran THEN I ELSE 0)'
  BY <1>1, <1>2 DEF Progress
<1> QED
  BY <1>3, <1>4, <1>5 DEF Progress

\* One turn of the loop on j subtracts the product of its column and no other.
LEMMA ColumnProgress ==
  ASSUME Typed, Progress, NEW t \in Threads, Column(t), cursor[t] # NoCursor,
         cursor[t].line \in DOMAIN first \ finished,
         \A u \in Threads \ {t} :
           cursor[u] # NoCursor => cursor[u].line # cursor[t].line
                                   /\ cursor[u].line \in DOMAIN first,
         Ran' = Ran, I' = I
  PROVE  Progress'
<1> SUFFICES ASSUME NEW l, NEW c, l = cursor[t].line, c = cursor[t].column
             PROVE  Progress'
  OBVIOUS
<1>1. /\ c < cursor[t].end
      /\ UNCHANGED <<first, finished>>
      /\ cursor'[t].line = l
      /\ cursor'[t].end = cursor[t].end
      /\ cursor'[t].column = c + 1
      /\ cursor'[t] # NoCursor
      /\ \A u \in Threads \ {t} : cursor'[u] = cursor[u]
      /\ \A i \in DOMAIN first, j \in DOMAIN first :
           dots'[i][j] = IF i = l /\ j = c /\ M!HasDot(i, j)
                         THEN dots[i][j] + 1 ELSE dots[i][j]
  BY ColumnIs
<1>2. c \in Nat /\ cursor[t].end \in Nat /\ l \in DOMAIN first \ finished
      /\ DOMAIN first \subseteq Nat
  BY Skyline DEF Typed, Loops
<1>3. Bound(t) = c /\ Bound(t)' = c + 1
  BY <1>1, <1>2 DEF Bound
<1>4. \A i \in DOMAIN first, j \in DOMAIN first : M!HasDot(i, j)' <=> M!HasDot(i, j)
  BY <1>1 DEF M!HasDot, M!Stored, M!From
<1>5. Subtracted(l, c)
  BY <1>3 DEF Progress
<1>6. ASSUME NEW i \in DOMAIN first \ {l}, NEW b
      PROVE  Subtracted(i, b)' <=> Subtracted(i, b)
  BY <1>1, <1>4 DEF Subtracted
<1>7. Subtracted(l, c + 1)'
  <2> SUFFICES ASSUME NEW j \in DOMAIN first
               PROVE  dots'[l][j] \in IF M!HasDot(l, j) /\ j < c + 1
                                      THEN IF j = 1 THEN {0, 1} ELSE {1}
                                      ELSE {0}
    BY <1>1, <1>2, <1>4 DEF Subtracted
  <2>1. dots[l][j] \in IF M!HasDot(l, j) /\ j < c
                       THEN IF j = 1 THEN {0, 1} ELSE {1}
                       ELSE {0}
    BY <1>5 DEF Subtracted
  <2>2. j \in Nat
    BY <1>2
  <2>3. CASE j = c
    BY <1>1, <1>2, <2>1, <2>2, <2>3
  <2>4. CASE j # c
    BY <1>1, <1>2, <2>1, <2>2, <2>4
  <2> QED
    BY <2>3, <2>4
<1>8. \A i : InLoop(i)' <=> InLoop(i)
  BY <1>1 DEF InLoop
<1>9. \A i \in finished' : Subtracted(i, i)'
  <2> SUFFICES ASSUME NEW i \in finished PROVE Subtracted(i, i)'
    BY <1>1
  <2> QED
    BY <1>2, <1>6 DEF Progress, Typed
<1>10. ASSUME NEW u \in Threads, cursor'[u] # NoCursor
       PROVE  Subtracted(cursor[u].line, Bound(u))'
  <2>1. CASE u = t
    BY <1>1, <1>3, <1>7, <2>1
  <2>2. CASE u # t
    <3>1. cursor'[u] = cursor[u] /\ Bound(u)' = Bound(u)
      BY <1>1, <2>2 DEF Bound
    <3>2. cursor[u].line \in DOMAIN first \ {l}
      BY <1>10, <2>2, <3>1
    <3>3. Subtracted(cursor[u].line, Bound(u))
      BY <1>10, <3>1 DEF Progress
    <3> QED
      BY <1>6, <3>1, <3>2, <3>3
  <2> QED
    BY <2>1, <2>2
<1>11. ASSUME NEW i \in DOMAIN first' \ finished', ~InLoop(i)'
       PROVE  Subtracted(i, IF i \in Ran THEN I ELSE 0)'
  <2>1. i \in DOMAIN first \ finished /\ ~InLoop(i)
    BY <1>1, <1>8, <1>11
  <2>2. i # l
    BY <2>1 DEF InLoop
  <2>3. Subtracted(i, IF i \in Ran THEN I ELSE 0)
    BY <2>1 DEF Progress
  <2> QED
    BY <1>6, <2>1, <2>2, <2>3
<1> QED
  BY <1>9, <1>10, <1>11 DEF Progress

\* The loops of different threads are on different lines, none of them finished.
LEMMA LoopsApart ==
  ASSUME Typed, Algorithm, PP!IInv
  PROVE  \A t \in Threads :
           cursor[t] # NoCursor =>
             /\ cursor[t].line \in DOMAIN first \ finished
             /\ \A u \in Threads \ {t} :
                  cursor[u] # NoCursor => cursor[u].line # cursor[t].line
<1>1. ASSUME NEW w \in Workers, cursor[w] # NoCursor
      PROVE  /\ cursor[w].line \in DOMAIN first \ finished
             /\ cursor[Main] = NoCursor
             /\ \A v \in Workers \ {w} :
                  cursor[v] # NoCursor => cursor[v].line # cursor[w].line
  <2>1. /\ pc[w] = "work" /\ cursor[w].line = task[w]
        /\ task[w] \in I .. I + id - 1 /\ task[w] \in DOMAIN first
        /\ where \in {"fill", "wait"} /\ cursor[Main] = NoCursor
    BY <1>1, WorkerLoop
  <2>2. finished = 0 .. I - 1 /\ I \in Nat /\ id \in Nat
    BY <2>1 DEF Typed, Algorithm, FinishedLines
  <2>3. task[w] \notin finished
    BY <2>1, <2>2
  <2>4. ASSUME NEW v \in Workers \ {w}, cursor[v] # NoCursor
        PROVE  cursor[v].line # cursor[w].line
    <3>1. pc[v] = "work" /\ cursor[v].line = task[v]
      BY <2>4, WorkerLoop
    <3>2. task[v] # task[w]
      BY <2>1, <3>1, WorkerTask DEF Algorithm
    <3> QED
      BY <2>1, <3>1, <3>2
  <2> QED
    BY <2>1, <2>3, <2>4
<1>2. cursor[Main] # NoCursor => cursor[Main].line \in DOMAIN first \ finished
  BY Skyline DEF Typed, Algorithm, Control, Cursors, FinishedLines, Loop
<1> QED
  BY <1>1, <1>2, SolverAssumption DEF Threads

\* When a thread starts a loop on a line nobody is on.
LEMMA StartProgress ==
  ASSUME Typed, Progress, NEW t \in Threads, cursor[t] = NoCursor,
         UNCHANGED <<first, dots, finished, I>>, Ran' = Ran,
         NEW i \in DOMAIN first \ finished, ~InLoop(i),
         NEW jMin \in Nat, NEW jMax \in Nat,
         cursor' = [cursor EXCEPT ![t] = Cursor(i, jMin, jMax)],
         \/ i \notin Ran /\ jMin = 1
         \/ i \in Ran /\ jMin = I /\ jMax = I
         \/ i \in Ran /\ jMin = I - 1 /\ jMax >= I
  PROVE  Progress'
<1>1. /\ Cursor(i, jMin, jMax) \in Loops
      /\ Cursor(i, jMin, jMax) # NoCursor
      /\ Cursor(i, jMin, jMax).line = i
      /\ Cursor(i, jMin, jMax).end = jMax
  BY CursorIs
<1>2. /\ cursor'[t] = Cursor(i, jMin, jMax)
      /\ \A u \in Threads \ {t} : cursor'[u] = cursor[u]
  BY DEF Typed
<1>3. \A k, b : Subtracted(k, b)' <=> Subtracted(k, b)
  BY SameMatrix
<1>4. Subtracted(i, IF i \in Ran THEN I ELSE 0)
  BY DEF Progress
<1>5. I \in Nat \ {0}
  BY DEF Typed
<1>6. LET c == Cursor(i, jMin, jMax).column
      IN  Subtracted(i, IF c < jMax THEN c ELSE jMax)
  <2>1. PICK a \in Nat : a = IF i \in Ran THEN I ELSE 0
    BY <1>5
  <2>2. Subtracted(i, a)
    BY <1>4, <2>1
  <2>3. /\ a <= jMin + 1 /\ a <= jMax
        /\ \/ jMin <= 1
           \/ a = jMin + 1
           \/ jMin >= jMax /\ a = jMax
    BY <1>5, <2>1
  <2> QED
    BY <2>2, <2>3, LoopStarts
<1>7. \A k \in finished' : Subtracted(k, k)'
  BY <1>3 DEF Progress
<1>8. ASSUME NEW u \in Threads, cursor'[u] # NoCursor
      PROVE  Subtracted(cursor'[u].line, IF cursor'[u].column < cursor'[u].end
                                         THEN cursor'[u].column
                                         ELSE cursor'[u].end)
  <2>1. CASE u = t
    BY <1>1, <1>2, <1>6, <2>1
  <2>2. CASE u # t
    BY <1>2, <1>8, <2>2 DEF Progress, Bound
  <2> QED
    BY <2>1, <2>2
<1>9. ASSUME NEW u \in Threads, cursor'[u] # NoCursor
      PROVE  Subtracted(cursor[u].line, Bound(u))'
  BY <1>3, <1>8, <1>9 DEF Bound
<1>10. ASSUME NEW k \in DOMAIN first' \ finished', ~InLoop(k)'
       PROVE  Subtracted(k, IF k \in Ran THEN I ELSE 0)'
  <2>1. k \in DOMAIN first \ finished /\ ~InLoop(k)
    BY <1>2, <1>10 DEF InLoop
  <2>2. Subtracted(k, IF k \in Ran THEN I ELSE 0)
    BY <2>1 DEF Progress
  <2> QED
    BY <1>3, <2>2
<1> QED
  BY <1>7, <1>9, <1>10 DEF Progress

\* When main finishes a line, the last product of the line was subtracted.
LEMMA FinishProgress ==
  ASSUME Typed, Progress, Exhausted(Main), Main \in Threads,
         cursor[Main] # NoCursor, cursor[Main].line = cursor[Main].end,
         cursor[Main].line \in DOMAIN first,
         \A w \in Workers : cursor[w] = NoCursor
  PROVE  Subtracted(cursor[Main].line, cursor[Main].line)
<1>1. Bound(Main) = cursor[Main].end
  BY DEF Bound, Exhausted, Typed, Loops
<1>2. Subtracted(cursor[Main].line, Bound(Main))
  BY DEF Progress
<1> QED
  BY <1>1, <1>2

\* A task that ends has subtracted the products before the batch.
LEMMA TaskEndProgress ==
  ASSUME Typed, Algorithm, Progress, PP!IInv, NEW w \in Workers, TaskEnd(w)
  PROVE  Progress'
<1> USE SolverAssumption, PoolHolds
<1>1. /\ cursor[w] # NoCursor /\ Exhausted(w) /\ P!Work(w)
      /\ cursor' = [cursor EXCEPT ![w] = NoCursor]
      /\ UNCHANGED <<first, dots, finished, I>>
  BY DEF TaskEnd, matrix, batch
<1>2. /\ pc[w] = "work" /\ submitted' = submitted
      /\ executed' = [executed EXCEPT ![task[w]] = @ + 1]
  BY <1>1 DEF P!Work, P!Goto, P!poolVars
<1>3. /\ task[w] \in submitted /\ executed[task[w]] = 0
      /\ cursor[w].line = task[w] /\ cursor[w].end = I
      /\ submitted \subseteq Tasks /\ executed \in [Tasks -> Nat]
  BY <1>1, <1>2, WorkerLoop, WorkerTask, PcTyped DEF Algorithm
<1>4. /\ task[w] \in Ran'
      /\ \A i : i # task[w] => (i \in Ran' <=> i \in Ran)
  <2>1. executed'[task[w]] = 1
    <3>1. task[w] \in Tasks
      BY <1>3
    <3>2. executed'[task[w]] = executed[task[w]] + 1
      BY <1>2, <1>3, <3>1
    <3> QED
      BY <1>3, <3>2
  <2>2. \A i \in submitted : i # task[w] => executed'[i] = executed[i]
    BY <1>2, <1>3
  <2> QED
    BY <1>2, <1>3, <2>1, <2>2 DEF Ran
<1>5. Bound(w) = I
  BY <1>1, <1>3 DEF Bound, Exhausted, Typed, Loops, Threads
<1>6. Subtracted(task[w], I)
  BY <1>1, <1>3, <1>5 DEF Progress, Threads
<1>7. /\ cursor'[w] = NoCursor
      /\ \A t \in Threads \ {w} : cursor'[t] = cursor[t]
  BY <1>1 DEF Typed, Threads
<1>8. \A k, b : Subtracted(k, b)' <=> Subtracted(k, b)
  BY <1>1, SameMatrix
<1>9. \A k \in finished' : Subtracted(k, k)'
  BY <1>1, <1>8 DEF Progress
<1>10. ASSUME NEW u \in Threads, cursor'[u] # NoCursor
       PROVE  Subtracted(cursor[u].line, Bound(u))'
  <2>1. cursor'[u] = cursor[u] /\ Bound(u)' = Bound(u)
    BY <1>7, <1>10 DEF Bound
  <2>2. Subtracted(cursor[u].line, Bound(u))
    BY <1>10, <2>1 DEF Progress
  <2> QED
    BY <1>8, <2>1, <2>2
<1>11. ASSUME NEW k \in DOMAIN first' \ finished', ~InLoop(k)'
       PROVE  Subtracted(k, IF k \in Ran THEN I ELSE 0)'
  <2>1. CASE k = task[w]
    BY <1>1, <1>4, <1>6, <1>8, <2>1
  <2>2. CASE k # task[w]
    <3>1. k \in DOMAIN first \ finished /\ ~InLoop(k)
      BY <1>1, <1>3, <1>7, <1>11, <2>2 DEF InLoop
    <3>2. Subtracted(k, IF k \in Ran THEN I ELSE 0)
      BY <3>1 DEF Progress
    <3> QED
      BY <1>1, <1>4, <1>8, <2>2, <3>2
  <2> QED
    BY <2>1, <2>2
<1> QED
  BY <1>9, <1>10, <1>11 DEF Progress

\* When main finishes its line and goes on with another, or stops.
LEMMA LineProgress ==
  ASSUME Typed, Progress, UNCHANGED <<first, dots>>, Ran' = Ran,
         NEW l \in DOMAIN first, Subtracted(l, l),
         finished' = finished \cup {l}, cursor[Main].line = l,
         \A w \in Workers : cursor[w] = NoCursor /\ cursor'[w] = NoCursor,
         cursor'[Main] # NoCursor =>
           Subtracted(cursor'[Main].line,
                      IF cursor'[Main].column < cursor'[Main].end
                      THEN cursor'[Main].column ELSE cursor'[Main].end),
         I' = I \/ Ran \subseteq finished'
  PROVE  Progress'
<1>1. \A k, b : Subtracted(k, b)' <=> Subtracted(k, b)
  BY SameMatrix
<1>2. ASSUME NEW k \in finished' PROVE Subtracted(k, k)'
  <2>1. k \in finished \/ k = l
    BY <1>2
  <2>2. Subtracted(k, k)
    BY <2>1 DEF Progress
  <2> QED
    BY <1>1, <2>2
<1>3. ASSUME NEW u \in Threads, cursor'[u] # NoCursor
      PROVE  Subtracted(cursor[u].line, Bound(u))'
  <2>1. u = Main
    BY <1>3 DEF Threads
  <2> QED
    BY <1>1, <1>3, <2>1 DEF Bound
<1>4. ASSUME NEW k \in DOMAIN first' \ finished', ~InLoop(k)'
      PROVE  Subtracted(k, IF k \in Ran THEN I ELSE 0)'
  <2>1. k \in DOMAIN first \ finished /\ k # l
    BY <1>4
  <2>2. ~InLoop(k)
    BY <2>1 DEF InLoop, Threads
  <2>3. Subtracted(k, IF k \in Ran THEN I ELSE 0)
    BY <2>1, <2>2 DEF Progress
  <2>4. (IF k \in Ran THEN I ELSE 0)' = IF k \in Ran THEN I ELSE 0
    BY <1>4
  <2> QED
    BY <1>1, <2>3, <2>4
<1> QED
  BY <1>2, <1>3, <1>4 DEF Progress

\* The line the sequential loop ends is complete up to its diagonal.
LEMMA SequenceFinishProgress ==
  ASSUME Typed, Algorithm, Progress, PP!IInv, SequenceFinish
  PROVE  Progress'
<1> USE SolverAssumption, PoolHolds
<1> SUFFICES ASSUME NEW l, l = cursor[Main].line PROVE Progress'
  OBVIOUS
<1>0. /\ where = "sequence" /\ Exhausted(Main)
      /\ finished' = finished \cup {l}
      /\ UNCHANGED <<first, dots, submitted, executed, I>>
      /\ IF l + 1 < Size
         THEN cursor' = [cursor EXCEPT ![Main] = Cursor(l + 1, 1, l + 1)]
         ELSE cursor' = [cursor EXCEPT ![Main] = NoCursor]
  BY DEF SequenceFinish, FinishLine, poolVars, batch
<1>1. /\ l \in 1 .. Size - 1 /\ Size \in Nat
      /\ cursor[Main].end = l /\ cursor[Main].column >= 1
      /\ finished = 0 .. l - 1 /\ submitted = {}
      /\ DOMAIN first = 0 .. Size - 1
      /\ \A w \in Workers : cursor[w] = NoCursor
  BY <1>0, Skyline, NoWorkerLoop
  DEF Typed, Algorithm, Control, Cursors, FinishedLines, Submissions, Loop
<1>2. /\ l \in DOMAIN first /\ Main \in Threads /\ cursor[Main] # NoCursor
      /\ Ran = {} /\ Ran' = Ran
  BY <1>0, <1>1 DEF Threads, NoCursor, Ran
<1>3. Subtracted(l, l)
  BY <1>0, <1>1, <1>2, FinishProgress
<1>4. CASE l + 1 < Size
  <2>0. PICK i : i = l + 1
    OBVIOUS
  <2>1. /\ i \in DOMAIN first \ finished /\ i \in Nat /\ i # l
        /\ cursor' = [cursor EXCEPT ![Main] = Cursor(i, 1, i)]
    BY <1>0, <1>1, <1>4, <2>0
  <2>2. ~InLoop(i)
    BY <1>1, <2>1 DEF InLoop, Threads
  <2>3. PICK a \in Nat : a = IF i \in Ran THEN I ELSE 0
    BY <1>2
  <2>4. Subtracted(i, a)
    BY <2>1, <2>2, <2>3 DEF Progress
  <2>5. PICK j \in Nat : j = 1
    OBVIOUS
  <2>6. a <= j + 1 /\ a <= i /\ j <= 1
    BY <1>2, <2>1, <2>3, <2>5
  <2>7. LET c == Cursor(i, j, i).column
        IN  Subtracted(i, IF c < i THEN c ELSE i)
    BY <2>1, <2>4, <2>6, LoopStarts
  <2>8. /\ Cursor(i, j, i) \in Loops /\ Cursor(i, j, i).line = i
        /\ Cursor(i, j, i).end = i
    BY <2>1, CursorIs
  <2>9. /\ cursor'[Main] = Cursor(i, j, i)
        /\ \A w \in Workers : cursor'[w] = NoCursor
    BY <1>1, <1>2, <2>1, <2>5 DEF Typed, Threads
  <2>10. Subtracted(cursor'[Main].line,
                    IF cursor'[Main].column < cursor'[Main].end
                    THEN cursor'[Main].column ELSE cursor'[Main].end)
    BY <2>7, <2>8, <2>9
  <2> QED
    BY <1>0, <1>1, <1>2, <1>3, <2>9, <2>10, LineProgress
<1>5. CASE ~(l + 1 < Size)
  <2>1. cursor' = [cursor EXCEPT ![Main] = NoCursor]
    BY <1>0, <1>5
  <2>2. /\ cursor'[Main] = NoCursor
        /\ \A w \in Workers : cursor'[w] = NoCursor
    BY <1>1, <1>2, <2>1 DEF Typed, Threads
  <2> QED
    BY <1>0, <1>1, <1>2, <1>3, <2>2, LineProgress
<1> QED
  BY <1>4, <1>5

\* So is the line main ends after the tasks of its batch.
LEMMA LineFinishProgress ==
  ASSUME Typed, Algorithm, Progress, PP!IInv, LineFinish
  PROVE  Progress'
<1> USE SolverAssumption, PoolHolds
<1> SUFFICES ASSUME NEW l, l = cursor[Main].line PROVE Progress'
  OBVIOUS
<1>1. /\ where = "line" /\ finished' = finished \cup {l} /\ Exhausted(Main)
      /\ UNCHANGED <<submitted, executed, first, dots>>
      /\ IF id + 1 < nbJobs
         THEN /\ cursor' = [cursor EXCEPT ![Main] =
                              Cursor(I + id + 1, I - 1, I + id + 1)]
              /\ I' = I
         ELSE /\ I' = I + nbJobs
              /\ cursor' = [cursor EXCEPT ![Main] = NoCursor]
  BY DEF LineFinish, FinishLine, poolVars
<1>2. /\ I \in Nat \ {0} /\ nbJobs \in 1 .. NbSlots /\ id \in 0 .. nbJobs - 1
      /\ I + nbJobs <= Size
  BY <1>1 DEF Typed, Algorithm, Control
<1>3. /\ submitted = 1 .. I + nbJobs - 1
      /\ finished = 0 .. I + id - 1
      /\ l = I + id /\ cursor[Main].end = l /\ cursor[Main].column >= 1
      /\ \A t \in submitted : executed[t] # 0
      /\ \A w \in Workers : cursor[w] = NoCursor
  BY <1>1, NoWorkerLoop DEF Algorithm, Control, Submissions, FinishedLines,
    Cursors, Loop, Executions
<1>4. Size \in Nat /\ DOMAIN first = 0 .. Size - 1
  BY <1>1, Skyline DEF Size, Typed
<1>5. /\ l \in DOMAIN first /\ Main \in Threads /\ cursor[Main] # NoCursor
      /\ Ran = submitted /\ Ran' = Ran
  BY <1>1, <1>2, <1>3, <1>4 DEF Threads, NoCursor, Ran
<1>6. Subtracted(l, l)
  BY <1>1, <1>3, <1>5, FinishProgress
<1>7. CASE id + 1 < nbJobs
  <2>0. PICK i, j : i = I + id + 1 /\ j = I - 1
    OBVIOUS
  <2>1. /\ i \in DOMAIN first \ finished /\ i \in Nat /\ i # l /\ j \in Nat
        /\ I = j + 1 /\ I <= i /\ i \in Ran
        /\ cursor' = [cursor EXCEPT ![Main] = Cursor(i, j, i)]
        /\ I' = I
    BY <1>1, <1>2, <1>3, <1>4, <1>5, <1>7, <2>0
  <2>2. ~InLoop(i)
    BY <1>3, <2>1 DEF InLoop, Threads
  <2>3. Subtracted(i, I)
    BY <2>1, <2>2 DEF Progress
  <2>4. LET c == Cursor(i, j, i).column
        IN  Subtracted(i, IF c < i THEN c ELSE i)
    <3>1. I \in Nat /\ I <= j + 1 /\ I <= i /\ I = j + 1
      BY <1>2, <2>1
    <3> QED
      BY <2>1, <2>3, <3>1, LoopStarts
  <2>5. /\ Cursor(i, j, i) \in Loops /\ Cursor(i, j, i).line = i
        /\ Cursor(i, j, i).end = i
    BY <2>1, CursorIs
  <2>6. /\ cursor'[Main] = Cursor(i, j, i)
        /\ \A w \in Workers : cursor'[w] = NoCursor
    BY <1>3, <1>5, <2>1 DEF Typed, Threads
  <2>7. Subtracted(cursor'[Main].line,
                   IF cursor'[Main].column < cursor'[Main].end
                   THEN cursor'[Main].column ELSE cursor'[Main].end)
    BY <2>4, <2>5, <2>6
  <2> QED
    BY <1>1, <1>3, <1>5, <1>6, <2>1, <2>6, <2>7, LineProgress
<1>8. CASE ~(id + 1 < nbJobs)
  <2>1. cursor' = [cursor EXCEPT ![Main] = NoCursor]
    BY <1>1, <1>8
  <2>2. /\ cursor'[Main] = NoCursor
        /\ \A w \in Workers : cursor'[w] = NoCursor
    BY <1>3, <1>5, <2>1 DEF Typed, Threads
  <2>3. Ran \subseteq finished'
    BY <1>1, <1>2, <1>3, <1>5, <1>8
  <2> QED
    BY <1>1, <1>3, <1>5, <1>6, <2>2, <2>3, LineProgress
<1> QED
  BY <1>7, <1>8

\* A factorization starts with the lines as the matrix had them.
LEMMA SolveProgress ==
  ASSUME Typed, Algorithm, Progress, PP!IInv, NEW threaded \in BOOLEAN,
         Solve(threaded)
  PROVE  Progress'
<1> USE SolverAssumption, PoolHolds
<1>1. /\ where = "idle"
      /\ UNCHANGED <<submitted, executed, first, dots, finished>>
      /\ IF ldlt
         THEN UNCHANGED <<I, cursor>>
         ELSE IF threaded
         THEN UNCHANGED cursor
         ELSE /\ cursor' = IF Size > 1
                           THEN [cursor EXCEPT ![Main] = Cursor(1, 1, 1)]
                           ELSE cursor
              /\ UNCHANGED I
  BY DEF Solve, poolVars, matrix
<1>2. Ran' = Ran
  BY <1>1 DEF Ran
<1>3. CASE ldlt \/ threaded \/ ~(Size > 1)
  <2>1. cursor' = cursor
    BY <1>1, <1>3
  <2>2. CASE I' = I
    BY <1>1, <1>2, <2>1, <2>2, ProgressKept
  <2>3. CASE I' # I
    <3>1. Ran = {}
      BY <1>1, <2>3 DEF Algorithm, Submissions, Ran
    <3> QED
      BY <1>1, <1>2, <2>1, <3>1, ProgressKept
  <2> QED
    BY <2>2, <2>3
<1>4. CASE ~ldlt /\ ~threaded /\ Size > 1
  <2>0. PICK i : i = 1
    OBVIOUS
  <2>1. cursor' = [cursor EXCEPT ![Main] = Cursor(i, i, i)] /\ I' = I
    BY <1>1, <1>4, <2>0
  <2>2. finished = {0} /\ Ran = {} /\ cursor[Main] = NoCursor
    BY <1>1, <1>4 DEF Algorithm, FinishedLines, Submissions, Cursors, Ran
  <2>3. i \in DOMAIN first \ finished /\ i \in Nat /\ i \notin Ran
    BY <1>4, <2>0, <2>2, Skyline DEF Typed
  <2>4. ~InLoop(i) /\ Main \in Threads
    BY <1>1, <2>2, NoWorkerLoop DEF InLoop, Threads
  <2> QED
    BY <1>1, <1>2, <2>0, <2>1, <2>2, <2>3, <2>4, StartProgress
<1> QED
  BY <1>3, <1>4

\* The tasks that were executed went through the columns before the batch.
LEMMA WaitedProgress ==
  ASSUME Typed, Algorithm, Progress, PP!IInv, Waited
  PROVE  Progress'
<1> USE SolverAssumption, PoolHolds
<1>1. /\ where = "wait" /\ pc[Main] = "idle"
      /\ cursor' = [cursor EXCEPT ![Main] = Cursor(I, I, I)]
      /\ UNCHANGED <<submitted, executed, first, dots, finished, I>>
  BY DEF Waited, matrix, poolVars
<1> SUFFICES ASSUME NEW i, i = I PROVE Progress'
  OBVIOUS
<1>2. /\ i \in Nat \ {0} /\ i < Size /\ i \in submitted
      /\ finished = 0 .. i - 1 /\ cursor[Main] = NoCursor /\ Returned
  BY <1>1 DEF Typed, Algorithm, Control, Submissions, FinishedLines, Cursors,
    Returned
<1>3. \A t \in submitted : executed[t] # 0
  BY <1>1, <1>2 DEF Algorithm, Executions
<1>4. \A w \in Workers : cursor[w] = NoCursor
  <2> SUFFICES ASSUME NEW w \in Workers, cursor[w] # NoCursor PROVE FALSE
    OBVIOUS
  <2>1. task[w] \in submitted /\ executed[task[w]] = 0
    BY WorkerLoop, WorkerTask DEF Algorithm
  <2> QED
    BY <1>3, <2>1
<1>5. i \in DOMAIN first \ finished
  BY <1>2, Skyline DEF Typed
<1>6. i \in Ran /\ Ran' = Ran /\ ~InLoop(i) /\ Main \in Threads
  BY <1>1, <1>2, <1>3, <1>4 DEF Ran, InLoop, Threads
<1>7. cursor' = [cursor EXCEPT ![Main] = Cursor(i, i, i)]
  BY <1>1
<1>8. i \in Nat /\ i \in Ran /\ i = I
  BY <1>2, <1>6
<1>9. UNCHANGED <<first, dots, finished, I>> /\ cursor[Main] = NoCursor
  BY <1>1, <1>2
<1> QED
  BY <1>5, <1>6, <1>7, <1>8, <1>9, StartProgress

\* A task starts on a line none went through yet.
LEMMA TaskBeginProgress ==
  ASSUME Typed, Algorithm, Progress, PP!IInv, NEW w \in Workers, TaskBegin(w)
  PROVE  Progress'
<1> USE SolverAssumption, PoolHolds
<1>1. /\ pc[w] = "work" /\ cursor[w] = NoCursor
      /\ params[ParamOf(task[w])].i < Size
      /\ cursor' = [cursor EXCEPT ![w] =
                      Cursor(params[ParamOf(task[w])].i, 1,
                             params[ParamOf(task[w])].jMax)]
      /\ UNCHANGED <<submitted, executed, first, dots, finished, I>>
  BY DEF TaskBegin, poolVars, matrix, batch
<1> SUFFICES ASSUME NEW i, i = task[w], NEW e, e = I, NEW j, j = 1
             PROVE  Progress'
  OBVIOUS
<1>2. /\ where \in {"fill", "wait"} /\ i \in I .. I + id - 1
      /\ params[ParamOf(task[w])] = [i |-> i, jMax |-> e]
      /\ executed[i] = 0
  BY <1>1, WorkerTask DEF Algorithm
<1>3. /\ i < Size
      /\ cursor' = [cursor EXCEPT ![w] = Cursor(i, j, e)]
  BY <1>1, <1>2
<1>4. finished = 0 .. I - 1 /\ I \in Nat /\ id \in Nat /\ cursor[Main] = NoCursor
  BY <1>2 DEF Typed, Algorithm, FinishedLines, Cursors
<1>5. i \in DOMAIN first \ finished /\ e \in Nat /\ j \in Nat
  BY <1>2, <1>3, <1>4, Skyline DEF Typed
<1>6. ~InLoop(i)
  <2> SUFFICES ASSUME NEW v \in Workers, cursor[v] # NoCursor,
                      cursor[v].line = i
               PROVE  FALSE
    BY <1>4 DEF InLoop, Threads
  <2>1. v # w /\ pc[v] = "work" /\ task[v] = i
    BY <1>1, WorkerLoop
  <2> QED
    BY <1>1, <2>1, WorkerTask DEF Algorithm
<1>7. i \notin Ran /\ Ran' = Ran /\ w \in Threads
  BY <1>1, <1>2 DEF Ran, Threads
<1>8. i \notin Ran /\ j = 1
  BY <1>7
<1>9. UNCHANGED <<first, dots, finished, I>> /\ cursor[w] = NoCursor
  BY <1>1
<1> QED
  BY <1>3, <1>5, <1>6, <1>7, <1>8, <1>9, StartProgress

\* A step of the pool executes no task: what it stores was not executed.
LEMMA PoolProgress ==
  ASSUME Typed, Algorithm, Progress, PP!IInv, PoolStep
  PROVE  Progress'
<1>1. UNCHANGED <<first, dots, finished, I, cursor>>
  BY DEF PoolStep, matrix, batch
<1>2. executed' = executed
      /\ (submitted' = submitted
          \/ (Requests /\ submitted' = submitted \cup {task[Main]}))
  BY PoolStepMoves DEF PoolMoves
<1>3. Requests => executed[task[Main]] = 0
  <2>1. Requests => task[Main] \in Tasks \ submitted
    BY DEF PP!IInv, PP!Items, PP!Requested, PP!Requesting, Requests
  <2> QED
    BY <2>1 DEF PP!IInv, PP!CountInv, PP!TypeOK, PP!Items, PP!ExactlyOnce
<1>4. Ran' = Ran
  BY <1>2, <1>3 DEF Ran
<1> QED
  BY <1>1, <1>4, ProgressKept

\* Every step keeps the account of the products of each line.
LEMMA ProgressNext ==
  ASSUME Typed, Algorithm, Progress, PP!IInv, [Next]_vars
  PROVE  Progress'
<1> USE SolverAssumption, PoolHolds
<1>1. ASSUME SequenceColumn \/ LineColumn PROVE Progress'
  <2>1. /\ where \in {"sequence", "line"} /\ Column(Main) /\ Main \in Threads
        /\ UNCHANGED <<submitted, executed, I>>
    BY <1>1 DEF SequenceColumn, LineColumn, poolVars, batch, Threads
  <2>2. cursor[Main] # NoCursor
    BY <2>1 DEF Algorithm, Cursors, Loop, NoCursor
  <2>3. Ran' = Ran
    BY <2>1 DEF Ran
  <2> QED
    BY <2>1, <2>2, <2>3, LoopsApart, ColumnProgress
<1>2. ASSUME NEW w \in Workers, TaskColumn(w) PROVE Progress'
  <2>1. /\ cursor[w] # NoCursor /\ Column(w) /\ w \in Threads
        /\ UNCHANGED <<submitted, executed, I>>
    BY <1>2 DEF TaskColumn, poolVars, batch, Threads
  <2>2. Ran' = Ran
    BY <2>1 DEF Ran
  <2> QED
    BY <2>1, <2>2, LoopsApart, ColumnProgress
<1>3. ASSUME Fill \/ FillEnd \/ Batch \/ Freed \/ Factorized \/ Invert \/ Done
               \/ UNCHANGED vars
      PROVE  Progress'
  <2>1. UNCHANGED <<submitted, executed, first, dots, finished, I, cursor>>
    BY <1>3 DEF Fill, FillEnd, Batch, Freed, Factorized, Invert, Done, vars,
      poolVars, matrix, batch, P!CallRun, P!CallWait, P!CallFree, P!history
  <2>2. Ran' = Ran
    BY <2>1 DEF Ran
  <2> QED
    BY <2>1, <2>2, ProgressKept
<1>4. ASSUME MainStep PROVE Progress'
  BY <1>1, <1>3, <1>4, SequenceFinishProgress, WaitedProgress,
     LineFinishProgress DEF MainStep
<1>5. ASSUME NEW w \in Workers, WorkerStep(w) PROVE Progress'
  BY <1>2, <1>5, TaskBeginProgress, TaskEndProgress DEF WorkerStep
<1> QED
  BY <1>3, <1>4, <1>5, SolveProgress, PoolProgress DEF Next

\* The inductive invariant holds before the first call.
LEMMA AlgorithmInit == Init => SInv
<1> SUFFICES ASSUME Init PROVE SInv
  OBVIOUS
<1> USE SolverAssumption, PoolHolds
<1>1. /\ first \in Profiles /\ dots = M!NoDots /\ finished = {0} /\ ldlt = FALSE
      /\ where = "idle" /\ I = 1 /\ nbJobs = 0 /\ id = 0
      /\ params = [k \in 0 .. NbSlots - 1 |-> [i |-> 0, jMax |-> 0]]
      /\ cursor = [t \in Threads |-> NoCursor]
  BY DEF Init
<1>2. /\ pc[Main] = "idle" /\ submitted = {}
      /\ \A w \in Workers : cursor[w] = NoCursor
      /\ cursor[Main] = NoCursor
  BY <1>1 DEF Init, P!Init, P!Threads, Threads
<1>3. dots = [i \in DOMAIN first |-> [j \in DOMAIN first |-> 0]]
  BY <1>1 DEF M!NoDots, M!Lines
<1>4. 0 \in DOMAIN first /\ DOMAIN first \subseteq Nat
  BY <1>1, Skyline
<1>5. Typed
  <2>1. params \in [0 .. NbSlots - 1 -> Params] /\ cursor \in [Threads -> Loops]
    BY <1>1 DEF Params, Loops, NoCursor
  <2>2. dots \in [DOMAIN first -> [DOMAIN first -> Nat]]
    BY <1>3
  <2>3. ldlt \in BOOLEAN
    BY <1>1, Zenon
  <2> QED
    BY <1>1, <1>4, <2>1, <2>2, <2>3 DEF Typed, Places
<1>6. Algorithm
  BY <1>1, <1>2 DEF Algorithm, Control, Submissions, Executions, BatchParams,
    FinishedLines, Cursors, Requests
<1>7. Progress
  <2>1. Ran = {}
    BY <1>2 DEF Ran
  <2>2. ASSUME NEW i \in DOMAIN first PROVE Subtracted(i, 0)
    BY <1>3, <1>4 DEF Subtracted
  <2>3. Subtracted(0, 0)
    BY <1>4, <2>2
  <2>4. \A i \in finished : Subtracted(i, i)
    BY <1>1, <2>3
  <2> QED
    BY <1>1, <2>1, <2>2, <2>4 DEF Progress
<1>8. PP!IInv
  <2>1. PP!Init
    BY SameClient DEF Init
  <2> QED
    BY <2>1, PP!CountInit, PP!ItemsInit DEF PP!IInv
<1> QED
  BY <1>5, <1>6, <1>7, <1>8 DEF SInv

\* Main, the tasks and the pool keep in step, whatever the interleaving: the
\* inductive invariant holds in every reachable state.
THEOREM SolverInvariance == Spec => []SInv
<1>1. Init => SInv
  BY AlgorithmInit
<1>2. SInv /\ [Next]_vars => SInv'
  <2> SUFFICES ASSUME SInv, [Next]_vars PROVE SInv'
    OBVIOUS
  <2>1. Typed /\ Algorithm /\ Progress /\ PP!IInv /\ Control
    BY DEF SInv, Algorithm
  <2>2. Typed' /\ Algorithm'
    BY <2>1, AlgorithmNext
  <2>3. Progress' /\ PP!IInv'
    BY <2>1, ProgressNext, PoolNext
  <2> QED
    BY <2>2, <2>3 DEF SInv
<1> QED
  BY <1>1, <1>2, PTL DEF Spec

-----------------------------------------------------------------------------
(* What follows for the solver *)

\* No two threads are on the same line, none writes a line another one reads,
\* and the parameters of a task are not overwritten before it has run (lines
\* 182-186 and 288-309).
THEOREM NoDataRace == Spec => []NoRace
<1>1. SInv => NoRace
  <2> SUFFICES ASSUME SInv PROVE NoRace
    OBVIOUS
  <2>1. Typed /\ Algorithm /\ PP!IInv
    BY DEF SInv
  <2>2. ASSUME NEW t \in Threads, NEW w \in Workers, t # w,
               cursor[t] # NoCursor, cursor[w] # NoCursor
        PROVE  cursor[w].line # cursor[t].line /\ cursor[w].line >= cursor[t].end
    <3>1. /\ cursor[w].line = task[w] /\ cursor[Main] = NoCursor
          /\ task[w] \in I .. I + id - 1
      BY <2>1, <2>2, WorkerLoop
    <3>2. t \in Workers
      BY <2>2, <3>1 DEF Threads
    <3>3. cursor[t].end = I
      BY <2>1, <2>2, <3>2, WorkerLoop
    <3>4. cursor[w].line # cursor[t].line
      BY <2>1, <2>2, LoopsApart DEF Threads
    <3> QED
      BY <2>1, <3>1, <3>3, <3>4 DEF Typed
  <2>3. ASSUME NEW t \in submitted, executed[t] = 0
        PROVE  params[ParamOf(t)].i = t
    <3>1. where \in {"fill", "wait"} /\ t >= I
      BY <2>1, <2>3 DEF Algorithm, Executions
    <3>2. /\ I \in Nat /\ id \in Nat /\ Aligned /\ id <= nbJobs
          /\ nbJobs \in 1 .. NbSlots /\ t \in I .. I + id - 1
      BY <2>1, <2>3, <3>1 DEF Typed, Algorithm, Control, Submissions
    <3>3. PICK k \in 0 .. id - 1 : t = I + k
      <4>1. t - I \in 0 .. id - 1 /\ t = I + (t - I)
        BY <3>2
      <4> QED
        BY <4>1
    <3>4. k \in 0 .. NbSlots - 1
      BY <3>2, <3>3, PoolHolds
    <3>5. ParamOf(t) = k
      BY <3>2, <3>3, <3>4, AlignedEntry
    <3>6. params[k] = [i |-> I + k, jMax |-> I]
      BY <2>1, <3>1, <3>3 DEF Algorithm, BatchParams
    <3> QED
      BY <3>3, <3>5, <3>6
  <2> QED
    BY <2>2, <2>3 DEF NoRace, LinesApart, ParamsStable
<1> QED
  BY SolverInvariance, <1>1, PTL

\* What a loop reads of the other lines is final (line 134).
LEMMA EarlierFinal == SInv => EarlierLinesFinal
<1> SUFFICES ASSUME SInv, NEW t \in Threads, cursor[t] # NoCursor
             PROVE  0 .. cursor[t].end - 1 \subseteq finished
  BY DEF EarlierLinesFinal
<1>1. Typed /\ Algorithm /\ PP!IInv
  BY DEF SInv
<1>2. CASE t \in Workers
  <2>1. where \in {"fill", "wait"} /\ cursor[t].end = I
    BY <1>1, <1>2, WorkerLoop
  <2> QED
    BY <1>1, <2>1 DEF Algorithm, FinishedLines
<1>3. CASE t = Main
  <2>1. where \in {"sequence", "line"}
    BY <1>1, <1>3 DEF Algorithm, Cursors
  <2>2. CASE where = "sequence"
    BY <1>1, <1>3, <2>2 DEF Algorithm, Cursors, FinishedLines, Loop
  <2>3. CASE where = "line"
    <3>1. cursor[t].end = I + id
      BY <1>1, <1>3, <2>3 DEF Algorithm, Cursors, Loop
    <3>2. finished = 0 .. I + id - 1
      BY <1>1, <2>3 DEF Algorithm, FinishedLines
    <3>3. PICK e \in Int : e = I + id
      BY <1>1 DEF Typed
    <3>4. /\ cursor[t].end = e
          /\ finished = 0 .. e - 1
      BY <1>1, <3>1, <3>2, <3>3 DEF Typed
    <3> QED
      BY <3>4
  <2> QED
    BY <2>1, <2>2, <2>3
<1> QED
  BY <1>2, <1>3 DEF Threads

\* A loop on the columns of a line reads lines that are finished only, by
\* whichever thread and at whichever moment (line 134).
THEOREM ReadsFinalLines == Spec => []EarlierLinesFinal
BY SolverInvariance, EarlierFinal, PTL

\* The substitutions start when every line of the matrix is finished.
THEOREM InvertsAll == Spec => []InvertsFactorized
<1>1. SInv => InvertsFactorized
  BY DEF SInv, Algorithm, FinishedLines, InvertsFactorized
<1> QED
  BY SolverInvariance, <1>1, PTL

\* A finished line had its products subtracted once each; of column 1 alone,
\* which the tasks and the sequential loop start after, it may have kept the
\* product (lines 155, 183 and 359).
LinesCompleteButOne ==
  \A i \in finished, j \in DOMAIN first :
    /\ j # 1 => dots[i][j] = IF M!HasDot(i, j) THEN 1 ELSE 0
    /\ j = 1 => dots[i][j] \in IF M!HasDot(i, j) THEN {0, 1} ELSE {0}

\* What the inductive invariant says of a line that is finished.
LEMMA FinishedLine ==
  ASSUME Typed, NEW i \in DOMAIN first, Subtracted(i, i), NEW j \in DOMAIN first
  PROVE  dots[i][j] \in IF M!HasDot(i, j)
                        THEN IF j = 1 THEN {0, 1} ELSE {1}
                        ELSE {0}
<1>1. M!HasDot(i, j) => j < i
  BY DEF M!HasDot, M!Stored
<1>2. dots[i][j] \in IF M!HasDot(i, j) /\ j < i
                     THEN IF j = 1 THEN {0, 1} ELSE {1}
                     ELSE {0}
  BY DEF Subtracted
<1> QED
  BY <1>1, <1>2

\* Both factorizations subtract every product but those of column 1, whatever
\* the matrix (lines 235-237).
THEOREM CompleteButOne == Spec => []LinesCompleteButOne
<1>1. SInv => LinesCompleteButOne
  <2> SUFFICES ASSUME SInv, NEW i \in finished, NEW j \in DOMAIN first
               PROVE  /\ j # 1 => dots[i][j] = IF M!HasDot(i, j) THEN 1 ELSE 0
                      /\ j = 1 => dots[i][j] \in IF M!HasDot(i, j)
                                                 THEN {0, 1} ELSE {0}
    BY DEF LinesCompleteButOne
  <2>1. Typed /\ Subtracted(i, i) /\ i \in DOMAIN first
    BY DEF SInv, Typed, Progress
  <2>2. dots[i][j] \in IF M!HasDot(i, j)
                       THEN IF j = 1 THEN {0, 1} ELSE {1}
                       ELSE {0}
    BY <2>1, FinishedLine
  <2> QED
    BY <2>2
<1> QED
  BY SolverInvariance, <1>1, PTL

\* No line has a product in column 1: line 1 or the line itself does not store
\* column 0.
NoDotInColumnOne ==
  \A p \in Profiles : \A i \in DOMAIN p :
    i > 1 => p[i] # 0 \/ p[1] # 0

\* The hypothesis of the theorem that follows, as the lines use it.
LEMMA ColumnOne ==
  ASSUME NoDotInColumnOne, Typed, NEW i \in DOMAIN first
  PROVE  ~M!HasDot(i, 1)
<1> SUFFICES ASSUME M!HasDot(i, 1) PROVE FALSE
  OBVIOUS
<1>1. 1 < i
  BY DEF M!HasDot, M!Stored
<1>2. 1 \in DOMAIN first /\ first[1] \in Nat /\ first[i] \in Nat
  BY <1>1, Skyline DEF Typed
<1>3. first[i] = 0 /\ first[1] = 0
  BY <1>2 DEF M!HasDot, M!From
<1>4. first[i] # 0 \/ first[1] # 0
  BY <1>1 DEF NoDotInColumnOne, Typed
<1> QED
  BY <1>3, <1>4

\* Without such a product, a finished line is complete whichever of the two
\* factorizations ran and however its tasks interleaved (lines 235-237).
THEOREM Complete == ASSUME NoDotInColumnOne PROVE Spec => []LinesComplete
<1>1. SInv => LinesComplete
  <2> SUFFICES ASSUME SInv, NEW i \in finished, NEW j \in DOMAIN first
               PROVE  dots[i][j] = IF M!HasDot(i, j) THEN 1 ELSE 0
    BY DEF LinesComplete
  <2>1. Typed /\ Subtracted(i, i) /\ i \in DOMAIN first
    BY DEF SInv, Typed, Progress
  <2>2. dots[i][j] \in IF M!HasDot(i, j)
                       THEN IF j = 1 THEN {0, 1} ELSE {1}
                       ELSE {0}
    BY <2>1, FinishedLine
  <2>3. j = 1 => ~M!HasDot(i, j)
    BY <2>1, ColumnOne
  <2> QED
    BY <2>2, <2>3
<1> QED
  BY SolverInvariance, <1>1, PTL

-----------------------------------------------------------------------------
(* The lines handed to the workers *)

\* The last batch is cut short: what remains is less than the test of line 282
\* compares it with.
LastBatchShort ==
  \A p \in Profiles :
    (Cardinality(DOMAIN p) - 1) % NbSlots < Cardinality(Workers)

BatchInMatrix ==
  /\ LinesInMatrix
  /\ where = "fill" => I + nbJobs <= Size

\* Line 282 compares with nb_threads what it should compare with nb_jobs: the
\* lines handed over are all in the matrix when the lines left for the last
\* batch are fewer than the threads (lines 276-299).
THEOREM WithinMatrix == ASSUME LastBatchShort PROVE Spec => []LinesInMatrix
<1>1. Init => BatchInMatrix
  <2> SUFFICES ASSUME Init PROVE BatchInMatrix
    OBVIOUS
  <2>1. Size \in Nat \ {0}
    BY Skyline DEF Init
  <2> QED
    BY <2>1 DEF Init, BatchInMatrix, LinesInMatrix
<1>2. SInv /\ BatchInMatrix /\ [Next]_vars => BatchInMatrix'
  <2> SUFFICES ASSUME SInv, BatchInMatrix, [Next]_vars PROVE BatchInMatrix'
    OBVIOUS
  <2>1. Typed /\ Control /\ Size \in Nat /\ NbSlots \in Nat \ {0}
    BY Skyline, PoolHolds DEF SInv, Algorithm, Typed
  <2>2. ASSUME Fill PROVE BatchInMatrix'
    <3>1. /\ where = "fill" /\ id < nbJobs
          /\ params' = [params EXCEPT ![id] = [i |-> I + id, jMax |-> I]]
          /\ UNCHANGED <<first, I, nbJobs, where>>
      BY <2>2 DEF Fill, matrix
    <3>2. /\ I \in Nat /\ id \in Nat /\ nbJobs \in Nat /\ I + nbJobs <= Size
          /\ params \in [0 .. NbSlots - 1 -> Params]
      BY <2>1, <3>1 DEF BatchInMatrix, Typed
    <3>3. I + id < Size /\ Size' = Size
      BY <2>1, <3>1, <3>2 DEF Size
    <3>4. ASSUME NEW k \in 0 .. NbSlots - 1 PROVE params'[k].i < Size
      <4>1. CASE k = id
        BY <3>1, <3>2, <3>3, <4>1
      <4>2. CASE k # id
        BY <3>1, <3>2, <4>2 DEF BatchInMatrix, LinesInMatrix
      <4> QED
        BY <4>1, <4>2
    <3> QED
      BY <3>1, <3>2, <3>3, <3>4 DEF BatchInMatrix, LinesInMatrix
  <2>3. ASSUME Batch PROVE BatchInMatrix'
    <3>1. where = "batch" /\ UNCHANGED <<first, I, params>>
      BY <2>3 DEF Batch, matrix
    <3>2. LinesInMatrix' /\ Size' = Size
      BY <3>1 DEF BatchInMatrix, LinesInMatrix, Size
    <3>3. CASE I < Size
      <4>1. nbJobs' = IF I + NbThreads > Size THEN Size - I ELSE nbJobs
        BY <2>3, <3>3 DEF Batch
      <4>2. /\ I \in Nat /\ NbThreads \in Nat /\ NbSlots = 2 * NbThreads
            /\ nbJobs = NbSlots
        BY <2>1, <3>1, <3>3, SolverAssumption, FS_CardinalityType
        DEF Typed, Control, NbThreads
      <4>3. PICK q \in Nat : I = q * NbSlots + 1
        BY <2>1, <3>1, <3>3 DEF Control, Aligned
      <4>4. CASE I + NbThreads > Size
        BY <2>1, <3>1, <3>2, <4>1, <4>2, <4>4 DEF BatchInMatrix
      <4>5. CASE I + NbThreads <= Size
        <5>1. I + NbSlots <= Size
          <6> SUFFICES ASSUME I + NbSlots > Size PROVE FALSE
            BY <2>1, <4>2
          <6>1. PICK r \in Int : r = Size - I
            BY <2>1, <4>2
          <6>2. r \in 0 .. NbSlots - 1 /\ r >= NbThreads
            BY <2>1, <4>2, <4>5, <6>1
          <6>3. Size - 1 = q * NbSlots + r
            BY <2>1, <4>2, <4>3, <6>1
          <6>4. (q * NbSlots + r) % NbSlots = r
            BY <2>1, <6>2, Remainder
          <6>5. (Size - 1) % NbSlots = r
            BY <6>3, <6>4
          <6>6. (Size - 1) % NbSlots < NbThreads
            BY <2>1 DEF LastBatchShort, Size, NbThreads, Typed
          <6> QED
            BY <4>2, <6>2, <6>5, <6>6
        <5> QED
          BY <2>1, <3>1, <3>2, <4>1, <4>2, <4>5, <5>1 DEF BatchInMatrix
      <4> QED
        BY <2>1, <4>2, <4>4, <4>5
    <3>4. CASE ~(I < Size)
      <4>1. where' = "free"
        BY <2>3, <3>4 DEF Batch
      <4> QED
        BY <3>2, <4>1 DEF BatchInMatrix
    <3> QED
      BY <3>3, <3>4
  <2>4. ASSUME UNCHANGED <<first, params>>,
               where' = "fill" => where = "fill" /\ UNCHANGED <<I, nbJobs>>
        PROVE  BatchInMatrix'
    BY <2>4 DEF BatchInMatrix, LinesInMatrix, Size
  <2>5. ASSUME NEW threaded \in BOOLEAN, Solve(threaded)
        PROVE  UNCHANGED <<first, params>> /\ where' # "fill"
    <3>1. /\ UNCHANGED <<first, params>>
          /\ where' \in {"invert", "batch", "sequence", "factorized"}
      BY <2>5 DEF Solve, matrix
    <3> QED
      BY <3>1
  <2>6. ASSUME \/ SequenceColumn \/ SequenceFinish \/ Waited \/ LineColumn
               \/ LineFinish \/ Freed \/ Factorized \/ Invert \/ FillEnd
        PROVE  UNCHANGED <<first, params>> /\ where' # "fill"
    BY <2>6 DEF SequenceColumn, SequenceFinish, Waited, LineColumn, LineFinish,
      Freed, Factorized, Invert, FillEnd, Column, FinishLine, matrix, batch
  <2>7. ASSUME \/ \E w \in Workers : WorkerStep(w)
               \/ PoolStep \/ Done \/ UNCHANGED vars
        PROVE  UNCHANGED <<first, params, where, I, nbJobs>>
    BY <2>7 DEF WorkerStep, TaskBegin, TaskColumn, TaskEnd, Column, PoolStep,
      Done, vars, matrix, batch
  <2> QED
    BY <2>2, <2>3, <2>4, <2>5, <2>6, <2>7 DEF Next, MainStep
<1>3. BatchInMatrix => LinesInMatrix
  BY DEF BatchInMatrix
<1> QED
  BY SolverInvariance, <1>1, <1>2, <1>3, PTL DEF Spec

-----------------------------------------------------------------------------
(* The solver implements the factorization of Ldlt *)

\* A turn of the loop on j subtracts a product that Ldlt allows: the line it
\* reads is final and the columns before were done (lines 155-169).
LEMMA ColumnImplements ==
  ASSUME NoDotInColumnOne, SInv, NEW t \in Threads, cursor[t] # NoCursor,
         Column(t)
  PROVE  [M!Next]_(M!vars)
<1>1. Typed /\ Algorithm /\ Progress /\ PP!IInv
  BY DEF SInv
<1> SUFFICES ASSUME NEW i, NEW j, i = cursor[t].line, j = cursor[t].column
             PROVE  [M!Next]_(M!vars)
  OBVIOUS
<1>2. /\ j < cursor[t].end
      /\ dots' = IF M!HasDot(i, j) THEN [dots EXCEPT ![i][j] = @ + 1] ELSE dots
      /\ UNCHANGED <<first, finished>>
  BY DEF Column
<1>3. CASE ~M!HasDot(i, j)
  BY <1>2, <1>3 DEF M!vars
<1>4. CASE M!HasDot(i, j)
  <2>1. /\ i \in DOMAIN first \ finished /\ j \in Nat /\ cursor[t].end \in Nat
        /\ DOMAIN first = 0 .. Size - 1 /\ Size \in Nat
    BY <1>1, LoopsApart, Skyline DEF Typed, Loops
  <2>2. j < i /\ j \in DOMAIN first
    BY <1>4, <2>1 DEF M!HasDot, M!Stored
  <2>3. j \in finished
    BY <1>1, <1>2, <2>1, EarlierFinal DEF EarlierLinesFinal
  <2>4. Subtracted(i, j)
    BY <1>1, <1>2 DEF Progress, Bound
  <2>5. dots[i][j] = 0
    BY <2>1, <2>2, <2>4 DEF Subtracted
  <2>6. ASSUME NEW k \in M!From(i, j) .. j - 1, M!HasDot(i, k)
        PROVE  dots[i][k] = 1
    <3>1. first[i] \in Nat /\ first[j] \in Nat
      BY <1>1, <2>1, <2>2, Skyline DEF Typed
    <3>2. k \in Nat /\ k < j
      BY <2>1, <2>6, <3>1 DEF M!From
    <3>3. k \in DOMAIN first
      BY <2>1, <2>2, <3>2
    <3>4. k # 1
      BY <1>1, <2>1, <2>6, ColumnOne
    <3> QED
      BY <2>4, <2>6, <3>2, <3>3, <3>4 DEF Subtracted
  <2>7. dots' = [dots EXCEPT ![i][j] = 1]
    <3>1. dots \in [DOMAIN first -> [DOMAIN first -> Nat]]
      BY <1>1 DEF Typed
    <3> QED
      BY <1>2, <1>4, <2>1, <2>2, <2>5, <3>1
  <2>8. M!Dot(i, j)
    BY <1>2, <1>4, <2>1, <2>3, <2>5, <2>6, <2>7 DEF M!Dot
  <2> QED
    BY <2>1, <2>2, <2>8 DEF M!Next, M!Lines
<1> QED
  BY <1>3, <1>4

\* Main finishes a line when Ldlt allows it.
LEMMA FinishImplements ==
  ASSUME NoDotInColumnOne, SInv, Exhausted(Main), FinishLine,
         cursor[Main] # NoCursor, cursor[Main].line = cursor[Main].end
  PROVE  M!Next
<1> USE SolverAssumption
<1>1. Typed /\ Algorithm /\ Progress /\ PP!IInv /\ Main \in Threads
  BY DEF SInv, Threads
<1> SUFFICES ASSUME NEW i, i = cursor[Main].line PROVE M!Next
  OBVIOUS
<1>2. finished' = finished \cup {i} /\ UNCHANGED <<first, dots>>
  BY DEF FinishLine
<1>3. i \in DOMAIN first \ finished
  BY <1>1, LoopsApart
<1>4. \A w \in Workers : cursor[w] = NoCursor
  BY <1>1, WorkerLoop
<1>5. Subtracted(i, i)
  BY <1>1, <1>3, <1>4, FinishProgress
<1>6. ASSUME NEW j \in DOMAIN first, M!HasDot(i, j) PROVE dots[i][j] = 1
  <2>1. j # 1
    BY <1>1, <1>3, <1>6, ColumnOne
  <2>2. dots[i][j] \in IF M!HasDot(i, j)
                       THEN IF j = 1 THEN {0, 1} ELSE {1}
                       ELSE {0}
    BY <1>1, <1>3, <1>5, FinishedLine
  <2> QED
    BY <1>6, <2>1, <2>2
<1>7. ASSUME NEW j \in DOMAIN first, M!Stored(i, j) PROVE j \in finished
  <2>1. 0 .. i - 1 \subseteq finished
    BY <1>1, EarlierFinal DEF EarlierLinesFinal
  <2>2. j < i /\ j \in Nat /\ i \in Nat
    BY <1>1, <1>3, <1>7, Skyline DEF M!Stored, Typed
  <2> QED
    BY <2>1, <2>2
<1>8. M!Finish(i)
  BY <1>2, <1>3, <1>6, <1>7 DEF M!Finish, M!Lines
<1> QED
  BY <1>3, <1>8 DEF M!Next, M!Lines

\* Whatever the number of threads, the profile and the interleaving, the solver
\* subtracts a product and finishes a line only when what this reads is final.
THEOREM SolverImplementsLdlt ==
  ASSUME NoDotInColumnOne PROVE Spec => Implements
<1>1. Init => M!Init
  <2> SUFFICES ASSUME Init PROVE M!Init
    OBVIOUS
  <2>1. M!IsProfile(first)
    BY ProfilesAssumption DEF Init
  <2> QED
    BY <2>1 DEF Init, M!Init
<1>2. SInv /\ [Next]_vars => [M!Next]_(M!vars)
  <2> SUFFICES ASSUME SInv, [Next]_vars PROVE [M!Next]_(M!vars)
    OBVIOUS
  <2>1. Typed /\ Algorithm /\ PP!IInv
    BY DEF SInv
  <2>2. ASSUME SequenceColumn \/ LineColumn PROVE [M!Next]_(M!vars)
    <3>1. where \in {"sequence", "line"} /\ Column(Main) /\ Main \in Threads
      BY <2>2 DEF SequenceColumn, LineColumn, Threads
    <3>2. cursor[Main] # NoCursor
      BY <2>1, <3>1 DEF Algorithm, Cursors, Loop, NoCursor
    <3> QED
      BY <3>1, <3>2, ColumnImplements
  <2>3. ASSUME NEW w \in Workers, TaskColumn(w) PROVE [M!Next]_(M!vars)
    BY <2>3, ColumnImplements DEF TaskColumn, Threads
  <2>4. ASSUME SequenceFinish \/ LineFinish PROVE M!Next
    <3>1. where \in {"sequence", "line"} /\ Exhausted(Main) /\ FinishLine
      BY <2>4 DEF SequenceFinish, LineFinish
    <3>2. cursor[Main] # NoCursor /\ cursor[Main].line = cursor[Main].end
      BY <2>1, <3>1 DEF Algorithm, Cursors, Loop, NoCursor
    <3> QED
      BY <3>1, <3>2, FinishImplements
  <2>5. ASSUME Batch \/ Fill \/ FillEnd \/ Waited \/ Freed \/ Factorized \/ Invert
        PROVE  UNCHANGED M!vars
    BY <2>5 DEF Batch, Fill, FillEnd, Waited, Freed, Factorized, Invert,
      matrix, M!vars
  <2>6. ASSUME NEW w \in Workers, TaskBegin(w) \/ TaskEnd(w)
        PROVE  UNCHANGED M!vars
    BY <2>6 DEF TaskBegin, TaskEnd, matrix, M!vars
  <2>7. ASSUME \/ \E threaded \in BOOLEAN : Solve(threaded)
               \/ PoolStep \/ Done \/ UNCHANGED vars
        PROVE  UNCHANGED M!vars
    BY <2>7 DEF Solve, PoolStep, Done, vars, matrix, M!vars
  <2> QED
    BY <2>2, <2>3, <2>4, <2>5, <2>6, <2>7 DEF Next, MainStep, WorkerStep
<1> QED
  BY SolverInvariance, <1>1, <1>2, PTL DEF Spec, Implements, M!Spec
=============================================================================
