------------------------------- MODULE Solver -------------------------------
(***************************************************************************)
(* The linear solver of modules/fem/src/solver.c: fem_solver and           *)
(* fem_solver_threaded, with the pool of threads of Pool.tla under the     *)
(* threaded factorization.                                                 *)
(*                                                                         *)
(* The main thread, the pool's only client, factorizes the matrix once, in *)
(* sequence or by batches of lines: each line of a batch is given to the   *)
(* pool, which subtracts the products with the lines before the batch, and *)
(* main then goes on alone with the columns of the batch.  Coefficients    *)
(* are abstracted as in Ldlt.tla; lines are numbered from 0 as in the code.*)
(***************************************************************************)
EXTENDS Integers, FiniteSets, FiniteSetsExt

CONSTANTS
  Workers, Main,   \* the threads
  NbSlots,         \* nb_jobs as given to haplo_pool_new
  Tasks,           \* a task is named by the line it works on
  NoTask,
  Profiles,        \* the profiles of matrix to solve, functions on 0..n-1
  MaxSolves        \* bound: calls to the solver with the same matrix

\* haplo_pool_new is asked for twice as many slots as threads (solver.c,
\* lines 259 and 269), and there is at least one thread.
ASSUME SolverAssumption ==
  /\ IsFiniteSet(Workers)
  /\ Workers # {}
  /\ Main \notin Workers
  /\ NbSlots = 2 * Cardinality(Workers)
  /\ Tasks \subseteq Nat
  /\ NoTask \notin Tasks
  /\ MaxSolves \in Nat

VARIABLES
  head, pending, running, alive, slots, pc, task, closing, submitted, executed,
  first, dots, finished,
  ldlt,       \* mat->state is FEM_MATRIX_LDLT
  where,      \* where the main thread is in solver()
  I,          \* first line of the batch
  nbJobs,     \* nb_jobs
  id,         \* index, in the batch, of the job or of the line
  params,     \* params[id].i and params[id].j_max
  cursor,     \* line, column and bound of the loop of solver_line_factorize
  solves      \* number of calls to the solver so far

P == INSTANCE Pool WITH Clients <- {Main}, Owner <- Main
M == INSTANCE Ldlt

\* A profile is that of a skyline matrix of one line at least, and every line
\* number a whole batch may reach from a line of the matrix is a task.
ASSUME ProfilesAssumption ==
  \A p \in Profiles :
    /\ IsFiniteSet(DOMAIN p)
    /\ DOMAIN p # {}
    /\ M!IsProfile(p)
    /\ 1 .. Cardinality(DOMAIN p) + NbSlots - 2 \subseteq Tasks

poolVars == <<head, pending, running, alive, slots, pc, task, closing,
              submitted, executed>>
matrix   == <<first, dots, finished>>
batch    == <<I, nbJobs, id, params>>
vars     == <<poolVars, matrix, batch, ldlt, where, cursor, solves>>

Size      == Cardinality(DOMAIN first)
NbThreads == Cardinality(Workers)
Threads   == Workers \cup {Main}
NoCursor  == [line |-> 0, column |-> 0, end |-> 0]

\* Mutant: from column j_min itself.
CursorFromMin(i, jMin, jMax) ==
  [line |-> i, column |-> Max({jMin, first[i]}), end |-> jMax]

\* solver_line_factorize(mat, i, j_min, j_max) goes from the column after
\* j_min, or after the first of the line, to the column before j_max.
Cursor(i, jMin, jMax) ==
  [line |-> i, column |-> Max({jMin, first[i]}) + 1, end |-> jMax]

Init ==
  /\ P!Init
  /\ first \in Profiles
  /\ dots = M!NoDots
  /\ finished = {0}
  /\ ldlt = FALSE
  /\ where = "idle"
  /\ I = 1
  /\ nbJobs = 0
  /\ id = 0
  /\ params = [k \in 0 .. NbSlots - 1 |-> [i |-> 0, jMax |-> 0]]
  /\ cursor = [t \in Threads |-> NoCursor]
  /\ solves = 0

-----------------------------------------------------------------------------
(* solver_line_factorize and solver_line_finish *)

\* One turn of the loop on j: the product of lines i and j, if they have a
\* column in common before j, is subtracted from A(i,j).
Column(t) ==
  LET i == cursor[t].line
      j == cursor[t].column
  IN  /\ j < cursor[t].end
      /\ dots' = IF M!HasDot(i, j) THEN [dots EXCEPT ![i][j] = @ + 1] ELSE dots
      /\ cursor' = [cursor EXCEPT ![t].column = j + 1]
      /\ UNCHANGED <<first, finished>>

Exhausted(t) == cursor[t].column >= cursor[t].end

FinishLine ==
  /\ finished' = finished \cup {cursor[Main].line}
  /\ UNCHANGED <<first, dots>>

-----------------------------------------------------------------------------
(* The worker threads: solver_factorize_threaded_task *)

\* The pool is there from haplo_pool_new to haplo_pool_free.
PoolExists == where \in {"batch", "fill", "wait", "line", "free"}

\* The task is called with the address of an entry of params, which main
\* reuses from one batch to the next.
ParamOf(t) == (t - 1) % NbSlots

\* The call reads its parameters.  A line past the end of the matrix is
\* undefined behaviour: FIRST(i) reads past the end of mat->diag.
TaskBegin(w) ==
  /\ pc[w] = "work"
  /\ cursor[w] = NoCursor
  /\ LET p == params[ParamOf(task[w])]
     IN  /\ p.i < Size
         /\ cursor' = [cursor EXCEPT ![w] = Cursor(p.i, 1, p.jMax)]
  /\ UNCHANGED <<poolVars, matrix, batch, ldlt, where, solves>>

TaskColumn(w) ==
  /\ pc[w] = "work"
  /\ cursor[w] # NoCursor
  /\ Column(w)
  /\ UNCHANGED <<poolVars, batch, ldlt, where, solves>>

TaskEnd(w) ==
  /\ cursor[w] # NoCursor
  /\ Exhausted(w)
  /\ P!Work(w)
  /\ cursor' = [cursor EXCEPT ![w] = NoCursor]
  /\ UNCHANGED <<matrix, batch, ldlt, where, solves>>

PoolStep ==
  /\ PoolExists
  /\ \/ \E w \in Workers : \/ P!Loop(w) \/ P!TakeSleep(w) \/ P!TakeDie(w)
                           \/ P!Take(w) \/ P!SignalPop(w) \/ P!End(w)
                           \/ P!SignalFinish(w)
     \/ P!RunStep(Main)
     \/ P!OwnerStep
     \/ \E t \in Threads : P!SpuriousWakeup(t)
  /\ UNCHANGED <<matrix, batch, ldlt, where, cursor, solves>>

-----------------------------------------------------------------------------
(* solver(), called by fem_solver (one thread) and fem_solver_threaded *)

\* A matrix that is factorized already goes straight to the substitutions;
\* solver_factorize_sequential works on line 1 next, if there is one, and
\* solver_factorize_threaded creates the pool.
Solve(threaded) ==
  /\ where = "idle"
  /\ solves < MaxSolves
  /\ solves' = solves + 1
  /\ IF ldlt
     THEN where' = "invert" /\ UNCHANGED <<I, nbJobs, cursor>>
     ELSE IF threaded
     THEN where' = "batch" /\ I' = 1 /\ nbJobs' = NbSlots /\ UNCHANGED cursor
     ELSE /\ where' = IF Size > 1 THEN "sequence" ELSE "factorized"
          /\ cursor' = IF Size > 1
                       THEN [cursor EXCEPT ![Main] = Cursor(1, 1, 1)]
                       ELSE cursor
          /\ UNCHANGED <<I, nbJobs>>
  /\ UNCHANGED <<poolVars, matrix, id, params, ldlt>>

\* One turn of the loop of solver_factorize_sequential, column by column.
SequenceColumn ==
  /\ where = "sequence"
  /\ Column(Main)
  /\ UNCHANGED <<poolVars, batch, ldlt, where, solves>>

SequenceFinish ==
  /\ where = "sequence"
  /\ Exhausted(Main)
  /\ FinishLine
  /\ LET i == cursor[Main].line + 1
     IN  IF i < Size
         THEN where' = where /\ cursor' = [cursor EXCEPT ![Main] = Cursor(i, 1, i)]
         ELSE where' = "factorized" /\ cursor' = [cursor EXCEPT ![Main] = NoCursor]
  /\ UNCHANGED <<poolVars, batch, ldlt, solves>>

\* Mutant: the number of jobs is not adjusted.
BatchUnadjusted ==
  /\ where = "batch"
  /\ IF I < Size
     THEN id' = 0 /\ where' = "fill" /\ UNCHANGED poolVars
     ELSE P!CallFree /\ where' = "free" /\ UNCHANGED id
  /\ UNCHANGED <<matrix, I, nbJobs, params, ldlt, cursor, solves>>

\* Mutant: the loop is over when a whole batch does not remain.
BatchIfWhole ==
  /\ where = "batch"
  /\ IF I + nbJobs <= Size
     THEN id' = 0 /\ where' = "fill" /\ UNCHANGED poolVars
     ELSE P!CallFree /\ where' = "free" /\ UNCHANGED id
  /\ UNCHANGED <<matrix, I, nbJobs, params, ldlt, cursor, solves>>

\* The loop on I of solver_factorize_threaded: the last batch is cut short,
\* or the loop is over and the pool is freed.
Batch ==
  /\ where = "batch"
  /\ IF I < Size
     THEN /\ nbJobs' = IF I + NbThreads > Size THEN Size - I ELSE nbJobs
          /\ id' = 0
          /\ where' = "fill"
          /\ UNCHANGED poolVars
     ELSE /\ P!CallFree
          /\ where' = "free"
          /\ UNCHANGED <<nbJobs, id>>
  /\ UNCHANGED <<matrix, I, params, ldlt, cursor, solves>>

\* Mutant: the task is given all the columns of its line.
FillWholeLine ==
  /\ where = "fill"
  /\ id < nbJobs
  /\ params' = [params EXCEPT ![id] = [i |-> I + id, jMax |-> I + id]]
  /\ P!CallRun(Main, I + id)
  /\ id' = id + 1
  /\ UNCHANGED <<matrix, I, nbJobs, ldlt, where, cursor, solves>>

\* One turn of the loop that fills params and calls haplo_pool_run.
Fill ==
  /\ where = "fill"
  /\ id < nbJobs
  /\ params' = [params EXCEPT ![id] = [i |-> I + id, jMax |-> I]]
  /\ P!CallRun(Main, I + id)
  /\ id' = id + 1
  /\ UNCHANGED <<matrix, I, nbJobs, ldlt, where, cursor, solves>>

\* Mutant: main goes on without haplo_pool_wait.
FillEndNoWait ==
  /\ where = "fill"
  /\ id = nbJobs
  /\ pc[Main] = "idle"
  /\ where' = "wait"
  /\ UNCHANGED <<poolVars, matrix, batch, ldlt, cursor, solves>>

FillEnd ==
  /\ where = "fill"
  /\ id = nbJobs
  /\ P!CallWait
  /\ where' = "wait"
  /\ UNCHANGED <<matrix, batch, ldlt, cursor, solves>>

\* haplo_pool_wait has returned: line I has only to be finished.
Waited ==
  /\ where = "wait"
  /\ pc[Main] = "idle"
  /\ id' = 0
  /\ cursor' = [cursor EXCEPT ![Main] = Cursor(I, I, I)]
  /\ where' = "line"
  /\ UNCHANGED <<poolVars, matrix, I, nbJobs, params, ldlt, solves>>

LineColumn ==
  /\ where = "line"
  /\ Column(Main)
  /\ UNCHANGED <<poolVars, batch, ldlt, where, solves>>

\* Mutant: the next line is factorized from column I+1 on.
LineFinishSkipsColumn ==
  /\ where = "line"
  /\ Exhausted(Main)
  /\ FinishLine
  /\ IF id + 1 < nbJobs
     THEN /\ id' = id + 1
          /\ cursor' = [cursor EXCEPT ![Main] = Cursor(I + id + 1, I, I + id + 1)]
          /\ UNCHANGED <<I, where>>
     ELSE /\ I' = I + nbJobs
          /\ cursor' = [cursor EXCEPT ![Main] = NoCursor]
          /\ where' = "batch"
          /\ UNCHANGED id
  /\ UNCHANGED <<poolVars, nbJobs, params, ldlt, solves>>

\* Mutant: the loop on the lines of the batch never reaches the last one.
LineFinishRepeats ==
  /\ where = "line"
  /\ Exhausted(Main)
  /\ FinishLine
  /\ IF id + 1 < nbJobs
     THEN /\ cursor' = [cursor EXCEPT ![Main] =
                          Cursor(I + id + 1, I - 1, I + id + 1)]
          /\ UNCHANGED <<I, id, where>>
     ELSE /\ I' = I + nbJobs
          /\ cursor' = [cursor EXCEPT ![Main] = NoCursor]
          /\ where' = "batch"
          /\ UNCHANGED id
  /\ UNCHANGED <<poolVars, nbJobs, params, ldlt, solves>>

\* Line I+id is finished, and the next line of the batch is factorized from
\* column I on.
LineFinish ==
  /\ where = "line"
  /\ Exhausted(Main)
  /\ FinishLine
  /\ IF id + 1 < nbJobs
     THEN /\ id' = id + 1
          /\ cursor' = [cursor EXCEPT ![Main] =
                          Cursor(I + id + 1, I - 1, I + id + 1)]
          /\ UNCHANGED <<I, where>>
     ELSE /\ I' = I + nbJobs
          /\ cursor' = [cursor EXCEPT ![Main] = NoCursor]
          /\ where' = "batch"
          /\ UNCHANGED id
  /\ UNCHANGED <<poolVars, nbJobs, params, ldlt, solves>>

Freed ==
  /\ where = "free"
  /\ pc[Main] = "freed"
  /\ where' = "factorized"
  /\ UNCHANGED <<poolVars, matrix, batch, ldlt, cursor, solves>>

\* mat->state = FEM_MATRIX_LDLT
Factorized ==
  /\ where = "factorized"
  /\ ldlt' = TRUE
  /\ where' = "invert"
  /\ UNCHANGED <<poolVars, matrix, batch, cursor, solves>>

\* __fem_solver_invert reads the matrix, and the solver returns.
Invert ==
  /\ where = "invert"
  /\ where' = "idle"
  /\ UNCHANGED <<poolVars, matrix, batch, ldlt, cursor, solves>>

Done ==
  /\ where = "idle"
  /\ solves = MaxSolves
  /\ UNCHANGED vars

WorkerStep(w) == TaskBegin(w) \/ TaskColumn(w) \/ TaskEnd(w)

MainStep ==
  \/ SequenceColumn \/ SequenceFinish
  \/ Batch \/ Fill \/ FillEnd \/ Waited \/ LineColumn \/ LineFinish \/ Freed
  \/ Factorized \/ Invert

Next ==
  \/ \E threaded \in BOOLEAN : Solve(threaded)
  \/ MainStep
  \/ \E w \in Workers : WorkerStep(w)
  \/ PoolStep
  \/ Done

Spec == Init /\ [][Next]_vars

Fairness ==
  /\ WF_vars(MainStep)
  /\ \A w \in Workers : WF_vars(WorkerStep(w))
  /\ \A w \in Workers : WF_vars(PoolExists /\ P!WorkerStep(w) /\ pc[w] # "work"
                                /\ UNCHANGED <<matrix, batch, ldlt, where,
                                               cursor, solves>>)
  /\ WF_vars(PoolExists /\ (P!RunStep(Main) \/ P!OwnerStep)
             /\ UNCHANGED <<matrix, batch, ldlt, where, cursor, solves>>)

FairSpec == Spec /\ Fairness

-----------------------------------------------------------------------------
\* Every line handed to a worker is a line of the matrix (the algorithm is
\* "FOR I=2 TO N", lines 234 and 280-283).
LinesInMatrix ==
  \A k \in 0 .. NbSlots - 1 : params[k].i < Size

\* A line some worker writes is not written, nor read, by another worker or by
\* main at the same time.
LinesApart ==
  \A t \in Threads, w \in Workers :
    t # w /\ cursor[t] # NoCursor /\ cursor[w] # NoCursor
      => cursor[w].line # cursor[t].line /\ cursor[w].line >= cursor[t].end

\* The entry of params a queued or running task points to still is its own:
\* main does not reuse it before the wait (lines 288-299).
ParamsStable ==
  \A t \in submitted :
    executed[t] = 0 => params[ParamOf(t)].i = t

\* No data race, by the order of the calls alone: neither on the lines of the matrix
\* nor on the parameters of the tasks (solver.c).
NoRace == LinesApart /\ ParamsStable

\* "The lines 0 to j_max should be already factorized" (line 134): what
\* solver_line_factorize reads of the other lines is final.
EarlierLinesFinal ==
  \A t \in Threads :
    cursor[t] # NoCursor => 0 .. cursor[t].end - 1 \subseteq finished

\* A finished line had all its products subtracted, once each, whichever of
\* the two factorizations ran ("A(I,J)=A(I,J)-A(I,K)*A(J,K)", lines 235-237).
LinesComplete ==
  \A i \in finished, j \in DOMAIN first :
    dots[i][j] = IF M!HasDot(i, j) THEN 1 ELSE 0

\* The substitutions read a matrix all of whose lines are finished.
InvertsFactorized == where = "invert" => finished = DOMAIN first

\* Whatever the interleaving, the factorization is one of Ldlt.tla.
Implements == M!Spec

\* The solver returns.
SolverReturns == where # "idle" ~> where = "idle"
=============================================================================
