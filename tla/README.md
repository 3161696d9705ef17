# haplo: a verification project

haplo is an interpreter, extended by modules (finite elements, files,
network), with a run-time kernel in C: reference-counted objects, a parser
that executes statements as it reads them, an evaluator, interruption by
signals and a pool of threads used by the linear solver. This directory holds
TLA+ models of its parts, the TLC runs that check them on small instances and
proofs checked by TLAPS. `PROJECT.json` maps every definition to the lines it
stands for; paths below are relative to `src/`.

## 1. Inventory

| part | state | operations | hard because |
|---|---|---|---|
| thread pool `kernel/libhaplo/pool.c` | ring of tasks, `pending`, `running`, `alive`, one mutex, three conditions | `haplo_pool_new/run/wait/free`, worker loop `pool_do` | every interleaving of clients and workers, signals sent after the unlock, spurious wakeups, full and empty ring, shutdown |
| linear solver `modules/fem/src/solver.c` | skyline matrix, its LDLT flag, task parameters | sequential and threaded factorization, inversion | lines written by workers while others read them, parameters reused from batch to batch, boundaries of batches and columns |
| objects `kernel/libhaplo/object.c` | object and reference cells, counts, buckets of names, types | register, copy, protect, free, clear | counts kept by hand through recursive destructors |
| evaluator `kernel/libhaplo/code.c` | trees of leaves, contexts, result | assignment, calls, copy-on-write, closures, loops, lists | who owns a reference at each exit, recursion, codes copied and rewritten at run time |
| parser `kernel/libhaplo/parser.y` | contexts, files, lexer flags | statements executed at once or stored in a code, includes | errors in the middle of a statement, nesting of contexts and files |
| interruption `kernel/libhaplo/interruptible.c` | monitor, interrupted, jump buffer | `__haplo_interruptible_do`, SIGINT handler | a signal at any instruction, nested evaluations share one buffer |
| containers `list.c hash.tmpl hash*.c olist.c slink.c` | pages, buckets, entries, cells | add, remove, search, loop, copy | growth at a limit, addresses kept by callers, copies |
| memory `memory.c` | caches of cells; list of blocks of the debugger | get, release, malloc, free, realloc | a list that mirrors the heap by hand |
| modules loader `module.c` | list of modules, path, options | load, unload, options | errors between the steps of a load, dependencies |
| registry `func.c builtin.c des.c help.c` | functions by name and by rank | register, look up, choose an overload | leaves keep the first function of a name while others are added |
| start-up `hgetopt.c main.c init.c error.c timer.c utils.c` | parameters, prefix of messages, clocks | options in two passes, set-up, end, messages | static cursors, a prefix restored on every exit, borrow between words |
| network `modules/net/src` | list and count of children, signal mask; clients; digests | select, accept, identify, fork; broadcast, connect | SIGCHLD handlers nest and interrupt the loop, lost datagrams |
| FEM model `meshing group model element material property cara` | tables of nodes, meshes, characteristics | add, get, copy, fuse, save, load | explicit and automatic numbers, internal ranks, one table refers to another |
| FEM problem `dof numbering renum bc load problem` | numbering, conditions, matrix, vector | number, renumber, impose, assemble | equations numbered in one pass around crossed conditions, lazily made matrices |
| matrix `matrix.c` | profile, coefficients, state | product, resolution, copy, files | unsigned bounds in a triangular profile |
| FEM analysis `analysis integration eigen post ...` | results by number | add, get, grow | values of all numbers in one list |
| files `modules/io/src` file, block, slices, gzio, gzindex, filters | positions, index points, buffers | open, seek, read, put back, parse | seeking in compressed data, lines cut and put back |
| UNV parsers `modules/io/src/parser_*` | current line and field, methods by type | read, mark, copy, skip | fixed columns, marks that both open and close |
| backtrace `bt.c` | none | print the call stack of a fatal error | output only |
| element library `modules/elements` | generated formulas | | no control |

Interactions. The parser hands each statement to the evaluator as a tree of
leaves and then destroys the tree; leaves hold instances of references and
references of objects. An evaluation runs under `__haplo_interruptible_do`; an
`include` inside an evaluation starts the parser again. The evaluator calls
functions of modules through the registry; those that alter their arguments
get copies when an object is shared. The solver submits tasks to the pool, is
its only client and waits for each batch. A problem numbers its equations from
a model and its conditions, and makes its matrices and vectors when they are
asked for. The server forks one interpreter per connection.

What makes each part correct, in short: the pool runs each task once and its
calls return; the solver only reads finished lines and subtracts each product
once; counts equal the number of holders, and nothing reachable is freed; an
altered object is seen through one name only; a program has the values it
means; a container holds what was put in it; a signal ends the innermost
evaluation; the list of children is that of the living ones and the server
always answers; positions in a file are those of a plain text; equations are
numbered once each and the system is that of the elements, conditions and
loads. `PROJECT.json` lists, line by line, the hazards behind these statements
and the properties that watch them.

## 2. Plan

Order: the pool first (all concurrency rests on it), the solver over it, the
reference counts of the interpreter, the server; then the sequential parts of
the kernel, of the files and of the finite elements; then more proofs.

| step | modules | composition and abstract specification | status |
|---|---|---|---|
| 1 | `TaskPool`, `Pool` | `Pool` implements `TaskPool` | done; safety and refinement proved |
| 2 | `Ldlt`, `Solver` | `Solver` uses `Pool` through INSTANCE and implements `Ldlt` | done (factorization); safety and refinement proved |
| 3 | `References` | statements of the parser, leaves of the evaluator, object cells | done (top-level statements); counts, copy on write and names proved |
| 4 | `Server` | server, handler, clients | done; safety proved |
| 5 | `Leaves`, `Evaluator`, `Meaning`, `Sessions`, `SessionTexts`, `Interruption` | statements executed next to what they mean | done but for the shapes of section 4; interruption proved |
| 6 | `Lists`, `Tables`, `Links`, `Containers`, `Blocks`, `Registry`, `Loader`, `Startup`, `Reports`, `Timers`, `Digests` | containers against sequences and functions | done; containers and registry proved |
| 7 | `TextFile`, `GzFile`, `UnvRecords`, `UnvFile` | `GzFile` reads like `TextFile` | done for what is compiled; the reader and its refinement proved |
| 8 | `Meshing`, `Equations`, `Skyline`, `Elements`, `Conditions`, `Analyses` | against reference definitions over bounded inputs | done; matrices and results proved |
| 9 | `PoolProofs`, `ServerProofs`, `SolverProofs`, `ReferencesProofs`, `Inductions`, `ContainersProofs`, `SequentialProofs`, `FemProofs` | `SolverProofs` uses `PoolProofs` through INSTANCE; `ContainersProofs`, `SequentialProofs` and `FemProofs` use what `Inductions` proves of sequences, folds and numbers | done |
| 10 | | theorems about the other components that need no recursion, such as `Blocks` | open |

## 3. The models

### `TaskPool`, `Pool` (thread pool)

`TaskPool` is what the pool promises: a queue of tasks, started in order by at
most `NbWorkers` threads, finished once, closed when nothing is left.

`Pool` has the fields of `haplo_pool_t` as variables (`head`, `pending`,
`running`, `alive`, `slots`) and a program counter and local task per thread.
Everything but the loop test of line 60 is accessed under the mutex, so a
critical section is one action: `Take*` (69-90), `End` (100-105), `RunPush`
(180-185), `WaitReturn` (200-205), `Kill` (222-228), ... The signals are sent
after the unlock and are actions of their own (`SignalPop`, `SignalPush`,
`SignalFinish`, `BroadcastPush`): between the two every other thread may run.
`pthread_cond_wait` is a program counter (`sleep_*`) left by a signal, a
broadcast or `SpuriousWakeup`. The loop test reads `alive` without the lock:
`Loop` is an action of its own. `haplo_pool_free` is `CallFree`, the wait it
begins with, `Kill`, `BroadcastPush`, `Join`.

Contract assumed: several clients may run tasks, one of them (`Owner`) waits
and frees, and the others no longer call once the pool is being freed. The one
caller in the repository, `solver.c`, is stricter. `pending_finish` is signalled, not
broadcast, so two waiters would not both be woken; that hazard is listed, not
checked. Failures of `pthread_create` are not modelled.

### `Ldlt`, `Solver` (factorization)

`Ldlt` is the algorithm in the comments of `solver.c` (230-245) freed from the order of
its loops: a coefficient is reduced to how often its product was subtracted,
a line to whether it is finished; a product may be subtracted when the values
it reads are final.

`Solver` is the code: `Batch`, `Fill`, `FillEnd`, `Waited`, `LineColumn`,
`LineFinish` for `solver_factorize_threaded`, `SequenceColumn/Finish` for the
sequential one, `Task*` for the work of the pool's threads, one column per
step, so that workers and the main thread interleave inside a line. It
instantiates `Pool` with the main thread as only client; the pool's steps are
taken as they are. The values of the coefficients, `D` and the triangular
solves are abstracted (`Invert` is one step).

### `References` (objects, names, statements)

Cells of `object_t` and `reference_t`, the hash buckets as linked lists, the
leaves of the current statement and of each code (`refs`, `sets`, `objs`: its
REF, ASSIGN and OBJECT leaves; for data, `objs` is what it protects). What
follows `next` from a cell is the least set closed under it (`Closed`, `Walk`),
which says the same as the loops of the code and can be reasoned about; it needs
the sets of cells to be finite, as memory is. The destructors call one another: `stack` is the calls still to
be made, one step makes one (`CallRefFree`, `CallObjectFree`, `CallRelease`,
`CallBind`, `CallRemoveRef`, `CallDbFree`).

A statement is read (`Lvalue`, then `Constant`, `FunctionReturns`,
`FunctionAssigns` or `Operand`, or `SyntaxError`), executed (`Execute*`,
`Body*`, `Return`), assigned (`Assign`) and released (`ReleaseStatement`);
`Clear` and `ClearAll` are `clear x;` and `clear;`. Function bodies are one
statement: `return x` or `x = constant`. A name read in an expression is one
the database has; functions take no argument.

`leaked` counts the references that the copy of a REF leaf takes on the value
of its name (`code.c:724`) and that nothing gives back: the count of an object
is exact up to them. It is a history variable: no action reads it but its bound.

### `Server` (network)

The loop of `server.c` step by step (`Select` ... `Leave`, `Reply`), the
SIGCHLD mask and pending bit, and the handler as a stack of frames: the
delivery blocks the signal, `critical_end()` inside the handler
(`ListRemove`) unblocks it, so handlers nest. Children exit at any time; clients
broadcast, time out, connect, send their identity or quit (`client.c`).
Datagrams are lost, `fork` and `malloc` fail. Not modelled: opening the
sockets, the bytes of a session, children stopped by a signal.

### `Leaves`, `Evaluator`, `Meaning`, `Sessions`, `SessionTexts` (programs)

`Leaves` builds what the parser and `code.c` build: leaves by action, codes from
precodes, names resolved to globals, locals and captured locals (`Named`,
`__haplo_precode_replace`), copies of codes and the replacement of captured
variables by their values (`remove_local`). `Evaluator` executes leaves: one
operator for each `code_leaf_execute_*`, on a record of the global names, the
contexts, the hash tables, the status and the result. `CRASH` is a null pointer
read. `builtin` is the handful of functions the programs call.

`Meaning` gives programs their value without leaves, copies and contexts: a
frame per call and block, a function keeps the frame it is written in. It is
written from what the code does for scopes (a name belongs to the frame where it
is first given a value), and differs in how: nothing is copied or rewritten.
`Sessions` takes a program of `SessionTexts`, one statement per step in both,
and `AsMeant` compares results and global names.

### `Interruption`

The evaluations inside one another as frames with a program counter at each
line of `__haplo_interruptible_do`, the jump buffer, the two flags, and the
handler at any point. The test of `interruptible_interrupted` in `Call` never
succeeds: the flag is cleared on every path that leads to it.

### `Lists`, `Tables`, `Links`, `Containers`, `Blocks` (containers, memory)

`Lists` has the pages of `list.c` with their sizes; the ghost `places` is where
each element was put. `Tables` is `hash.tmpl` with its chains and the list of
entries, under the hash function of strings, and the references of `hash.c`: what a
program sets is an object of its own (`Given`), a copy of a table is made of objects that are
new (`WithCopies`), which have no reference (section 6). Such an object is in the copy only: the
models do not take it from there to set it again, or to give it to a result.
`Links` is `slink.c` over the cache of cells of `memory.c`, `Blocks` the
debugging allocator next to the heap. `Containers` is the first three side by side.

### `Registry`, `Loader`, `Startup`, `Reports`, `Timers`, `Digests`

`Registry`: functions linked behind the first one of their name, leaves that
keep it, the choice of `code_func_choose`; `latest` is the ghost of what was
registered last for a name and types, `again` the names whose first function was
registered again, which lose the functions behind it. `Loader`: `use` with its
dependencies, checks, initialisation, registration and refusals as one step on
a record of what a load changes, then `haplo_fini` and the unloading of modules.
`Startup`: the words of a command line through the two passes of `hgetopt`,
and the calls of `main`. `Reports`: the prefix of messages and its colours
through calls, errors and interruptions. `Timers`: start and stop with their
borrow, sums and printing, and the conversion of numbers to integers.
`Digests`: the buffering, counting and padding of MD5; the transformation of a
block is left out, a digest is the sequence of its blocks.

### `TextFile`, `GzFile` (files)

`TextFile` is a text with a cursor. `GzFile` is `gzio.c` with its buffer, the
access points of `gzindex.c`, the line and the line put back of `file.c`, and
slices; zlib is external and delivers the characters from any access point.
An index is the set of its points, which the code keeps in ascending order; blocks
of zlib start at even distances (`Boundary`), so points do too (`Interval`). A
slice is marked and copied as the parsers of blocks do.
`TextFile` drops every carriage return before a newline, as the comment of `gzio.c:102` says.
`Reader` is `TextFile` on the cursor behind what was read, and every step that
reads or seeks is one of its steps, or none; opening another file begins
again. One step is not of `TextFile` and is named: `ReadEmpty` returns an empty line with
its carriage return (`EmptyLine`, section 6), which `LineBegin` says too (`Returned`). The buffer holds the longest line that is copied
(`GzFileAssumption`; both sizes are 4096 in the code).

### `UnvRecords`, `UnvFile` (universal files)

`UnvRecords` writes the headers of the data sets 55, 56, 57, 58 and 2414 field
by field and reads them again, through the blocks that hold the fields and with
the widths of `encode.h` and `decode.h`. `UnvFile` is a file as a sequence of
marks, numbers and lines, the filters that give methods to types, reading n
blocks or at an offset, and writing. The bodies that would read and write the
values are compiled out; what they return (a constant, or what is on the
stack) is modelled.

### `Meshing`, `Equations`, `Skyline` (finite elements)

`Meshing` keeps the lists of nodes and meshes with user and internal numbers, and has
the reverse Cuthill-McKee numbering of `renum.c`, with the slots that stay zero;
`Equations` builds a problem from a model, conditions and loads: numbering in
one pass, the names of equations, profile, matrices with the two equations of each
condition, vectors.
`Skyline` is the storage with its products, the triangular solves of
`solver.c`, copies and files. Coefficients are small integers, so that sums
and products are exact; coordinates are kept as data only.

### `Elements`, `Conditions`, `Analyses`

`Elements`: types registered and replaced, lists of characteristics with their
masks, and what an element of a model is evaluated with. `Conditions`: the
scanner of conditions written as text, groups and their files. `Analyses`: the
values of all numbers in one list, growing, and the tables of points
and weights of the integration rules in units of 1/10000.

### Composition

`Solver` composes with `Pool` and `Sessions` with `Evaluator` and `Meaning`, as
the code does. The sequential parts do not share state; `MCSequential` and
`MCFem` take them side by side, each state belonging to the part named in
`part` and the variables of the others being constant. This is one run for
many small state spaces, not a model of an interaction. `GzFile`, `Interruption`,
`Containers`, `Registry`, `Skyline`, `Analyses` and `Equations` are extended under their own
names, so that the runs check the very definitions the proofs are about; the others are instances.
The containers and the registry are in their first state while another part runs, the matrix and
the analysis in one of their first states.

## 4. Runs

| run | instance | shows |
|---|---|---|
| `pool_safety` | 2 workers, 2 clients, ring of 2, 4 tasks, symmetry | nothing lost or run twice, no lost wakeup on any of the three conditions, the wait is a barrier, `TaskPool` is implemented |
| `pool_live` | 2 workers, 2 clients, ring of 1, 3 tasks | every stored task is executed, every call returns |
| `solver` | 2 workers, three profiles of 5, 6 and 9 lines, two solves | no race on lines and parameters, only final lines read, each product once, `Ldlt` implemented, the solver returns |
| `solver_short` | size 4 | finding: lines past the end of the matrix |
| `solver_dense` | full matrix of size 3 | finding: the second column is skipped |
| `references` | 2 names in one bucket, 3 references, 3 objects | both counts exact, nothing dangling, copy-on-write, names survive |
| `ref_free_db` | as above, clearing any name | finding: a freed reference stays in the bucket |
| `server` | 3 clients (2 known), `child_max` 1 and 2 | count and list exact, limit kept, `wait` never blocks, answers, places given back |
| `sequential` | `MCSequential`: see below | the sequential parts of kernel, io and net |
| `fem` | `MCFem`: see below | meshings, numbering, systems, matrices, library, analyses, conditions |
| `fem_unlinked` | as `fem` | finding: a linked meshing said to be unlinked |
| `assigned_function` | 9 programs | finding: a function assigned inside a function keeps the first value |

What `sequential` checks, part by part:

| property | parts | instance |
|---|---|---|
| `StreamExact`, `Implements` | `GzFile` | five texts with long lines, carriage returns and no final newline; a buffer of 4, with and without index |
| `EndsInnermost` | `Interruption` | evaluations four deep, six in all, SIGINT anywhere |
| `BlocksRead` | `UnvRecords` | five data sets, every type of analysis, one field at a time as wide as its columns, empty or missing |
| | `UnvFile` | three layouts, closed and not, every pair of methods of three types |
| | `GzFile` | the slices between any two positions of the five texts |
| `AsMeant` | `Sessions` | 414 programs: functions that make functions called in turn, and every pair of 18 statements in a recursive function |
| `ContainersExact` | `Lists`, `Tables`, `Links` | four elements on pages of 0, 1 and 2; four keys that collide, tables of 1 and 3 with chains of 2, copies of up to four objects; three cells and a cache of 2 |
| `CallsRight` | `Registry` | three registrations of one name under signatures that overlap |
| `ModulesSound` | `Loader`, `Startup` | libraries with dependencies, failures, wrong versions and options in two directories; command lines of right, wrong and incomplete words |
| `ReportsRight` | `Blocks`, `Reports`, `Timers`, `Digests` | two addresses and three calls; calls four deep; a clock of three parts to the second; blocks of 4 |

and `fem`: `MeshingsWhole` on meshings of up to three nodes
and two meshes made by five calls, with numbers given or not;
`EquationsNumbered` and `SystemRight` on two meshings, of three nodes and two or one meshes, under single, crossed and
repeated conditions and loads of each type; `ProductsRight` in every profile of
up to three rows; `ResultsKept` on five calls about an analysis; `AttributesExact`
on seven calls about types, lists and models, all sentences of the words listed
in the module, two calls about groups, and the integration rules. Informations of an
analysis have one or three values, as in the parsers that ask for them
(`parser_UNV56.c:716`, `parser_UNV57.c:779`, `parser_UNV2414.c:1224`).

A conjunction such as `ReportsRight` names one property for several parts; each
conjunct is stated and commented in the module of its part. The modules hold a
mutant for each of them (`FreePrevious`, `SinceNoBorrow`, `NoCarry`,
`PassAtOnce`, `CopyValues`, `SignForgotten`, `FallsThrough`, `SignalPopIfWasFull`,
`EndUnsignalled`, ...), and `PROJECT.json` lists one per property.

Bounds. Four tasks on two slots fill the ring, make clients sleep and let
`head` go round; with one slot both clients sleep at once. The profiles cover
one batch, one batch and a rest of one line, and two whole batches, with lines that reach
before, into and after their batch. Two names in one bucket are enough for a chain
behind a head; three objects for a function that returns another one's code.
Two rooms are enough for deaths that share a signal. Buffers, pages, tables,
blocks and words are a few units instead of hundreds, so that each limit is
met, and passed, within a few steps. `MaxSolves`, `MaxLeaks`, `MaxBlocks`,
`MaxElements`, `MaxCopies`, `MaxFunctions`, `MaxDepth`, `MaxEvaluations`,
`MaxLoads`, `MaxBlocksAsked`, `MaxCallDepth`, `MaxReports`, `MaxGiven`,
`MaxNodes`, `MaxMeshes`, `MaxLists`, `MaxSize`, the `*Calls` and the numbers of cells
are the only bounds; they are constants of the modules and each is a guard of
the calls it bounds. A line of four characters is shorter and longer than those of the
texts, and a buffer of four is filled several times by each. Deadlock is not checked in `sequential`, `fem` and
`assigned_function`: a program, a process or a bounded session ends there.

The passing runs avoid what the findings report, so that the other properties
are not hidden behind them. `solver`: no product starts at column 0 with a
second column, and the last batch is whole or one line. `references` clears
the first name of a bucket only (`ClearInChains`). `sequential` keeps the
following shapes out of its programs, where the code is wrong or has no
defined outcome: an inner function that gives a value to a variable of the one
around it (`code.c:651`, `1773`); a function nested in another that captures
what a third one captured (`709-712`); a name first given a value later in a
loop or under a condition (`1777`); the outer function's own name inside a
nested constant (`1490-1495`); `continue` in a `for`, which skips the step
(`1354-1359`); `return` with a value from a loop, which loses it (`3059`).
`fem` gives no condition twice the same degree of freedom (`bc.c:1057`) when it
looks at the matrix, and looks at internal numbers only where no node was
defined again (`meshing.c:235`).

Fairness. `Pool`: weak fairness of each thread: the mutex and the conditions are the
system's, a thread that can run is scheduled in the end, and a client that
entered `haplo_pool_run` goes on; no call is ever forced to be made and spurious wakeups are never required. `Solver`:
the same for its threads. `Server`: the loop and the handler are scheduled,
and a client that connected sends its identity, which `connection()` does
straight after `connect()`; no client is obliged to come or to leave, nor a
child to exit. The sequential parts have safety properties only.

## 5. Proofs

### The pool

`PoolProofs` proves, for any finite sets of workers and clients and any
size of ring (`PoolAssumption`):

- `TypeCorrect`: `Spec => []TypeOK`;
- `Invariance`: `Spec => []IInv`;
- `EachTaskOnce`: `Spec => []ExactlyOnce`;
- `WaitIsABarrier`: `Spec => WaitForAll`.

`ExactlyOnce` alone is not inductive: that a slot is not overwritten needs
`pending <= NbSlots` and the arithmetic of the ring (`RingIndex`), and that
a task has one holder needs that the live slots, the workers' hands and the executed tasks do not
overlap. `IInv` is the conjunction of `CountInv` (types; `running` is the
number of workers between pop and end, which makes the wait's test meaningful;
`alive` and the program counter of the owner agree during the shutdown) and
`Items` (what clients want to store is new; the live part of the ring, the
tasks in hand and the executed ones partition the tasks submitted). `CountNext` and `ItemsNext` treat one action
per step; `SignalMoves` says once that a signal changes program counters only,
`LiveAfterTake` and `LiveAfterPush` how the live part of the ring moves. The
barrier follows because `WaitReturn` requires `running = 0` and `pending = 0`,
and `IInv` leaves a submitted task no other place than the executed ones.

`WakeupsKept` is `Spec => []NoLostWakeup`. Its three parts
say that a thread which sleeps although there is something for it is answered by
another one that is awake, or that is between its unlock and the signal it will
send. Each is inductive once the types and the shutdown of `IInv` are known;
the work is in counting threads at a program counter (`AtJoined`, `AtLeft`) and
in what a signal does when somebody sleeps and when nobody does (`SignalWakes`,
`PushSignalled`, `PopSignalled`, `FinishSignalled`); then one step per action
(`QueuedNext`, `FreeNext`, `WaiterNext`).

The end of the module proves `PoolIsAQueue`: `Spec => Implements`, that the pool is the
queue of `TaskPool`. The mapping reads the `pending` slots from `head` on, around
the ring, as the queue; the tasks in the hands of the workers between pop and
end as those running; the executed ones as finished. An element of that queue is
`slots[(head + k - 1) % NbSlots]`: `TakeStarts` and `PushSubmits` say that
advancing `head`, or writing the slot at `head + pending`, is `Tail` or `Append`
of the whole queue; a slot is written only while `pending` is below `NbSlots`, so no
waiting task is overwritten. `ActiveBound` counts the tasks in the workers'
hands, `WorkFinishes` and `KillCloses` are the other two steps of the queue, and
`SilentKeeps` says that every other step leaves the images alone. Order is what this adds to
`EachTaskOnce`: tasks are started in the order they were stored.

### The server

`ServerProofs` proves, for any finite set of clients and any limits
(`ServerAssumption`): `TypeCorrect` (in particular that the unsigned count is
never decremented below zero), `CountIsExact`, `ListHasNoDead`,
`RoomIsEnforced` and `WaitFindsChild`. What makes them inductive is where a handler can be: the
frames of handlers are nested only past `critical_end()`, and never over the
critical section of the loop (`Nesting`); a connection is in one place, and its
client has no child before the fork (`Connections`); a frame that removes a
child removes one that has been waited for (`Removal`). `RoomKept` carries the test
of line 353 over the blocking `recv` and the `fork`: handlers in between only
take children away.

`WaitFindsChild` is `Spec => []HandlerHasChild`: no handler blocks in `wait()`.
A signal stands for several deaths, and a handler interrupted past
`critical_end()` may see the child it came for taken by the one above it. The
invariant counts (`EnoughDead`): the frame that has still to wait, if there is
one (only the top one may, `HandlersToWait`), and the signal that is pending, if
there is one, are together no more than the zombies.

### The factorization

`SolverProofs` proves about `Solver`, for any set of workers, any set of profiles
and any number of calls (`SolverAssumption`, `ProfilesAssumption`: a matrix has
a line, and the numbers of its lines and of those a last batch may overshoot to
are tasks):

- `NoDataRace`, `ReadsFinalLines`, `InvertsAll`: `NoRace`, `EarlierLinesFinal` and
  `InvertsFactorized` always hold;
- `CompleteButOne`: a finished line had each product subtracted once, except
  perhaps the one with column 1;
- `Complete`: `LinesComplete`, and `SolverImplementsLdlt`: `Implements`, when no
  line has a product with column 1 (`NoDotInColumnOne`);
- `WithinMatrix`: `LinesInMatrix`, when the last batch is whole or has fewer lines
  than there are threads (`LastBatchShort`).

The two hypotheses are what the code needs, no more: a profile without the
first one is the finding of `solver_dense`, one without the second that of
`solver_short`; the profiles of `solver` satisfy both. The other theorems
have no hypothesis about the matrix, and hold of batches that overshoot.

The solver is the only client of a pool, so `PP == INSTANCE PoolProofs` imports
the pool's lemmas (`PoolHolds` proves its assumption) and `PP!IInv` is one
conjunct of `SInv`. The three others are about the code of `solver.c`:

- `Typed`;
- `Algorithm`: what `I`, `nb_jobs` and `id` may be at each place of `main`
  (`Control`); which lines have been handed over (`Submissions`) and which were executed
  (`Executions`); that the entries of `params` in use are those of the
  lines of this batch (`BatchParams`); the finished lines, which are always
  an initial segment (`FinishedLines`); which line each thread is on, and up to
  where (`Cursors`);
- `Progress`: up to which column the products of each line were subtracted:
  `Bound` for a line in a loop, `I` for one whose task was executed, none before.

The barrier is used once, in `PoolStepMoves`, which bounds what a step inside the
pool may do to what the algorithm looks at: by `NothingLeft` of `PoolProofs` main
leaves `haplo_pool_wait` with no task left. So no loop is going on (`NoWorkerLoop`)
when the sequential part takes the matrix over (`WaitedKeeps`). `AlignedEntry` shows why `params` may be
reused: the batch begins a number of whole batches after line 1 (`Aligned`), so
that the entry of a line is its place in the batch. Then each action has a lemma for `Algorithm` (`...Keeps`) and, where it disturbs the
products, one for `Progress` (`...Progress`).

### Objects and references

`ReferencesProofs` proves about `References`, for any finite sets of references
and objects, any names, and any buckets they are hashed to (`ReferencesAssumption`):
`ReferencesCounted` and `InstancesCounted` (both counts are exact after each
call of each destructor), `NothingDangles`, `AltersNothingShared` (`CopyOnWrite`)
and `NamesStay` (`NamesKept`).

Their hypothesis is `~ClearInChains`: a name that is cleared is the first of its
bucket. It is what the code needs: without it the search of `object.c:593` is
the finding of `ref_free_db`. The run `references` satisfies it, and two names
share a bucket there.

The counts cannot be proved alone. A count that is exact tells a destructor
when to go on only if the calls still to be made are known, these only if the
leaves are, and the leaves only if no cell in use is a free one. `IInv` keeps
together:

- `Typed` and `Statement`: what the statement holds at each place of its execution;
- `Contents`: data has no leaf, a code does not read and assign the same name, nothing
  protects itself;
- `Blank`: a cell given back is as a new one. `Room`: the cells an execution will take
  are there, so that no step stops half-way;
- `Lists`: a linked reference has one predecessor, so that unlinking it
  takes it, and only it, out of the buckets;
- `Releases`, `Binds`, `Clears`: which calls may be pending, in which state of
  what they are about. An object is released once, without holder or content;
  what a name is bound to is held until it is;
- `Counted`: both counts, of every cell. For a free one this says that
  nothing leads to it, which is `NoDangling` (`Sound`).

The calls are counted on the stack (`OccConcat`, `OccHead`); `CountStep` and
`InstanceStep` say once how a count follows the sets it adds up. The lists
move by entering a reference, unlinking it and emptying the buckets
(`ListsEnter`, `ListsUnlink`, `ListsEmpty`), or not at all (`ListsKept`). Actions
that do the same to the cells share a lemma (`RetainKeeps`, `ShareKeeps`,
`CreateKeeps`), and each action has one for the whole invariant (`...Keeps`).

`CopyOnWrite` is a property of steps. `Holders` reads the count the code tests:
at most one reference, and a name that has it, leave no other holder.
`ValuesKept` says which steps leave every value alone and `AltersOwn` treats the
one that does not. For `NamesKept`, `ChainKept`, `ChainEnter` and `ChainUnlink`
follow what a bucket leads to, `EnterFound` and `ClearFound` what a search in it
finds, and `NameStays` combines them for every action.

### Files

`SequentialProofs` proves about `GzFile`, for any texts, any sizes of buffer and line
and any distance between access points (`GzFileAssumption`):

- `BufferStaysInStep`: `BufferInStep`; `SeeksFromBefore`: `PointBefore`;
- `ReadsLikeText`: `Implements`, when a carriage return precedes a newline or stands
  where no line is cut (`ReturnsFit`): each step is one of the text file, or reads an empty
  line that ends with a carriage return and a newline;
- `StreamStaysExact`: `StreamExact`, which is the first two and `LineBegin`, when
  moreover no two carriage returns follow each other (`ReturnsApart`).

`ReturnsFit` is what the code needs to know which character stands behind a carriage
return: without it a line cut at the size of the buffer may lose a character
(section 6, `gzio.c:134`). A return in a line of ordinary length satisfies it, and
so do the texts of `sequential`, one of which has such a line. `ReturnsApart` is what the
property needs, not the code: `Shift` recognizes a dropped return by the line, and
cannot when another one stands before it.

`IInv` is `Typed` (positions in the file, an index that starts at its beginning), `InStep`
(the unread part of the buffer is what stands in the file before the position of
zlib) and `Shown` (the line read or put back is the one that ends at the cursor).
`LineBegin` alone is not inductive: a line put back is returned again, so it must stay
right while it is not the last one read. `FilledIs` and `UnreadIs` say what the
buffer holds after it was moved and completed, `LineLengthIs` and `CutIs` that the
line cut from it is the one of the text, `EndIs` that it ends where `TextFile` says.
`StartingPoint` treats the search among access points, and needs that a finite
set of numbers has a least and a greatest element (`Extrema`). Each action has a
lemma (`...Keeps`) that gives both the invariant and its step of `TextFile` (`Moves`).

### Interruption

`SequentialProofs` proves `EndsTheInnermost`: `InterruptionSpec => []EndsInnermost`, for
any depth and number of evaluations, without hypotheses. Its three parts are that
a signal that is taken ends the innermost evaluation, that one without another inside
can be interrupted until it has returned, and that the handler is not left deaf.
`JumpsToInnermost`, the first, speaks of the moments when the
monitor is on; the buffer must have been the innermost evaluation's since
`sigsetjmp`, before the monitor is (`Armed`). The handler finds the frame to land on
by its number, and the evaluations are numbered in the order they begin (`Stacked`),
so that it is the last one. `GotoIs` and `ReturnIs` say once how a step inside
an evaluation and the end of one move the frames.

### Registry

`SequentialProofs` proves `CallsAreRight`: `RegistrySpec => []CallsRight`, for any names, types,
signatures and number of registrations, under `RegistryAssumption`: signatures are sequences of
pairs, the types with a copy constructor are registered ones, and a function may have an argument.
`RegistryInv` says that each name has a sequence of functions (`ch[name]`), the links of the
code going from each to the next and the last one's to none (`Runs`); that for a name that was not
registered again the first function of the sequence with the types of an entry of `latest`
is that entry, and every function has types that were registered (`LatestRight`); that a
leaf read before has the first function its name has now, for such names (`LeavesRight`);
that the newest registration of a name, whichever it is, is found; and that what a function
may do to its arguments was checked (`SoundIn`). The sequence is a witness, of which the
model has no variable. `LinkedIs` shows that `Linked`, a
recursive function that follows `next` as many times as there are functions, returns it;
`Chosen` and `NoneChosen` then say what `code_func_choose` returns. A registration is
`BehindAnother`, where `RunsPut`, `NewFirst` and `OtherFirst` say that the new
function comes behind a rank, is the first one with its types, and hides no other, or
`FirstAlone`, where it is alone. Names registered again are left out because the statement
is false of them: `func_register` then drops the other functions of the name, and
leaves read before keep the old ones. `NewestCalled` still holds of them.

### Containers

`ContainersProofs` proves `ContainersAreExact`: `ContainersSpec => []ContainersExact`, for
any elements, keys (sequences of numbers), values and cells, any sizes of pages, tables
and cache, and any bounds, without hypotheses. The functions of these modules are folds
over pages, chains, entries and cells, so that the proof needs inductions, which
`Inductions` builds first.

*Induction.* The theorems of the library that would do (`NatInduction`, ...) take an
operator, which the provers cannot instantiate. What they can use is `WFMin`, which is
about a set, and that strict inclusion is well-founded on finite sets. `FinLeast`,
`NatLeast`, `NatInd`, `UpTo` and `SeqInd` follow, in which what is proved is a *set* of
numbers, ranks or sequences. `FoldLeft` chooses a function on the subsets of the ranks
(the fold of a set without its greatest rank, then that rank). `FoldExists` says that such
a function exists when the step is a function of a type, and `FoldIs` that whichever is
chosen goes along a history (`Folded`): `h[0]` is the base, `h[k]` the step from `h[k-1]`
and the k-th element, `h[Len(s)]` the value. Each fold of the model then has one lemma
(`SizeFolded`, `MergeFolded`, `HashFolded`, `ReorderFolded`, `CopyFolded`, `ReleaseFolded`,
...) that gives its history; what holds along it is proved by `UpTo`.

*Lists.* `ListInv`: the pages hold the items in order, none beyond its size, places are
where the ranks are found, and the cursor is behind what it gave. The block that
may be taken back is the end of the last page (`added <= nb(pages[Len(pages)])`), which
`ListIsSequence` does not say and `RemoveN` needs. `AppendGrows` is the core: a block goes
behind all elements, in one page, and no element moves, whether a page was made or not.
`PagesHold` and `PagesApart` turn a rank into a page and a rank in it, and back.

*Tables.* `TableInv`: `TableOK` says that keys are distinct and that for some size every
rank is in the chain of its key by that size, once (`ChainsOf`). `Reordered` is the growth:
the walk through the old chains meets every entry once (`ChainedLists`), each is put in
the chain of the new size. `SetNew`, `SetAgain` and `Copied` are about all tables that are
right (`Whole`), the copy in the middle of being made among them. The sorted
loop (`Sorted`) needs that a comparison like that of `strcmp` is a strict total order (`SortTransitive`,
`SortTotal`) and that in such an order each element has its own number of elements before it
(`RankOne`). `Counting` says what references the objects of some entries have: one for each entry
of an object of the program, none for a copied one, which has one entry. An entry more is
`OneMore`, an entry less `OneLess`, whose object is freed when no other entry has it, and a table
that is freed leaves nothing (`AllFreed`): by `Counting` no object outside it had references.

*Links.* `LinkInv`: there are sequences of cells along which the lists run (`Path`), no cell
is twice in them (`Apart`), and the cells of malloc are those and the ones of the cache,
once each (`Right`). The sequences are the witness that `CellsOf`, which walks along
`next`, computes (`CellsAre`, with the number of cells as bound). An insertion is
`PathInserted` or `PathPrepended`, a release `Released`, cell by cell, whether the
cache has room or not; `OthersKept` leaves the other lists alone.

### Matrices

`FemProofs` proves `ProductsAreRight`: `SkylineSpec => []ProductsRight`, for matrices of any
size in any profile, any integer coefficients and vectors and any files, under
`SkylineAssumption`: a file names places of the lower triangle of the matrix whose size it
gives. `SkylineInv` says that `A` is a matrix in a profile (`Mat`: the places of the diagonal begin
at 0 and go up by at least one and at most the length of the row, with a coefficient for each
place) and `v` a vector of its size. It is inductive at once but for `Load`; the work is in
showing that such a matrix has the property.

*Loops.* A loop over a row, or over the rows, is a fold. As for the containers, `FoldIs` gives
the values its turns go through, and an invariant is proved along them by `UpTo`, over a row
and then over the rows: the product of the lines up to `i` is that of the matrix cut there
(`Below`), the transposed passes have scattered `Upper`, the lower ones gathered `Lower`.
The order matters in the lower pass, done in place: from the last row up, a row reads
entries not yet changed. The mutant `LdltDown` takes the rows the other way.

*Sums.* The reference is made of sums over sets (`MapThenSumSet`). They are brought to `Tot(g, n)`,
the sum of the first `n` values of a function, about which there are the lemmas of a sum:
of a sum, of a multiple, of one value changed, of a sum cut at a place, and that a double sum may be
taken in either order. That `L D Lt` applied to a vector is the three passes is then algebra,
with no product expanded in the provers: each equation is a lemma over one row.

*Resolution.* Each pass of `fem_solver_invert` undoes the matching pass of `matrix_ldlt_vector`: forward
substitution meets in row `i` the values of the earlier rows already undone. The statement
asks for a diagonal of ones and minus ones, on which dividing is exact over integers.

*Files.* `LoadDiag` is a recursive function; `Height` of a row is the greatest of the distances to the
diagonal that the file asks for, so that every entry has a place and the last one
written there stays (`LastOf`); what no entry names is zero, or outside the profile.

### Results

`FemProofs` proves `ResultsAreKept`: `AnalysisSpec => []ResultsKept`, for any numbers, sizes,
components and number of requests, under `AnalysesAssumption`: sizes are natural, and
informations are not empty. Two empty ones would be at one place; the callers
ask for one or three. `AnalysisInv` is

- `AnalysisTyped`: what is held and where, of which type;
- `ListedOnce`: numbers and places of the list go with each other one to one, which is why an
  analysis has as many values as numbers;
- `ValuesInPlace`: each value ends before the end of the list they share, and what was
  written for its number is there;
- `InfosInPlace`: informations given out are below the end of theirs;
- `RegionsApart`.

`ValuesKept` is not inductive without `RegionsApart`: a value written for one number must not
fall on another's. And the regions stay apart only because each ends before the place at
which the next one is taken. `NewKept`, `GrownKept`, `WrittenKept` and `InformedKept` have one request
each; a value that grows moves to the end, where nothing is, and leaves a hole.

### Only model-checked

Liveness (out of the prover's reach, with ENABLED), `SliceWhole` (the loop over the
pieces of a slice is a recursion over the text), and the other parts of
`sequential` and `fem`. Most of what is left in the latter computes by recursion on programs, files or
meshings with RECURSIVE operators, from which the installed provers derive nothing; the
modules that declare them (`Leaves`, `Evaluator`, `Meaning`, `Meshing`, ...)
state no theorem. Folds and recursive functions are within reach, as the containers, the registry and the matrices show;
what is left of `AttributesExact` and `ReportsRight` is conjunctions of several modules, of which
some (`Conditions`, `Startup`, `Timers`) declare RECURSIVE operators and the others (`Elements`,
`Blocks`, `Reports`, `Digests`) have no proof yet. TLC evaluated the parts of `SInv` on the three profiles of
`solver` and on four others, full and short ones among them, those of the
`IInv` of `ReferencesProofs` and `SequentialProofs` on the instances of `references` and
`sequential`, and `AnalysisInv` on that of `fem`, before they were proved.

## 6. Findings

- `solver.c:282`: the last batch is cut on `nb_threads`, but it has
  `2*nb_threads` lines (`solver_short`).
- `solver.c:155`: the loop starts one column too far (`solver_dense`).
- `object.c:593`: the search for the predecessor of a reference has its
  condition reversed (`ref_free_db`).
- `renum.c:491`: the slots left by an edge that two meshes share count as node
  0, and a linked meshing is said to have unlinked parts (`fem_unlinked`).
- `code.c:1541`: the captured variables of a function that is assigned are
  replaced in the constant of the leaf instead of a copy (`assigned_function`).

Three that properties of passing runs meet, where the model does what the code does and the
property names the exception:

- `gzio.c:134`: the test is `len > 2`, so that of an empty line that ends with "\r\n" the
  '\r' is kept, against the comment of line 102 ("Si un '\\r' precede un '\n', il est
  supprimé!"). `LineBegin` returns that line as it is (`Returned`), and `Implements` allows it as a
  step that `TextFile` does not have (`ReadEmpty`). A text of `sequential` has such a line.
- `problem.c:279`: `fem_problem_dof_get_local` gives `fem_meshing_mesh_size` to
  `__fem_numbering_local`, whose comment (`numbering.c:408`) says "no is the number of node of
  the model". With fewer meshes than nodes, the last nodes get "DOF not found": this is what
  `EquationsNumbered` says of them (`Named`), while the names of the nodes before the number of
  meshes, those of conditions, and all those that the number of nodes would give are right. With
  more meshes than nodes the loops read behind the end of the tables, for which the property
  says nothing.
- `hash.c:158`: the values of a copied table come from `__haplo_object_copy`, whose object
  has no reference (`object.c:340`), and no `OBJECT_REF` follows, whereas
  `__haplo_hash_set` takes one (`hash.c:145`). `EntriesCounted` says so: a copied object has one reference
  less than entries. The entries of a copy are freed once, with it, or when their keys are set
  again, because `__haplo_object_free` frees an object without references too. But a value
  taken from the copy (`code.c:1976`), or set under another key, is freed as soon as that reference is
  given back, while the copy has it still; copies of tables are made for arguments that are altered
  (`code.c:2482`). Such a program is not in the models.

Met while modelling, without a run of their own, where the models say what the
code does or leave the case out: a node defined again takes a new internal
number (`meshing.c:235`); numbers given by hand collide with those a fusion
shifts (`1203`); a position asked for after a dropped carriage return is one too
far (`file.c:494`); a carriage return is dropped by its place in what was copied,
without looking at what follows, so that a line of `LineSize` characters or more,
cut behind a carriage return that is not before its newline, loses the character
there (`gzio.c:134`, against the comment of line 102); the status of a write is that of the last block only
(`io/src/parser.c:330`); the index of a compressed file outlives the file it was
made for; a first overload registered again hides the others (`func.c:397`);
after an inner evaluation the outer one can no longer be interrupted
(`interruptible.c:196`); a characteristic misspelt in a requirement is dropped
(`cara.c:300`); analyses of nodes take the branch of elements too
(`analysis.c:342`); a module of the linker's path that fails to start is freed
twice (`module.c:553`, `648`); the copy of an empty hash table has size zero
(`hash.tmpl:415`); the test of what getrlimit answers is reversed (`main.c:411`);
a second stop of a timer takes durations for a start (`timer.c:170`); a degree of freedom that
its node, or every element, lacks counts as numbered, and a condition that names one beside a
known one is accepted without the message of `bc.c:959` (`bc.c:889`): `EquationsNumbered` says
nothing of such a list, only that one is numbered right when everything is known, and refused when
a node is not there and its degree of freedom exists.

## 7. Not modelled

- The bodies of the readers and writers of universal data sets (about 2,000
  lines of `parser_UNV55.c` to `parser_UNV2414.c`): they are between `#if 0` and
  `#endif`.
- Floating-point computations (`eigen.c`, `determinant.c`, `post.c`,
  `vectorized.c`, jacobians of `geom.c`, the generated elements): there is no control to
  state a property about.
- Printing: `help.c`, `des.c`, listings, `info`, display functions.
- The lexer, completion and redirection of input.
- The backtrace printed after a fatal error (`bt.c`): output only.
- `haplo_list_copy`, which does not copy the pages.
- Sockets, ports and the bytes of a session; children stopped by a signal.
- `pthread_create` that fails, `malloc` that fails elsewhere than in the server
  and in the memory debugger.
- Values of loads by pressure; entities of `entity.c`; compressed output.
