------------------------------- MODULE Blocks --------------------------------
(* The memory debugger (kernel/libhaplo/memory.c, HAPLO_DEBUG_MEMORY): a     *)
(* list of the blocks of the program, next to the heap of the C library.     *)
EXTENDS Integers, Sequences, SequencesExt

CONSTANTS Addresses, Sizes, MaxCalls   \* Addresses: where the heap has room

VARIABLES
  heap,          \* the blocks of the C library: their size, 0 where there is none
  memory_usage,  \* the list: [addr, size, flags], flags "looked", "" or not set
  memory_size, memory_max,
  counts,        \* calls of malloc, free and realloc that succeeded
  ended          \* "", "fatal", or what haplo_memory_usage returned at the end

blockVars == <<heap, memory_usage, memory_size, memory_max, counts, ended>>

NULL == 0
Free == {a \in Addresses : heap[a] = 0}
Listed(ptr) == {k \in DOMAIN memory_usage : memory_usage[k].addr = ptr}
Larger(a, b) == IF a < b THEN b ELSE a

Init ==
  /\ heap = [a \in Addresses |-> 0] /\ memory_usage = <<>>
  /\ memory_size = 0 /\ memory_max = 0
  /\ counts = [malloc |-> 0, free |-> 0, realloc |-> 0]
  /\ ended = ""

Calling == ended = "" /\ counts.malloc + counts.realloc < MaxCalls

haplo_fatal ==
  /\ ended' = "fatal"
  /\ UNCHANGED <<heap, memory_usage, memory_size, memory_max, counts>>

\* malloc and trymalloc: the heap may have no room, which only the first one does not survive.
haplo_malloc_debug ==
  /\ Calling
  /\ \E size \in Sizes :
       \/ /\ size = 0 /\ haplo_fatal
       \/ /\ size # 0
          /\ \E a \in Free :
               /\ heap' = [heap EXCEPT ![a] = size]
               /\ memory_usage' = Append(memory_usage, [addr |-> a, size |-> size, flags |-> ""])
          /\ memory_size' = memory_size + size
          /\ memory_max' = Larger(memory_max, memory_size + size)
          /\ counts' = [counts EXCEPT !.malloc = @ + 1]
          /\ UNCHANGED ended

haplo_malloc_fails == Calling /\ haplo_fatal

\* Mutant of haplo_free_debug: it is the block before the one that was found that leaves the list.
FreePrevious ==
  /\ ended = ""
  /\ \E ptr \in Addresses \cup {NULL} :
       LET found == Listed(ptr)
       IN  IF found = {} THEN haplo_fatal
           ELSE LET k == Min(found)
                IN  /\ heap' = [heap EXCEPT ![ptr] = 0]
                    /\ memory_usage' = RemoveAt(memory_usage, IF k = 1 THEN 1 ELSE k - 1)
                    /\ memory_size' = memory_size - memory_usage[k].size
                    /\ counts' = [counts EXCEPT !.free = @ + 1]
                    /\ UNCHANGED <<memory_max, ended>>

haplo_free_debug ==
  /\ ended = ""
  /\ \E ptr \in Addresses \cup {NULL} :
       LET found == Listed(ptr)
       IN  IF found = {} THEN haplo_fatal
           ELSE LET k == Min(found)
                IN  /\ heap' = [heap EXCEPT ![ptr] = 0]
                    /\ memory_usage' = RemoveAt(memory_usage, k)
                    /\ memory_size' = memory_size - memory_usage[k].size
                    /\ counts' = [counts EXCEPT !.free = @ + 1]
                    /\ UNCHANGED <<memory_max, ended>>

\* The block moves or stays; a new one, for NULL, has flags nobody sets. The maximum is left.
\* NULL with no size, for which C leaves the choice of what to return, is left out.
haplo_realloc_debug ==
  /\ Calling
  /\ \E ptr \in Addresses \cup {NULL}, size \in Sizes :
       LET found == Listed(ptr)
       IN  IF size = 0 \/ (ptr # NULL /\ found = {}) THEN ptr # NULL /\ haplo_fatal
           ELSE LET prev == IF ptr = NULL THEN 0 ELSE memory_usage[Min(found)].size
                IN  /\ \E a \in Free \cup ({ptr} \ {NULL}) :
                         /\ heap' = [b \in Addresses |-> IF b = a THEN size ELSE IF b = ptr THEN 0 ELSE heap[b]]
                         /\ IF ptr = NULL
                            THEN \E flags \in {"", "looked"} :
                                   memory_usage' =
                                     Append(memory_usage, [addr |-> a, size |-> size, flags |-> flags])
                            ELSE memory_usage' = [memory_usage EXCEPT ![Min(found)].addr = a,
                                                                      ![Min(found)].size = size]
                    /\ memory_size' = memory_size + (size - prev)
                    /\ counts' = [counts EXCEPT !.realloc = @ + 1]
                    /\ UNCHANGED <<memory_max, ended>>

haplo_memory_watch ==
  /\ ended = ""
  /\ \E ptr \in Addresses :
       memory_usage' = [k \in DOMAIN memory_usage |->
                          IF k \in Listed(ptr) THEN [memory_usage[k] EXCEPT !.flags = "looked"]
                          ELSE memory_usage[k]]
  /\ UNCHANGED <<heap, memory_size, memory_max, counts, ended>>

\* Blocks that are left are reported and given back.
haplo_memory_usage ==
  /\ ended = ""
  /\ heap' = [a \in Addresses |-> IF Listed(a) = {} THEN heap[a] ELSE 0]
  /\ ended' = IF memory_usage = <<>> THEN "clean" ELSE "leaks"
  /\ UNCHANGED <<memory_usage, memory_size, memory_max, counts>>

Next ==
  \/ haplo_malloc_debug \/ haplo_malloc_fails \/ haplo_free_debug \/ haplo_realloc_debug
  \/ haplo_memory_watch \/ haplo_memory_usage

-----------------------------------------------------------------------------
\* The list is the heap: every block once, with its size, whatever moved it; what is reported
\* at the end is what the program did not give back.
ListIsHeap ==
  /\ ended \in {"", "fatal"} =>
       \A a \in Addresses :
         IF heap[a] = 0 THEN Listed(a) = {}
         ELSE \E k \in DOMAIN memory_usage :
                Listed(a) = {k} /\ memory_usage[k].size = heap[a]
  /\ ended \in {"clean", "leaks"} => \A a \in Addresses : heap[a] = 0

\* The size is that of the blocks, and the number of blocks is what the counts tell.
SizeIsSum ==
  /\ memory_size = FoldLeft(LAMBDA sum, b : sum + b.size, 0, memory_usage)
  /\ counts.malloc <= Len(memory_usage) + counts.free
  /\ Len(memory_usage) + counts.free <= counts.malloc + counts.realloc
=============================================================================
