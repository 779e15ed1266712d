------------------------------- MODULE RtMemory -------------------------------
(***************************************************************************)
(* The memory of a real-time process: rt_main_init, which locks the pages  *)
(* of the process and reserves a pool, the stacks of its threads, and the  *)
(* page-fault counter that every thread may print.                         *)
(*                                                                         *)
(* A page is a number (the heap) or a thread (its stack).  The kernel and  *)
(* malloc are external: the kernel may take any page that is not locked,   *)
(* malloc takes any free run that fits, or lets the heap grow.             *)
(***************************************************************************)
EXTENDS Integers, FiniteSets

CONSTANTS
  Main,     \* the thread that calls rt_main_init
  Thread,   \* the threads that call rt_init_thread
  Programs, \* which of them a program has, and if it passes a period_info
  Reserve,  \* pages of pre_allocation_size
  Sizes,    \* pages that one malloc of the application takes
  MaxHeap   \* the limit of the heap

Caller == {Main} \cup Thread

ASSUME MemoryAssumption ==
  /\ Main \notin Thread
  /\ IsFiniteSet(Thread)
  /\ Caller \cap Int = {}
  /\ Programs \subseteq [threads : SUBSET Caller, timed : BOOLEAN]
  /\ Reserve \in Nat /\ MaxHeap \in Nat
  /\ Sizes \subseteq Nat \ {0}

VARIABLES
  prog,      \* the program
  top,       \* the heap is the pages 1..top
  used,      \* its pages that are allocated
  resident,  \* the pages that are in RAM
  locked,    \* mlockall has succeeded
  keep,      \* malloc gives nothing back to the kernel
  faults,    \* the page faults of the process, as getrusage counts them
  last,      \* the static last_minflt, last_majflt
  usage,     \* the local of show_new_pagefault_count
  pc,        \* where each thread is
  cont,      \* where it goes after show_new_pagefault_count
  reported,  \* history: sum of the faults printed
  overlap,   \* history: two calls of show_new_pagefault_count overlapped
  faulted    \* history: a fault after rt_main_init has returned true

pool == <<prog, top, used, locked, keep>>
counter == <<last, usage, reported, overlap>>
memvars == <<pool, resident, faults, counter, pc, cont, faulted>>

MemInit ==
  /\ prog \in Programs
  /\ top = 0 /\ used = {} /\ resident = {}
  /\ locked = FALSE /\ keep = FALSE
  /\ faults = 0 /\ last = 0 /\ reported = 0
  /\ usage = [t \in Caller |-> 0]
  /\ pc = [t \in Caller |-> IF t = Main /\ t \in prog.threads
                           THEN "rt_main_init" ELSE "unborn"]
  /\ cont = [t \in Caller |-> "none"]
  /\ overlap = FALSE
  /\ faulted = FALSE

Goto(t, label) == pc' = [pc EXCEPT ![t] = label]

-----------------------------------------------------------------------------
(* The kernel and malloc.                                                  *)

\* The stacks that exist.
Stacks == {t \in Thread : pc[t] # "unborn"}
Mapped == (1..top) \cup Stacks

LastUsed == CHOOSE m \in used \cup {0} : \A p \in used : p <= m
Run(a, n) == a..(a + n - 1)
FreeRuns(n) == {a \in 1..(top - n + 1) : Run(a, n) \cap used = {}}

\* Where malloc puts n pages: a free run, or else past the last block.
Places(n) == IF FreeRuns(n) # {} THEN FreeRuns(n) ELSE {LastUsed + 1}

\* A write to each page of P, when the pages in here are in RAM.
Touch(P, here) ==
  /\ faults' = faults + Cardinality(P \ here)
  /\ resident' = here \cup P
  /\ faulted' = (faulted \/ (pc[Main] = "true" /\ P \ here # {}))

\* Mutant of malloc_touch: the loop runs for i <= size.
malloc_touch_more(a, n) ==
  /\ used' = used \cup Run(a, n)
  /\ top' = IF a + n - 1 > top THEN a + n - 1 ELSE top
  /\ Touch(Run(a, n + 1), IF locked THEN resident \cup ((top + 1)..top') ELSE resident)

\* malloc(n) at a, and a write to each page.  Growing a locked heap brings its
\* new pages into RAM.
malloc_touch(a, n) ==
  /\ used' = used \cup Run(a, n)
  /\ top' = IF a + n - 1 > top THEN a + n - 1 ELSE top
  /\ Touch(Run(a, n), IF locked THEN resident \cup ((top + 1)..top') ELSE resident)

\* Unless told to keep it, malloc may return the free end of the heap.
free(P) ==
  /\ used' = used \ P
  /\ \/ UNCHANGED <<top, resident>>
     \/ /\ ~keep
        /\ top' \in {n \in 0..top : \A p \in used \ P : p <= n}
        /\ resident' = resident \ ((top' + 1)..top)

swap_out(p) ==
  /\ ~locked
  /\ resident' = resident \ {p}
  /\ p \in resident
  /\ UNCHANGED <<pool, faults, counter, pc, cont, faulted>>

\* The work of an application, which ends when rt_main_init returns false:
\* allocate and use, use, release.
app_malloc ==
  /\ pc[Main] = "true"
  /\ \E n \in Sizes : \E a \in Places(n) : a + n - 1 <= MaxHeap /\ malloc_touch(a, n)
  /\ UNCHANGED <<prog, locked, keep, counter, pc, cont>>

app_free ==
  /\ pc[Main] = "true"
  /\ \E p \in used : free({p})
  /\ UNCHANGED <<prog, locked, keep, faults, counter, pc, cont, faulted>>

use_memory(t) ==
  /\ pc[Main] = "true"
  /\ pc[t] = "run"
  /\ Touch(used \cup {t}, resident)
  /\ UNCHANGED <<pool, counter, pc, cont>>

-----------------------------------------------------------------------------
(* show_new_pagefault_count: getrusage, printf, and the two assignments.   *)

Counting(t) == pc[t] \in {"getrusage", "print", "store"}

CallCount(t, next) ==
  /\ Goto(t, "getrusage")
  /\ cont' = [cont EXCEPT ![t] = next]
  /\ overlap' = (overlap \/ \E u \in Caller : Counting(u))

count_getrusage(t) ==
  /\ pc[t] = "getrusage"
  /\ usage' = [usage EXCEPT ![t] = faults]
  /\ Goto(t, "print")
  /\ UNCHANGED <<pool, resident, faults, last, reported, overlap, cont, faulted>>

count_print(t) ==
  /\ pc[t] = "print"
  /\ reported' = reported + (usage[t] - last)
  /\ Goto(t, "store")
  /\ UNCHANGED <<pool, resident, faults, last, usage, overlap, cont, faulted>>

\* Mutant of count_store: the counter is not remembered.
count_store_not(t) ==
  /\ pc[t] = "store"
  /\ UNCHANGED last
  /\ usage' = [usage EXCEPT ![t] = 0]
  /\ Goto(t, cont[t])
  /\ cont' = [cont EXCEPT ![t] = "none"]
  /\ UNCHANGED <<pool, resident, faults, reported, overlap, faulted>>

count_store(t) ==
  /\ pc[t] = "store"
  /\ last' = usage[t]
  /\ usage' = [usage EXCEPT ![t] = 0]
  /\ Goto(t, cont[t])
  /\ cont' = [cont EXCEPT ![t] = "none"]
  /\ UNCHANGED <<pool, resident, faults, reported, overlap, faulted>>

show_new_pagefault_count(t) == count_getrusage(t) \/ count_print(t) \/ count_store(t)

-----------------------------------------------------------------------------
(* rt_main_init.                                                           *)

initial_count ==
  /\ pc[Main] = "rt_main_init"
  /\ CallCount(Main, "configure")
  /\ UNCHANGED <<pool, resident, faults, last, usage, reported, faulted>>

\* Mutants of configure_malloc_behavior: malloc may trim; a refused mlockall is
\* ignored.
configure_trims ==
  /\ pc[Main] = "configure"
  /\ locked' = TRUE /\ resident' = Mapped
  /\ CallCount(Main, "reserve")
  /\ UNCHANGED <<prog, keep, top, used, faults, last, usage, reported, faulted>>

configure_ignores ==
  /\ pc[Main] = "configure"
  /\ keep' = TRUE
  /\ CallCount(Main, "reserve")
  /\ UNCHANGED <<prog, locked, resident, top, used, faults, last, usage, reported, faulted>>

\* mlockall brings in what is mapped, and may be refused; then mallopt twice.
configure_malloc_behavior ==
  /\ pc[Main] = "configure"
  /\ \/ /\ locked' = TRUE /\ resident' = Mapped
        /\ keep' = TRUE
        /\ CallCount(Main, "reserve")
     \/ /\ Goto(Main, "false")
        /\ UNCHANGED <<locked, resident, keep, cont, overlap>>
  /\ UNCHANGED <<prog, top, used, faults, last, usage, reported, faulted>>

\* The first and the second round; a malloc that fails is not noticed, and the
\* write to NULL ends the process.
reserve_process_memory ==
  /\ pc[Main] \in {"reserve", "reserve_again"}
  /\ \E a \in Places(Reserve) :
       \/ /\ a + Reserve - 1 <= MaxHeap
          /\ malloc_touch(a, Reserve)
          /\ Goto(Main, IF pc[Main] = "reserve" THEN "free" ELSE "free_again")
       \/ /\ Run(a, Reserve) \ (1..top) # {}
          /\ Goto(Main, "segv")
          /\ UNCHANGED <<top, used, resident, faults, faulted>>
  /\ UNCHANGED <<prog, locked, keep, counter, cont>>

reserve_free ==
  /\ pc[Main] \in {"free", "free_again"}
  /\ free(used)
  /\ CallCount(Main, IF pc[Main] = "free" THEN "reserve_again" ELSE "true")
  /\ UNCHANGED <<prog, locked, keep, faults, last, usage, reported, faulted>>

rt_main_init ==
  \/ initial_count \/ configure_malloc_behavior
  \/ reserve_process_memory \/ reserve_free

-----------------------------------------------------------------------------
(* rt_init_thread, up to the timer.                                        *)

\* A new thread has a stack, in RAM if the process is locked.
spawn(t) ==
  /\ pc[t] = "unborn"
  /\ t \in prog.threads
  /\ Goto(t, "setprio")
  /\ resident' = IF locked THEN resident \cup {t} ELSE resident
  /\ UNCHANGED <<pool, faults, counter, cont, faulted>>

setprio(t) ==
  /\ pc[t] = "setprio"
  /\ \/ CallCount(t, "stack")
     \/ Goto(t, "false") /\ UNCHANGED <<cont, overlap>>
  /\ UNCHANGED <<pool, resident, faults, last, usage, reported, faulted>>

\* The stack is written page by page; the result only says what is printed.
prove_thread_stack_use_is_safe(t) ==
  /\ pc[t] = "stack"
  /\ Touch({t}, resident)
  /\ CallCount(t, "timer")
  /\ UNCHANGED <<pool, last, usage, reported>>
=============================================================================
