---------------------------- MODULE RtThread_proofs ----------------------------
(***************************************************************************)
(* Proofs about a process with real-time threads, for any number of        *)
(* threads, any sizes of the pool and of the allocations, any periods and  *)
(* reference times, any length of a second and any spacing of doubles.     *)
(***************************************************************************)
EXTENDS RtThread, Timer_proofs, FiniteSetTheorems, WellFoundedInduction

USE MemoryAssumption, ThreadAssumption DEF Caller, Goto

-----------------------------------------------------------------------------
(* Control: where the threads are, and where they go after a count.        *)

MainAt == {"rt_main_init", "configure", "reserve", "free", "reserve_again",
           "free_again", "true", "false", "segv", "unborn", "getrusage", "print", "store"}
ThreadAt == {"unborn", "setprio", "stack", "timer", "run", "inc", "due", "false",
             "getrusage", "print", "store"}
MainNext == {"configure", "reserve", "reserve_again", "true"}
ThreadNext == {"stack", "timer"}

\* Every thread is where its function has steps, and one that counts page faults
\* knows where to go on.
Control ==
  /\ pc \in [Caller -> MainAt \cup ThreadAt]
  /\ cont \in [Caller -> {"none"} \cup MainNext \cup ThreadNext]
  /\ pc[Main] \in MainAt
  /\ \A t \in Thread : pc[t] \in ThreadAt
  /\ Counting(Main) => cont[Main] \in MainNext
  /\ \A t \in Thread : Counting(t) => cont[t] \in ThreadNext
  /\ prog \in Programs

\* Going to a place of one's own.
LEMMA ControlGoto ==
  ASSUME Control, NEW t \in Caller, NEW label, Goto(t, label), UNCHANGED <<cont, prog>>,
         IF t = Main THEN label \in MainAt ELSE label \in ThreadAt,
         label \in {"getrusage", "print", "store"} => Counting(t)
  PROVE  Control'
  BY DEF Control, Counting, MainAt, ThreadAt

\* Calling show_new_pagefault_count.
LEMMA ControlCall ==
  ASSUME Control, NEW t \in Caller, NEW next, CallCount(t, next), UNCHANGED prog,
         IF t = Main THEN next \in MainNext ELSE next \in ThreadNext
  PROVE  Control'
  BY DEF Control, Counting, MainAt, ThreadAt, CallCount, MainNext, ThreadNext

\* Every action keeps the threads where their calls can be.
LEMMA ControlStep == Control /\ [Next]_vars => Control'
<1> SUFFICES ASSUME Control, [Next]_vars PROVE Control'
  OBVIOUS
<1> USE DEF pool
<1>1. CASE initial_count
  BY <1>1, ControlCall DEF initial_count, MainNext
<1>2. CASE configure_malloc_behavior
  <2>1. CASE CallCount(Main, "reserve")
    BY <1>2, <2>1, ControlCall DEF configure_malloc_behavior, MainNext
  <2>2. CASE Goto(Main, "false") /\ UNCHANGED cont
    BY <1>2, <2>2, ControlGoto DEF configure_malloc_behavior, MainAt
  <2> QED
    BY <1>2, <2>1, <2>2 DEF configure_malloc_behavior
<1>3. CASE reserve_process_memory
  <2>1. PICK label \in {"free", "free_again", "segv"} : Goto(Main, label)
    BY <1>3 DEF reserve_process_memory
  <2>2. UNCHANGED <<cont, prog>>
    BY <1>3 DEF reserve_process_memory
  <2> QED
    BY <2>1, <2>2, ControlGoto DEF MainAt
<1>4. CASE reserve_free
  <2>1. PICK label \in {"reserve_again", "true"} : CallCount(Main, label)
    BY <1>4 DEF reserve_free
  <2>2. UNCHANGED prog
    BY <1>4 DEF reserve_free
  <2> QED
    BY <2>1, <2>2, ControlCall DEF MainNext
<1>5. ASSUME NEW t \in Caller, count_getrusage(t) \/ count_print(t) PROVE Control'
  <2>1. /\ Counting(t) /\ UNCHANGED <<cont, prog>>
        /\ Goto(t, "print") \/ Goto(t, "store")
    BY <1>5 DEF count_getrusage, count_print, Counting
  <2> QED
    BY <2>1, ControlGoto DEF MainAt, ThreadAt
<1>6. ASSUME NEW t \in Caller, count_store(t) PROVE Control'
  BY <1>6 DEF count_store, Control, Counting, MainAt, ThreadAt, MainNext, ThreadNext
<1>7. ASSUME NEW t \in Thread, spawn(t) PROVE Control'
  BY <1>7, ControlGoto DEF spawn, ThreadAt
<1>8. ASSUME NEW t \in Thread, setprio(t) PROVE Control'
  <2>1. CASE CallCount(t, "stack")
    BY <1>8, <2>1, ControlCall DEF setprio, ThreadNext
  <2>2. CASE Goto(t, "false") /\ UNCHANGED cont
    BY <1>8, <2>2, ControlGoto DEF setprio, ThreadAt
  <2> QED
    BY <1>8, <2>1, <2>2 DEF setprio
<1>9. ASSUME NEW t \in Thread, prove_thread_stack_use_is_safe(t) PROVE Control'
  BY <1>9, ControlCall DEF prove_thread_stack_use_is_safe, ThreadNext
<1>10. ASSUME NEW t \in Thread, timer_periodic_init(t) PROVE Control'
  BY <1>10, ControlGoto DEF timer_periodic_init, ThreadAt
<1>11. CASE timer_inc_period \/ inc_round \/ timer_inc_period_offset
            \/ timer_wait_rest_of_period
  <2>1. PICK label \in {"inc", "due", "run"} : Step(label)
    BY <1>11 DEF timer_inc_period, inc_round, timer_inc_period_offset,
                 timer_wait_rest_of_period
  <2> QED
    BY <2>1, ControlGoto DEF Step, ThreadAt
<1>12. CASE UNCHANGED <<pc, cont, prog>>
  BY <1>12 DEF Control, Counting
<1> QED
  BY <1>1, <1>2, <1>3, <1>4, <1>5, <1>6, <1>7, <1>8, <1>9, <1>10, <1>11, <1>12
  DEF Next, MemoryStep, rt_main_init, show_new_pagefault_count, rt_init_thread, TimerStep,
      vars, memvars, app_malloc, app_free, swap_out, use_memory, timer_calc_sync_offset, Tick

-----------------------------------------------------------------------------
(* malloc.                                                                 *)

\* A bounded set of pages has a last one.
LEMMA HasLast ==
  ASSUME NEW n \in Nat, NEW U \in SUBSET (1..n)
  PROVE  \E m \in U \cup {0} : \A p \in U : p <= m
<1> DEFINE B == {m \in Nat : \A p \in U : p <= m}
<1>1. B \subseteq Nat /\ n \in B
  OBVIOUS
<1>2. PICK m \in B : \A x \in B : ~(<<x, m>> \in OpToRel(<, Nat))
  BY <1>1, WFMin, NatLessThanWellFounded
<1>3. \A x \in B : ~(x < m)
  BY <1>1, <1>2 DEF OpToRel
<1>4. CASE m = 0
  BY <1>4
<1>5. CASE m # 0
  <2>1. m - 1 \in Nat /\ m - 1 \notin B
    BY <1>3, <1>5
  <2>2. PICK p \in U : ~(p <= m - 1)
    BY <2>1
  <2>3. p = m
    BY <2>2
  <2> QED
    BY <2>2, <2>3
<1> QED
  BY <1>4, <1>5

\* malloc puts a block at a page of the heap or just after the last block.
LEMMA PlaceOnHeap ==
  ASSUME top \in Nat, used \subseteq 1..top, NEW n \in Nat, NEW a \in Places(n)
  PROVE  a \in Nat \ {0}
<1>1. CASE a \in FreeRuns(n)
  BY <1>1 DEF FreeRuns
<1>2. CASE a = LastUsed + 1
  <2>1. LastUsed \in used \cup {0}
    BY HasLast DEF LastUsed
  <2> QED
    BY <1>2, <2>1
<1> QED
  BY <1>1, <1>2 DEF Places

-----------------------------------------------------------------------------
(* Memory.                                                                 *)

\* Where Main is, or is going to be after it has counted.
AtMain == IF Counting(Main) THEN cont[Main] ELSE pc[Main]

\* What mlockall promises, and how far rt_main_init has come with it: from
\* configure_malloc_behavior on everything mapped is in RAM and malloc keeps the
\* heap, and from the first reservation on the heap has the size of the pool.
Memory ==
  /\ top \in 0..MaxHeap /\ used \subseteq 1..top /\ resident \subseteq Mapped
  /\ locked => Mapped \subseteq resident
  /\ AtMain \in {"reserve", "free", "reserve_again", "free_again", "true"} => locked /\ keep
  /\ AtMain \in {"free", "reserve_again", "free_again", "true"} => top >= Reserve
  /\ ~faulted

\* A thread that is born has a stack, and keeps it.
LEMMA StacksKept ==
  ASSUME Control, NEW t \in Caller, NEW label, Goto(t, label), label # "unborn",
         t = Main \/ pc[t] # "unborn"
  PROVE  Stacks' = Stacks
  BY DEF Control, Stacks

\* An allocation in a locked process grows the heap at most, and faults nowhere.
LEMMA MallocLocked ==
  ASSUME Control, Memory, locked, NEW n \in Nat, NEW a \in Places(n), a + n - 1 <= MaxHeap,
         malloc_touch(a, n), Stacks' = Stacks
  PROVE  /\ top' \in 0..MaxHeap /\ top' >= top /\ top' >= n
         /\ used' \subseteq 1..top' /\ resident' \subseteq Mapped' /\ Mapped' \subseteq resident'
         /\ ~faulted'
<1>1. a \in Nat \ {0}
  BY PlaceOnHeap DEF Memory
<1>2. top' \in 0..MaxHeap /\ top' >= top /\ top' >= a + n - 1
  BY <1>1 DEF Memory, malloc_touch
<1>3. Run(a, n) \subseteq 1..top'
  BY <1>1, <1>2 DEF Run
<1>4. 1..top \subseteq 1..top' /\ 1..top' = (1..top) \cup ((top + 1)..top')
  BY <1>2 DEF Memory
<1> DEFINE here == resident \cup ((top + 1)..top')
<1>5. 1..top' \subseteq here /\ Stacks \subseteq here
  BY <1>4 DEF Memory, Mapped
<1>6. Touch(Run(a, n), here)
  BY DEF malloc_touch
<1>7. Run(a, n) \ here = {}
  BY <1>3, <1>5
<1>8. ~faulted'
  BY <1>6, <1>7 DEF Touch, Memory
<1>9. used' \subseteq 1..top'
  BY <1>3, <1>4 DEF malloc_touch, Memory
<1>10. resident' = here
  BY <1>3, <1>5, <1>6 DEF Touch
<1>11. here = Mapped'
  BY <1>4, <1>5 DEF Mapped, Memory
<1> QED
  BY <1>1, <1>2, <1>8, <1>9, <1>10, <1>11

\* A write to pages that are there does not fault.
LEMMA TouchMapped ==
  ASSUME Control, Memory, NEW P \in SUBSET Mapped, Touch(P, resident)
  PROVE  resident' \subseteq Mapped /\ (locked => Mapped \subseteq resident') /\ ~faulted'
<1>1. pc[Main] = "true" => locked
  BY DEF Memory, AtMain, Counting
<1>2. pc[Main] = "true" => P \ resident = {}
  BY <1>1 DEF Memory
<1>3. resident' = resident \cup P
  BY DEF Touch
<1>4. ~faulted'
  BY <1>2 DEF Touch, Memory
<1> QED
  BY <1>3, <1>4 DEF Memory

\* A step that changes no page of memory and takes no thread out of its life
\* keeps Memory, if Main goes where it may.
LEMMA MemoryKept ==
  ASSUME Control, Memory, UNCHANGED <<top, used, resident, locked, keep, faulted>>,
         Stacks' = Stacks,
         AtMain' \in {AtMain, "rt_main_init", "configure", "false", "segv"}
  PROVE  Memory'
  BY DEF Memory, Mapped

\* Steps of a thread are none of Main.
LEMMA ThreadNotMain ==
  ASSUME Control, NEW t \in Thread,
         \/ \E label : Goto(t, label) /\ UNCHANGED cont
         \/ \E next : CallCount(t, next)
  PROVE  AtMain' = AtMain
  BY DEF Control, CallCount, AtMain, Counting

\* Every action keeps the invariant of the memory.
LEMMA MemoryStepKeeps == Control /\ Memory /\ [Next]_vars => Memory'
<1> SUFFICES ASSUME Control, Memory, [Next]_vars PROVE Memory'
  OBVIOUS
<1> USE DEF pool
<1>1. CASE initial_count
  <2>1. CallCount(Main, "configure") /\ UNCHANGED <<top, used, resident, locked, keep, faulted>>
    BY <1>1 DEF initial_count
  <2>2. AtMain' = "configure" /\ Stacks' = Stacks
    BY <2>1, StacksKept DEF CallCount, AtMain, Counting, Control
  <2> QED
    BY <2>1, <2>2, MemoryKept
<1>2. CASE configure_malloc_behavior
  <2>1. CASE Goto(Main, "false") /\ UNCHANGED <<locked, resident, keep, cont, overlap>>
    <3>1. UNCHANGED <<top, used, resident, locked, keep, faulted>>
      BY <1>2, <2>1 DEF configure_malloc_behavior
    <3>2. AtMain' = "false" /\ Stacks' = Stacks
      BY <2>1, StacksKept DEF AtMain, Counting, Control
    <3> QED
      BY <3>1, <3>2, MemoryKept
  <2>2. CASE locked' = TRUE /\ resident' = Mapped /\ keep' = TRUE /\ CallCount(Main, "reserve")
    <3>1. UNCHANGED <<top, used, faulted>>
      BY <1>2 DEF configure_malloc_behavior
    <3>2. AtMain' = "reserve" /\ Stacks' = Stacks
      BY <2>2, StacksKept DEF CallCount, AtMain, Counting, Control
    <3> QED
      BY <2>2, <3>1, <3>2 DEF Memory, Mapped
  <2> QED
    BY <1>2, <2>1, <2>2 DEF configure_malloc_behavior
<1>3. CASE reserve_process_memory
  <2>0. locked /\ keep /\ UNCHANGED <<locked, keep, cont>>
    BY <1>3 DEF reserve_process_memory, Memory, AtMain, Counting
  <2>1. PICK a \in Places(Reserve) :
          \/ /\ a + Reserve - 1 <= MaxHeap
             /\ malloc_touch(a, Reserve)
             /\ Goto(Main, IF pc[Main] = "reserve" THEN "free" ELSE "free_again")
          \/ Goto(Main, "segv") /\ UNCHANGED <<top, used, resident, faults, faulted>>
    BY <1>3 DEF reserve_process_memory
  <2>2. CASE Goto(Main, "segv") /\ UNCHANGED <<top, used, resident, faults, faulted>>
    <3>1. AtMain' = "segv" /\ Stacks' = Stacks
      BY <2>2, StacksKept DEF AtMain, Counting, Control
    <3> QED
      BY <2>0, <2>2, <3>1, MemoryKept
  <2>3. ASSUME a + Reserve - 1 <= MaxHeap, malloc_touch(a, Reserve),
               Goto(Main, IF pc[Main] = "reserve" THEN "free" ELSE "free_again")
        PROVE  Memory'
    <3>1. AtMain' \in {"free", "free_again"} /\ Stacks' = Stacks
      BY <2>3, StacksKept DEF AtMain, Counting, Control
    <3>2. /\ top' \in 0..MaxHeap /\ top' >= Reserve
          /\ used' \subseteq 1..top' /\ resident' \subseteq Mapped' /\ Mapped' \subseteq resident'
          /\ ~faulted'
      BY <2>0, <2>3, <3>1, MallocLocked
    <3> QED
      BY <2>0, <3>1, <3>2 DEF Memory
  <2> QED
    BY <2>1, <2>2, <2>3
<1>4. CASE reserve_free
  <2>1. locked /\ keep /\ UNCHANGED <<locked, keep, faulted>> /\ top >= Reserve
    BY <1>4 DEF reserve_free, Memory, AtMain, Counting
  <2>2. used' \subseteq used /\ UNCHANGED <<top, resident>>
    BY <1>4, <2>1 DEF reserve_free, free
  <2>3. AtMain' \in {"reserve_again", "true"} /\ Stacks' = Stacks
    <3>1. PICK next \in {"reserve_again", "true"} : CallCount(Main, next)
      BY <1>4 DEF reserve_free
    <3> QED
      BY <3>1, StacksKept DEF CallCount, AtMain, Counting, Control
  <2> QED
    BY <2>1, <2>2, <2>3 DEF Memory, Mapped
<1>5. ASSUME NEW t \in Caller, show_new_pagefault_count(t) PROVE Memory'
  <2>1. /\ UNCHANGED <<top, used, resident, locked, keep, faulted>> /\ Counting(t)
        /\ \/ (Goto(t, "print") \/ Goto(t, "store")) /\ UNCHANGED cont
           \/ Goto(t, cont[t]) /\ cont' = [cont EXCEPT ![t] = "none"]
    BY <1>5 DEF show_new_pagefault_count, count_getrusage, count_print, count_store, Counting
  <2>2. Stacks' = Stacks
    BY <2>1, StacksKept DEF Counting, Control, MainNext, ThreadNext
  <2>3. AtMain' = AtMain
    BY <2>1 DEF Control, AtMain, Counting, MainNext, ThreadNext
  <2> QED
    BY <2>1, <2>2, <2>3, MemoryKept
<1>6. CASE app_malloc
  <2>1. /\ locked /\ keep /\ UNCHANGED <<locked, keep, pc, cont>> /\ top >= Reserve
    BY <1>6 DEF app_malloc, Memory, AtMain, Counting
  <2>5. PICK n \in Sizes : \E a \in Places(n) : a + n - 1 <= MaxHeap /\ malloc_touch(a, n)
    BY <1>6 DEF app_malloc
  <2>2. PICK a \in Places(n) : a + n - 1 <= MaxHeap /\ malloc_touch(a, n)
    BY <2>5
  <2>3. Stacks' = Stacks /\ AtMain' = AtMain /\ n \in Nat
    BY <2>1 DEF Stacks, AtMain, Counting
  <2>4. /\ top' \in 0..MaxHeap /\ top' >= top
        /\ used' \subseteq 1..top' /\ resident' \subseteq Mapped' /\ Mapped' \subseteq resident'
        /\ ~faulted'
    BY <2>1, <2>2, <2>3, MallocLocked
  <2> QED
    BY <2>1, <2>3, <2>4 DEF Memory
<1>7. CASE app_free
  <2>1. /\ locked /\ keep /\ UNCHANGED <<locked, keep, pc, cont, faulted>>
    BY <1>7 DEF app_free, Memory, AtMain, Counting
  <2>2. used' \subseteq used /\ UNCHANGED <<top, resident>>
    BY <1>7, <2>1 DEF app_free, free
  <2> QED
    BY <2>1, <2>2 DEF Memory, Mapped, Stacks, AtMain, Counting
<1>8. ASSUME NEW p, swap_out(p) PROVE Memory'
  <2>1. /\ ~locked /\ resident' \subseteq resident
        /\ UNCHANGED <<top, used, locked, keep, faulted, pc, cont>>
    BY <1>8 DEF swap_out
  <2> QED
    BY <2>1 DEF Memory, Mapped, Stacks, AtMain, Counting
<1>9. ASSUME NEW t \in Thread, use_memory(t) PROVE Memory'
  <2>1. /\ UNCHANGED <<top, used, locked, keep, pc, cont>>
        /\ Touch(used \cup {t}, resident)
        /\ used \cup {t} \subseteq Mapped
    BY <1>9 DEF use_memory, Memory, Mapped, Stacks
  <2>2. resident' \subseteq Mapped /\ (locked => Mapped \subseteq resident') /\ ~faulted'
    BY <2>1, TouchMapped
  <2>3. Mapped' = Mapped /\ AtMain' = AtMain
    BY <2>1 DEF Mapped, Stacks, AtMain, Counting
  <2> QED
    BY <2>1, <2>2, <2>3 DEF Memory
<1>10. ASSUME NEW t \in Thread, spawn(t) PROVE Memory'
  <2>1. /\ Goto(t, "setprio") /\ UNCHANGED <<top, used, locked, keep, cont, faulted>>
        /\ resident' = IF locked THEN resident \cup {t} ELSE resident
    BY <1>10 DEF spawn
  <2>2. Stacks' = Stacks \cup {t}
    BY <2>1 DEF Stacks, Control
  <2>3. AtMain' = AtMain
    BY <2>1, ThreadNotMain
  <2> QED
    BY <2>1, <2>2, <2>3 DEF Memory, Mapped
<1>11. ASSUME NEW t \in Thread, setprio(t) PROVE Memory'
  <2>1. /\ UNCHANGED <<top, used, resident, locked, keep, faulted>> /\ pc[t] # "unborn"
        /\ CallCount(t, "stack") \/ (Goto(t, "false") /\ UNCHANGED cont)
    BY <1>11 DEF setprio
  <2>2. Stacks' = Stacks
    BY <2>1, StacksKept DEF CallCount
  <2>3. AtMain' = AtMain
    BY <2>1, ThreadNotMain
  <2> QED
    BY <2>1, <2>2, <2>3, MemoryKept
<1>12. ASSUME NEW t \in Thread, prove_thread_stack_use_is_safe(t) PROVE Memory'
  <2>1. /\ UNCHANGED <<top, used, locked, keep>> /\ pc[t] = "stack"
        /\ Touch({t}, resident) /\ CallCount(t, "timer")
    BY <1>12 DEF prove_thread_stack_use_is_safe
  <2>2. resident' \subseteq Mapped /\ (locked => Mapped \subseteq resident') /\ ~faulted'
    BY <2>1, TouchMapped DEF Mapped, Stacks
  <2>3. Stacks' = Stacks
    BY <2>1, StacksKept DEF CallCount
  <2>4. AtMain' = AtMain
    BY <2>1, ThreadNotMain
  <2> QED
    BY <2>1, <2>2, <2>3, <2>4 DEF Memory, Mapped
<1>13. ASSUME NEW t \in Thread, NEW label \in {"run", "inc", "due"}, pc[t] # "unborn",
              Goto(t, label), UNCHANGED <<pool, resident, cont, faulted>>
       PROVE  Memory'
  BY <1>13, MemoryKept, StacksKept, ThreadNotMain
<1>14. ASSUME NEW t \in Thread, timer_periodic_init(t) PROVE Memory'
  BY <1>13, <1>14 DEF timer_periodic_init
<1>15. CASE timer_inc_period \/ inc_round \/ timer_inc_period_offset
            \/ timer_wait_rest_of_period
  <2>1. pc[Timed] # "unborn" /\ \E label \in {"run", "inc", "due"} : Step(label)
    BY <1>15 DEF timer_inc_period, inc_round, timer_inc_period_offset,
                 timer_wait_rest_of_period
  <2> QED
    BY <2>1, <1>13 DEF Step
<1>16. CASE UNCHANGED memvars
  BY <1>16 DEF memvars, Memory, Mapped, Stacks, AtMain, Counting
<1> QED
  BY <1>1, <1>2, <1>3, <1>4, <1>5, <1>6, <1>7, <1>8, <1>9, <1>10, <1>11, <1>12, <1>14,
     <1>15, <1>16
  DEF Next, MemoryStep, rt_main_init, rt_init_thread, TimerStep, vars,
      timer_calc_sync_offset, Tick

\* A process that has just started satisfies it.
LEMMA MemoryInit == Init => Control /\ Memory
<1> SUFFICES ASSUME Init PROVE Control /\ Memory
  OBVIOUS
<1>1. Control
  BY DEF Init, MemInit, Control, Counting, MainAt, ThreadAt
<1>2. AtMain \in {"rt_main_init", "unborn"}
  BY DEF Init, MemInit, AtMain, Counting
<1>3. top = 0 /\ used = {} /\ resident = {} /\ ~locked /\ ~faulted
  BY DEF Init, MemInit
<1> QED
  BY <1>1, <1>2, <1>3 DEF Memory

\* It holds in every reachable state.
LEMMA MemoryCorrect == Spec => [](Control /\ Memory)
  BY MemoryInit, ControlStep, MemoryStepKeeps, PTL DEF Spec

\* Once rt_main_init has returned true no access to the heap or to a stack
\* faults, whatever the application allocates and releases and whenever its
\* threads start.
THEOREM NeverFaultsHolds == Spec => []NeverFaults
<1>1. Memory => NeverFaults
  BY DEF Memory, NeverFaults
<1> QED
  BY <1>1, MemoryCorrect, PTL

\* The pool that rt_main_init has reserved stays as long as the process.
THEOREM PoolKeptHolds == Spec => []PoolKept
<1>1. Control /\ Memory => PoolKept
  BY DEF Memory, AtMain, Counting, PoolKept
<1> QED
  BY <1>1, MemoryCorrect, PTL

-----------------------------------------------------------------------------
(* The page-fault counter.                                                 *)

\* The counters are numbers.
CounterOK ==
  /\ faults \in Nat /\ last \in Nat /\ reported \in Int
  /\ usage \in [Caller -> Nat]

\* A write to finitely many pages adds a number of faults.
LEMMA TouchCounts ==
  ASSUME CounterOK, NEW P, NEW here, IsFiniteSet(P), Touch(P, here)
  PROVE  faults' \in Nat
<1>1. Cardinality(P \ here) \in Nat
  BY FS_Difference, FS_CardinalityType
<1> QED
  BY <1>1 DEF Touch, CounterOK

\* Every action keeps the counters of page faults in order.
LEMMA CounterStep == Control /\ Memory /\ CounterOK /\ [Next]_vars => CounterOK'
<1> SUFFICES ASSUME Control, Memory, CounterOK, [Next]_vars PROVE CounterOK'
  OBVIOUS
<1> USE DEF counter
<1>1. ASSUME UNCHANGED <<faults, last, usage, reported>> PROVE CounterOK'
  BY <1>1 DEF CounterOK
<1>2. ASSUME NEW P, NEW here, IsFiniteSet(P), Touch(P, here), UNCHANGED <<last, usage, reported>>
      PROVE  CounterOK'
  BY <1>2, TouchCounts DEF CounterOK
<1>3. ASSUME NEW n \in Nat, NEW a \in Places(n), malloc_touch(a, n),
             UNCHANGED <<last, usage, reported>>
      PROVE  CounterOK'
  <2>1. a \in Nat
    BY PlaceOnHeap DEF Memory
  <2>2. IsFiniteSet(Run(a, n))
    BY <2>1, FS_Interval DEF Run
  <2>3. \E here : Touch(Run(a, n), here)
    BY <1>3 DEF malloc_touch
  <2> QED
    BY <1>2, <1>3, <2>2, <2>3
<1>4. CASE reserve_process_memory
  <2>1. UNCHANGED <<last, usage, reported>>
    BY <1>4 DEF reserve_process_memory
  <2>2. UNCHANGED faults \/ \E a \in Places(Reserve) : malloc_touch(a, Reserve)
    BY <1>4 DEF reserve_process_memory
  <2> QED
    BY <1>1, <1>3, <2>1, <2>2
<1>5. CASE app_malloc
  <2>1. UNCHANGED <<last, usage, reported>>
    BY <1>5 DEF app_malloc
  <2>2. \E n \in Sizes : \E a \in Places(n) : malloc_touch(a, n)
    BY <1>5 DEF app_malloc
  <2> QED
    BY <1>3, <2>1, <2>2
<1>6. ASSUME NEW t \in Thread, use_memory(t) PROVE CounterOK'
  <2>1. IsFiniteSet(1..top)
    BY FS_Interval DEF Memory
  <2>2. IsFiniteSet(used \cup {t})
    BY <2>1, FS_Subset, FS_AddElement DEF Memory
  <2> QED
    BY <1>2, <1>6, <2>2 DEF use_memory
<1>7. ASSUME NEW t \in Thread, prove_thread_stack_use_is_safe(t) PROVE CounterOK'
  BY <1>2, <1>7, FS_Singleton DEF prove_thread_stack_use_is_safe
<1>8. ASSUME NEW t \in Caller, count_getrusage(t) PROVE CounterOK'
  BY <1>8 DEF count_getrusage, CounterOK
<1>9. ASSUME NEW t \in Caller, count_print(t) PROVE CounterOK'
  BY <1>9 DEF count_print, CounterOK
<1>10. ASSUME NEW t \in Caller, count_store(t) PROVE CounterOK'
  BY <1>10 DEF count_store, CounterOK
<1>11. CASE initial_count \/ configure_malloc_behavior \/ reserve_free \/ app_free
  BY <1>1, <1>11 DEF initial_count, configure_malloc_behavior, reserve_free, app_free
<1>12. ASSUME NEW p, swap_out(p) PROVE CounterOK'
  BY <1>1, <1>12 DEF swap_out
<1>13. ASSUME NEW t \in Thread, spawn(t) \/ setprio(t) \/ timer_periodic_init(t)
       PROVE  CounterOK'
  BY <1>1, <1>13 DEF spawn, setprio, timer_periodic_init
<1>14. CASE TimerStep \/ Tick \/ UNCHANGED vars
  <2>1. UNCHANGED <<faults, last, usage, reported>>
    BY <1>14 DEF TimerStep, timer_inc_period, inc_round, timer_inc_period_offset,
                 timer_wait_rest_of_period, timer_calc_sync_offset, Tick, Step, vars, memvars
  <2> QED
    BY <1>1, <2>1
<1> QED
  BY <1>4, <1>5, <1>6, <1>7, <1>8, <1>9, <1>10, <1>11, <1>12, <1>13, <1>14
  DEF Next, MemoryStep, rt_main_init, show_new_pagefault_count, rt_init_thread

\* As long as no two calls overlapped one thread counts at a time; between its
\* print and its store what is reported is ahead of the static counters by what
\* it is about to store.
OneCounts ==
  /\ \A t, u \in Caller : Counting(t) /\ Counting(u) => t = u
  /\ \A t \in Caller : pc[t] = "store" => reported = usage[t]
  /\ (\A t \in Caller : pc[t] # "store") => reported = last

Counted == ~overlap => OneCounts

\* Steps of threads that do not count, to where they still do not.
LEMMA CountedAside ==
  ASSUME Control, OneCounts, NEW t \in Caller, NEW label, Goto(t, label), ~Counting(t),
         label \notin {"getrusage", "print", "store"}, UNCHANGED counter
  PROVE  OneCounts'
  BY DEF Control, OneCounts, Counting, counter

\* A call when nobody else is in one.
LEMMA CountedCall ==
  ASSUME Control, OneCounts, NEW t \in Caller, NEW next, CallCount(t, next), ~overlap',
         UNCHANGED <<last, usage, reported>>
  PROVE  OneCounts'
<1>1. \A u \in Caller : ~Counting(u)
  BY DEF CallCount
<1>2. pc' = [pc EXCEPT ![t] = "getrusage"]
  BY DEF CallCount
<1> QED
  BY <1>1, <1>2 DEF Control, OneCounts, Counting

\* Every action keeps what is printed in step with the statics.
LEMMA CountedStep == Control /\ CounterOK /\ Counted /\ [Next]_vars => Counted'
<1>0. [Next]_vars /\ ~overlap' => ~overlap
  <2>1. ASSUME NEW t \in Caller, NEW next, CallCount(t, next), ~overlap' PROVE ~overlap
    BY <2>1 DEF CallCount
  <2> QED
    BY <2>1
    DEF Next, MemoryStep, rt_main_init, initial_count, configure_malloc_behavior,
        reserve_process_memory, reserve_free, show_new_pagefault_count, count_getrusage,
        count_print, count_store, app_malloc, app_free, swap_out, use_memory, spawn,
        rt_init_thread, setprio, prove_thread_stack_use_is_safe, timer_periodic_init,
        TimerStep, timer_inc_period, inc_round, timer_inc_period_offset,
        timer_wait_rest_of_period, timer_calc_sync_offset, Tick, Step, vars, memvars, counter
<1> SUFFICES ASSUME Control, CounterOK, OneCounts, [Next]_vars, ~overlap' PROVE OneCounts'
  BY <1>0 DEF Counted
<1> USE DEF counter
<1>1. CASE initial_count
  BY <1>1, CountedCall DEF initial_count
<1>2. CASE configure_malloc_behavior
  <2>1. CASE CallCount(Main, "reserve")
    BY <1>2, <2>1, CountedCall DEF configure_malloc_behavior
  <2>2. CASE Goto(Main, "false") /\ UNCHANGED overlap
    BY <1>2, <2>2, CountedAside DEF configure_malloc_behavior, Counting
  <2> QED
    BY <1>2, <2>1, <2>2 DEF configure_malloc_behavior
<1>3. CASE reserve_process_memory
  <2>1. /\ UNCHANGED counter /\ ~Counting(Main)
        /\ \E label \in {"free", "free_again", "segv"} : Goto(Main, label)
    BY <1>3 DEF reserve_process_memory, Counting
  <2> QED
    BY <2>1, CountedAside
<1>4. CASE reserve_free
  <2>1. /\ UNCHANGED <<last, usage, reported>>
        /\ \E next : CallCount(Main, next)
    BY <1>4 DEF reserve_free
  <2> QED
    BY <2>1, CountedCall
<1>5. ASSUME NEW t \in Caller, count_getrusage(t) PROVE OneCounts'
  <2>1. /\ Goto(t, "print") /\ pc[t] = "getrusage" /\ UNCHANGED <<last, reported>>
        /\ \A u \in Caller \ {t} : usage'[u] = usage[u]
    BY <1>5 DEF count_getrusage, CounterOK
  <2> QED
    BY <2>1 DEF OneCounts, Counting, Control
<1>6. ASSUME NEW t \in Caller, count_print(t) PROVE OneCounts'
  <2>1. /\ Goto(t, "store") /\ pc[t] = "print" /\ UNCHANGED <<last, usage>>
        /\ reported' = reported + (usage[t] - last)
    BY <1>6 DEF count_print
  <2>2. reported = last
    BY <2>1 DEF OneCounts, Counting
  <2>3. reported' = usage[t]
    BY <2>1, <2>2 DEF CounterOK
  <2> QED
    BY <2>1, <2>3 DEF OneCounts, Counting, Control
<1>7. ASSUME NEW t \in Caller, count_store(t) PROVE OneCounts'
  <2>1. /\ Goto(t, cont[t]) /\ pc[t] = "store" /\ UNCHANGED reported /\ last' = usage[t]
    BY <1>7 DEF count_store
  <2>2. cont[t] \notin {"getrusage", "print", "store"}
    BY <2>1 DEF Control, Counting, MainNext, ThreadNext
  <2> QED
    BY <2>1, <2>2 DEF OneCounts, Counting, Control
<1>8. ASSUME NEW t \in Thread, setprio(t) PROVE OneCounts'
  <2>1. CASE CallCount(t, "stack")
    BY <1>8, <2>1, CountedCall DEF setprio
  <2>2. CASE Goto(t, "false") /\ UNCHANGED overlap
    BY <1>8, <2>2, CountedAside DEF setprio, Counting
  <2> QED
    BY <1>8, <2>1, <2>2 DEF setprio
<1>9. ASSUME NEW t \in Thread, prove_thread_stack_use_is_safe(t) PROVE OneCounts'
  BY <1>9, CountedCall DEF prove_thread_stack_use_is_safe
<1>10. ASSUME NEW t \in Thread, spawn(t) \/ timer_periodic_init(t) PROVE OneCounts'
  BY <1>10, CountedAside DEF spawn, timer_periodic_init, Counting
<1>11. CASE timer_inc_period \/ inc_round \/ timer_inc_period_offset
            \/ timer_wait_rest_of_period
  <2>1. ~Counting(Timed) /\ \E label \in {"run", "inc", "due"} : Step(label)
    BY <1>11 DEF timer_inc_period, inc_round, timer_inc_period_offset,
                 timer_wait_rest_of_period, Counting
  <2> QED
    BY <2>1, CountedAside DEF Step
<1>12. CASE UNCHANGED <<pc, counter>>
  BY <1>12 DEF OneCounts, Counting
<1> QED
  BY <1>1, <1>2, <1>3, <1>4, <1>5, <1>6, <1>7, <1>8, <1>9, <1>10, <1>11, <1>12
  DEF Next, MemoryStep, rt_main_init, show_new_pagefault_count, rt_init_thread, TimerStep,
      vars, memvars, app_malloc, app_free, swap_out, use_memory, timer_calc_sync_offset, Tick

\* Nothing is counted and nothing printed at the start.
LEMMA CountedInit == Init => CounterOK /\ Counted
  BY DEF Init, MemInit, CounterOK, Counted, OneCounts, Counting

\* As long as no two calls of show_new_pagefault_count overlap each page fault
\* is printed once: the sum of what was printed is what the statics hold.
THEOREM FaultsReportedOnceHolds == Spec => []FaultsReportedOnce
<1>1. Counted => FaultsReportedOnce
  BY DEF Counted, OneCounts, FaultsReportedOnce
<1> QED
  BY <1>1, MemoryInit, CountedInit, ControlStep, MemoryStepKeeps, CounterStep, CountedStep,
     PTL DEF Spec

-----------------------------------------------------------------------------
(* The periodic loop.                                                      *)

\* The types of the timer.
ClockOK ==
  /\ now \in Int /\ at \in Int /\ from \in Int /\ grid \in Int
  /\ missed \in Int /\ missed >= -1
  /\ next_period \in Timespec /\ period_ns \in Periods \cup {0}
  /\ integral \in -MaxIntegral..MaxIntegral /\ offset \in Int

\* The loop runs only with a period_info, and nothing was corrected or refused
\* before it runs.
NotYet ==
  /\ pc[Timed] \in {"inc", "due"} => prog.timed
  /\ ~Running => err = "0" /\ offset = 0

\* The deadline is the sum of what was added, and normalised but for a full second
\* that an increment with an offset may leave, unless it was moved back.
Deadline ==
  Running => /\ period_ns \in Periods /\ Nanos(next_period) = grid
             /\ \/ backward
                \/ /\ next_period.tv_sec >= 0 /\ next_period.tv_nsec \in 0..NS
                   /\ next_period.tv_nsec = NS => corrected \/ pc[Timed] = "inc"

\* The offset is the result of the last synchronisation, if there was one.
Synchronised ==
  Running => \/ offset = 0
             \/ \E delta \in Int : delta <= Quot(period_ns, 2) /\ offset = SyncOffset(delta, integral)

\* While the loop of timer_inc_period runs it has counted the rounds, and the
\* deadline of the last round was before the clock that it has read.
Rounds ==
  pc[Timed] = "inc" =>
    /\ grid = from + (missed + 1) * period_ns
    /\ missed >= 0 => Double(grid) < Double(at)

TimerInv == ClockOK /\ NotYet /\ Deadline /\ Synchronised /\ Rounds /\ CatchUp /\ SleepRefused

\* One round adds the period to the nanoseconds.
LEMMA AddNanoseconds ==
  ASSUME NEW ts \in Timespec, NEW p \in Int
  PROVE  \E u \in Timespec : /\ [ts EXCEPT !.tv_nsec = @ + p] = u
                             /\ u.tv_sec = ts.tv_sec /\ u.tv_nsec = ts.tv_nsec + p
<1>1. [ts EXCEPT !.tv_nsec = @ + p] \in Timespec
  BY DEF Timespec
<1>2. /\ [ts EXCEPT !.tv_nsec = @ + p].tv_sec = ts.tv_sec
      /\ [ts EXCEPT !.tv_nsec = @ + p].tv_nsec = ts.tv_nsec + p
  BY DEF Timespec
<1> QED
  BY <1>1, <1>2, Zenon

\* A step that leaves the timer alone and does not move its thread into the loop
\* or out of it.
LEMMA TimerAside ==
  ASSUME TimerInv, UNCHANGED <<timevars, prog>>,
         \/ pc'[Timed] = pc[Timed]
         \/ {pc[Timed], pc'[Timed]} \cap {"run", "inc", "due"} = {}
  PROVE  TimerInv'
<1>1. Running' <=> Running
  BY DEF Running
<1>2. ClockOK' /\ NotYet'
  BY <1>1 DEF TimerInv, ClockOK, NotYet, timevars
<1>3. Deadline' /\ Synchronised'
  BY <1>1 DEF TimerInv, Deadline, Synchronised, Running, timevars
<1>4. Rounds' /\ CatchUp' /\ SleepRefused'
  BY DEF TimerInv, Rounds, CatchUp, SleepRefused, timevars
<1> QED
  BY <1>2, <1>3, <1>4 DEF TimerInv

\* The memory steps are such.
LEMMA TimerMemory ==
  ASSUME Control, TimerInv, UNCHANGED timevars,
         MemoryStep \/ \E t \in Thread : setprio(t) \/ prove_thread_stack_use_is_safe(t)
  PROVE  TimerInv'
<1> DEFINE Loop == {"run", "inc", "due"}
<1>0. UNCHANGED prog
  BY DEF MemoryStep, rt_main_init, initial_count, configure_malloc_behavior,
         reserve_process_memory, reserve_free, show_new_pagefault_count, count_getrusage,
         count_print, count_store, app_malloc, app_free, swap_out, use_memory, spawn,
         setprio, prove_thread_stack_use_is_safe, pool
<1>1. ASSUME NEW label, Goto(Main, label) PROVE pc'[Timed] = pc[Timed]
  BY <1>1 DEF Control
<1>2. ASSUME NEW t \in Caller, NEW label, Goto(t, label), pc[t] \notin Loop, label \notin Loop
      PROVE  pc'[Timed] = pc[Timed] \/ {pc[Timed], pc'[Timed]} \cap Loop = {}
  BY <1>2 DEF Control
<1>3. CASE rt_main_init
  <2>1. \E label : Goto(Main, label)
    BY <1>3 DEF rt_main_init, initial_count, configure_malloc_behavior,
                reserve_process_memory, reserve_free, CallCount
  <2> QED
    BY <1>0, <1>1, <2>1, TimerAside
<1>4. ASSUME NEW t \in Caller, show_new_pagefault_count(t) PROVE TimerInv'
  <2>1. /\ pc[t] \notin Loop
        /\ \E label \in {"print", "store", cont[t]} : Goto(t, label)
    BY <1>4 DEF show_new_pagefault_count, count_getrusage, count_print, count_store
  <2>2. Counting(t)
    BY <1>4 DEF show_new_pagefault_count, count_getrusage, count_print, count_store, Counting
  <2>3. cont[t] \notin Loop
    BY <2>2 DEF Control, MainNext, ThreadNext
  <2> QED
    BY <1>0, <1>2, <2>1, <2>3, TimerAside
<1>5. ASSUME NEW t \in Thread, spawn(t) \/ setprio(t) \/ prove_thread_stack_use_is_safe(t)
      PROVE  TimerInv'
  <2>1. /\ pc[t] \notin Loop
        /\ \E label \in {"setprio", "getrusage", "false"} : Goto(t, label)
    BY <1>5 DEF spawn, setprio, prove_thread_stack_use_is_safe, CallCount
  <2> QED
    BY <1>0, <1>2, <2>1, TimerAside
<1>6. CASE UNCHANGED pc
  BY <1>0, <1>6, TimerAside
<1> QED
  BY <1>3, <1>4, <1>5, <1>6 DEF MemoryStep, app_malloc, app_free, swap_out, use_memory

\* The start of the loop.
LEMMA TimerStart ==
  ASSUME Control, TimerInv, NEW t \in Thread, timer_periodic_init(t)
  PROVE  TimerInv'
<1>1. pc[t] = "timer" /\ Goto(t, "run") /\ UNCHANGED <<prog, integral, offset, at, missed, err,
        from, corrected, backward>>
  BY DEF timer_periodic_init, pool
<1>2. CASE t = Timed /\ prog.timed
  <2>1. /\ period_ns' \in Periods /\ now' \in 0..NS /\ grid' = now'
        /\ next_period' = Clock(now')
    BY <1>2 DEF timer_periodic_init
  <2>2. ~Running /\ Running' /\ pc'[Timed] = "run"
    BY <1>1, <1>2 DEF Running, Control
  <2>3. err = "0" /\ offset = 0
    BY <2>2 DEF TimerInv, NotYet
  <2>4. now' \in Int /\ now' >= 0
    BY <2>1, TimerAssumption
  <2>5. /\ next_period' \in Timespec /\ Nanos(next_period') = now'
        /\ next_period'.tv_nsec \in 0..(NS - 1) /\ next_period'.tv_sec >= 0
    BY <2>1, <2>4, ClockExact
  <2>6. ClockOK'
    BY <1>1, <2>1, <2>4, <2>5 DEF TimerInv, ClockOK
  <2>7. NotYet' /\ Synchronised' /\ Rounds' /\ CatchUp' /\ SleepRefused'
    BY <1>1, <2>2, <2>3 DEF NotYet, Synchronised, Rounds, CatchUp, SleepRefused
  <2>8. Deadline'
    BY <2>1, <2>2, <2>5, TimerAssumption DEF Deadline, Nanos
  <2> QED
    BY <2>6, <2>7, <2>8 DEF TimerInv
<1>3. CASE t = Timed /\ ~prog.timed
  <2>1. UNCHANGED timevars /\ ~Running /\ ~Running' /\ pc'[Timed] = "run"
    BY <1>1, <1>3 DEF timer_periodic_init, Running, timevars, Control
  <2>2. ClockOK' /\ NotYet'
    BY <2>1 DEF TimerInv, ClockOK, NotYet, timevars
  <2>3. Deadline' /\ Synchronised' /\ Rounds' /\ CatchUp'
    BY <2>1 DEF Deadline, Synchronised, Rounds, CatchUp
  <2>4. SleepRefused'
    BY <2>1 DEF TimerInv, NotYet, SleepRefused, timevars
  <2> QED
    BY <2>2, <2>3, <2>4 DEF TimerInv
<1>4. CASE t # Timed
  <2>1. UNCHANGED timevars /\ pc'[Timed] = pc[Timed]
    BY <1>1, <1>4 DEF timer_periodic_init, timevars, Control
  <2> QED
    BY <1>1, <2>1, TimerAside
<1> QED
  BY <1>2, <1>3, <1>4

\* A step of the loop stays in the loop.
LEMMA StepStays ==
  ASSUME Control, NEW label \in {"run", "inc", "due"}, Step(label)
  PROVE  pc'[Timed] = label /\ UNCHANGED prog /\ (Running' <=> prog.timed)
  BY DEF Control, Step, pool, Running

\* The clock moves on.
LEMMA TimerTick ==
  ASSUME TimerInv, Tick
  PROVE  TimerInv'
<1>1. /\ now' = now + 1
      /\ UNCHANGED <<pc, prog, next_period, period_ns, integral, offset, at, missed,
                     err, from, grid, corrected, backward>>
  BY DEF Tick, memvars, pool
<1>2. Running' <=> Running
  BY <1>1 DEF Running
<1>3. ClockOK' /\ NotYet'
  BY <1>1, <1>2 DEF TimerInv, ClockOK, NotYet
<1>4. Deadline' /\ Synchronised'
  BY <1>1, <1>2 DEF TimerInv, Deadline, Synchronised
<1>5. Rounds' /\ CatchUp' /\ SleepRefused'
  BY <1>1 DEF TimerInv, Rounds, CatchUp, SleepRefused
<1> QED
  BY <1>3, <1>4, <1>5 DEF TimerInv

\* A synchronisation gives an offset with a phase error of half a cycle at most.
LEMMA TimerSync ==
  ASSUME TimerInv, timer_calc_sync_offset
  PROVE  TimerInv'
<1>1. /\ Running /\ pc[Timed] = "run"
      /\ UNCHANGED <<pc, prog, now, next_period, period_ns, at, missed, err, from, grid,
                     corrected, backward>>
  BY DEF timer_calc_sync_offset, memvars, pool
<1>2. PICK reftime \in RefTimes :
        /\ integral' = Integrated(integral, Delta(reftime, period_ns))
        /\ integral' \in -MaxIntegral..MaxIntegral
        /\ offset' = SyncOffset(Delta(reftime, period_ns), integral')
  BY DEF timer_calc_sync_offset
<1>3. period_ns \in Nat \ {0} /\ reftime \in Int
  BY <1>1 DEF TimerInv, Deadline
<1>4. /\ Delta(reftime, period_ns) \in Int
      /\ Delta(reftime, period_ns) <= Quot(period_ns, 2)
  BY <1>3, DeltaRange
<1>5. offset' \in Int
  <2>1. Quot(Delta(reftime, period_ns), PDiv) \in Int /\ Quot(integral', IDiv) \in Int
    BY <1>2, <1>4, QuotType, TimerAssumption
  <2> QED
    BY <1>2, <2>1 DEF SyncOffset
<1>6. Running'
  BY <1>1 DEF Running
<1>7. ClockOK' /\ NotYet'
  BY <1>1, <1>2, <1>5, <1>6 DEF TimerInv, ClockOK, NotYet
<1>8. Synchronised'
  BY <1>1, <1>2, <1>4 DEF Synchronised
<1>9. Deadline' /\ Rounds' /\ CatchUp' /\ SleepRefused'
  BY <1>1 DEF TimerInv, Deadline, Rounds, CatchUp, SleepRefused
<1> QED
  BY <1>7, <1>8, <1>9 DEF TimerInv

\* timer_inc_period is entered.
LEMMA TimerEnter ==
  ASSUME Control, TimerInv, timer_inc_period
  PROVE  TimerInv'
<1>1. /\ Running /\ at' = now /\ missed' = -1 /\ from' = grid /\ corrected' = FALSE
      /\ UNCHANGED <<now, next_period, period_ns, integral, offset, err, grid, backward>>
  BY DEF timer_inc_period
<1>2. pc'[Timed] = "inc" /\ UNCHANGED prog /\ Running' /\ prog.timed
  BY <1>1, StepStays DEF timer_inc_period, Running
<1>3. ClockOK' /\ NotYet'
  BY <1>1, <1>2 DEF TimerInv, ClockOK, NotYet
<1>4. Deadline' /\ Synchronised'
  BY <1>1, <1>2 DEF TimerInv, Deadline, Synchronised
<1>5. Rounds'
  <2>1. period_ns \in Int /\ grid \in Int
    BY DEF TimerInv, ClockOK
  <2>2. grid = grid + (-1 + 1) * period_ns
    BY <2>1
  <2> QED
    BY <1>1, <2>2 DEF Rounds
<1>6. CatchUp' /\ SleepRefused'
  BY <1>2 DEF CatchUp, SleepRefused
<1> QED
  BY <1>3, <1>4, <1>5, <1>6 DEF TimerInv

\* One round of its loop.
LEMMA TimerRound ==
  ASSUME Control, TimerInv, inc_round
  PROVE  TimerInv'
<1>1. /\ pc[Timed] = "inc" /\ missed' = missed + 1 /\ grid' = grid + period_ns
      /\ UNCHANGED <<now, period_ns, integral, offset, at, err, from, corrected, backward>>
  BY Zenon DEF inc_round
<1>2. period_ns \in Nat \ {0} /\ Running /\ period_ns \in Periods
  BY <1>1 DEF TimerInv, NotYet, Deadline, Running
<1>3. PICK u \in Timespec : /\ next_period' = Carry(u)
                            /\ u.tv_sec = next_period.tv_sec
                            /\ u.tv_nsec = next_period.tv_nsec + period_ns
  <2>1. next_period' = Carry([next_period EXCEPT !.tv_nsec = @ + period_ns])
    BY Zenon DEF inc_round
  <2>2. next_period \in Timespec /\ period_ns \in Int
    BY <1>2 DEF TimerInv, ClockOK
  <2>3. PICK u \in Timespec : /\ [next_period EXCEPT !.tv_nsec = @ + period_ns] = u
                              /\ u.tv_sec = next_period.tv_sec
                              /\ u.tv_nsec = next_period.tv_nsec + period_ns
    BY <2>2, AddNanoseconds, Zenon
  <2> QED
    BY <2>1, <2>3, Zenon
<1>4. PICK label \in {"inc", "due"} :
        /\ Step(label)
        /\ label = "inc" <=> timer_to_s(next_period') < timer_to_s(Clock(at))
  BY Zenon DEF inc_round
<1>5. pc'[Timed] = label /\ UNCHANGED prog /\ Running' /\ prog.timed
  BY <1>2, <1>4, StepStays DEF Running
<1>6. next_period \in Timespec /\ Nanos(next_period) = grid /\ grid \in Int /\ at \in Int
  BY <1>2 DEF TimerInv, ClockOK, Deadline
<1>7. next_period' \in Timespec /\ Nanos(next_period') = grid'
  <2>1. Nanos(u) = grid + period_ns
    BY <1>2, <1>3, <1>6, TimespecFields, TimerAssumption DEF Nanos
  <2> QED
    BY <1>1, <1>3, <2>1, CarryExact
<1>8. ClockOK' /\ NotYet'
  BY <1>1, <1>2, <1>5, <1>7 DEF TimerInv, ClockOK, NotYet
<1>9. Synchronised'
  BY <1>1, <1>2 DEF TimerInv, Synchronised
<1>10. Deadline'
  <2>1. CASE backward
    BY <1>1, <1>2, <1>7, <2>1 DEF Deadline
  <2>2. CASE ~backward
    <3>1. next_period.tv_sec >= 0 /\ next_period.tv_nsec >= 0
      BY <1>2, <2>2 DEF TimerInv, Deadline
    <3>2. u.tv_nsec >= 0 /\ u.tv_sec \in Int
      BY <1>2, <1>3, <1>6, <3>1, TimespecFields
    <3>3. next_period'.tv_nsec \in 0..(NS - 1) /\ next_period'.tv_sec >= u.tv_sec
      BY <1>3, <3>2, CarryExact
    <3>4. next_period'.tv_sec >= 0
      BY <1>3, <1>7, <3>1, <3>2, <3>3, TimespecFields
    <3> QED
      BY <1>1, <1>2, <1>7, <3>3, <3>4, TimerAssumption DEF Deadline
  <2> QED
    BY <2>1, <2>2
<1>11. label = "inc" <=> Double(grid') < Double(at')
  BY <1>1, <1>4, <1>6, <1>7, ClockExact DEF timer_to_s
<1>12. grid' = from' + (missed' + 1) * period_ns' /\ missed' \in Int /\ grid' \in Int
  <2>1. grid = from + (missed + 1) * period_ns /\ missed \in Int /\ from \in Int
    BY <1>1 DEF TimerInv, Rounds, ClockOK
  <2>2. (missed + 1 + 1) * period_ns = (missed + 1) * period_ns + period_ns
    BY <1>2, <2>1
  <2> QED
    BY <1>1, <1>2, <1>6, <2>1, <2>2
<1>13. Rounds'
  BY <1>5, <1>11, <1>12 DEF Rounds
<1>14. CatchUp'
  <2> SUFFICES ASSUME label = "due"
               PROVE  grid' > at' - Ulp /\ (missed' > 0 => grid' - period_ns' < at')
    BY <1>5, <1>12 DEF CatchUp
  <2>1. grid' > at' - Ulp
    BY <1>1, <1>6, <1>11, <1>12, DoubleOrder
  <2>2. missed >= 0 => grid < at
    BY <1>1, <1>6, DoubleOrder DEF TimerInv, Rounds
  <2>3. missed' > 0 => missed >= 0
    BY <1>1 DEF TimerInv, ClockOK
  <2> QED
    BY <1>1, <1>2, <1>6, <2>1, <2>2, <2>3
<1>15. SleepRefused'
  BY <1>5 DEF SleepRefused
<1> QED
  BY <1>8, <1>9, <1>10, <1>13, <1>14, <1>15 DEF TimerInv

\* timer_inc_period with an offset.
LEMMA TimerOffset ==
  ASSUME Control, TimerInv, timer_inc_period_offset
  PROVE  TimerInv'
<1>1. /\ Running /\ next_period' = timer_add(next_period, period_ns + offset)
      /\ grid' = grid + period_ns + offset /\ corrected' = TRUE
      /\ UNCHANGED <<now, period_ns, integral, offset, at, err, from>>
  BY DEF timer_inc_period_offset
<1>2. (backward => backward') /\ (~backward' => ~(period_ns + offset < 0))
  BY DEF timer_inc_period_offset
<1>3. pc'[Timed] = "due" /\ UNCHANGED prog /\ Running' /\ prog.timed
  BY <1>1, StepStays DEF timer_inc_period_offset, Running
<1>4. /\ period_ns \in Nat \ {0} /\ period_ns \in Periods /\ offset \in Int
      /\ next_period \in Timespec /\ grid \in Int /\ Nanos(next_period) = grid
  BY <1>1 DEF TimerInv, ClockOK, Deadline
<1>5. /\ next_period' \in Timespec /\ Nanos(next_period') = grid + (period_ns + offset)
      /\ period_ns + offset >= 0 /\ next_period.tv_nsec \in 0..NS =>
           next_period'.tv_nsec \in 0..NS /\ next_period'.tv_sec >= next_period.tv_sec
  <2>1. period_ns + offset \in Int
    BY <1>4
  <2> QED
    BY <1>1, <1>4, <2>1, TimerAddExact
<1>6. missed' \in Int /\ missed' >= 0
  <2> DEFINE d == timer_difference_s(next_period, next_period')
  <2>1. d \in Int
    BY <1>4, <1>5, CompareExact, TimespecFields DEF timer_difference_s
  <2>2. missed' \in IF d > 0 THEN {d \div period_ns, (d - 1) \div period_ns} ELSE {0}
    BY DEF timer_inc_period_offset
  <2>3. 0 \div period_ns = 0
    BY <1>4, DivUnique
  <2>4. d > 0 => d \div period_ns >= 0 /\ (d - 1) \div period_ns >= 0
    BY <1>4, <2>1, <2>3, DivMono
  <2> HIDE DEF d
  <2>5. d \div period_ns \in Int /\ (d - 1) \div period_ns \in Int
    <3>1. d - 1 \in Int
      BY <2>1
    <3> QED
      BY <1>4, <2>1, <3>1, DivMod
  <2> QED
    BY <2>2, <2>4, <2>5
<1>7. ClockOK' /\ NotYet'
  BY <1>1, <1>3, <1>4, <1>5, <1>6 DEF TimerInv, ClockOK, NotYet
<1>8. Synchronised'
  BY <1>1 DEF TimerInv, Synchronised
<1>9. Deadline'
  <2>1. CASE backward'
    BY <1>1, <1>4, <1>5, <2>1 DEF Deadline
  <2>2. CASE ~backward'
    <3>1. next_period.tv_sec >= 0 /\ next_period.tv_nsec \in 0..NS /\ period_ns + offset >= 0
      BY <1>1, <1>2, <1>4, <2>2 DEF TimerInv, Deadline
    <3>2. next_period'.tv_sec >= 0
      BY <1>4, <1>5, <3>1, TimespecFields
    <3> QED
      BY <1>1, <1>4, <1>5, <3>1, <3>2 DEF Deadline
  <2> QED
    BY <2>1, <2>2
<1>10. Rounds' /\ CatchUp' /\ SleepRefused'
  BY <1>1, <1>3 DEF Rounds, CatchUp, SleepRefused
<1> QED
  BY <1>7, <1>8, <1>9, <1>10 DEF TimerInv

\* The sleep.
LEMMA TimerWait ==
  ASSUME Control, TimerInv, timer_wait_rest_of_period
  PROVE  TimerInv'
<1>1. /\ pc[Timed] = "due" /\ at' = 0 /\ missed' = 0 /\ from' = 0
      /\ UNCHANGED <<now, next_period, period_ns, integral, offset, grid, corrected, backward>>
      /\ err' = "EINVAL" => Invalid
  BY DEF timer_wait_rest_of_period
<1>2. Running
  BY <1>1 DEF TimerInv, NotYet, Running
<1>3. pc'[Timed] = "run" /\ UNCHANGED prog /\ Running' /\ prog.timed
  BY <1>2, StepStays DEF timer_wait_rest_of_period, Running
<1>4. ClockOK' /\ NotYet'
  BY <1>1, <1>3 DEF TimerInv, ClockOK, NotYet
<1>5. Deadline' /\ Synchronised'
  BY <1>1, <1>2 DEF TimerInv, Deadline, Synchronised
<1>6. SleepRefused'
  <2>1. Invalid => backward \/ (corrected /\ next_period.tv_nsec = NS)
    <3>1. CASE backward
      BY <3>1
    <3>2. CASE ~backward
      <4>1. /\ next_period.tv_sec >= 0 /\ next_period.tv_nsec \in 0..NS
            /\ next_period.tv_nsec = NS => corrected
        BY <1>1, <1>2, <3>2 DEF TimerInv, Deadline
      <4>2. Invalid => next_period.tv_nsec = NS
        <5>1. next_period.tv_sec \in Int
          BY TimespecFields DEF TimerInv, ClockOK
        <5> QED
          BY <4>1, <5>1, TimerAssumption DEF Invalid
      <4> QED
        BY <4>1, <4>2
    <3> QED
      BY <3>1, <3>2
  <2> QED
    BY <1>1, <2>1 DEF SleepRefused
<1>7. Rounds' /\ CatchUp'
  BY <1>3 DEF Rounds, CatchUp
<1> QED
  BY <1>4, <1>5, <1>6, <1>7 DEF TimerInv

\* Every action keeps the invariant of the timer.
LEMMA TimerInvStep == Control /\ TimerInv /\ [Next]_vars => TimerInv'
<1> SUFFICES ASSUME Control, TimerInv, [Next]_vars PROVE TimerInv'
  OBVIOUS
<1>1. CASE UNCHANGED vars
  BY <1>1, TimerAside DEF vars, memvars, pool
<1> QED
  BY <1>1, TimerMemory, TimerStart, TimerSync, TimerEnter, TimerRound, TimerOffset,
     TimerWait, TimerTick
  DEF Next, rt_init_thread, TimerStep

\* The initial states satisfy it.
LEMMA TimerInit == Init => TimerInv
<1> SUFFICES ASSUME Init PROVE TimerInv
  OBVIOUS
<1>1. pc[Timed] \notin {"run", "inc", "due"}
  BY DEF Init, MemInit
<1>2. ClockOK
  BY DEF Init, ClockOK, Timespec
<1>3. NotYet /\ Deadline /\ Synchronised
  BY <1>1 DEF Init, NotYet, Deadline, Synchronised, Running
<1>4. Rounds /\ CatchUp /\ SleepRefused
  BY <1>1 DEF Rounds, CatchUp, SleepRefused
<1> QED
  BY <1>2, <1>3, <1>4 DEF TimerInv

\* All of them together.
IInv == Control /\ Memory /\ CounterOK /\ TimerInv

\* The whole invariant holds in every reachable state.
LEMMA ThreadCorrect == Spec => []IInv
<1>1. Init => IInv
  BY MemoryInit, CountedInit, TimerInit DEF IInv
<1>2. IInv /\ [Next]_vars => IInv'
  BY ControlStep, MemoryStepKeeps, CounterStep, TimerInvStep DEF IInv
<1> QED
  BY <1>1, <1>2, PTL DEF Spec

-----------------------------------------------------------------------------
(* The theorems about the loop.                                            *)

\* The deadline of the loop is exactly the first one plus all that was added,
\* through carries, full seconds and corrections of both signs; as a double it is
\* wrong by at most the spacing of doubles.
THEOREM OnGridHolds == Spec => []OnGrid
<1>1. IInv => OnGrid
  <2> SUFFICES ASSUME IInv, Running
               PROVE  Nanos(next_period) = grid /\ timer_to_ns(next_period) - grid \in -Ulp..Ulp
    BY DEF OnGrid
  <2>1. Nanos(next_period) = grid /\ grid \in Int
    BY DEF IInv, TimerInv, Deadline, ClockOK
  <2> QED
    BY <2>1, DoubleNear DEF timer_to_ns
<1> QED
  BY <1>1, ThreadCorrect, PTL

\* timer_inc_period passes over exactly the deadlines it reports, each of them
\* over when the clock was read, and stops at one that is not, up to the spacing
\* of doubles.
THEOREM CatchUpHolds == Spec => []CatchUp
<1>1. IInv => CatchUp
  BY DEF IInv, TimerInv
<1> QED
  BY <1>1, ThreadCorrect, PTL

\* clock_nanosleep refuses a deadline only after an increment with an offset that
\* ends on a full second, or after the deadline was moved back.
THEOREM SleepRefusedHolds == Spec => []SleepRefused
<1>1. IInv => SleepRefused
  BY DEF IInv, TimerInv
<1> QED
  BY <1>1, ThreadCorrect, PTL

\* Comparing the clock with a normalised deadline shows an overrun exactly when
\* there is one.
THEOREM OverrunSeenHolds == Spec => []OverrunSeen
<1>1. IInv => OverrunSeen
  <2> SUFFICES ASSUME IInv, Running, next_period.tv_nsec \in 0..(NS - 1)
               PROVE  /\ timer_greater_than(Clock(now), next_period) <=> now > grid
                      /\ timer_difference_ns(Clock(now), next_period) = now - grid
    BY DEF OverrunSeen
  <2>1. next_period \in Timespec /\ Nanos(next_period) = grid /\ now \in Int
    BY DEF IInv, TimerInv, Deadline, ClockOK
  <2>2. Clock(now) \in Timespec /\ Nanos(Clock(now)) = now /\ Clock(now).tv_nsec \in 0..(NS - 1)
    BY <2>1, ClockExact
  <2> QED
    BY <2>1, <2>2, CompareExact
<1> QED
  BY <1>1, ThreadCorrect, PTL

\* A correction takes back a whole period only when the static integral has
\* wound up.
THEOREM BackwardOnlyByWindupHolds == Spec => []BackwardOnlyByWindup
<1>1. IInv => BackwardOnlyByWindup
  <2> SUFFICES ASSUME IInv, Running, period_ns + offset <= 0
               PROVE  integral >= IDiv * (period_ns - Quot(Quot(period_ns, 2), PDiv))
    BY DEF BackwardOnlyByWindup
  <2>1. period_ns \in Nat \ {0} /\ integral \in Int
    BY DEF IInv, TimerInv, Deadline, ClockOK
  <2>2. offset # 0
    BY <2>1
  <2>3. PICK delta \in Int : delta <= Quot(period_ns, 2) /\ offset = SyncOffset(delta, integral)
    BY <2>2 DEF IInv, TimerInv, Synchronised
  <2> QED
    BY <2>1, <2>3, WindupOnly
<1> QED
  BY <1>1, ThreadCorrect, PTL

-----------------------------------------------------------------------------
(* Type correctness.                                                       *)

SwitchesOK == locked \in BOOLEAN /\ keep \in BOOLEAN

\* Only configure_malloc_behavior turns the two switches.
LEMMA SwitchesStep == SwitchesOK /\ [Next]_vars => SwitchesOK'
<1> SUFFICES ASSUME SwitchesOK, [Next]_vars PROVE SwitchesOK'
  OBVIOUS
<1>1. CASE configure_malloc_behavior
  BY <1>1 DEF configure_malloc_behavior, SwitchesOK
<1>2. CASE UNCHANGED <<locked, keep>>
  BY <1>2 DEF SwitchesOK
<1>3. configure_malloc_behavior \/ UNCHANGED <<locked, keep>>
  BY DEF Next, MemoryStep, rt_main_init, initial_count, reserve_process_memory, reserve_free,
         show_new_pagefault_count, count_getrusage, count_print, count_store, app_malloc,
         app_free, swap_out, use_memory, spawn, rt_init_thread, setprio,
         prove_thread_stack_use_is_safe, timer_periodic_init, TimerStep, timer_inc_period,
         inc_round, timer_inc_period_offset, timer_wait_rest_of_period,
         timer_calc_sync_offset, Tick, Step, vars, memvars, pool
<1> QED
  BY <1>1, <1>2, <1>3

\* The pool, the counter, the threads and the timer always have their types.
THEOREM TypeCorrect == Spec => []TypeOK
<1>1. Init => SwitchesOK
  BY DEF Init, MemInit, SwitchesOK
<1>2. IInv /\ SwitchesOK => TypeOK
  <2> SUFFICES ASSUME IInv, SwitchesOK PROVE TypeOK
    OBVIOUS
  <2>1. pc \in [Caller -> {"rt_main_init", "configure", "reserve", "free",
                        "reserve_again", "free_again", "true", "false", "segv",
                        "unborn", "setprio", "stack", "timer", "run", "inc",
                        "due", "getrusage", "print", "store"}]
    BY DEF IInv, Control, MainAt, ThreadAt
  <2>2. top \in 0..MaxHeap /\ used \subseteq 1..top /\ resident \subseteq Mapped
    BY DEF IInv, Memory
  <2> QED
    BY <2>1, <2>2 DEF IInv, CounterOK, TimerInv, ClockOK, SwitchesOK, TypeOK
<1> QED
  BY <1>1, <1>2, SwitchesStep, ThreadCorrect, PTL DEF Spec
================================================================================
