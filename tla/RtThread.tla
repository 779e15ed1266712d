------------------------------- MODULE RtThread -------------------------------
(***************************************************************************)
(* A process with real-time threads, put together from RtMemory and Timer. *)
(* Every thread calls rt_init_thread; one of them, Timed, passes a         *)
(* period_info and then runs the periodic loop: perhaps a synchronisation, *)
(* timer_inc_period in one of its two forms, timer_wait_rest_of_period.    *)
(* The outer loop of timer_inc_period is one step per round.               *)
(***************************************************************************)
EXTENDS Timer, RtMemory

CONSTANTS
  Timed,        \* the thread that has a period_info
  Periods,      \* the periods it may ask for
  RefTimes,     \* the reference times it is given
  MaxClock,     \* bound on the clock, for model checking
  MaxIntegral,  \* bound on the static integral, for model checking
  MaxBelow      \* bound on how far tv_nsec falls below 0, for model checking

ASSUME ThreadAssumption ==
  /\ Timed \in Thread
  /\ Periods \subseteq Nat \ {0}   \* the assertion in rt_init_thread
  /\ RefTimes \subseteq Int
  /\ MaxClock \in Nat /\ MaxIntegral \in Nat /\ MaxBelow \in Nat

VARIABLES
  now,           \* CLOCK_MONOTONIC
  next_period,   \* pinfo->next_period
  period_ns,     \* pinfo->period_ns
  integral,      \* the static of timer_calc_sync_offset
  offset,        \* its last result
  at,            \* act_time of timer_inc_period
  missed,        \* missed_deadlines, the result of timer_inc_period
  err,           \* the result of timer_wait_rest_of_period
  from,          \* history: the deadline when timer_inc_period was called
  grid,          \* history: the first deadline plus everything added since
  corrected,     \* history: the last increment had an offset
  backward       \* history: some increment was negative

timevars == <<now, next_period, period_ns, integral, offset, at, missed, err,
              from, grid, corrected, backward>>
vars == <<memvars, timevars>>

Init ==
  /\ MemInit
  /\ now = 0
  /\ next_period = [tv_sec |-> 0, tv_nsec |-> 0]
  /\ period_ns = 0 /\ integral = 0 /\ offset = 0
  /\ at = 0 /\ missed = 0 /\ err = "0" /\ from = 0 /\ grid = 0
  /\ corrected = FALSE /\ backward = FALSE

Running == prog.timed /\ pc[Timed] \in {"run", "inc", "due"}
\* The bounds of model checking.  Deadlines that move back and forth lower tv_nsec
\* without end: timer_add takes no second off tv_sec for a negative tv_nsec.
InBounds == grid \in 0..MaxClock /\ next_period.tv_nsec > -MaxBelow

\* The clock runs from the first time it is read.
Tick ==
  /\ Running
  /\ now < MaxClock
  /\ now' = now + 1
  /\ UNCHANGED <<memvars, next_period, period_ns, integral, offset, at, missed,
                 err, from, grid, corrected, backward>>

Step(label) == Goto(Timed, label) /\ UNCHANGED <<pool, resident, faults, counter, cont, faulted>>

\* The end of rt_init_thread: with a period_info, read the clock, which may show
\* anything within a second.
timer_periodic_init(t) ==
  /\ pc[t] = "timer"
  /\ Goto(t, "run")
  /\ IF t = Timed /\ prog.timed
     THEN /\ period_ns' \in Periods
          /\ now' \in 0..NS
          /\ next_period' = Clock(now')
          /\ grid' = now'
     ELSE UNCHANGED <<period_ns, now, next_period, grid>>
  /\ UNCHANGED <<pool, resident, faults, counter, cont, faulted, integral,
                 offset, at, missed, err, from, corrected, backward>>

timer_calc_sync_offset ==
  /\ Running /\ pc[Timed] = "run"
  /\ \E reftime \in RefTimes :
       LET delta == Delta(reftime, period_ns) IN
       /\ integral' = Integrated(integral, delta)
       /\ integral' \in -MaxIntegral..MaxIntegral
       /\ offset' = SyncOffset(delta, integral')
  /\ UNCHANGED <<memvars, now, next_period, period_ns, at, missed, err, from, grid,
                 corrected, backward>>

\* Entry: read the clock.
timer_inc_period ==
  /\ Running /\ pc[Timed] = "run"
  /\ InBounds
  /\ at' = now
  /\ missed' = -1
  /\ from' = grid
  /\ corrected' = FALSE
  /\ Step("inc")
  /\ UNCHANGED <<now, next_period, period_ns, integral, offset, err, grid, backward>>

\* Mutants of inc_round: the loop ends one round too early; it never ends.
inc_round_once ==
  /\ pc[Timed] = "inc"
  /\ missed' = missed + 1
  /\ next_period' = Carry([next_period EXCEPT !.tv_nsec = @ + period_ns])
  /\ grid' = grid + period_ns
  /\ Step("due")
  /\ UNCHANGED <<now, period_ns, integral, offset, at, err, from, corrected, backward>>

inc_round_stuck ==
  /\ pc[Timed] = "inc"
  /\ next_period' = Carry([next_period EXCEPT !.tv_nsec = @ + period_ns])
  /\ IF timer_to_s(next_period') < timer_to_s(Clock(at))
     THEN Step("inc") /\ UNCHANGED <<missed, next_period, grid>>
     ELSE Step("due") /\ missed' = missed + 1 /\ grid' = grid + period_ns
  /\ UNCHANGED <<now, period_ns, integral, offset, at, err, from, corrected, backward>>

\* One round of do ... while (nt < at).
inc_round ==
  /\ pc[Timed] = "inc"
  /\ missed' = missed + 1
  /\ next_period' = Carry([next_period EXCEPT !.tv_nsec = @ + period_ns])
  /\ grid' = grid + period_ns
  /\ Step(IF timer_to_s(next_period') < timer_to_s(Clock(at)) THEN "inc" ELSE "due")
  /\ UNCHANGED <<now, period_ns, integral, offset, at, err, from, corrected, backward>>

\* The form with an offset does not look at the clock.  Its result compares the
\* deadlines the other way round, and d * 1e9 may be truncated to one less.
timer_inc_period_offset ==
  /\ Running /\ pc[Timed] = "run"
  /\ InBounds
  /\ next_period' = timer_add(next_period, period_ns + offset)
  /\ LET d == timer_difference_s(next_period, next_period') IN
     missed' \in IF d > 0 THEN {d \div period_ns, (d - 1) \div period_ns} ELSE {0}
  /\ grid' = grid + period_ns + offset
  /\ corrected' = TRUE
  /\ backward' = (backward \/ period_ns + offset < 0)
  /\ Step("due")
  /\ UNCHANGED <<now, period_ns, integral, offset, at, err, from>>

\* clock_nanosleep refuses what is not normalised, and a signal ends it early.
Invalid == next_period.tv_nsec \notin 0..(NS - 1) \/ next_period.tv_sec < 0

timer_wait_rest_of_period ==
  /\ pc[Timed] = "due"
  /\ \/ Invalid /\ err' = "EINVAL"
     \/ ~Invalid /\ err' = "EINTR"
     \/ ~Invalid /\ now >= Nanos(next_period) /\ err' = "0"
  /\ at' = 0 /\ missed' = 0 /\ from' = 0
  /\ Step("run")
  /\ UNCHANGED <<now, next_period, period_ns, integral, offset, grid, corrected, backward>>

\* rt_init_thread: the priority, the stack and the timer, in this order.
rt_init_thread(t) ==
  \/ (setprio(t) \/ prove_thread_stack_use_is_safe(t)) /\ UNCHANGED timevars
  \/ timer_periodic_init(t)

MemoryStep ==
  \/ rt_main_init \/ app_malloc \/ app_free
  \/ \E p \in resident : swap_out(p)
  \/ \E t \in Caller : show_new_pagefault_count(t)
  \/ \E t \in Thread : spawn(t) \/ use_memory(t)

TimerStep ==
  \/ timer_calc_sync_offset \/ timer_inc_period \/ inc_round
  \/ timer_inc_period_offset \/ timer_wait_rest_of_period

\* Nothing runs in a process that has died of the write to NULL.
Alive == pc[Main] # "segv"

Next ==
  /\ Alive
  /\ \/ MemoryStep /\ UNCHANGED timevars
     \/ \E t \in Thread : rt_init_thread(t)
     \/ TimerStep
     \/ Tick

Spec == Init /\ [][Next]_vars

\* A thread inside timer_inc_period keeps being scheduled.
FairSpec == Spec /\ WF_vars(Alive /\ inc_round)

-----------------------------------------------------------------------------
(* Properties.                                                             *)

\* The types of the pool, of the counter, of the threads and of the timer.
TypeOK ==
  /\ top \in 0..MaxHeap
  /\ used \subseteq 1..top
  /\ resident \subseteq Mapped
  /\ locked \in BOOLEAN /\ keep \in BOOLEAN
  /\ faults \in Nat /\ last \in Nat /\ reported \in Int
  /\ usage \in [Caller -> Nat]
  /\ pc \in [Caller -> {"rt_main_init", "configure", "reserve", "free",
                        "reserve_again", "free_again", "true", "false", "segv",
                        "unborn", "setprio", "stack", "timer", "run", "inc",
                        "due", "getrusage", "print", "store"}]
  /\ next_period \in Timespec
  /\ period_ns \in Periods \cup {0}
  /\ integral \in -MaxIntegral..MaxIntegral
  /\ offset \in Int
  /\ missed >= -1

\* The deadlines never drift: through any mixture of both forms of
\* timer_inc_period, with carries, full seconds and negative increments, the
\* next deadline is the first one plus everything that was added.
OnGrid ==
  Running => /\ Nanos(next_period) = grid
             /\ timer_to_ns(next_period) - grid \in -Ulp..Ulp

\* timer_inc_period catches up with the clock it has read, up to the spacing of
\* doubles, and no further: what it returns is the number of deadlines that
\* were passed over, and the last of them was really over.
CatchUp ==
  pc[Timed] = "due" /\ ~corrected =>
    /\ grid = from + (missed + 1) * period_ns
    /\ grid > at - Ulp
    /\ missed > 0 => grid - period_ns < at

\* The sleep is refused, and the cycle starts early, only after an increment
\* with an offset that ends exactly on a full second, or after the deadline was
\* moved back: the plain increment repairs what timer_add leaves.
SleepRefused ==
  err = "EINVAL" /\ pc[Timed] = "run" =>
    backward \/ (corrected /\ next_period.tv_nsec = NS)

\* A caller that compares the clock with a deadline sees an overrun exactly when
\* there is one, and how large it is, unless the deadline is not normalised.
OverrunSeen ==
  Running /\ next_period.tv_nsec \in 0..(NS - 1) =>
    /\ timer_greater_than(Clock(now), next_period) <=> now > grid
    /\ timer_difference_ns(Clock(now), next_period) = now - grid

\* A correction moves the deadline back, or leaves it, only when the static
\* integral has wound up: the phase error alone never does.
BackwardOnlyByWindup ==
  Running /\ period_ns + offset <= 0 =>
    integral >= IDiv * (period_ns - Quot(Quot(period_ns, 2), PDiv))

\* Once rt_main_init has returned true no access to the memory of the process
\* faults: not to the heap, whatever is allocated and released, and not to the
\* stack of a thread, created before or after.
NeverFaults == ~faulted

\* Once rt_main_init has returned true the pool it has reserved stays: the heap
\* never falls below it, whatever is released.
PoolKept == pc[Main] = "true" => top >= Reserve

\* The counts that threads print add up, each fault printed once, as long as no
\* two calls overlap on the static counters.
FaultsReportedOnce ==
  ~overlap /\ (\A t \in Caller : pc[t] # "store") => reported = last

\* timer_inc_period returns, however far behind the clock the deadline is.
IncReturns == pc[Timed] = "inc" ~> pc[Timed] = "due" \/ ~Alive
=============================================================================
