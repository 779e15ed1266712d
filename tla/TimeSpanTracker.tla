---------------------------- MODULE TimeSpanTracker ----------------------------
(***************************************************************************)
(* A TimeSpanTracker as a record, and what its calls make of it.  Every    *)
(* call holds mtx_ from its first statement to its last and reads the      *)
(* clock inside, so it is one step at one instant t.  The epoch of the     *)
(* clock, from which the first span is measured, is 0; the clock, which    *)
(* the code takes from std::chrono::high_resolution_clock, is taken to be  *)
(* steady.                                                                 *)
(***************************************************************************)
EXTENDS Integers, Sequences, SequencesExt

CONSTANT Ten  \* ten seconds, the time that the window of a tracker spans

Modes == {"NONE", "TIME_SPAN", "TICK_TOCK"}

Tracker(nominal) ==
  [nominal_time_span_ |-> nominal, cycles_ |-> 0, missed_cycles_ |-> 0,
   mode_ |-> "NONE", buffer_ |-> <<>>, last_tick_ |-> 0]

\* int(10.0/period), the capacity of the buffer: 0 for a period above ten seconds.
Window(k) == Ten \div k.nominal_time_span_

\* push_back into a boost::circular_buffer that overwrites its oldest element.
Push(s, x, n) == IF n = 0 THEN s
                 ELSE IF Len(s) = n THEN Append(Tail(s), x) ELSE Append(s, x)

\* More than 1.2 times the nominal span.
Late(k, ts) == 5 * ts > 6 * k.nominal_time_span_

\* Mutant of Measured: a late cycle is counted once more.
Measured_twice(k, mode, t) ==
  LET ts == t - k.last_tick_ IN
  [k EXCEPT !.mode_ = mode, !.buffer_ = Push(@, ts, Window(k)),
            !.missed_cycles_ = IF Late(k, ts) THEN @ + 2 ELSE @,
            !.cycles_ = @ + 1, !.last_tick_ = t]

\* What time_span and tock have in common.
Measured(k, mode, t) ==
  LET ts == t - k.last_tick_ IN
  [k EXCEPT !.mode_ = mode, !.buffer_ = Push(@, ts, Window(k)),
            !.missed_cycles_ = IF Late(k, ts) THEN @ + 1 ELSE @,
            !.cycles_ = @ + 1, !.last_tick_ = t]

\* A call in the other mode returns false and changes nothing.
time_span(k, t) == IF k.mode_ = "TICK_TOCK" THEN k ELSE Measured(k, "TIME_SPAN", t)

\* Mutants of tick: the last tick is forgotten; it starts a new count.
tick_resets(k, t) ==
  IF k.mode_ = "TIME_SPAN" THEN k ELSE [k EXCEPT !.mode_ = "TICK_TOCK", !.last_tick_ = 0]

tick_clears(k, t) ==
  IF k.mode_ = "TIME_SPAN" THEN k
  ELSE [k EXCEPT !.mode_ = "TICK_TOCK", !.last_tick_ = t, !.missed_cycles_ = 0]

tick(k, t) ==
  IF k.mode_ = "TIME_SPAN" THEN k ELSE [k EXCEPT !.mode_ = "TICK_TOCK", !.last_tick_ = t]

tock(k, t) == IF k.mode_ = "TIME_SPAN" THEN k ELSE Measured(k, "TICK_TOCK", t)

\* mean is kept as a sum and a size; max and min start from 0.
Total(cb) == FoldLeft(LAMBDA x, y : x + y, 0, cb)
mean(cb) == <<Total(cb), Len(cb)>>
max(cb) == Max({0} \cup ToSet(cb))
min(cb) == Min({0} \cup ToSet(cb))

getMean(k) == mean(k.buffer_)
getMax(k) == max(k.buffer_)
getMin(k) == min(k.buffer_)
=============================================================================
