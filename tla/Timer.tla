--------------------------------- MODULE Timer ---------------------------------
(***************************************************************************)
(* The arithmetic of timespecs in realtime_utilities.cpp.  A timespec need *)
(* not be normalised: timer_add leaves tv_nsec = NS, and values below 0,   *)
(* as they are.  Doubles are modelled by their spacing: two instants that  *)
(* are closer than Ulp may be the same double.                             *)
(***************************************************************************)
EXTENDS Integers

CONSTANTS
  NS,     \* the nanoseconds of a second, 1000000000
  Shift,  \* how much later than the reference the thread wakes, 50000
  PDiv,   \* divisor of the proportional part of a correction, 100
  IDiv,   \* divisor of its integral part, 20
  Ulp     \* distance of two doubles as large as the clock: 1 for 104 days, then 2

ASSUME TimerAssumption ==
  /\ NS \in Nat \ {0}
  /\ Shift \in Nat
  /\ PDiv \in Nat \ {0}
  /\ IDiv \in Nat \ {0}
  /\ Ulp \in Nat \ {0}

Timespec == [tv_sec : Int, tv_nsec : Int]

\* The division of C, which rounds towards zero, and its remainder.
Quot(a, b) == IF a >= 0 THEN a \div b ELSE -((-a) \div b)
Rem(a, b) == a - b * Quot(a, b)

\* The double nearest to x.
Double(x) == Ulp * ((x + Ulp \div 2) \div Ulp)

\* The instant a timespec stands for.
Nanos(ts) == NS * ts.tv_sec + ts.tv_nsec

\* What clock_gettime stores at the instant x.
Clock(x) == [tv_sec |-> x \div NS, tv_nsec |-> x % NS]

\* Both are computed in doubles; seconds are in units of a nanosecond here.
timer_to_ns(ts) == Double(Nanos(ts))
timer_to_s(ts) == Double(Nanos(ts))

\* Two instants of interest are close to each other, so their distance is exact.
timer_difference_ns(A, B) == (A.tv_nsec - B.tv_nsec) + NS * (A.tv_sec - B.tv_sec)
timer_difference_s(A, B) == timer_difference_ns(A, B)

\* Mutant of timer_greater_than: the seconds need not be equal.
timer_greater_than_either(A, B) == A.tv_sec > B.tv_sec \/ A.tv_nsec > B.tv_nsec

timer_greater_than(A, B) ==
  \/ A.tv_sec > B.tv_sec
  \/ A.tv_sec = B.tv_sec /\ A.tv_nsec > B.tv_nsec

\* Mutant of timer_add: what is above a second is dropped.
timer_add_no_carry(ts, addtime) ==
  [tv_sec |-> ts.tv_sec + Quot(addtime, NS),
   tv_nsec |-> Rem(ts.tv_nsec + Rem(addtime, NS), NS)]

timer_add(ts, addtime) ==
  LET nsec == Rem(addtime, NS)
      sum  == [tv_sec  |-> ts.tv_sec + Quot(addtime - nsec, NS),
               tv_nsec |-> ts.tv_nsec + nsec]
      rest == Rem(sum.tv_nsec, NS)
  IN  IF sum.tv_nsec > NS
      THEN [tv_sec |-> sum.tv_sec + Quot(sum.tv_nsec - rest, NS), tv_nsec |-> rest]
      ELSE sum

\* Mutant of Carry: > where the loop has >=.
Carry_above(ts) ==
  IF ts.tv_nsec <= NS THEN ts
  ELSE [tv_sec |-> ts.tv_sec + ts.tv_nsec \div NS, tv_nsec |-> ts.tv_nsec % NS]

\* The inner loop of timer_inc_period: take seconds out of tv_nsec.
Carry(ts) ==
  IF ts.tv_nsec < NS THEN ts
  ELSE [tv_sec |-> ts.tv_sec + ts.tv_nsec \div NS, tv_nsec |-> ts.tv_nsec % NS]

\* Mutant of Delta: the remainder is not folded.
Delta_unfolded(reftime, cycletime) == Rem(reftime - Shift, cycletime)

\* The distance from the reference to the wake-up point, folded into one cycle.
\* A reference below Shift gives a negative remainder, which is not folded.
Delta(reftime, cycletime) ==
  LET delta == Rem(reftime - Shift, cycletime)
  IN  IF delta > Quot(cycletime, 2) THEN delta - cycletime ELSE delta

\* What timer_calc_sync_offset makes of its static integral, and its result.
Integrated(integral, delta) ==
  CASE delta > 0 -> integral + 1
    [] delta < 0 -> integral - 1
    [] OTHER     -> integral

SyncOffset(delta, integral) == -Quot(delta, PDiv) - Quot(integral, IDiv)
=============================================================================
