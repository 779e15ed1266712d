----------------------------- MODULE Timer_proofs -----------------------------
(***************************************************************************)
(* Proofs about the arithmetic of timespecs, for every length of a second, *)
(* every spacing of doubles and every integer argument.                    *)
(***************************************************************************)
EXTENDS Timer, TLAPS

-----------------------------------------------------------------------------
(* Division.                                                               *)

\* The defining property of the quotient and the remainder of TLA+.
LEMMA DivModInt ==
  ASSUME NEW a \in Int, NEW b \in Int, b > 0
  PROVE  a = b * (a \div b) + (a % b)
  BY Z3

\* Quotient and remainder of a division by a positive number.
LEMMA DivMod ==
  ASSUME NEW a \in Int, NEW b \in Nat \ {0}
  PROVE  /\ a \div b \in Int /\ a % b \in 0..(b - 1)
         /\ a = b * (a \div b) + (a % b)
<1>1. b \in Int /\ b > 0
  OBVIOUS
<1>2. a \div b \in Int /\ a % b \in 0..(b - 1)
  OBVIOUS
<1> QED
  BY <1>1, <1>2, DivModInt

\* A larger factor gives a larger product.
LEMMA MulMono ==
  ASSUME NEW a \in Int, NEW c \in Int, NEW b \in Nat \ {0}, a < c
  PROVE  b * a + b <= b * c
<1>1. b * (c - a - 1) >= 0
  OBVIOUS
<1> QED
  BY <1>1

\* Only one quotient leaves a remainder below the divisor.
LEMMA DivUnique ==
  ASSUME NEW b \in Nat \ {0}, NEW q \in Int, NEW r \in 0..(b - 1)
  PROVE  (b * q + r) \div b = q
<1> DEFINE a == b * q + r
           d == a \div b
           m == a % b
<1>1. a \in Int
  OBVIOUS
<1>2. d \in Int /\ m \in 0..(b - 1) /\ a = b * d + m
  BY <1>1, DivMod
<1> HIDE DEF d, m
<1>3. ~(d < q)
  BY <1>2, MulMono
<1>4. ~(q < d)
  BY <1>2, MulMono
<1> QED
  BY <1>2, <1>3, <1>4 DEF d

\* Division is monotone.
LEMMA DivMono ==
  ASSUME NEW a \in Int, NEW c \in Int, NEW b \in Nat \ {0}, a <= c
  PROVE  a \div b <= c \div b
<1> DEFINE d == a \div b
           e == c \div b
<1>1. d \in Int /\ e \in Int
  BY DivMod
<1>2. a >= b * d /\ c < b * e + b
  BY DivMod
<1> HIDE DEF d, e
<1>3. ~(e < d)
  BY <1>1, <1>2, MulMono
<1> QED
  BY <1>1, <1>3 DEF d, e

\* A step of one divisor adds one to the quotient.
LEMMA DivStep ==
  ASSUME NEW a \in Int, NEW b \in Nat \ {0}
  PROVE  (a + b) \div b = a \div b + 1
<1> DEFINE q == a \div b
           r == a % b
<1>1. q \in Int /\ r \in 0..(b - 1) /\ a = b * q + r
  BY DivMod
<1> HIDE DEF q, r
<1>2. a + b = b * (q + 1) + r
  BY <1>1
<1>3. (b * (q + 1) + r) \div b = q + 1
  BY <1>1, DivUnique
<1> QED
  BY <1>1, <1>2, <1>3 DEF q

\* The quotient of C is an integer, exact on multiples of the divisor.
LEMMA QuotType ==
  ASSUME NEW a \in Int, NEW b \in Nat \ {0}
  PROVE  Quot(a, b) \in Int /\ Rem(a, b) \in Int
  BY DivMod DEF Quot, Rem

\* The division of C undoes a multiplication.
LEMMA QuotExact ==
  ASSUME NEW k \in Int, NEW b \in Nat \ {0}
  PROVE  Quot(b * k, b) = k
<1>1. \A j \in Int : (b * j) \div b = j
  <2> TAKE j \in Int
  <2>1. (b * j + 0) \div b = j
    BY DivUnique
  <2> QED
    BY <2>1
<1>2. b * k >= 0 <=> k >= 0
  BY MulMono
<1>3. -(b * k) = b * (-k)
  OBVIOUS
<1>4. CASE k >= 0
  BY <1>1, <1>2, <1>4 DEF Quot
<1>5. CASE ~(k >= 0)
  <2>1. Quot(b * k, b) = -((b * (-k)) \div b)
    BY <1>2, <1>3, <1>5 DEF Quot
  <2> QED
    BY <1>1, <2>1
<1> QED
  BY <1>4, <1>5

\* The remainder of C of a number that is not negative is that of TLA+; that of
\* any number is smaller than the divisor.
LEMMA RemRange ==
  ASSUME NEW a \in Int, NEW b \in Nat \ {0}
  PROVE  Rem(a, b) < b /\ Rem(a, b) > -b /\ (a >= 0 => Rem(a, b) >= 0 /\ Quot(a, b) >= 0)
<1>1. CASE a >= 0
  <2>1. 0 \div b <= a \div b /\ 0 \div b = 0
    BY <1>1, DivMono, DivUnique
  <2>2. a \div b >= 0
    BY <2>1, DivMod
  <2> QED
    BY <1>1, <2>2, DivMod DEF Rem, Quot
<1>2. CASE ~(a >= 0)
  <2>1. -a \in Int
    OBVIOUS
  <2>2. -a = b * ((-a) \div b) + ((-a) % b) /\ (-a) % b \in 0..(b - 1) /\ (-a) \div b \in Int
    BY <2>1, DivMod
  <2>3. Rem(a, b) = a + b * ((-a) \div b)
    BY <1>2, <2>2 DEF Rem, Quot
  <2> QED
    BY <1>2, <2>2, <2>3
<1> QED
  BY <1>1, <1>2

\* The quotient of C is monotone.
LEMMA QuotMono ==
  ASSUME NEW a \in Int, NEW c \in Int, NEW b \in Nat \ {0}, a <= c
  PROVE  Quot(a, b) <= Quot(c, b)
<1>1. CASE a >= 0
  BY <1>1, DivMono DEF Quot
<1>2. CASE c < 0
  <2>1. (-c) \div b <= (-a) \div b
    BY DivMono
  <2> QED
    BY <1>2, <2>1, DivMod DEF Quot
<1>3. CASE a < 0 /\ c >= 0
  <2>1. (-a) \div b >= 0 /\ c \div b >= 0
    <3>1. 0 \div b = 0
      BY DivUnique
    <3> QED
      BY <1>3, <3>1, DivMono
  <2> QED
    BY <1>3, <2>1, DivMod DEF Quot
<1> QED
  BY <1>1, <1>2, <1>3

-----------------------------------------------------------------------------
(* Timespecs.                                                              *)

USE TimerAssumption

\* A timespec is made of two integers.
LEMMA TimespecFields ==
  ASSUME NEW ts \in Timespec
  PROVE  ts.tv_sec \in Int /\ ts.tv_nsec \in Int /\ Nanos(ts) \in Int
  BY DEF Timespec, Nanos

\* clock_gettime stores the instant, normalised.
LEMMA ClockExact ==
  ASSUME NEW x \in Int
  PROVE  /\ Clock(x) \in Timespec /\ Nanos(Clock(x)) = x
         /\ Clock(x).tv_nsec \in 0..(NS - 1) /\ (x >= 0 => Clock(x).tv_sec >= 0)
<1>1. /\ x \div NS \in Int /\ x % NS \in 0..(NS - 1)
      /\ x = NS * (x \div NS) + (x % NS)
  BY DivMod
<1>2. x >= 0 => x \div NS >= 0
  <2>1. 0 \div NS = 0
    BY DivUnique
  <2> QED
    BY <2>1, DivMono
<1> QED
  BY <1>1, <1>2 DEF Clock, Timespec, Nanos

\* The inner loop of timer_inc_period does not change the instant, and what is
\* not negative is normalised after it.
LEMMA CarryExact ==
  ASSUME NEW ts \in Timespec
  PROVE  /\ Carry(ts) \in Timespec /\ Nanos(Carry(ts)) = Nanos(ts)
         /\ ts.tv_nsec >= 0 => Carry(ts).tv_nsec \in 0..(NS - 1) /\ Carry(ts).tv_sec >= ts.tv_sec
<1> DEFINE s == ts.tv_sec
           n == ts.tv_nsec
           q == n \div NS
           r == n % NS
<1>1. s \in Int /\ n \in Int
  BY TimespecFields
<1>2. q \in Int /\ r \in 0..(NS - 1) /\ n = NS * q + r
  BY <1>1, DivMod
<1>3. CASE n < NS
  BY <1>1, <1>3 DEF Carry
<1>4. CASE ~(n < NS)
  <2>1. Carry(ts) = [tv_sec |-> s + q, tv_nsec |-> r]
    BY <1>4 DEF Carry
  <2>2. Carry(ts) \in Timespec
    BY <1>1, <1>2, <2>1 DEF Timespec
  <2> HIDE DEF q, r
  <2>3. NS * (s + q) + r = NS * s + n
    BY <1>1, <1>2
  <2>4. q >= 0
    BY <1>1, <1>2, <1>4, MulMono
  <2> QED
    BY <1>1, <1>2, <2>1, <2>2, <2>3, <2>4 DEF Nanos
<1> QED
  BY <1>3, <1>4

\* timer_add adds exactly, whatever the signs and however large the increment.
\* An increment that is not negative leaves a timespec of at most one full second
\* of nanoseconds so.
THEOREM TimerAddExact ==
  ASSUME NEW ts \in Timespec, NEW addtime \in Int
  PROVE  /\ timer_add(ts, addtime) \in Timespec
         /\ Nanos(timer_add(ts, addtime)) = Nanos(ts) + addtime
         /\ addtime >= 0 /\ ts.tv_nsec \in 0..NS =>
              /\ timer_add(ts, addtime).tv_nsec \in 0..NS
              /\ timer_add(ts, addtime).tv_sec >= ts.tv_sec
<1> DEFINE s == ts.tv_sec
           n == ts.tv_nsec
           q == Quot(addtime, NS)
           m == n + Rem(addtime, NS)
           k == Quot(m, NS)
           r == Rem(m, NS)
<1>1. s \in Int /\ n \in Int
  BY TimespecFields
<1>0. q \in Int /\ Rem(addtime, NS) \in Int
  BY QuotType
<1>2. m \in Int /\ addtime - Rem(addtime, NS) = NS * q
  <2>1. Rem(addtime, NS) = addtime - NS * q
    BY DEF Rem
  <2> QED
    BY <1>0, <1>1, <2>1
<1>3. k \in Int /\ r \in Int /\ m - r = NS * k
  BY <1>2, QuotType DEF Rem
<1>4. Quot(addtime - Rem(addtime, NS), NS) = q /\ Quot(m - r, NS) = k
  BY <1>0, <1>2, <1>3, QuotExact
<1>5. timer_add(ts, addtime) = IF m > NS THEN [tv_sec |-> s + q + k, tv_nsec |-> r]
                                         ELSE [tv_sec |-> s + q, tv_nsec |-> m]
  BY <1>4 DEF timer_add
<1>6. timer_add(ts, addtime) \in Timespec
  BY <1>0, <1>1, <1>2, <1>3, <1>5 DEF Timespec
<1>7. NS * (s + q) + m = NS * s + n + addtime
  <2>1. NS * (s + q) = NS * s + NS * q
    BY <1>0, <1>1
  <2> QED
    BY <1>0, <1>1, <1>2, <2>1
<1>8. NS * (s + q + k) + r = NS * s + n + addtime
  <2>1. NS * (s + q + k) = NS * (s + q) + NS * k
    BY <1>0, <1>1, <1>3
  <2> HIDE DEF q, m, k, r
  <2> QED
    BY <1>0, <1>1, <1>2, <1>3, <1>7, <2>1
<1>9. addtime >= 0 => q >= 0 /\ m >= n
  BY <1>1, QuotType, RemRange
<1>10. m >= 0 => k >= 0 /\ r \in 0..NS
  BY <1>2, <1>3, RemRange
<1> HIDE DEF q, m, k, r
<1>11. Nanos(timer_add(ts, addtime)) = Nanos(ts) + addtime
  BY <1>0, <1>1, <1>2, <1>3, <1>5, <1>7, <1>8 DEF Nanos
<1> QED
  BY <1>0, <1>1, <1>2, <1>3, <1>5, <1>6, <1>9, <1>10, <1>11

\* Comparing seconds first and nanoseconds then compares instants, when both are
\* normalised; the difference is right for all timespecs.
THEOREM CompareExact ==
  ASSUME NEW A \in Timespec, NEW B \in Timespec
  PROVE  /\ timer_difference_ns(A, B) = Nanos(A) - Nanos(B)
         /\ A.tv_nsec \in 0..(NS - 1) /\ B.tv_nsec \in 0..(NS - 1) =>
              (timer_greater_than(A, B) <=> Nanos(A) > Nanos(B))
<1>1. A.tv_sec \in Int /\ A.tv_nsec \in Int /\ B.tv_sec \in Int /\ B.tv_nsec \in Int
  BY TimespecFields
<1>2. A.tv_sec < B.tv_sec => NS * A.tv_sec + NS <= NS * B.tv_sec
  BY <1>1, MulMono
<1>3. B.tv_sec < A.tv_sec => NS * B.tv_sec + NS <= NS * A.tv_sec
  BY <1>1, MulMono
<1>4. timer_difference_ns(A, B) = Nanos(A) - Nanos(B)
  BY <1>1 DEF timer_difference_ns, Nanos
<1>5. ASSUME A.tv_nsec \in 0..(NS - 1), B.tv_nsec \in 0..(NS - 1)
      PROVE  timer_greater_than(A, B) <=> Nanos(A) > Nanos(B)
  <2>1. CASE A.tv_sec < B.tv_sec
    BY <1>1, <1>2, <1>5, <2>1 DEF timer_greater_than, Nanos
  <2>2. CASE B.tv_sec < A.tv_sec
    BY <1>1, <1>3, <1>5, <2>2 DEF timer_greater_than, Nanos
  <2>3. CASE A.tv_sec = B.tv_sec
    BY <1>1, <1>5, <2>3 DEF timer_greater_than, Nanos
  <2> QED
    BY <1>1, <2>1, <2>2, <2>3
<1> QED
  BY <1>4, <1>5

-----------------------------------------------------------------------------
(* Doubles.                                                                *)

\* A double is near, and the comparison of doubles is wrong by less than Ulp.
LEMMA DoubleNear ==
  ASSUME NEW x \in Int
  PROVE  Double(x) \in Int /\ Double(x) - x \in -Ulp..Ulp
<1> DEFINE h == Ulp \div 2
           q == (x + h) \div Ulp
           r == (x + h) % Ulp
<1>1. h \in 0..Ulp
  OBVIOUS
<1>2. q \in Int /\ r \in 0..(Ulp - 1) /\ x + h = Ulp * q + r
  <2>1. x + h \in Int
    BY <1>1
  <2> QED
    BY <2>1, DivMod
<1>3. Double(x) = Ulp * q
  BY DEF Double
<1> HIDE DEF h, q, r
<1> QED
  BY <1>1, <1>2, <1>3

\* The order of the doubles is that of the numbers, up to half a unit each.
LEMMA DoubleOrder ==
  ASSUME NEW x \in Int, NEW y \in Int
  PROVE  /\ Double(x) < Double(y) => x < y
         /\ ~(Double(x) < Double(y)) => x > y - Ulp
<1> DEFINE h == Ulp \div 2
           D(z) == (z + h) \div Ulp
<1>0. h \in Int
  OBVIOUS
<1>1. D(x) \in Int /\ D(y) \in Int
  BY <1>0, DivMod
<1>2. y <= x => D(y) <= D(x)
  BY <1>0, DivMono
<1>3. x + Ulp <= y => D(x) + 1 <= D(y)
  <2> SUFFICES ASSUME x + Ulp <= y PROVE D(x) + 1 <= D(y)
    OBVIOUS
  <2>0. x + h \in Int
    BY <1>0
  <2>1. ((x + h) + Ulp) \div Ulp = (x + h) \div Ulp + 1
    BY <2>0, DivStep
  <2>2. ((x + h) + Ulp) \div Ulp <= (y + h) \div Ulp
    BY <1>0, DivMono
  <2> QED
    BY <2>1, <2>2
<1>4. Double(x) = Ulp * D(x) /\ Double(y) = Ulp * D(y)
  BY DEF Double
<1> HIDE DEF D
<1>5. D(y) <= D(x) => ~(Double(x) < Double(y))
  BY <1>1, <1>4, MulMono
<1>6. D(x) + 1 <= D(y) => Double(x) < Double(y)
  BY <1>1, <1>4, MulMono
<1> QED
  BY <1>1, <1>2, <1>3, <1>5, <1>6

-----------------------------------------------------------------------------
(* Synchronisation.                                                        *)

\* The phase error never exceeds half a cycle.
LEMMA DeltaRange ==
  ASSUME NEW reftime \in Int, NEW cycletime \in Nat \ {0}
  PROVE  Delta(reftime, cycletime) \in Int /\ Delta(reftime, cycletime) <= Quot(cycletime, 2)
<1> DEFINE d == Rem(reftime - Shift, cycletime)
<1>1. d \in Int /\ d < cycletime
  BY QuotType, RemRange
<1>2. Quot(cycletime, 2) \in Int /\ Quot(cycletime, 2) >= 0
  BY QuotType, RemRange
<1> QED
  BY <1>1, <1>2 DEF Delta

\* An offset that takes away a whole period comes from the integral.
LEMMA WindupOnly ==
  ASSUME NEW period \in Nat \ {0}, NEW integ \in Int, NEW delta \in Int,
         delta <= Quot(period, 2), period + SyncOffset(delta, integ) <= 0
  PROVE  integ >= IDiv * (period - Quot(Quot(period, 2), PDiv))
<1> DEFINE half == Quot(period, 2)
           part == Quot(half, PDiv)
           i == Quot(integ, IDiv)
<1>1. half \in Int /\ part \in Int /\ i \in Int /\ Quot(delta, PDiv) \in Int
  <2>1. half \in Int
    BY QuotType
  <2> QED
    BY <2>1, QuotType
<1>2. Quot(delta, PDiv) <= part
  BY <1>1, QuotMono
<1>3. i >= period - part
  BY <1>1, <1>2 DEF SyncOffset
<1>4. half >= 0 /\ half < period
  BY DEF Quot
<1>5. part <= half
  <2>1. part = half \div PDiv
    BY <1>4 DEF Quot
  <2>2. half = PDiv * part + (half % PDiv) /\ half % PDiv \in 0..(PDiv - 1)
    BY <1>1, <2>1, DivMod
  <2>3. part >= 0
    BY <1>1, <1>4, RemRange
  <2>5. half % PDiv \in Int /\ half % PDiv >= 0
    BY <2>2
  <2> HIDE DEF part, half
  <2>4. PDiv * part >= part
    BY <1>1, <2>3
  <2> QED
    BY <1>1, <2>2, <2>4, <2>5
<1>6. i > 0
  BY <1>1, <1>3, <1>4, <1>5
<1>7. integ >= 0 /\ i = integ \div IDiv
  <2>1. CASE integ >= 0
    BY <2>1 DEF Quot
  <2>2. CASE ~(integ >= 0)
    <3>1. i <= Quot(0, IDiv) /\ Quot(0, IDiv) = 0
      <4>1. Quot(IDiv * 0, IDiv) = 0
        BY QuotExact
      <4> QED
        BY <2>2, <4>1, QuotMono
    <3> QED
      BY <1>1, <1>6, <3>1
  <2> QED
    BY <2>1, <2>2
<1>8. integ >= IDiv * i
  BY <1>7, DivMod
<1> HIDE DEF i, part, half
<1>9. i > period - part => IDiv * (period - part) + IDiv <= IDiv * i
  BY <1>1, MulMono
<1>10. integ >= IDiv * (period - part)
  BY <1>1, <1>3, <1>8, <1>9
<1> QED
  BY <1>10 DEF part, half
=============================================================================
