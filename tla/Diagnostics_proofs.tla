--------------------------- MODULE Diagnostics_proofs ---------------------------
(***************************************************************************)
(* Proofs about DiagnosticsInterface, for any number of messages, workers  *)
(* and trackers.                                                           *)
(***************************************************************************)
EXTENDS Diagnostics, FiniteSetTheorems, SequenceTheorems, WellFoundedInduction, TLAPS

-----------------------------------------------------------------------------
(* Sums and extremes of sequences.                                         *)

\* Induction, for a set in the place of a formula: what has no least exception
\* has none.
LEMMA NatSets ==
  ASSUME NEW S, 0 \in S, \A n \in Nat : n \in S => n + 1 \in S
  PROVE  Nat \subseteq S
<1> DEFINE T == Nat \ S
           R == OpToRel(<, Nat)
<1> SUFFICES ASSUME T # {} PROVE FALSE
  OBVIOUS
<1>1. IsWellFoundedOn(R, Nat)
  BY NatLessThanWellFounded DEF OpToRel
<1>2. T \subseteq Nat
  OBVIOUS
<1> HIDE DEF T, R
<1>3. PICK m \in T : \A y \in T : ~(<<y, m>> \in R)
  BY <1>1, <1>2, WFMin
<1>4. m \in Nat /\ m # 0 /\ m - 1 \in Nat
  BY <1>3 DEF T
<1>5. <<m - 1, m>> \in R
  BY <1>4 DEF R, OpToRel
<1>6. m - 1 \in S
  BY <1>3, <1>4, <1>5 DEF T
<1> QED
  BY <1>3, <1>4, <1>6 DEF T


\* g adds up s over the sets of its first n places, the last place of a set first.
Sums(g, s, n) ==
  g = [t \in SUBSET (1..n) |-> IF t = {} THEN 0 ELSE g[t \ {Max(t)}] + s[Max(t)]]

\* The last place of a window is the largest of the places up to it.
LEMMA LastPlace ==
  ASSUME NEW n \in Nat, NEW t \in SUBSET (1..n), n \in t
  PROVE  Max(t) = n
<1>1. \A y \in t : y \in Int /\ y <= n
  OBVIOUS
<1>2. \A x \in t : (\A y \in t : x >= y) <=> x = n
  BY <1>1
<1> QED
  BY <1>2 DEF Max

\* There is such a function for every n.
LEMMA SumsExist ==
  ASSUME NEW s
  PROVE  \A n \in Nat : \E g : Sums(g, s, n)
<1> DEFINE S == {n \in Nat : \E g : Sums(g, s, n)}
<1>1. 0 \in S
  <2> DEFINE g == [t \in SUBSET (1..0) |-> 0]
  <2>1. \A t \in SUBSET (1..0) : t = {}
    OBVIOUS
  <2>2. Sums(g, s, 0)
    BY <2>1 DEF Sums
  <2> QED
    BY <2>2
<1>2. ASSUME NEW n \in Nat, n \in S PROVE n + 1 \in S
  <2>1. PICK g : Sums(g, s, n)
    BY <1>2
  <2> DEFINE D == SUBSET (1..(n + 1))
             h == [t \in D |-> IF n + 1 \in t THEN g[t \ {n + 1}] + s[n + 1] ELSE g[t]]
  <2>2. ASSUME NEW t \in D
        PROVE  h[t] = IF t = {} THEN 0 ELSE h[t \ {Max(t)}] + s[Max(t)]
    <3>1. CASE n + 1 \in t
      <4>1. Max(t) = n + 1
        BY <3>1, LastPlace
      <4>2. t \ {n + 1} \in D /\ n + 1 \notin t \ {n + 1} /\ t # {}
        BY <3>1
      <4> QED
        BY <3>1, <4>1, <4>2
    <3>2. CASE n + 1 \notin t
      <4>1. t \in SUBSET (1..n)
        BY <3>2
      <4>2. g[t] = IF t = {} THEN 0 ELSE g[t \ {Max(t)}] + s[Max(t)]
        BY <2>1, <4>1 DEF Sums
      <4>3. t \ {Max(t)} \in D /\ n + 1 \notin t \ {Max(t)}
        BY <3>2
      <4> QED
        BY <3>2, <4>2, <4>3
    <3> QED
      BY <3>1, <3>2
  <2>3. Sums(h, s, n + 1)
    BY <2>2 DEF Sums
  <2> QED
    BY <2>3
<1>3. Nat \subseteq S
  <2> HIDE DEF S
  <2> QED
    BY <1>1, <1>2, NatSets
<1> QED
  BY <1>3

\* It is the same where the sequences are the same.
LEMMA SumsAgree ==
  ASSUME NEW n \in Nat, NEW m \in Nat, n <= m, NEW s, NEW r, NEW g, NEW h,
         Sums(g, s, n), Sums(h, r, m), \A i \in 1..n : s[i] = r[i]
  PROVE  g[1..n] = h[1..n]
<1> DEFINE S == {k \in Nat : k <= n => \A t \in SUBSET (1..k) : g[t] = h[t]}
<1>0. \A k \in 0..n : \A t \in SUBSET (1..k) : 
          /\ g[t] = IF t = {} THEN 0 ELSE g[t \ {Max(t)}] + s[Max(t)]
          /\ h[t] = IF t = {} THEN 0 ELSE h[t \ {Max(t)}] + r[Max(t)]
  <2> TAKE k \in 0..n
  <2> TAKE t \in SUBSET (1..k)
  <2>1. t \in SUBSET (1..n) /\ t \in SUBSET (1..m)
    OBVIOUS
  <2> QED
    BY <2>1 DEF Sums
<1>1. 0 \in S
  <2>1. \A t \in SUBSET (1..0) : t = {}
    OBVIOUS
  <2>2. 0 \in 0..n /\ {} \in SUBSET (1..0)
    OBVIOUS
  <2>3. g[{}] = 0 /\ h[{}] = 0
    BY <1>0, <2>2
  <2> QED
    BY <2>1, <2>3
<1>2. ASSUME NEW k \in Nat, k \in S PROVE k + 1 \in S
  <2> SUFFICES ASSUME k + 1 <= n, NEW t \in SUBSET (1..(k + 1)) PROVE g[t] = h[t]
    OBVIOUS
  <2>1. \A u \in SUBSET (1..k) : g[u] = h[u]
    BY <1>2
  <2>2. CASE k + 1 \in t
    <3>1. Max(t) = k + 1 /\ t # {} /\ t \ {k + 1} \in SUBSET (1..k) /\ s[k + 1] = r[k + 1]
      BY <2>2, LastPlace
    <3>2. k + 1 \in 0..n
      OBVIOUS
    <3>3. g[t] = g[t \ {k + 1}] + s[k + 1] /\ h[t] = h[t \ {k + 1}] + r[k + 1]
      BY <1>0, <3>1, <3>2
    <3> QED
      BY <2>1, <3>1, <3>3
  <2>3. CASE k + 1 \notin t
    BY <2>1, <2>3
  <2> QED
    BY <2>2, <2>3
<1>3. Nat \subseteq S
  <2> HIDE DEF S
  <2> QED
    BY <1>1, <1>2, NatSets
<1> QED
  BY <1>3

\* Total is such a function.
LEMMA TotalSums ==
  ASSUME NEW s \in Seq(Int)
  PROVE  \E g : Sums(g, s, Len(s)) /\ Total(s) = g[1..Len(s)]
<1> DEFINE g == CHOOSE f : Sums(f, s, Len(s))
<1>1. Len(s) \in Nat /\ DOMAIN s = 1..Len(s)
  OBVIOUS
<1>2. Sums(g, s, Len(s))
  BY <1>1, SumsExist
<1>3. Total(s) = g[DOMAIN s]
  BY <1>1 DEF Total, FoldLeft, MapThenFoldSet, Sums
<1> QED
  BY <1>1, <1>2, <1>3

\* The spans of an empty window add up to 0.
LEMMA TotalEmpty == Total(<<>>) = 0
<1>1. <<>> \in Seq(Int) /\ Len(<<>>) = 0 /\ 1..0 = {}
  OBVIOUS
<1>2. PICK g : Sums(g, <<>>, 0) /\ Total(<<>>) = g[{}]
  BY <1>1, TotalSums
<1> QED
  BY <1>2 DEF Sums

\* A span pushed into a window is added to its total.
LEMMA TotalAppend ==
  ASSUME NEW s \in Seq(Int), NEW x \in Int
  PROVE  Total(Append(s, x)) = Total(s) + x
<1> DEFINE n == Len(s)
           r == Append(s, x)
<1>1. /\ n \in Nat /\ r \in Seq(Int) /\ Len(r) = n + 1 /\ r[n + 1] = x
      /\ \A i \in 1..n : s[i] = r[i]
  OBVIOUS
<1>2. PICK g : Sums(g, s, n) /\ Total(s) = g[1..n]
  BY TotalSums
<1>3. PICK h : Sums(h, r, n + 1) /\ Total(r) = h[1..(n + 1)]
  BY <1>1, TotalSums
<1> HIDE DEF n, r
<1>4. g[1..n] = h[1..n]
  BY <1>1, <1>2, <1>3, SumsAgree
<1>5. h[1..(n + 1)] = h[1..n] + x
  <2> DEFINE t == 1..(n + 1)
  <2>1. n + 1 \in t /\ t \ {n + 1} = 1..n /\ t \in SUBSET t
    BY <1>1
  <2>2. Max(t) = n + 1
    BY <1>1, <2>1, LastPlace
  <2>3. h[t] = IF t = {} THEN 0 ELSE h[t \ {Max(t)}] + r[Max(t)]
    BY <1>3, <2>1 DEF Sums
  <2> QED
    BY <1>1, <2>1, <2>2, <2>3
<1> QED
  BY <1>2, <1>3, <1>4, <1>5 DEF r

\* The last element of a sequence and what is before it.
LEMMA LastSplit ==
  ASSUME NEW n \in Nat, NEW s \in Seq(Int), Len(s) = n + 1
  PROVE  \E f \in Seq(Int) : /\ Len(f) = n /\ s[n + 1] \in Int /\ s = Append(f, s[n + 1])
                             /\ \A i \in 1..n : f[i] = s[i]
<1> DEFINE f == SubSeq(s, 1, n)
<1>1. f \in Seq(Int) /\ Len(f) = n /\ \A i \in 1..n : f[i] = s[i]
  OBVIOUS
<1>2. s[n + 1] \in Int
  OBVIOUS
<1>3. s = Append(f, s[n + 1])
  BY <1>1
<1> QED
  BY <1>1, <1>2, <1>3

\* A sum lies between its size times the least and the greatest element.
LEMMA TotalBounds ==
  ASSUME NEW lo \in Int, NEW hi \in Int, NEW s \in Seq(Int),
         \A i \in 1..Len(s) : lo <= s[i] /\ s[i] <= hi
  PROVE  Total(s) \in Int /\ lo * Len(s) <= Total(s) /\ Total(s) <= hi * Len(s)
<1> DEFINE Within(r) == \A i \in 1..Len(r) : lo <= r[i] /\ r[i] <= hi
           Bounded(r, n) == Total(r) \in Int /\ lo * n <= Total(r) /\ Total(r) <= hi * n
           S == {n \in Nat : \A r \in Seq(Int) : Len(r) = n /\ Within(r) => Bounded(r, n)}
<1>1. 0 \in S
  <2>1. \A r \in Seq(Int) : Len(r) = 0 => r = <<>>
    OBVIOUS
  <2>2. Bounded(<<>>, 0)
    BY TotalEmpty
  <2> QED
    BY <2>1, <2>2
<1>2. ASSUME NEW n \in Nat, n \in S PROVE n + 1 \in S
  <2> SUFFICES ASSUME NEW r \in Seq(Int), Len(r) = n + 1, Within(r) PROVE Bounded(r, n + 1)
    OBVIOUS
  <2>1. PICK f \in Seq(Int) : /\ Len(f) = n /\ r[n + 1] \in Int /\ r = Append(f, r[n + 1])
                              /\ \A i \in 1..n : f[i] = r[i]
    BY LastSplit
  <2>2. Within(f) /\ lo <= r[n + 1] /\ r[n + 1] <= hi
    BY <2>1
  <2>3. Bounded(f, n)
    BY <1>2, <2>1, <2>2
  <2>4. Total(r) = Total(f) + r[n + 1]
    BY <2>1, TotalAppend
  <2>5. lo * (n + 1) = lo * n + lo /\ hi * (n + 1) = hi * n + hi /\ lo * n \in Int /\ hi * n \in Int
    OBVIOUS
  <2> QED
    BY <2>1, <2>2, <2>3, <2>4, <2>5
<1>3. Nat \subseteq S
  <2> HIDE DEF S
  <2> QED
    BY <1>1, <1>2, NatSets
<1>4. Len(s) \in S /\ Within(s)
  BY <1>3
<1> QED
  BY <1>4

\* A sequence and 0 have a greatest and a least element.
LEMMA Extremes ==
  ASSUME NEW s \in Seq(Int)
  PROVE  \E lo, hi \in {0} \cup ToSet(s) : \A y \in {0} \cup ToSet(s) : lo <= y /\ y <= hi
<1> DEFINE Values(r) == {0} \cup {r[i] : i \in 1..Len(r)}
           S == {n \in Nat : \A r \in Seq(Int) : Len(r) = n =>
                   \E lo, hi \in Values(r) : \A y \in Values(r) : lo <= y /\ y <= hi}
<1>1. 0 \in S
  <2>1. \A r \in Seq(Int) : Len(r) = 0 => Values(r) = {0}
    OBVIOUS
  <2> QED
    BY <2>1
<1>2. ASSUME NEW n \in Nat, n \in S PROVE n + 1 \in S
  <2> SUFFICES ASSUME NEW r \in Seq(Int), Len(r) = n + 1
               PROVE  \E lo, hi \in Values(r) : \A y \in Values(r) : lo <= y /\ y <= hi
    OBVIOUS
  <2> DEFINE x == r[n + 1]
  <2>1. PICK f \in Seq(Int) : /\ Len(f) = n /\ x \in Int /\ r = Append(f, x)
                              /\ \A i \in 1..n : f[i] = r[i]
    BY LastSplit
  <2>2. Values(r) = Values(f) \cup {x}
    BY <2>1
  <2>3. PICK lo, hi \in Values(f) : \A y \in Values(f) : lo <= y /\ y <= hi
    BY <1>2, <2>1
  <2>4. Values(f) \subseteq Int
    BY <2>1
  <2> DEFINE low == IF x < lo THEN x ELSE lo
             high == IF x > hi THEN x ELSE hi
  <2> HIDE DEF Values, x
  <2>5. low \in Values(r) /\ high \in Values(r)
    BY <2>2, <2>3
  <2>6. \A y \in Values(r) : low <= y /\ y <= high
    BY <2>1, <2>2, <2>3, <2>4
  <2> QED
    BY <2>5, <2>6
<1>3. Nat \subseteq S
  <2> HIDE DEF S
  <2> QED
    BY <1>1, <1>2, NatSets
<1>4. DOMAIN s = 1..Len(s) /\ Len(s) \in Nat
  OBVIOUS
<1>5. ToSet(s) = {s[i] : i \in 1..Len(s)}
  BY <1>4 DEF ToSet
<1> QED
  BY <1>3, <1>4, <1>5

\* The total of a window is a number.
LEMMA TotalType ==
  ASSUME NEW s \in Seq(Int)
  PROVE  Total(s) \in Int
<1>1. PICK lo, hi \in {0} \cup ToSet(s) : \A y \in {0} \cup ToSet(s) : lo <= y /\ y <= hi
  BY Extremes
<1>2. lo \in Int /\ hi \in Int /\ \A i \in 1..Len(s) : s[i] \in ToSet(s)
  BY DEF ToSet
<1> QED
  BY <1>1, <1>2, TotalBounds

\* What is left of a sum without its first element.
LEMMA TotalTail ==
  ASSUME NEW s \in Seq(Int), s # <<>>
  PROVE  Total(Tail(s)) = Total(s) - s[1]
<1> DEFINE S == {n \in Nat : \A r \in Seq(Int) : Len(r) = n + 1 => Total(r) = r[1] + Total(Tail(r))}
<1>1. 0 \in S
  <2> SUFFICES ASSUME NEW r \in Seq(Int), Len(r) = 1 PROVE Total(r) = r[1] + Total(Tail(r))
    OBVIOUS
  <2>1. PICK x \in Int : x = r[1]
    <3>1. r \in [1..1 -> Int]
      BY LenProperties
    <3> QED
      BY <3>1
  <2>2. r # <<>>
    BY 1 # 0, EmptySeq, Zenon
  <2>3. Tail(r) \in Seq(Int) /\ Len(Tail(r)) = 0
    BY <2>2, HeadTailProperties
  <2>4. Tail(r) = <<>>
    BY <2>3, EmptySeq
  <2>5. <<>> \in Seq(Int) /\ r = Append(<<>>, x)
    BY <2>1
  <2>6. Total(r) = 0 + x
    BY <2>5, TotalAppend, TotalEmpty
  <2>7. 0 + x = x + 0
    BY <2>1
  <2> QED
    BY <2>1, <2>4, <2>6, <2>7, TotalEmpty, Zenon
<1>2. ASSUME NEW n \in Nat, n \in S PROVE n + 1 \in S
  <2> SUFFICES ASSUME NEW r \in Seq(Int), Len(r) = n + 1 + 1 PROVE Total(r) = r[1] + Total(Tail(r))
    OBVIOUS
  <2> DEFINE x == r[n + 1 + 1]
  <2>0. n + 1 \in Nat
    OBVIOUS
  <2>1. PICK f \in Seq(Int) : /\ Len(f) = n + 1 /\ x \in Int /\ r = Append(f, x)
                              /\ \A i \in 1..(n + 1) : f[i] = r[i]
    BY <2>0, LastSplit
  <2>2. f # <<>> /\ f[1] = r[1] /\ r[1] \in Int /\ Tail(f) \in Seq(Int)
    BY <2>1
  <2>3. Tail(r) = Append(Tail(f), x)
    BY <2>1, <2>2
  <2>4. Total(f) = f[1] + Total(Tail(f))
    BY <1>2, <2>1
  <2> HIDE DEF x
  <2>5. Total(r) = Total(f) + x /\ Total(Tail(r)) = Total(Tail(f)) + x
    BY <2>1, <2>2, <2>3, TotalAppend
  <2>6. Total(Tail(f)) \in Int
    BY <2>2, TotalType
  <2> QED
    BY <2>1, <2>2, <2>4, <2>5, <2>6
<1>3. Nat \subseteq S
  <2> HIDE DEF S
  <2> QED
    BY <1>1, <1>2, NatSets
<1>4. Len(s) - 1 \in Nat /\ Tail(s) \in Seq(Int) /\ s[1] \in Int
  OBVIOUS
<1>5. Total(s) = s[1] + Total(Tail(s))
  BY <1>3, <1>4
<1>6. Total(Tail(s)) \in Int
  BY <1>4, TotalType
<1> QED
  BY <1>4, <1>5, <1>6

-----------------------------------------------------------------------------
(* The calls of a tracker.                                                 *)

Trackers ==
  [nominal_time_span_ : Nat \ {0}, cycles_ : Nat, missed_cycles_ : Nat, mode_ : Modes,
   buffer_ : Seq(Int), last_tick_ : Nat]

\* Missed cycles took their time.
Paid(k) == 6 * (k.nominal_time_span_ * k.missed_cycles_) <= 5 * k.last_tick_

\* The spans in the buffer are disjoint parts of the time before the last tick,
\* and all of it while time_span has dropped none.
Tiled(k) ==
  /\ \A i \in 1..Len(k.buffer_) : k.buffer_[i] >= 0
  /\ Len(k.buffer_) <= k.cycles_
  /\ k.mode_ = "NONE" => k.cycles_ = 0 /\ k.last_tick_ = 0
  /\ Total(k.buffer_) <= k.last_tick_
  /\ k.mode_ # "TICK_TOCK" /\ k.cycles_ = Len(k.buffer_) =>
       Total(k.buffer_) = k.last_tick_

TrackerOK(k, t) ==
  /\ k \in Trackers
  /\ k.missed_cycles_ <= k.cycles_
  /\ Len(k.buffer_) <= Window(k)
  /\ k.mode_ = "TIME_SPAN" => k.cycles_ > 0
  /\ k.last_tick_ <= t
  /\ Paid(k)
  /\ Tiled(k)

\* What a call may do: the period stays and the counters never go back.
Later(k, r) ==
  /\ r.nominal_time_span_ = k.nominal_time_span_
  /\ k.cycles_ <= r.cycles_
  /\ k.missed_cycles_ <= r.missed_cycles_

\* The length of a window is a number.
LEMMA WindowType ==
  ASSUME NEW k \in Trackers
  PROVE  Window(k) \in Nat
<1> DEFINE n == k.nominal_time_span_
<1>1. n \in Nat /\ n > 0 /\ Ten \in Nat
  BY DiagnosticsAssumption DEF Trackers
<1> HIDE DEF n
<1>2. Ten \div n \in Nat
  BY <1>1
<1> QED
  BY <1>2 DEF Window, n

\* A push into a window leaves it a window of its length.
LEMMA PushLen ==
  ASSUME NEW s \in Seq(Int), NEW x \in Int, NEW n \in Nat, Len(s) <= n
  PROVE  Push(s, x, n) \in Seq(Int) /\ Len(Push(s, x, n)) <= n
<1>1. CASE n = 0
  BY <1>1 DEF Push
<1>2. CASE n # 0 /\ Len(s) = n
  <2>1. s # <<>>
    BY <1>2
  <2>2. Tail(s) \in Seq(Int) /\ Len(Tail(s)) = n - 1
    BY <1>2, <2>1
  <2> QED
    BY <1>2, <2>2 DEF Push
<1>3. CASE n # 0 /\ Len(s) # n
  BY <1>3 DEF Push
<1> QED
  BY <1>1, <1>2, <1>3

\* A push adds its span; a span that it drops only makes the sum smaller.
LEMMA PushTotal ==
  ASSUME NEW s \in Seq(Int), NEW x \in Nat, NEW n \in Nat, Len(s) <= n,
         \A i \in 1..Len(s) : s[i] >= 0
  PROVE  /\ \A i \in 1..Len(Push(s, x, n)) : Push(s, x, n)[i] >= 0
         /\ Len(Push(s, x, n)) <= Len(s) + 1
         /\ Total(Push(s, x, n)) \in Int /\ Total(Push(s, x, n)) <= Total(s) + x
         /\ Len(Push(s, x, n)) = Len(s) + 1 => Total(Push(s, x, n)) = Total(s) + x
<1>0. Total(s) \in Int
  BY TotalType
<1>1. CASE n = 0
  BY <1>0, <1>1 DEF Push
<1>2. CASE n # 0 /\ Len(s) = n
  <2>1. s # <<>> /\ s[1] \in Int /\ s[1] >= 0
    BY <1>2
  <2>2. /\ Tail(s) \in Seq(Int) /\ Len(Tail(s)) = n - 1
        /\ \A i \in 1..(n - 1) : Tail(s)[i] = s[i + 1]
    BY <1>2, <2>1
  <2>3. Push(s, x, n) = Append(Tail(s), x)
    BY <1>2 DEF Push
  <2>4. Total(Push(s, x, n)) = Total(s) - s[1] + x
    <3>1. \A u \in Seq(Int) : Total(Append(u, x)) = Total(u) + x
      BY TotalAppend
    <3>2. Total(Tail(s)) = Total(s) - s[1]
      BY <2>1, TotalTail
    <3>3. Total(Append(Tail(s), x)) = Total(Tail(s)) + x
      BY <2>2, <3>1, Zenon
    <3> QED
      BY <2>3, <3>2, <3>3
  <2>5. Len(Push(s, x, n)) = n /\ \A i \in 1..n : Push(s, x, n)[i] >= 0
    BY <1>2, <2>2, <2>3
  <2> QED
    BY <1>0, <1>2, <2>1, <2>4, <2>5
<1>3. CASE n # 0 /\ Len(s) # n
  <2>1. Push(s, x, n) = Append(s, x)
    BY <1>3 DEF Push
  <2>2. Total(Push(s, x, n)) = Total(s) + x
    BY <2>1, TotalAppend
  <2> QED
    BY <1>0, <2>1, <2>2
<1> QED
  BY <1>1, <1>2, <1>3

\* The constructor of TimeSpanTracker establishes what is kept of a tracker.
LEMMA NewTracker ==
  ASSUME NEW p \in Int, p > 0, NEW t \in Nat
  PROVE  TrackerOK(Tracker(p), t)
<1>1. Tracker(p) \in Trackers
  BY DEF Tracker, Trackers, Modes
<1>2. Window(Tracker(p)) \in Nat
  BY <1>1, WindowType
<1>3. Paid(Tracker(p))
  BY DEF Paid, Tracker
<1>4. Tiled(Tracker(p))
  BY TotalEmpty DEF Tiled, Tracker
<1> QED
  BY <1>1, <1>2, <1>3, <1>4 DEF TrackerOK, Tracker

\* time_span and tock keep it, and no counter of theirs goes back.
LEMMA MeasuredOK ==
  ASSUME NEW t \in Nat, NEW k, TrackerOK(k, t), NEW m \in {"TIME_SPAN", "TICK_TOCK"},
         m = "TIME_SPAN" => k.mode_ # "TICK_TOCK"
  PROVE  TrackerOK(Measured(k, m, t), t) /\ Later(k, Measured(k, m, t))
<1> DEFINE ts == t - k.last_tick_
           b == Push(k.buffer_, ts, Window(k))
           missed == IF Late(k, ts) THEN k.missed_cycles_ + 1 ELSE k.missed_cycles_
           r == Measured(k, m, t)
<1>1. k \in Trackers /\ ts \in Nat /\ Window(k) \in Nat
  BY WindowType DEF TrackerOK, Trackers
<1>2. b \in Seq(Int) /\ Len(b) <= Window(k)
  BY <1>1, PushLen DEF TrackerOK, Trackers
<1>3. missed \in Nat /\ k.missed_cycles_ <= missed /\ missed <= k.cycles_ + 1
  BY <1>1 DEF TrackerOK, Trackers
<1>4. /\ r.nominal_time_span_ = k.nominal_time_span_ /\ r.mode_ = m /\ r.buffer_ = b
      /\ r.missed_cycles_ = missed /\ r.cycles_ = k.cycles_ + 1 /\ r.last_tick_ = t
  BY <1>1 DEF Measured, Trackers
<1>5. r \in Trackers
  <2>1. r = [k EXCEPT !.mode_ = m, !.buffer_ = b, !.missed_cycles_ = missed,
                      !.cycles_ = k.cycles_ + 1, !.last_tick_ = t]
    BY <1>1 DEF Measured, Trackers
  <2>2. m \in Modes /\ k.cycles_ + 1 \in Nat
    BY <1>1 DEF Modes, Trackers
  <2> HIDE DEF r, b, missed
  <2> QED
    BY <1>1, <1>2, <1>3, <2>1, <2>2 DEF Trackers
<1>6. Window(r) = Window(k)
  BY <1>4 DEF Window
<1>7. 6 * (k.nominal_time_span_ * missed) <= 5 * t
  <2> DEFINE n == k.nominal_time_span_
             c == k.missed_cycles_
             l == k.last_tick_
  <2>1. n \in Nat /\ c \in Nat /\ l \in Nat /\ l <= t /\ 6 * (n * c) <= 5 * l
    BY <1>1 DEF TrackerOK, Trackers, Paid
  <2>2. CASE Late(k, ts)
    <3>1. 5 * (t - l) > 6 * n /\ missed = c + 1
      BY <2>2 DEF Late
    <3> HIDE DEF n, c, l
    <3>2. n * (c + 1) = n * c + n /\ n * c \in Nat
      BY <2>1
    <3>3. 6 * (n * (c + 1)) <= 5 * t
      BY <2>1, <3>1, <3>2
    <3> QED
      BY <3>1, <3>3 DEF n
  <2>3. CASE ~Late(k, ts)
    <3>1. missed = c
      BY <2>3
    <3> HIDE DEF n, c, l
    <3>2. n * c \in Nat
      BY <2>1
    <3>3. 6 * (n * c) <= 5 * t
      BY <2>1, <3>2
    <3> QED
      BY <3>1, <3>3 DEF n
  <2> QED
    BY <2>2, <2>3
<1> HIDE DEF ts, b, missed, r
<1>10. Tiled(r)
  <2> DEFINE s == k.buffer_
             c == k.cycles_
             l == k.last_tick_
  <2>1. s \in Seq(Int) /\ Len(s) <= Window(k) /\ c \in Nat /\ l \in Nat /\ ts = t - l
    BY <1>1 DEF TrackerOK, Trackers, ts
  <2>2. /\ \A i \in 1..Len(s) : s[i] >= 0
        /\ Len(s) <= c /\ (k.mode_ = "NONE" => c = 0) /\ Total(s) <= l
        /\ k.mode_ # "TICK_TOCK" /\ c = Len(s) => Total(s) = l
    BY DEF TrackerOK, Tiled
  <2>3. /\ \A i \in 1..Len(b) : b[i] >= 0
        /\ Len(b) <= Len(s) + 1 /\ Total(b) \in Int /\ Total(b) <= Total(s) + ts
        /\ Len(b) = Len(s) + 1 => Total(b) = Total(s) + ts
    BY <1>1, <2>1, <2>2, PushTotal DEF b
  <2>4. Total(s) \in Int /\ Len(s) \in Nat /\ Len(b) \in Nat
    BY <1>2, <2>1, TotalType
  <2>5. Total(b) <= t
    BY <2>1, <2>2, <2>3, <2>4
  <2>6. m # "TICK_TOCK" /\ c + 1 = Len(b) => Total(b) = t
    BY <2>1, <2>2, <2>3, <2>4
  <2> HIDE DEF s, c, l
  <2>7. Len(b) <= c + 1
    BY <2>1, <2>2, <2>3, <2>4
  <2>8. m # "NONE"
    OBVIOUS
  <2> QED
    BY <1>4, <2>3, <2>5, <2>6, <2>7, <2>8 DEF Tiled, c
<1>8. Later(k, r)
  BY <1>1, <1>3, <1>4 DEF Later, Trackers
<1>9. TrackerOK(r, t)
  <2>1. k.cycles_ \in Nat
    BY <1>1 DEF Trackers
  <2> QED
    BY <1>2, <1>3, <1>4, <1>5, <1>6, <1>7, <1>10, <2>1 DEF TrackerOK, Paid
<1> QED
  BY <1>8, <1>9 DEF r

\* Every call leaves a tracker in order.
LEMMA CallsOK ==
  ASSUME NEW t \in Nat, NEW k, TrackerOK(k, t),
         NEW r \in {time_span(k, t), tick(k, t), tock(k, t)}
  PROVE  TrackerOK(r, t) /\ Later(k, r)
<1>1. Later(k, k)
  BY DEF Later, TrackerOK, Trackers
<1>2. CASE r = k
  BY <1>1, <1>2
<1>3. CASE \E m \in {"TIME_SPAN", "TICK_TOCK"} :
             r = Measured(k, m, t) /\ (m = "TIME_SPAN" => k.mode_ # "TICK_TOCK")
  BY <1>3, MeasuredOK
<1>4. CASE r = [k EXCEPT !.mode_ = "TICK_TOCK", !.last_tick_ = t]
  <2>1. k \in Trackers
    BY DEF TrackerOK
  <2>2. /\ r \in Trackers /\ r.mode_ = "TICK_TOCK" /\ r.last_tick_ = t
        /\ r.nominal_time_span_ = k.nominal_time_span_ /\ r.buffer_ = k.buffer_
        /\ r.cycles_ = k.cycles_ /\ r.missed_cycles_ = k.missed_cycles_
    BY <1>4, <2>1 DEF Trackers, Modes
  <2>3. Window(r) = Window(k)
    BY <2>2 DEF Window
  <2>4. Later(k, r)
    BY <2>1, <2>2 DEF Later, Trackers
  <2>5. Paid(r)
    <3> DEFINE q == k.nominal_time_span_ * k.missed_cycles_
    <3>1. q \in Nat /\ k.last_tick_ \in Nat /\ k.last_tick_ <= t /\ 6 * q <= 5 * k.last_tick_
      BY <2>1 DEF Trackers, TrackerOK, Paid
    <3> HIDE DEF q
    <3>2. 6 * q <= 5 * t
      BY <3>1
    <3> QED
      BY <2>2, <3>2 DEF Paid, q
  <2>6. Tiled(r)
    <3>1. Total(k.buffer_) \in Int /\ k.last_tick_ \in Nat /\ k.last_tick_ <= t
      BY <2>1, TotalType DEF Trackers, TrackerOK
    <3> QED
      BY <2>2, <3>1 DEF Tiled, TrackerOK
  <2> QED
    BY <2>2, <2>3, <2>4, <2>5, <2>6 DEF TrackerOK
<1> QED
  BY <1>2, <1>3, <1>4 DEF time_span, tick, tock

-----------------------------------------------------------------------------
(* The queue of messages.                                                  *)

\* A posted message is in the queue, once, or it was shown.
QueueInv ==
  /\ status \in Seq(Msg) /\ posted \subseteq Msg /\ shown \subseteq posted
  /\ \A n \in 1..Len(status) : status[n] \in posted \ shown
  /\ \A j, k \in 1..Len(status) : status[j] = status[k] => j = k
  /\ \A m \in posted : m \in shown \/ \E n \in 1..Len(status) : status[n] = m

\* Posting a message that was not posted before.
LEMMA QueuePost ==
  ASSUME QueueInv, NEW m \in Msg, addDiagnosticsMessage(m)
  PROVE  QueueInv'
<1>1. /\ m \notin posted /\ posted' = posted \cup {m} /\ shown' = shown
      /\ status' = Append(status, m)
  BY DEF addDiagnosticsMessage
<1>2. /\ status' \in Seq(Msg) /\ Len(status') = Len(status) + 1 /\ Len(status) \in Nat
      /\ \A n \in 1..Len(status) : status'[n] = status[n]
      /\ status'[Len(status) + 1] = m
  BY <1>1 DEF QueueInv
<1>3. \A n \in 1..Len(status') : n \in 1..Len(status) \/ n = Len(status) + 1
  BY <1>2
<1>4. \A n \in 1..Len(status) : n \in 1..Len(status')
  BY <1>2
<1>5. Len(status) + 1 \in 1..Len(status')
  BY <1>2
<1>6. \A n \in 1..Len(status) : status[n] # m
  BY <1>1 DEF QueueInv
<1>7. \A n \in 1..Len(status') : status'[n] \in posted' \ shown'
  BY <1>1, <1>2, <1>3 DEF QueueInv
<1>8. \A j, k \in 1..Len(status') : status'[j] = status'[k] => j = k
  BY <1>2, <1>3, <1>6 DEF QueueInv
<1>9. \A x \in posted' : x \in shown' \/ \E n \in 1..Len(status') : status'[n] = x
  BY <1>1, <1>2, <1>4, <1>5 DEF QueueInv
<1> QED
  BY <1>1, <1>2, <1>7, <1>8, <1>9 DEF QueueInv

\* What erasing leaves: each status of another level, once.
LEMMA EraseEntries ==
  ASSUME status \in Seq(Msg), NEW level, Erase(level)
  PROVE  /\ status' \in Seq(Msg)
         /\ \E f \in [1..Len(status') -> 1..Len(status)] :
              /\ \A k \in 1..Len(status') : /\ status'[k] = status[f[k]]
                                            /\ Level(status[f[k]]) # level
              /\ \A j, k \in 1..Len(status') : f[j] = f[k] => j = k
              /\ \A n \in 1..Len(status) : Level(status[n]) # level =>
                   \E k \in 1..Len(status') : f[k] = n
<1> DEFINE others == {n \in DOMAIN status : Level(status[n]) # level}
<1>1. others \in SUBSET (1..Len(status)) /\ Len(status) \in Nat
  OBVIOUS
<1>2. IsFiniteSet(1..Len(status))
  BY <1>1, FS_Interval
<1>3. IsFiniteSet(others) /\ Cardinality(others) \in Nat
  BY <1>1, <1>2, FS_Subset, FS_CardinalityType
<1> DEFINE c == Cardinality(others)
<1>4. PICK f \in [1..c -> others] :
        /\ \A j, k \in DOMAIN f : j < k => f[j] < f[k]
        /\ status' = [k \in DOMAIN f |-> status[f[k]]]
  BY DEF Erase
<1>5. \A n \in others : n \in 1..Len(status) /\ Level(status[n]) # level /\ status[n] \in Msg
  OBVIOUS
<1>6. \A n \in 1..Len(status) : Level(status[n]) # level => n \in others
  OBVIOUS
<1> HIDE DEF others, c
<1>7. c \in Nat /\ IsFiniteSet(others)
  BY <1>3 DEF c
<1>8. status' = [k \in 1..c |-> status[f[k]]]
  BY <1>4
<1>9. \A k \in 1..c : f[k] \in others /\ status[f[k]] \in Msg
  BY <1>4, <1>5
<1>10. status' \in Seq(Msg) /\ Len(status') = c
  BY <1>7, <1>8, <1>9
<1>11. \A j, k \in 1..c : f[j] = f[k] => j = k
  <2> SUFFICES ASSUME NEW j \in 1..c, NEW k \in 1..c, f[j] = f[k], j # k PROVE FALSE
    OBVIOUS
  <2>1. f[j] \in Int /\ f[k] \in Int
    BY <1>5, <1>9
  <2>2. j < k \/ k < j
    BY <1>7
  <2>3. f[j] < f[k] \/ f[k] < f[j]
    BY <1>4, <2>2
  <2> QED
    BY <2>1, <2>3
<1>12. f \in Injection(1..c, others)
  BY <1>4, <1>11 DEF Injection, IsInjective
<1>13. Cardinality(1..c) = c
  BY <1>7, FS_Interval
<1>14. f \in Surjection(1..c, others)
  BY <1>7, <1>12, <1>13, FS_Injection DEF c
<1>15. \A n \in others : \E k \in 1..c : f[k] = n
  BY <1>14 DEF Surjection
<1>16. f \in [1..c -> 1..Len(status)]
  BY <1>4, <1>5, <1>9
<1> QED
  BY <1>5, <1>6, <1>8, <1>9, <1>10, <1>11, <1>15, <1>16

\* A report takes the messages of its level out of the queue and shows them.
LEMMA QueueReport ==
  ASSUME QueueInv, NEW level, diagnostics(level)
  PROVE  QueueInv'
<1> DEFINE mine == {m \in ToSet(status) : Level(m) = level}
<1>1. /\ Erase(level) /\ posted' = posted /\ shown' = shown \cup mine
  BY DEF diagnostics
<1>2. status \in Seq(Msg)
  BY DEF QueueInv
<1>3. \A m : m \in mine <=> \E n \in 1..Len(status) : status[n] = m /\ Level(m) = level
  BY <1>2 DEF ToSet
<1> HIDE DEF mine
<1>4. status' \in Seq(Msg)
  BY <1>1, <1>2, EraseEntries
<1>5. PICK f \in [1..Len(status') -> 1..Len(status)] :
        /\ \A k \in 1..Len(status') : /\ status'[k] = status[f[k]]
                                      /\ Level(status[f[k]]) # level
        /\ \A j, k \in 1..Len(status') : f[j] = f[k] => j = k
        /\ \A n \in 1..Len(status) : Level(status[n]) # level =>
             \E k \in 1..Len(status') : f[k] = n
  BY <1>1, <1>2, EraseEntries
<1>6. \A k \in 1..Len(status') : f[k] \in 1..Len(status)
  BY <1>5
<1>7. shown' \subseteq posted'
  BY <1>1, <1>3 DEF QueueInv
<1>8. \A n \in 1..Len(status') : status'[n] \in posted' \ shown'
  BY <1>1, <1>3, <1>5, <1>6 DEF QueueInv
<1>9. \A j, k \in 1..Len(status') : status'[j] = status'[k] => j = k
  BY <1>5, <1>6 DEF QueueInv
<1>10. \A m \in posted' : m \in shown' \/ \E n \in 1..Len(status') : status'[n] = m
  <2> SUFFICES ASSUME NEW m \in posted, m \notin shown'
               PROVE  \E n \in 1..Len(status') : status'[n] = m
    BY <1>1
  <2>1. PICK n \in 1..Len(status) : status[n] = m
    BY <1>1 DEF QueueInv
  <2>2. Level(m) # level
    BY <1>1, <1>3, <2>1
  <2>3. PICK k \in 1..Len(status') : f[k] = n
    BY <1>5, <2>1, <2>2
  <2>4. status'[k] = m
    BY <1>5, <2>1, <2>3
  <2> QED
    BY <2>4
<1> QED
  BY <1>1, <1>4, <1>7, <1>8, <1>9, <1>10 DEF QueueInv

\* Only posting and the reports of a level change the queue.
LEMMA QueueStep == QueueInv /\ [Next]_vars => QueueInv'
<1> SUFFICES ASSUME QueueInv, [Next]_vars PROVE QueueInv'
  OBVIOUS
<1>same. ASSUME UNCHANGED queue PROVE QueueInv'
  BY <1>same DEF queue, QueueInv
<1>1. ASSUME NEW m \in Msg, addDiagnosticsMessage(m) PROVE QueueInv'
  BY <1>1, QueuePost
<1>2. CASE diagnosticsLevel
  BY <1>2, QueueReport DEF diagnosticsLevel
<1>3. CASE diagnosticsPerformance \/ performance_read \/ performance_end \/ Tick
           \/ addTimeTracker_reset
  BY <1>same, <1>3 DEF diagnosticsPerformance, performance_read, performance_end, Tick,
     addTimeTracker_reset
<1>4. ASSUME NEW i \in Id, addTimeTracker(i) PROVE QueueInv'
  BY <1>same, <1>4 DEF addTimeTracker
<1>5. ASSUME NEW w \in Worker, NEW i \in Id, timeSpanStrakcer(w, i) PROVE QueueInv'
  BY <1>same, <1>5 DEF timeSpanStrakcer
<1>6. ASSUME NEW w \in Worker, measure(w) PROVE QueueInv'
  BY <1>same, <1>6 DEF measure
<1>7. CASE UNCHANGED vars
  BY <1>same, <1>7 DEF vars
<1> QED
  BY <1>1, <1>2, <1>3, <1>4, <1>5, <1>6, <1>7 DEF Next, UpdaterStep

\* The queue starts empty.
LEMMA QueueInit == Init => QueueInv
  BY DEF Init, QueueInv

\* Whatever is posted between the reports, a message that was posted is in the
\* queue once or was shown by a report of its own level: the erasing of another
\* level's messages neither removes nor repeats it.
THEOREM NothingLostHolds == Spec => []NothingLost
<1>1. QueueInv => NothingLost
  <2> SUFFICES ASSUME QueueInv, NEW m \in posted
               PROVE  \/ m \in shown /\ m \notin ToSet(status)
                      \/ m \notin shown /\ \E n \in DOMAIN status :
                           \A k \in DOMAIN status : status[k] = m <=> k = n
    BY DEF NothingLost
  <2>1. DOMAIN status = 1..Len(status)
    BY DEF QueueInv
  <2>2. CASE m \in shown
    BY <2>1, <2>2 DEF QueueInv, ToSet
  <2>3. CASE m \notin shown
    <3>1. PICK n \in 1..Len(status) : status[n] = m
      BY <2>3 DEF QueueInv
    <3> QED
      BY <2>1, <2>3, <3>1 DEF QueueInv
  <2> QED
    BY <2>2, <2>3
<1> QED
  BY <1>1, QueueInit, QueueStep, PTL DEF Spec

-----------------------------------------------------------------------------
(* The trackers and the map.                                               *)

\* Every tracker is in order.
ObjInv ==
  /\ now \in Nat
  /\ obj \in Seq(Trackers)
  /\ \A g \in 1..Len(obj) : TrackerOK(obj[g], now)
  /\ Len(obj) <= MaxGen
  /\ adding # {} => Len(obj) < MaxGen

\* Entries of the map and pointers of the workers name trackers that were made;
\* a report reads entries that exist.
MapInv ==
  /\ tracker \in [Id -> Int] /\ \A i \in Id : tracker[i] \in Absent..Len(obj)
  /\ held \in [Worker -> Int] /\ \A w \in Worker : held[w] \in Null..Len(obj)
  /\ adding \subseteq Id /\ \A i, j \in adding : i = j
  /\ turn \in 1..5
  /\ todo \subseteq Id \X Fields
  /\ \A x \in todo : tracker[x[1]] # Absent
  /\ row \in [Id \X Fields -> Int] /\ start \in [Id \X Fields -> Int]
  /\ overlapped \in BOOLEAN /\ threw \in BOOLEAN /\ crashed \in BOOLEAN

\* An entry is null inside addTimeTracker, or after one that has thrown.
PointerInv ==
  /\ \A i \in Id : tracker[i] = Null => i \in adding \/ threw
  /\ Reporting /\ adding # {} => overlapped
  /\ crashed => overlapped \/ threw

\* What a report that nobody disturbs has read lies in its window.
WindowInv ==
  Reporting /\ ~overlapped =>
    \A i \in Valid, f \in Fields :
      /\ start[<<i, f>>] <= Counter(i, f)
      /\ <<i, f>> \notin todo => row[<<i, f>>] \in start[<<i, f>>]..Counter(i, f)

TrackInv == ObjInv /\ MapInv /\ PointerInv /\ WindowInv

\* A status update makes three reports.
LEMMA ThreeReports == Len(Reports) = 3 /\ DOMAIN Reports = 1..3
  BY DEF Reports

\* A report reads numbers.
LEMMA CounterType ==
  ASSUME ObjInv, MapInv, NEW i \in Valid, NEW f
  PROVE  Counter(i, f) \in Nat
<1>1. tracker[i] \in 1..Len(obj)
  BY DEF Valid, MapInv, ObjInv
<1>2. obj[tracker[i]] \in Trackers
  BY <1>1 DEF ObjInv
<1> QED
  BY <1>2 DEF Counter, Trackers

\* No tracker was replaced and no counter has gone back.
Forward ==
  /\ tracker' = tracker /\ Len(obj') = Len(obj)
  /\ \A g \in 1..Len(obj) : Later(obj[g], obj'[g])

\* A step that touches no tracker is a step forward.
LEMMA StillForward ==
  ASSUME ObjInv, tracker' = tracker, obj' = obj
  PROVE  Forward
<1>1. \A g \in 1..Len(obj) : obj[g] \in Trackers
  BY DEF ObjInv
<1> QED
  BY <1>1 DEF Forward, Later, Trackers

\* What a report would read does not go back in a step forward.
LEMMA CounterForward ==
  ASSUME ObjInv, MapInv, Forward
  PROVE  /\ Valid' = Valid
         /\ \A i \in Valid, f \in Fields : Counter(i, f) <= Counter(i, f)'
<1>1. \A i \in Valid : tracker[i] \in 1..Len(obj) /\ tracker'[i] = tracker[i]
  BY DEF Valid, MapInv, ObjInv, Forward
<1>2. \A i \in Valid : Later(obj[tracker[i]], obj'[tracker'[i]])
  BY <1>1 DEF Forward
<1> QED
  BY <1>2 DEF Forward, Valid, Counter, Later

\* What the other threads do while a report is made leaves it in its window.
LEMMA WindowKept ==
  ASSUME ObjInv, MapInv, WindowInv, ObjInv', MapInv', Forward, UNCHANGED report,
         overlapped => overlapped'
  PROVE  WindowInv'
<1> SUFFICES ASSUME Reporting', ~overlapped', NEW i \in Valid', NEW f \in Fields
             PROVE  /\ start'[<<i, f>>] <= Counter(i, f)'
                    /\ <<i, f>> \notin todo' =>
                         row'[<<i, f>>] \in start'[<<i, f>>]..Counter(i, f)'
  BY DEF WindowInv
<1>1. i \in Valid /\ Counter(i, f) <= Counter(i, f)'
  BY CounterForward
<1>2. Counter(i, f) \in Nat
  BY <1>1, CounterType
<1>3. Counter(i, f)' \in Nat
  <2>1. tracker'[i] \in 1..Len(obj')
    BY DEF Valid, MapInv, ObjInv
  <2>2. obj'[tracker'[i]] \in Trackers
    BY <2>1 DEF ObjInv
  <2> QED
    BY <2>2 DEF Counter, Trackers
<1>4. Reporting /\ ~overlapped /\ start' = start /\ row' = row /\ todo' = todo
  BY DEF report, Reporting
<1>5. /\ start[<<i, f>>] <= Counter(i, f)
      /\ <<i, f>> \notin todo => row[<<i, f>>] \in start[<<i, f>>]..Counter(i, f)
  BY <1>1, <1>4 DEF WindowInv
<1>6. start[<<i, f>>] \in Int /\ row[<<i, f>>] \in Int
  BY <1>1 DEF MapInv, Valid
<1> QED
  BY <1>1, <1>2, <1>3, <1>4, <1>5, <1>6

\* A call of a worker on its tracker.
LEMMA MeasureFacts ==
  ASSUME ObjInv, MapInv, NEW w \in Worker, measure(w)
  PROVE  ObjInv' /\ MapInv' /\ Forward
<1> DEFINE h == held[w]
<1>1. /\ h \in 1..Len(obj) /\ Len(obj) \in Nat /\ obj \in Seq(Trackers)
      /\ TrackerOK(obj[h], now) /\ now \in Nat
  BY DEF measure, MapInv, ObjInv, Null
<1>2. PICK r \in {time_span(obj[h], now), tick(obj[h], now), tock(obj[h], now)} :
        obj' = [obj EXCEPT ![h] = r]
  <2>1. PICK call \in {"time_span", "tick", "tock"} :
          obj' = [obj EXCEPT ![h] = CASE call = "time_span" -> time_span(@, now)
                                       [] call = "tick"      -> tick(@, now)
                                       [] call = "tock"      -> tock(@, now)]
    BY DEF measure
  <2> HIDE DEF h
  <2>2. CASE call = "time_span"
    BY <2>1, <2>2
  <2>3. CASE call = "tick"
    BY <2>1, <2>3
  <2>4. CASE call = "tock"
    BY <2>1, <2>4
  <2> QED
    BY <2>1, <2>2, <2>3, <2>4
<1>3. TrackerOK(r, now) /\ Later(obj[h], r)
  BY <1>1, <1>2, CallsOK
<1>4. r \in Trackers
  BY <1>3 DEF TrackerOK
<1>5. /\ now' = now /\ adding' = adding /\ tracker' = tracker /\ held' = held
      /\ turn' = turn /\ todo' = todo /\ row' = row /\ start' = start
      /\ threw' = threw /\ overlapped' = overlapped /\ crashed' = crashed
  BY DEF measure, report
<1> HIDE DEF h
<1>6. obj' \in Seq(Trackers) /\ Len(obj') = Len(obj)
  BY <1>1, <1>2, <1>4
<1>7. obj'[h] = r /\ \A g \in 1..Len(obj) : g # h => obj'[g] = obj[g]
  BY <1>1, <1>2
<1>8. ObjInv'
  BY <1>3, <1>5, <1>6, <1>7 DEF ObjInv
<1>9. MapInv'
  BY <1>5, <1>6 DEF MapInv
<1>10. \A g \in 1..Len(obj) : Later(obj[g], obj[g])
  <2>1. \A g \in 1..Len(obj) : obj[g] \in Trackers
    BY <1>1
  <2> QED
    BY <2>1 DEF Later, Trackers
<1>11. Forward
  BY <1>3, <1>5, <1>6, <1>7, <1>10 DEF Forward
<1> QED
  BY <1>8, <1>9, <1>11

\* The new entry of the map is null; an old one is kept until the reset.
LEMMA AddStep ==
  ASSUME TrackInv, NEW i \in Id, addTimeTracker(i)
  PROVE  TrackInv'
<1> ObjInv /\ MapInv /\ PointerInv /\ WindowInv
  BY DEF TrackInv
<1>1. /\ adding = {} /\ adding' = {i} /\ Len(obj) < MaxGen
      /\ tracker' = [tracker EXCEPT ![i] = IF tracker[i] = Absent THEN Null ELSE tracker[i]]
      /\ overlapped' = (overlapped \/ Reporting)
      /\ obj' = obj /\ threw' = threw /\ held' = held /\ now' = now /\ crashed' = crashed
      /\ turn' = turn /\ todo' = todo /\ row' = row /\ start' = start
  BY DEF addTimeTracker, report
<1>2. ObjInv'
  BY <1>1 DEF ObjInv
<1>3. \A j \in Id : tracker'[j] = IF j = i /\ tracker[j] = Absent THEN Null ELSE tracker[j]
  BY <1>1 DEF MapInv
<1>4. tracker' \in [Id -> Int]
  BY <1>1 DEF MapInv, Null
<1>5. \A j \in Id : tracker'[j] \in Absent..Len(obj')
  BY <1>1, <1>3 DEF MapInv, ObjInv, Null, Absent
<1>6. \A x \in todo' : tracker'[x[1]] # Absent
  BY <1>1, <1>3 DEF MapInv, Null, Absent
<1>7. overlapped' \in BOOLEAN
  BY <1>1
<1>8. MapInv'
  BY <1>1, <1>4, <1>5, <1>6, <1>7 DEF MapInv
<1>9. PointerInv'
  <2>1. \A j \in Id : tracker'[j] = Null => j \in adding' \/ threw'
    BY <1>1, <1>3 DEF PointerInv
  <2>2. Reporting' /\ adding' # {} => overlapped'
    BY <1>1 DEF Reporting
  <2> QED
    BY <1>1, <2>1, <2>2 DEF PointerInv
<1>10. WindowInv'
  BY <1>1 DEF WindowInv, Reporting
<1> QED
  BY <1>2, <1>8, <1>9, <1>10 DEF TrackInv

\* The constructor makes a tracker or throws; no report that began before it and
\* was not disturbed is still being made.
LEMMA ResetStep ==
  ASSUME TrackInv, addTimeTracker_reset
  PROVE  TrackInv'
<1> ObjInv /\ MapInv /\ PointerInv /\ WindowInv
  BY DEF TrackInv
<1>1. /\ adding # {} /\ adding' = {} /\ UNCHANGED report
      /\ turn' = turn /\ todo' = todo /\ row' = row /\ start' = start
      /\ held' = held /\ now' = now /\ overlapped' = overlapped /\ crashed' = crashed
  BY DEF addTimeTracker_reset, report
<1>2. PICK i \in adding, period \in Periods :
        \/ /\ period > 0
           /\ obj' = Append(obj, Tracker(period))
           /\ tracker' = [tracker EXCEPT ![i] = Len(obj')]
           /\ UNCHANGED threw
        \/ /\ period <= 0
           /\ threw' = TRUE
           /\ UNCHANGED <<obj, tracker>>
  BY DEF addTimeTracker_reset
<1>3. i \in Id /\ Len(obj) \in Nat /\ Len(obj) < MaxGen /\ period \in Int
  BY <1>1, <1>2, DiagnosticsAssumption DEF MapInv, ObjInv
<1>4. WindowInv'
  BY <1>1 DEF WindowInv, PointerInv, Reporting
<1>5. PointerInv' <=> \A j \in Id : tracker'[j] = Null => threw'
  <2>1. Reporting' /\ adding' # {} => overlapped'
    BY <1>1
  <2>2. crashed' => overlapped' \/ threw'
    BY <1>1, <1>2 DEF PointerInv
  <2> QED
    BY <1>1, <2>1, <2>2 DEF PointerInv
<1>6. CASE /\ period > 0 /\ obj' = Append(obj, Tracker(period))
           /\ tracker' = [tracker EXCEPT ![i] = Len(obj')] /\ threw' = threw
  <2>1. TrackerOK(Tracker(period), now) /\ now \in Nat
    BY <1>3, <1>6, NewTracker DEF ObjInv
  <2>2. Tracker(period) \in Trackers
    BY <2>1 DEF TrackerOK
  <2>3. /\ obj' \in Seq(Trackers) /\ Len(obj') = Len(obj) + 1
        /\ \A g \in 1..Len(obj) : obj'[g] = obj[g]
        /\ obj'[Len(obj) + 1] = Tracker(period)
    BY <1>6, <2>2 DEF ObjInv
  <2>4. \A g \in 1..Len(obj') : g \in 1..Len(obj) \/ g = Len(obj) + 1
    BY <1>3, <2>3
  <2>5. \A g \in 1..Len(obj') : TrackerOK(obj'[g], now')
    BY <1>1, <2>1, <2>3, <2>4 DEF ObjInv
  <2>6. ObjInv'
    BY <1>1, <1>3, <2>1, <2>3, <2>5, DiagnosticsAssumption DEF ObjInv
  <2>7. /\ tracker'[i] = Len(obj) + 1 /\ tracker' \in [Id -> Int]
        /\ \A j \in Id : j # i => tracker'[j] = tracker[j]
    BY <1>3, <1>6, <2>3 DEF MapInv
  <2>8. \A j \in Id : tracker'[j] \in Absent..Len(obj')
    <3>1. \A j \in Id : tracker[j] \in -1..Len(obj)
      BY DEF MapInv, Absent
    <3>2. \A j \in Id : j # i => tracker'[j] \in -1..Len(obj')
      BY <1>3, <2>3, <2>7, <3>1
    <3>3. tracker'[i] \in -1..Len(obj')
      BY <1>3, <2>3, <2>7
    <3> QED
      BY <3>2, <3>3 DEF Absent
  <2>9. \A x \in todo' : tracker'[x[1]] # Absent
    BY <1>1, <1>3, <2>7 DEF MapInv, Absent
  <2>10. \A v \in Worker : held'[v] \in Null..Len(obj')
    BY <1>1, <1>3, <2>3 DEF MapInv, Null
  <2>11. MapInv'
    BY <1>1, <1>6, <2>7, <2>8, <2>9, <2>10 DEF MapInv
  <2>12. \A j \in Id : tracker'[j] = Null => threw'
    <3>1. \A j \in adding : j = i
      BY <1>2 DEF MapInv
    <3> QED
      BY <1>3, <1>6, <2>7, <3>1 DEF PointerInv, Null
  <2> QED
    BY <1>4, <1>5, <2>6, <2>11, <2>12 DEF TrackInv
<1>7. CASE threw' = TRUE /\ obj' = obj /\ tracker' = tracker
  <2>1. ObjInv'
    BY <1>1, <1>7 DEF ObjInv
  <2>2. MapInv'
    BY <1>1, <1>7 DEF MapInv
  <2> QED
    BY <1>4, <1>5, <1>7, <2>1, <2>2 DEF TrackInv
<1> QED
  BY <1>2, <1>6, <1>7

\* A report begins: nothing has been read, and the window opens.
LEMMA BeginStep ==
  ASSUME TrackInv, diagnosticsPerformance
  PROVE  TrackInv'
<1> ObjInv /\ MapInv /\ PointerInv /\ WindowInv
  BY DEF TrackInv
<1>1. /\ turn = 4 /\ turn' = 5
      /\ todo' = {i \in Id : tracker[i] # Absent} \X Fields
      /\ start' = [x \in Id \X Fields |-> IF x[1] \in Valid THEN Counter(x[1], x[2]) ELSE 0]
      /\ overlapped' = (overlapped \/ adding # {})
      /\ tracker' = tracker /\ obj' = obj /\ adding' = adding /\ threw' = threw
      /\ row' = row /\ held' = held /\ now' = now /\ crashed' = crashed
  BY ThreeReports DEF diagnosticsPerformance, map
<1>2. ObjInv'
  BY <1>1 DEF ObjInv
<1>3. start' \in [Id \X Fields -> Int]
  <2>1. \A x \in Id \X Fields :
          (IF x[1] \in Valid THEN Counter(x[1], x[2]) ELSE 0) \in Int
    BY CounterType
  <2> QED
    BY <1>1, <2>1
<1>4. todo' \subseteq Id \X Fields /\ \A x \in todo' : tracker'[x[1]] # Absent
  BY <1>1
<1>5. MapInv'
  BY <1>1, <1>3, <1>4 DEF MapInv
<1>6. PointerInv'
  BY <1>1 DEF PointerInv
<1>7. WindowInv'
  <2> SUFFICES ASSUME NEW i \in Valid, NEW f \in Fields
               PROVE  start'[<<i, f>>] <= Counter(i, f) /\ <<i, f>> \in todo'
    BY <1>1 DEF WindowInv, Valid, Counter
  <2>1. i \in Id /\ tracker[i] # Absent
    BY DEF Valid, Absent
  <2>2. start'[<<i, f>>] = Counter(i, f)
    BY <1>1, <2>1
  <2>3. Counter(i, f) \in Nat
    BY CounterType
  <2> QED
    BY <1>1, <2>1, <2>2, <2>3
<1> QED
  BY <1>2, <1>5, <1>6, <1>7 DEF TrackInv

\* A report reads one counter, or follows a bad pointer.
LEMMA ReadStep ==
  ASSUME TrackInv, performance_read
  PROVE  TrackInv'
<1> ObjInv /\ MapInv /\ PointerInv /\ WindowInv
  BY DEF TrackInv
<1>1. /\ Reporting /\ turn' = turn /\ start' = start
      /\ tracker' = tracker /\ obj' = obj /\ adding' = adding /\ threw' = threw
      /\ held' = held /\ now' = now /\ overlapped' = overlapped
  BY DEF performance_read, map
<1>2. PICK x \in todo :
        /\ todo' = todo \ {x}
        /\ Follow(x[1])
        /\ row' = IF crashed' THEN row ELSE [row EXCEPT ![x] = Counter(x[1], x[2])]
  BY DEF performance_read
<1>3. PICK i \in Id, f \in Fields : x = <<i, f>>
  BY DEF MapInv
<1>4. x \in Id \X Fields /\ x[1] = i /\ x[2] = f /\ tracker[i] # Absent
  BY <1>3 DEF MapInv
<1>5. /\ crashed' \in BOOLEAN
      /\ ~crashed' => tracker[i] # Null
      /\ crashed' => tracker[i] = Null \/ adding # {}
  BY <1>2, <1>4 DEF Follow
<1>6. ~crashed' => i \in Valid
  BY <1>4, <1>5 DEF MapInv, Valid, Null, Absent
<1>7. ~crashed' => row' = [row EXCEPT ![x] = Counter(i, f)] /\ Counter(i, f) \in Nat
  BY <1>2, <1>4, <1>6, CounterType
<1>8. ObjInv'
  BY <1>1 DEF ObjInv
<1>9. row' \in [Id \X Fields -> Int]
  <2>1. CASE crashed'
    BY <1>2, <2>1 DEF MapInv
  <2>2. CASE ~crashed'
    BY <1>4, <1>7, <2>2 DEF MapInv
  <2> QED
    BY <1>5, <2>1, <2>2
<1>10. MapInv'
  BY <1>1, <1>2, <1>5, <1>9 DEF MapInv
<1>11. PointerInv'
  BY <1>1, <1>5 DEF PointerInv, Reporting
<1>12. WindowInv'
  <2> SUFFICES ASSUME ~overlapped, NEW j \in Valid, NEW g \in Fields
               PROVE  /\ start[<<j, g>>] <= Counter(j, g)
                      /\ <<j, g>> \notin todo' =>
                           row'[<<j, g>>] \in start[<<j, g>>]..Counter(j, g)
    BY <1>1 DEF WindowInv, Valid, Counter
  <2>1. /\ start[<<j, g>>] <= Counter(j, g)
        /\ <<j, g>> \notin todo => row[<<j, g>>] \in start[<<j, g>>]..Counter(j, g)
    BY <1>1 DEF WindowInv
  <2>2. /\ j \in Id /\ tracker[j] > 0 /\ start[<<j, g>>] \in Int
        /\ <<j, g>> \in Id \X Fields /\ Counter(j, g) \in Nat
    BY CounterType DEF Valid, MapInv
  <2>3. CASE <<j, g>> # x
    <3>1. row'[<<j, g>>] = row[<<j, g>>]
      BY <1>2, <1>4, <2>2, <2>3 DEF MapInv
    <3> QED
      BY <1>2, <2>1, <2>3, <3>1
  <2>4. CASE <<j, g>> = x
    <3>1. j = i /\ g = f
      BY <1>3, <2>4
    <3>2. ~crashed'
      BY <1>1, <1>5, <2>2, <3>1 DEF PointerInv, Null
    <3>3. row'[<<j, g>>] = Counter(j, g)
      BY <1>4, <1>7, <2>4, <3>1, <3>2 DEF MapInv
    <3> QED
      BY <2>1, <2>2, <3>3
  <2> QED
    BY <2>3, <2>4
<1> QED
  BY <1>8, <1>10, <1>11, <1>12 DEF TrackInv

\* Every action keeps the trackers, the map and the report in order.
LEMMA TrackStep == TrackInv /\ [Next]_vars => TrackInv'
<1> SUFFICES ASSUME TrackInv, [Next]_vars PROVE TrackInv'
  OBVIOUS
<1> ObjInv /\ MapInv /\ PointerInv /\ WindowInv
  BY DEF TrackInv
<1>same. ASSUME UNCHANGED <<map, report, held, now, overlapped, crashed>> PROVE TrackInv'
  BY <1>same DEF map, report, TrackInv, ObjInv, MapInv, PointerInv, WindowInv,
     Reporting, Valid, Counter
<1>1. ASSUME NEW m \in Msg, addDiagnosticsMessage(m) PROVE TrackInv'
  BY <1>same, <1>1 DEF addDiagnosticsMessage
<1>2. CASE diagnosticsLevel
  <2>1. /\ turn \in 1..3 /\ turn' = turn + 1
        /\ UNCHANGED <<map, todo, row, start, held, now, overlapped, crashed>>
    BY <1>2, ThreeReports DEF diagnosticsLevel, diagnostics
  <2>2. ~Reporting /\ ~Reporting' /\ turn' \in 1..5
    BY <2>1, ThreeReports DEF Reporting
  <2>3. ObjInv' /\ MapInv'
    BY <2>1, <2>2 DEF map, ObjInv, MapInv
  <2>4. PointerInv' /\ WindowInv'
    BY <2>1, <2>2 DEF map, PointerInv, WindowInv
  <2> QED
    BY <2>3, <2>4 DEF TrackInv
<1>3. CASE diagnosticsPerformance
  BY <1>3, BeginStep
<1>4. CASE performance_read
  BY <1>4, ReadStep
<1>5. CASE performance_end
  <2>1. /\ turn' = 1 /\ row' = [x \in Id \X Fields |-> 0] /\ start' = row' /\ todo' = todo
        /\ UNCHANGED <<map, held, now, overlapped, crashed>>
    BY <1>5 DEF performance_end
  <2>2. ~Reporting'
    BY <2>1, ThreeReports DEF Reporting
  <2>3. row' \in [Id \X Fields -> Int]
    BY <2>1
  <2>4. ObjInv' /\ MapInv'
    BY <2>1, <2>3 DEF map, ObjInv, MapInv
  <2>5. PointerInv' /\ WindowInv'
    BY <2>1, <2>2 DEF map, PointerInv, WindowInv
  <2> QED
    BY <2>4, <2>5 DEF TrackInv
<1>6. ASSUME NEW i \in Id, addTimeTracker(i) PROVE TrackInv'
  BY <1>6, AddStep
<1>7. CASE addTimeTracker_reset
  BY <1>7, ResetStep
<1>8. ASSUME NEW w \in Worker, NEW i \in Id, timeSpanStrakcer(w, i) PROVE TrackInv'
  <2>1. /\ tracker[i] # Absent /\ held' = [held EXCEPT ![w] = tracker[i]]
        /\ overlapped' = (overlapped \/ adding # {})
        /\ UNCHANGED <<map, report, now>> /\ Follow(i)
    BY <1>8 DEF timeSpanStrakcer
  <2>2. crashed' \in BOOLEAN /\ (crashed' => tracker[i] = Null \/ adding # {})
    BY <2>1 DEF Follow
  <2>3. tracker[i] \in Null..Len(obj)
    BY <2>1 DEF MapInv, Null, Absent
  <2>4. ObjInv'
    BY <2>1 DEF map, ObjInv
  <2>5. held' \in [Worker -> Int] /\ \A v \in Worker : held'[v] \in Null..Len(obj)
    BY <2>1, <2>3 DEF MapInv
  <2>6. overlapped' \in BOOLEAN
    BY <2>1
  <2>7. MapInv'
    BY <2>1, <2>2, <2>5, <2>6 DEF map, report, MapInv
  <2>8. PointerInv'
    BY <2>1, <2>2 DEF map, report, PointerInv, Reporting
  <2>9. WindowInv'
    BY <2>1, <2>4, <2>7, StillForward, WindowKept DEF map
  <2> QED
    BY <2>4, <2>7, <2>8, <2>9 DEF TrackInv
<1>9. ASSUME NEW w \in Worker, measure(w) PROVE TrackInv'
  <2>1. UNCHANGED <<report, tracker, adding, threw, overlapped, crashed>>
    BY <1>9 DEF measure
  <2>2. ObjInv' /\ MapInv' /\ Forward
    BY <1>9, MeasureFacts
  <2>3. WindowInv'
    BY <2>1, <2>2, WindowKept
  <2>4. PointerInv'
    BY <2>1 DEF report, PointerInv, Reporting
  <2> QED
    BY <2>2, <2>3, <2>4 DEF TrackInv
<1>10. CASE Tick
  <2>1. now' = now + 1 /\ UNCHANGED <<map, report, held, overlapped, crashed>>
    BY <1>10 DEF Tick
  <2>2. \A g \in 1..Len(obj) : TrackerOK(obj[g], now + 1)
    <3> SUFFICES ASSUME NEW g \in 1..Len(obj) PROVE TrackerOK(obj[g], now + 1)
      OBVIOUS
    <3>1. TrackerOK(obj[g], now) /\ now \in Nat
      BY DEF ObjInv
    <3>2. obj[g].last_tick_ \in Nat
      BY <3>1 DEF TrackerOK, Trackers
    <3>3. obj[g].last_tick_ <= now + 1
      BY <3>1, <3>2 DEF TrackerOK
    <3> QED
      BY <3>1, <3>3 DEF TrackerOK
  <2>3. ObjInv' /\ MapInv'
    BY <2>1, <2>2 DEF map, report, ObjInv, MapInv
  <2>4. PointerInv' /\ WindowInv'
    BY <2>1 DEF map, report, PointerInv, WindowInv, Reporting, Valid, Counter
  <2> QED
    BY <2>3, <2>4 DEF TrackInv
<1>11. CASE UNCHANGED vars
  BY <1>same, <1>11 DEF vars
<1> QED
  BY <1>1, <1>2, <1>3, <1>4, <1>5, <1>6, <1>7, <1>8, <1>9, <1>10, <1>11
     DEF Next, UpdaterStep

\* The initial states satisfy the invariant of the trackers.
LEMMA TrackInit == Init => TrackInv
<1> SUFFICES ASSUME Init PROVE TrackInv
  OBVIOUS
<1>1. ObjInv
  BY DiagnosticsAssumption DEF Init, ObjInv
<1>2. obj = <<>> /\ Len(obj) = 0
  BY DEF Init
<1>3. MapInv
  <2>1. tracker \in [Id -> Int] /\ \A i \in Id : tracker[i] \in Absent..Len(obj)
    BY <1>2 DEF Init, Absent
  <2>2. held \in [Worker -> Int] /\ \A w \in Worker : held[w] \in Null..Len(obj)
    BY <1>2 DEF Init, Null
  <2>3. row \in [Id \X Fields -> Int] /\ start \in [Id \X Fields -> Int]
    BY DEF Init
  <2>4. turn \in 1..5 /\ todo = {} /\ adding = {}
    BY DEF Init
  <2> QED
    BY <2>1, <2>2, <2>3, <2>4 DEF Init, MapInv
<1>4. ~Reporting
  BY ThreeReports DEF Init, Reporting
<1>5. PointerInv /\ WindowInv
  BY <1>4 DEF Init, PointerInv, WindowInv, Absent, Null
<1> QED
  BY <1>1, <1>3, <1>5 DEF TrackInv

\* The queue, the map and the trackers always have their types: the window of a
\* tracker is never exceeded and its counters are in order, through any calls.
THEOREM TypeCorrect == Spec => []TypeOK
<1>1. QueueInv /\ TrackInv => TypeOK
  <2> SUFFICES ASSUME QueueInv, ObjInv, MapInv PROVE TypeOK
    BY DEF TrackInv
  <2>1. status \in Seq(Msg) /\ posted \subseteq Msg /\ shown \subseteq Msg
    BY DEF QueueInv
  <2>2. tracker \in [Id -> Absent..MaxGen] /\ \A i \in Id : tracker[i] <= Len(obj)
    BY DiagnosticsAssumption DEF MapInv, ObjInv, Absent
  <2>3. held \in [Worker -> Null..MaxGen]
    BY DiagnosticsAssumption DEF MapInv, ObjInv, Null
  <2>4. turn \in 1..(Len(Reports) + 2)
    BY ThreeReports DEF MapInv
  <2>5. ASSUME NEW g \in DOMAIN obj
        PROVE  /\ obj[g].mode_ \in Modes
               /\ obj[g].missed_cycles_ \in 0..obj[g].cycles_
               /\ Len(obj[g].buffer_) <= Window(obj[g])
               /\ obj[g].mode_ = "TIME_SPAN" => obj[g].cycles_ > 0
               /\ obj[g].last_tick_ <= now
    <3>1. TrackerOK(obj[g], now)
      BY <2>5 DEF ObjInv
    <3>2. obj[g].mode_ \in Modes /\ obj[g].missed_cycles_ \in Nat /\ obj[g].cycles_ \in Nat
      BY <3>1 DEF TrackerOK, Trackers
    <3> QED
      BY <3>1, <3>2 DEF TrackerOK
  <2> QED
    BY <2>1, <2>2, <2>3, <2>4, <2>5 DEF TypeOK
<1> QED
  BY <1>1, QueueInit, QueueStep, TrackInit, TrackStep, PTL DEF Spec

\* A report or a lookup meets a bad pointer only beside an addTimeTracker, or
\* after one whose constructor has thrown, whatever the threads do.
THEOREM CrashExplainedHolds == Spec => []CrashExplained
<1>1. TrackInv => CrashExplained
  BY DEF TrackInv, PointerInv, CrashExplained
<1> QED
  BY <1>1, TrackInit, TrackStep, PTL DEF Spec

\* In whatever order a performance report reads the counters of its trackers
\* while workers measure, each one it shows lies between its values at the
\* beginning and at the end, unless a tracker was added meanwhile.
THEOREM ReportInWindowHolds == Spec => []ReportInWindow
<1>1. TrackInv => ReportInWindow
  BY DEF TrackInv, WindowInv, ReportInWindow
<1> QED
  BY <1>1, TrackInit, TrackStep, PTL DEF Spec

\* Each cycle that a tracker counts as missed took more than 1.2 nominal spans
\* that no other one took, for any period and through any calls.
THEOREM MissedTookTimeHolds == Spec => []MissedTookTime
<1>1. TrackInv => MissedTookTime
  <2> SUFFICES ASSUME ObjInv, NEW g \in DOMAIN obj
               PROVE  6 * obj[g].nominal_time_span_ * obj[g].missed_cycles_
                        <= 5 * obj[g].last_tick_
    BY DEF TrackInv, MissedTookTime
  <2>1. TrackerOK(obj[g], now)
    BY DEF ObjInv
  <2> DEFINE n == obj[g].nominal_time_span_
             c == obj[g].missed_cycles_
  <2>2. n \in Nat /\ c \in Nat /\ 6 * (n * c) <= 5 * obj[g].last_tick_
    BY <2>1 DEF TrackerOK, Trackers, Paid
  <2> HIDE DEF n, c
  <2>3. 6 * (n * c) = 6 * n * c
    BY <2>2
  <2> QED
    BY <2>2, <2>3 DEF n, c
<1> QED
  BY <1>1, TrackInit, TrackStep, PTL DEF Spec

\* The spans in the window of a tracker never add up to more than the time of the
\* clock, and to all of it in TIME_SPAN mode until the window is full, for any
\* window and period and through any calls.
THEOREM SpansTileHolds == Spec => []SpansTile
<1>1. TrackInv => SpansTile
  <2> SUFFICES ASSUME ObjInv, NEW g \in DOMAIN obj
               PROVE  /\ getMean(obj[g])[1] <= obj[g].last_tick_
                      /\ obj[g].mode_ = "TIME_SPAN" /\ obj[g].cycles_ = getMean(obj[g])[2] =>
                           getMean(obj[g])[1] = obj[g].last_tick_
    BY DEF TrackInv, SpansTile
  <2>1. Tiled(obj[g])
    BY DEF ObjInv, TrackerOK
  <2> QED
    BY <2>1 DEF Tiled, getMean, mean
<1> QED
  BY <1>1, TrackInit, TrackStep, PTL DEF Spec

\* The statistics of a tracker bracket each other, whatever its window holds: the
\* size of the window times the minimum, the sum, and the size times the maximum.
LEMMA StatsOfWindow ==
  ASSUME NEW s \in Seq(Int)
  PROVE  min(s) * Len(s) <= Total(s) /\ Total(s) <= max(s) * Len(s)
<1> DEFINE V == {0} \cup ToSet(s)
<1>1. PICK lo, hi \in V : \A y \in V : lo <= y /\ y <= hi
  BY Extremes
<1>2. V \subseteq Int /\ \A i \in 1..Len(s) : s[i] \in V
  BY DEF ToSet
<1> HIDE DEF V
<1>3. min(s) \in V /\ \A y \in V : min(s) <= y
  BY <1>1, <1>2 DEF min, Min, V
<1>4. max(s) \in V /\ \A y \in V : y <= max(s)
  BY <1>1, <1>2 DEF max, Max, V
<1>5. min(s) \in Int /\ max(s) \in Int
  BY <1>2, <1>3, <1>4
<1>6. \A i \in 1..Len(s) : min(s) <= s[i] /\ s[i] <= max(s)
  BY <1>2, <1>3, <1>4
<1> HIDE DEF min, max
<1> QED
  BY <1>5, <1>6, TotalBounds

\* What a tracker says agrees with the clock and with itself, for any periods and
\* windows and any calls of time_span, tick and tock by any threads.
THEOREM TimeAccountedHolds == Spec => []TimeAccounted
<1>1. TrackInv => StatsBracket
  <2> SUFFICES ASSUME ObjInv, NEW g \in DOMAIN obj
               PROVE  /\ getMin(obj[g]) * getMean(obj[g])[2] <= getMean(obj[g])[1]
                      /\ getMean(obj[g])[1] <= getMax(obj[g]) * getMean(obj[g])[2]
    BY DEF TrackInv, StatsBracket
  <2>1. obj[g] \in Trackers
    BY DEF ObjInv, TrackerOK
  <2>2. obj[g].buffer_ \in Seq(Int)
    BY <2>1 DEF Trackers
  <2> QED
    BY <2>2, StatsOfWindow DEF getMean, getMin, getMax, mean
<1>2. Spec => []StatsBracket
  BY <1>1, TrackInit, TrackStep, PTL DEF Spec
<1> QED
  BY <1>2, SpansTileHolds, MissedTookTimeHolds, PTL DEF TimeAccounted
=============================================================================
