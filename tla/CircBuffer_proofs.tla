--------------------------- MODULE CircBuffer_proofs ---------------------------
(***************************************************************************)
(* Proofs about circ_buffer, for any threads, calls and capacities.        *)
(***************************************************************************)
EXTENDS CircBuffer, TLAPS

-----------------------------------------------------------------------------
(* What the operations of the buffer return.                               *)

\* The elements of a sequence lie between lo and hi and grow.
Sorted(s, lo, hi) ==
  /\ \A i \in 1..Len(s) : s[i] >= lo /\ s[i] <= hi
  /\ \A i, j \in 1..Len(s) : i < j => s[i] < s[j]

\* Dropping the first element keeps the order.
LEMMA TailSorted ==
  ASSUME NEW s \in Seq(Int), s # <<>>, NEW lo \in Int, NEW hi \in Int, Sorted(s, lo, hi)
  PROVE  Tail(s) \in Seq(Int) /\ Len(Tail(s)) = Len(s) - 1 /\ Sorted(Tail(s), lo, hi)
<1>1. /\ Tail(s) \in Seq(Int)
      /\ Len(Tail(s)) = Len(s) - 1
      /\ \A i \in 1..Len(Tail(s)) : Tail(s)[i] = s[i + 1] /\ i + 1 \in 1..Len(s)
  OBVIOUS
<1> QED
  BY <1>1 DEF Sorted

\* So does keeping the first n elements.
LEMMA PrefixSorted ==
  ASSUME NEW s \in Seq(Int), NEW n \in 0..Len(s), NEW lo \in Int, NEW hi \in Int,
         Sorted(s, lo, hi)
  PROVE  /\ SubSeq(s, 1, n) \in Seq(Int)
         /\ Len(SubSeq(s, 1, n)) = n
         /\ Sorted(SubSeq(s, 1, n), lo, hi)
<1>1. /\ SubSeq(s, 1, n) \in Seq(Int)
      /\ Len(SubSeq(s, 1, n)) = n
      /\ \A i \in 1..n : SubSeq(s, 1, n)[i] = s[i] /\ i \in 1..Len(s)
  OBVIOUS
<1> QED
  BY <1>1 DEF Sorted

\* A larger element may be appended.
LEMMA AppendSorted ==
  ASSUME NEW s \in Seq(Int), NEW lo \in Int, NEW hi \in Int, Sorted(s, lo, hi), lo <= hi
  PROVE  /\ Append(s, hi + 1) \in Seq(Int)
         /\ Len(Append(s, hi + 1)) = Len(s) + 1
         /\ Sorted(Append(s, hi + 1), lo, hi + 1)
<1>1. /\ Append(s, hi + 1) \in Seq(Int)
      /\ Len(Append(s, hi + 1)) = Len(s) + 1
      /\ \A i \in 1..Len(s) : Append(s, hi + 1)[i] = s[i]
      /\ Append(s, hi + 1)[Len(s) + 1] = hi + 1
      /\ \A i \in 1..Len(s) : s[i] \in Int
  OBVIOUS
<1> QED
  BY <1>1 DEF Sorted

\* A smaller element may be put in front.
LEMMA PrependSorted ==
  ASSUME NEW s \in Seq(Int), NEW lo \in Int, NEW hi \in Int, Sorted(s, lo, hi), lo <= hi
  PROVE  /\ <<lo - 1>> \o s \in Seq(Int)
         /\ Len(<<lo - 1>> \o s) = Len(s) + 1
         /\ Sorted(<<lo - 1>> \o s, lo - 1, hi)
<1> DEFINE u == <<lo - 1>> \o s
<1>1. /\ u \in Seq(Int)
      /\ Len(u) = Len(s) + 1
      /\ u[1] = lo - 1
      /\ \A i \in 2..Len(s) + 1 : u[i] = s[i - 1] /\ i - 1 \in 1..Len(s)
      /\ \A i \in 1..Len(s) : s[i] \in Int
      /\ Len(s) \in Nat
  OBVIOUS
<1> HIDE DEF u
<1>2. ASSUME NEW i \in 1..Len(u), i # 1
      PROVE  \E k \in 1..Len(s) : k = i - 1 /\ u[i] = s[k]
  <2>1. i \in 2..Len(s) + 1
    BY <1>1, <1>2
  <2> QED
    BY <1>1, <2>1
<1>3. ASSUME NEW i \in 1..Len(u) PROVE u[i] >= lo - 1 /\ u[i] <= hi
  <2>1. CASE i = 1
    BY <1>1, <2>1
  <2>2. CASE i # 1
    <3>1. PICK k \in 1..Len(s) : k = i - 1 /\ u[i] = s[k]
      BY <1>2, <2>2
    <3>2. s[k] \in Int /\ s[k] >= lo /\ s[k] <= hi
      BY <1>1 DEF Sorted
    <3> QED
      BY <3>1, <3>2
  <2> QED
    BY <2>1, <2>2
<1>4. ASSUME NEW i \in 1..Len(u), NEW j \in 1..Len(u), i < j PROVE u[i] < u[j]
  <2>1. i \in Int /\ j \in Int /\ i >= 1 /\ j # 1
    BY <1>1, <1>4
  <2>2. PICK k \in 1..Len(s) : k = j - 1 /\ u[j] = s[k]
    BY <1>2, <2>1
  <2>3. s[k] \in Int /\ s[k] >= lo
    BY <1>1 DEF Sorted
  <2>4. CASE i = 1
    BY <1>1, <2>2, <2>3, <2>4
  <2>5. CASE i # 1
    <3>1. PICK m \in 1..Len(s) : m = i - 1 /\ u[i] = s[m]
      BY <1>2, <2>5
    <3>2. m < k
      BY <1>4, <2>1, <2>2, <3>1
    <3> QED
      BY <2>2, <3>1, <3>2 DEF Sorted
  <2> QED
    BY <2>4, <2>5
<1>5. Sorted(u, lo - 1, hi)
  BY <1>3, <1>4 DEF Sorted
<1> QED
  BY <1>1, <1>5 DEF u

-----------------------------------------------------------------------------
(* The inductive invariant.                                                *)

\* The elements are numbers of pushes that were made, in order.
ElemInv == Sorted(cb, -nfront, nback)

\* A thread that sleeps, or has just been woken, is in a call of its program.
SleepInv ==
  \A t \in Thread : pc[t] \in {"waiting", "woken"} =>
    op[t] \in {"front", "back"} /\ op[t] \in Calls[t]

IInv == TypeOK /\ ElemInv /\ SleepInv /\ NotAllAsleep

\* What a change of the buffer must keep.
BufferOK(s, c, lo, hi) == s \in Seq(Int) /\ Len(s) <= c /\ Sorted(s, lo, hi)

\* notify_one wakes one sleeping thread, if there is one.
LEMMA NotifyFacts ==
  ASSUME TypeOK, SleepInv, NotifyOne
  PROVE  /\ pc' \in [Thread -> {"idle", "waiting", "woken", "holding"}]
         /\ \A t \in Thread : pc'[t] = pc[t] \/ (pc[t] = "waiting" /\ pc'[t] = "woken")
         /\ Reader # {} => \E r \in Reader : pc'[r] # "waiting"
<1>1. CASE \A t \in Thread : pc[t] # "waiting"
  BY <1>1 DEF NotifyOne, TypeOK, Reader
<1>2. ASSUME NEW t \in Thread, pc[t] = "waiting", pc' = [pc EXCEPT ![t] = "woken"]
      PROVE  /\ pc' \in [Thread -> {"idle", "waiting", "woken", "holding"}]
             /\ \A u \in Thread : pc'[u] = pc[u] \/ (pc[u] = "waiting" /\ pc'[u] = "woken")
             /\ \E r \in Reader : pc'[r] # "waiting"
  <2>1. t \in Reader /\ pc'[t] = "woken"
    BY <1>2 DEF SleepInv, Reader, TypeOK
  <2> QED
    BY <1>2, <2>1 DEF TypeOK
<1> QED
  BY <1>1, <1>2 DEF NotifyOne

\* Losing references keeps their types.
LEMMA RefFacts ==
  ASSUME TypeOK, KeepRefs \/ LoseRefs
  PROVE  ref' \in [Thread -> Int \cup {NoElem, Lost}]
  BY DEF TypeOK, KeepRefs, LoseRefs

\* push_back and push_front keep the capacity and the order.
LEMMA PushFacts ==
  ASSUME TypeOK, ElemInv
  PROVE  /\ BufferOK(PushedBack(nback + 1), cap, -nfront, nback + 1)
         /\ BufferOK(PushedFront(-(nfront + 1)), cap, -(nfront + 1), nback)
<1> USE DEF TypeOK, ElemInv, BufferOK, Full
<1>1. /\ nback \in Nat /\ nfront \in Nat /\ cap \in Nat /\ Len(cb) \in Nat
      /\ -nfront \in Int /\ nback \in Int /\ -nfront <= nback
      /\ -(nfront + 1) = -nfront - 1
  OBVIOUS
<1>2. CASE cap = 0
  <2>1. Sorted(cb, -nfront, nback + 1) /\ Sorted(cb, -(nfront + 1), nback)
    BY <1>1, <1>2 DEF Sorted
  <2> QED
    BY <1>2, <2>1 DEF PushedBack, PushedFront
<1>3. CASE cap # 0 /\ ~Full
  BY <1>1, <1>3, AppendSorted, PrependSorted DEF PushedBack, PushedFront
<1>4. CASE cap # 0 /\ Full
  <2>1. cb # <<>> /\ Len(cb) - 1 \in 0..Len(cb)
    BY <1>1, <1>4
  <2> DEFINE rest == Tail(cb)
             init == SubSeq(cb, 1, Len(cb) - 1)
  <2>2. rest \in Seq(Int) /\ Len(rest) = Len(cb) - 1 /\ Sorted(rest, -nfront, nback)
    BY <1>1, <2>1, TailSorted
  <2>3. init \in Seq(Int) /\ Len(init) = Len(cb) - 1 /\ Sorted(init, -nfront, nback)
    BY <1>1, <2>1, PrefixSorted
  <2> HIDE DEF rest, init
  <2>4. BufferOK(Append(rest, nback + 1), cap, -nfront, nback + 1)
    BY <1>1, <1>4, <2>2, AppendSorted
  <2>5. BufferOK(<<-nfront - 1>> \o init, cap, -nfront - 1, nback)
    BY <1>1, <1>4, <2>3, PrependSorted
  <2> QED
    BY <1>1, <1>4, <2>4, <2>5 DEF PushedBack, PushedFront, rest, init
<1> QED
  BY <1>2, <1>3, <1>4

\* Every step keeps the invariant.
LEMMA Step == IInv /\ [Next]_vars => IInv'
<1> SUFFICES ASSUME IInv, [Next]_vars PROVE IInv'
  OBVIOUS
<1> USE BufferAssumption DEF IInv
<1>1. ASSUME NEW t \in Thread, push_back(t) PROVE IInv'
  <2>1. BufferOK(cb', cap', -nfront', nback')
    BY <1>1, PushFacts DEF push_back
  <2>2. TypeOK' /\ ElemInv'
    BY <1>1, <2>1, NotifyFacts, RefFacts DEF push_back, TypeOK, ElemInv, BufferOK
  <2>3. SleepInv' /\ NotAllAsleep'
    BY <1>1, NotifyFacts DEF push_back, SleepInv, NotAllAsleep
  <2> QED
    BY <2>2, <2>3
<1>2. ASSUME NEW t \in Thread, push_front(t) PROVE IInv'
  <2>1. BufferOK(cb', cap', -nfront', nback')
    BY <1>2, PushFacts DEF push_front
  <2>2. TypeOK' /\ ElemInv'
    BY <1>2, <2>1, NotifyFacts, RefFacts DEF push_front, TypeOK, ElemInv, BufferOK
  <2>3. SleepInv' /\ NotAllAsleep'
    BY <1>2, NotifyFacts DEF push_front, SleepInv, NotAllAsleep
  <2> QED
    BY <2>2, <2>3
<1>3. ASSUME NEW t \in Thread, NEW c \in {"front", "back"}, NEW i \in Nat, Looks(t, c),
             cb # <<>> => i \in 1..Len(cb),
             IF cb = <<>> THEN Sleep(t, c) ELSE ReturnRef(t, cb[i]),
             UNCHANGED <<cb, cap, nback, nfront>>
      PROVE  IInv'
  <2>1. c \in Calls[t] /\ t \in Reader
    BY <1>3 DEF Looks, Makes, SleepInv, Reader
  <2>2. CASE cb = <<>>
    BY <1>3, <2>1, <2>2 DEF Sleep, TypeOK, ElemInv, SleepInv, NotAllAsleep
  <2>3. CASE cb # <<>>
    <3>1. cb[i] \in Int
      BY <1>3, <2>3 DEF TypeOK
    <3>2. TypeOK' /\ ElemInv' /\ SleepInv'
      BY <1>3, <2>3, <3>1 DEF ReturnRef, TypeOK, ElemInv, SleepInv
    <3>3. pc'[t] # "waiting"
      BY <1>3, <2>3 DEF ReturnRef, TypeOK
    <3> QED
      BY <2>1, <3>2, <3>3 DEF NotAllAsleep
  <2> QED
    BY <2>2, <2>3
<1>4. ASSUME NEW t \in Thread, front(t) PROVE IInv'
  <2>1. cb # <<>> => 1 \in 1..Len(cb)
    BY DEF TypeOK
  <2> QED
    BY <1>3, <1>4, <2>1 DEF front
<1>5. ASSUME NEW t \in Thread, back(t) PROVE IInv'
  <2>1. Len(cb) \in Nat /\ (cb # <<>> => Len(cb) \in 1..Len(cb))
    BY DEF TypeOK
  <2> QED
    BY <1>3, <1>5, <2>1 DEF back
<1>6. ASSUME NEW t \in Thread, use(t) PROVE IInv'
  BY <1>6 DEF use, TypeOK, ElemInv, SleepInv, NotAllAsleep
<1>7. ASSUME NEW t \in Thread, pop_front(t) PROVE IInv'
  <2>1. Len(cb) \in Nat /\ -nfront \in Int /\ nback \in Int
    BY DEF TypeOK
  <2>2. BufferOK(cb', cap', -nfront', nback')
    BY <1>7, <2>1, TailSorted DEF pop_front, TypeOK, ElemInv, BufferOK
  <2>3. TypeOK' /\ ElemInv'
    BY <1>7, <2>2, RefFacts DEF pop_front, TypeOK, ElemInv, BufferOK
  <2> QED
    BY <1>7, <2>3 DEF pop_front, SleepInv, NotAllAsleep
<1>8. ASSUME NEW t \in Thread, clear(t) PROVE IInv'
  <2>1. TypeOK' /\ ElemInv'
    BY <1>8, RefFacts DEF clear, TypeOK, ElemInv, Sorted
  <2> QED
    BY <1>8, <2>1 DEF clear, SleepInv, NotAllAsleep
<1>9. ASSUME NEW t \in Thread, NEW n \in Capacity, set_capacity(t, n) PROVE IInv'
  <2>1. n \in Nat /\ Len(cb) \in Nat /\ -nfront \in Int /\ nback \in Int
    BY DEF TypeOK
  <2>2. BufferOK(Resized(n), n, -nfront, nback) /\ (Resized(n) # <<>> => cb # <<>>)
    <3>1. CASE n < Len(cb)
      BY <2>1, <3>1, PrefixSorted DEF Resized, BufferOK, TypeOK, ElemInv
    <3>2. CASE ~(n < Len(cb))
      BY <2>1, <3>2 DEF Resized, BufferOK, TypeOK, ElemInv
    <3> QED
      BY <3>1, <3>2
  <2>3. TypeOK' /\ ElemInv'
    BY <1>9, <2>1, <2>2, RefFacts DEF set_capacity, TypeOK, ElemInv, BufferOK
  <2> QED
    BY <1>9, <2>2, <2>3 DEF set_capacity, SleepInv, NotAllAsleep
<1>10. ASSUME NEW t \in Thread, spurious_wakeup(t) PROVE IInv'
  BY <1>10 DEF spurious_wakeup, TypeOK, ElemInv, SleepInv, NotAllAsleep
<1>11. CASE UNCHANGED vars
  BY <1>11 DEF vars, TypeOK, ElemInv, SleepInv, NotAllAsleep
<1> QED
  BY <1>1, <1>2, <1>4, <1>5, <1>6, <1>7, <1>8, <1>9, <1>10, <1>11 DEF Next

\* The initial states satisfy it.
LEMMA Start == Init => IInv
  BY BufferAssumption DEF Init, IInv, TypeOK, ElemInv, Sorted, SleepInv, NotAllAsleep

\* The buffer never holds more than its capacity and the threads are always in
\* one of the states of their calls.
THEOREM TypeCorrect == Spec => []TypeOK
<1>1. IInv => TypeOK
  BY DEF IInv
<1> QED
  BY <1>1, Start, Step, PTL DEF Spec

\* Beside a non-empty buffer some reader of front or back is awake, however
\* many readers there are.
THEOREM SomeReaderAwake == Spec => []NotAllAsleep
<1>1. IInv => NotAllAsleep
  BY DEF IInv
<1> QED
  BY <1>1, Start, Step, PTL DEF Spec

\* The elements of the buffer are always in the order of their pushes.
THEOREM PushOrder == Spec => []InOrder
<1>1. IInv => InOrder
  BY DEF IInv, ElemInv, Sorted, InOrder
<1> QED
  BY <1>1, Start, Step, PTL DEF Spec

-----------------------------------------------------------------------------
(* When a reference that front or back returned stays valid.               *)

\* While some thread holds a reference nobody pops, clears or resizes the
\* buffer, and nobody pushes into it when it is full.
Careful ==
  (\E t \in Thread : ref[t] # NoElem) =>
    \A u \in Thread :
      /\ ~pop_front(u)
      /\ ~clear(u)
      /\ \A n \in Capacity : ~set_capacity(u, n)
      /\ Full => ~push_back(u) /\ ~push_front(u)

\* Every reference is to an element that is in the buffer.
HeldInv == \A t \in Thread : ref[t] = NoElem \/ Holds(cb, ref[t])

\* A push into a buffer with room keeps every element.
LEMMA PushKeeps ==
  ASSUME TypeOK, ~Full, NEW e \in Int, NEW x, Holds(cb, x)
  PROVE  Holds(PushedBack(e), x) /\ Holds(PushedFront(e), x)
<1>1. PICK i \in 1..Len(cb) : cb[i] = x
  BY DEF Holds
<1>2. cap # 0 /\ Len(cb) \in Nat /\ cb \in Seq(Int)
  BY DEF TypeOK
<1>3. i \in 1..Len(Append(cb, e)) /\ Append(cb, e)[i] = x
  BY <1>1, <1>2
<1>4. i + 1 \in 1..Len(<<e>> \o cb) /\ (<<e>> \o cb)[i + 1] = x
  BY <1>1, <1>2
<1>5. PushedBack(e) = Append(cb, e) /\ PushedFront(e) = <<e>> \o cb
  BY <1>2 DEF PushedBack, PushedFront
<1> QED
  BY <1>3, <1>4, <1>5 DEF Holds

\* A change of the buffer that keeps the elements somebody refers to keeps the
\* references.
LEMMA RefsKept ==
  ASSUME TypeOK, HeldInv, KeepRefs,
         \A t \in Thread : ref[t] # NoElem => Holds(cb', ref[t])
  PROVE  HeldInv'
<1>1. \A t \in Thread : ref'[t] = ref[t]
  BY DEF KeepRefs
<1> QED
  BY <1>1 DEF HeldInv

\* front and back return a reference to an element; nothing else that leaves
\* the buffer alone makes one.
LEMMA ReadsKeep ==
  ASSUME TypeOK, HeldInv, NEW t \in Thread,
         front(t) \/ back(t) \/ use(t) \/ spurious_wakeup(t)
  PROVE  HeldInv'
<1>1. cb' = cb
  BY DEF front, back, use, spurious_wakeup
<1>2. cb # <<>> => Holds(cb, cb[1]) /\ Holds(cb, cb[Len(cb)])
  BY DEF Holds, TypeOK
<1>3. \A u \in Thread : \/ ref'[u] = ref[u]
                        \/ ref'[u] = NoElem
                        \/ cb # <<>> /\ ref'[u] \in {cb[1], cb[Len(cb)]}
  BY DEF front, back, use, spurious_wakeup, Sleep, ReturnRef, TypeOK
<1> QED
  BY <1>1, <1>2, <1>3 DEF HeldInv

\* Careful steps keep the references.
LEMMA CarefulStep ==
  ASSUME IInv, HeldInv, [Next]_vars, [Careful]_vars
  PROVE  HeldInv'
<1> USE DEF IInv
<1>1. CASE UNCHANGED vars
  BY <1>1 DEF vars, HeldInv
<1>2. CASE (\E t \in Thread : ref[t] # NoElem) /\ Next /\ Careful
  <2>1. ASSUME NEW t \in Thread, push_back(t) PROVE HeldInv'
    <3>1. ~Full /\ cb' = PushedBack(nback + 1) /\ nback + 1 \in Int
      BY <1>2, <2>1 DEF Careful, push_back, TypeOK
    <3>2. \A u \in Thread : ref[u] # NoElem => Holds(cb', ref[u])
      BY <3>1, PushKeeps DEF HeldInv
    <3> QED
      BY <2>1, <3>2, RefsKept DEF push_back
  <2>2. ASSUME NEW t \in Thread, push_front(t) PROVE HeldInv'
    <3>1. ~Full /\ cb' = PushedFront(-(nfront + 1)) /\ -(nfront + 1) \in Int
      BY <1>2, <2>2 DEF Careful, push_front, TypeOK
    <3>2. \A u \in Thread : ref[u] # NoElem => Holds(cb', ref[u])
      BY <3>1, PushKeeps DEF HeldInv
    <3> QED
      BY <2>2, <3>2, RefsKept DEF push_front
  <2> QED
    BY <1>2, <2>1, <2>2, ReadsKeep DEF Next, Careful
<1>3. CASE (\A t \in Thread : ref[t] = NoElem) /\ Next
  <2>1. ASSUME KeepRefs \/ LoseRefs PROVE HeldInv'
    BY <1>3, <2>1 DEF KeepRefs, LoseRefs, HeldInv
  <2> QED
    BY <1>3, <2>1, ReadsKeep DEF Next, push_back, push_front, pop_front, clear, set_capacity
<1> QED
  BY <1>1, <1>2, <1>3

\* A thread finds through the reference of front or back the element that it
\* was made for as long as, while it holds one, the others only read the buffer
\* or push into room that is left: what the class leaves to its callers.
THEOREM CarefulReferences == Spec /\ [][Careful]_vars => []ReferenceStaysValid
<1>1. Init => HeldInv
  BY DEF Init, HeldInv
<1>2. IInv /\ HeldInv => ReferenceStaysValid
  <2>1. TypeOK => \A i \in 1..Len(cb) : cb[i] \in Int
    BY DEF TypeOK
  <2>2. TypeOK => \A x : Holds(cb, x) => x \in Int
    BY <2>1 DEF Holds
  <2> QED
    BY <2>2, BufferAssumption DEF IInv, HeldInv, ReferenceStaysValid
<1>3. IInv /\ HeldInv /\ [Next]_vars /\ [Careful]_vars => HeldInv'
  BY CarefulStep
<1> QED
  BY <1>1, <1>2, <1>3, Start, Step, PTL DEF Spec
=============================================================================
