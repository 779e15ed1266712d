------------------------------ MODULE CircBuffer ------------------------------
(***************************************************************************)
(* class circ_buffer of circular_buffer.h: a boost::circular_buffer with a *)
(* mutex and a condition variable that a reader of an empty buffer sleeps  *)
(* on.                                                                     *)
(*                                                                         *)
(* Every call is one critical section, its notification included, and so   *)
(* one step; front and back may sleep in the middle.  They return a        *)
(* reference into the buffer, which the caller follows after the lock is   *)
(* gone.  circ_buffer_stamped is the same buffer with stamped elements.    *)
(*                                                                         *)
(* An element is the number of its push: 1, 2, ... from the back and       *)
(* -1, -2, ... from the front.  size, empty and full change nothing.       *)
(***************************************************************************)
EXTENDS Integers, Sequences

CONSTANTS
  Thread,    \* the threads that share the buffer
  Calls,     \* Calls[t]: the calls the program of t makes
  Capacity,  \* the capacities given to the constructor and to set_capacity
  MaxPush,   \* bound on the pushes from each end, for model checking
  NoElem,    \* no reference is held
  Lost       \* a reference to what is not the element it was made for

CallNames == {"push_back", "push_front", "front", "back", "pop_front", "clear",
              "set_capacity"}

ASSUME BufferAssumption ==
  /\ Calls \in [Thread -> SUBSET CallNames]
  /\ Capacity \subseteq Nat
  /\ MaxPush \in Nat
  /\ NoElem \notin Int
  /\ Lost \notin Int
  /\ Lost # NoElem

\* The threads that may sleep on the condition variable.
Reader == {t \in Thread : Calls[t] \cap {"front", "back"} # {}}

VARIABLES
  cb,       \* the elements, the oldest push_back first
  cap,      \* the capacity
  nback,    \* the pushes from the back so far
  nfront,   \* the pushes from the front so far
  pc,       \* where each thread is
  op,       \* the call it sleeps in
  ref       \* what the reference it holds refers to

vars == <<cb, cap, nback, nfront, pc, op, ref>>

\* A buffer of capacity n; the default constructor makes one of capacity 0.
Init ==
  /\ cb = <<>>
  /\ cap \in Capacity \cup {0}
  /\ nback = 0
  /\ nfront = 0
  /\ pc = [t \in Thread |-> "idle"]
  /\ op = [t \in Thread |-> "none"]
  /\ ref = [t \in Thread |-> NoElem]

-----------------------------------------------------------------------------
(* boost::circular_buffer and the condition variable.                      *)

Full == Len(cb) = cap
Holds(s, e) == \E i \in 1..Len(s) : s[i] = e

\* A full buffer overwrites the element at the other end; one without capacity
\* ignores the push.
PushedBack(e) ==
  IF cap = 0 THEN cb
  ELSE IF Full THEN Append(Tail(cb), e) ELSE Append(cb, e)

PushedFront(e) ==
  IF cap = 0 THEN cb
  ELSE <<e>> \o (IF Full THEN SubSeq(cb, 1, Len(cb) - 1) ELSE cb)

\* Shrinking keeps the elements at the front.
Resized(n) == IF n < Len(cb) THEN SubSeq(cb, 1, n) ELSE cb

\* A reference is lost when the slot of its element is overwritten or freed.
KeepRefs == ref' = [t \in Thread |-> IF ref[t] = NoElem \/ Holds(cb', ref[t])
                                     THEN ref[t] ELSE Lost]

\* New storage: no reference survives.
LoseRefs == ref' = [t \in Thread |-> IF ref[t] = NoElem THEN NoElem ELSE Lost]

NotifyOne ==
  IF \E t \in Thread : pc[t] = "waiting"
  THEN \E t \in Thread : pc[t] = "waiting" /\ pc' = [pc EXCEPT ![t] = "woken"]
  ELSE UNCHANGED pc

-----------------------------------------------------------------------------
(* The calls.                                                              *)

Makes(t, c) == pc[t] = "idle" /\ c \in Calls[t]

\* Mutant of push_back: the element goes to the wrong end.
push_back_front(t) ==
  /\ Makes(t, "push_back")
  /\ nback < MaxPush
  /\ nback' = nback + 1
  /\ cb' = PushedFront(nback')
  /\ KeepRefs
  /\ NotifyOne
  /\ UNCHANGED <<cap, nfront, op>>

push_back(t) ==
  /\ Makes(t, "push_back")
  /\ nback < MaxPush
  /\ nback' = nback + 1
  /\ cb' = PushedBack(nback')
  /\ KeepRefs
  /\ NotifyOne
  /\ UNCHANGED <<cap, nfront, op>>

\* Mutant of push_front: nobody is notified.
push_front_silent(t) ==
  /\ Makes(t, "push_front")
  /\ nfront < MaxPush
  /\ nfront' = nfront + 1
  /\ cb' = PushedFront(-nfront')
  /\ KeepRefs
  /\ UNCHANGED <<cap, nback, op, pc>>

push_front(t) ==
  /\ Makes(t, "push_front")
  /\ nfront < MaxPush
  /\ nfront' = nfront + 1
  /\ cb' = PushedFront(-nfront')
  /\ KeepRefs
  /\ NotifyOne
  /\ UNCHANGED <<cap, nback, op>>

\* t has the lock in call c, for the first time or after a sleep.
Looks(t, c) == Makes(t, c) \/ (pc[t] = "woken" /\ op[t] = c)

Sleep(t, c) ==
  /\ pc' = [pc EXCEPT ![t] = "waiting"]
  /\ op' = [op EXCEPT ![t] = c]
  /\ UNCHANGED ref

ReturnRef(t, e) ==
  /\ pc' = [pc EXCEPT ![t] = "holding"]
  /\ op' = [op EXCEPT ![t] = "none"]
  /\ ref' = [ref EXCEPT ![t] = e]

front(t) ==
  /\ Looks(t, "front")
  /\ IF cb = <<>> THEN Sleep(t, "front") ELSE ReturnRef(t, cb[1])
  /\ UNCHANGED <<cb, cap, nback, nfront>>

back(t) ==
  /\ Looks(t, "back")
  /\ IF cb = <<>> THEN Sleep(t, "back") ELSE ReturnRef(t, cb[Len(cb)])
  /\ UNCHANGED <<cb, cap, nback, nfront>>

\* The caller has used the reference.
use(t) ==
  /\ pc[t] = "holding"
  /\ pc' = [pc EXCEPT ![t] = "idle"]
  /\ ref' = [ref EXCEPT ![t] = NoElem]
  /\ UNCHANGED <<cb, cap, nback, nfront, op>>

pop_front(t) ==
  /\ Makes(t, "pop_front")
  /\ cb # <<>>
  /\ cb' = Tail(cb)
  /\ KeepRefs
  /\ UNCHANGED <<cap, nback, nfront, pc, op>>

clear(t) ==
  /\ Makes(t, "clear")
  /\ cb' = <<>>
  /\ KeepRefs
  /\ UNCHANGED <<cap, nback, nfront, pc, op>>

\* Mutant of set_capacity: the elements that do not fit any more are kept.
set_capacity_keeps(t, n) ==
  /\ Makes(t, "set_capacity")
  /\ n # cap
  /\ cap' = n
  /\ LoseRefs
  /\ UNCHANGED <<cb, nback, nfront, pc, op>>

\* The capacity the buffer has already is not a change.
set_capacity(t, n) ==
  /\ Makes(t, "set_capacity")
  /\ n # cap
  /\ cap' = n
  /\ cb' = Resized(n)
  /\ LoseRefs
  /\ UNCHANGED <<nback, nfront, pc, op>>

\* wait may return without a notification.
spurious_wakeup(t) ==
  /\ pc[t] = "waiting"
  /\ pc' = [pc EXCEPT ![t] = "woken"]
  /\ UNCHANGED <<cb, cap, nback, nfront, op, ref>>

Next ==
  \E t \in Thread :
    \/ push_back(t) \/ push_front(t) \/ front(t) \/ back(t) \/ use(t)
    \/ pop_front(t) \/ clear(t) \/ spurious_wakeup(t)
    \/ \E n \in Capacity : set_capacity(t, n)

Spec == Init /\ [][Next]_vars

-----------------------------------------------------------------------------
(* Properties.                                                             *)

\* The types of the buffer and of the threads, and its capacity.
TypeOK ==
  /\ cb \in Seq(Int)
  /\ cap \in Nat
  /\ Len(cb) <= cap
  /\ nback \in 0..MaxPush
  /\ nfront \in 0..MaxPush
  /\ pc \in [Thread -> {"idle", "waiting", "woken", "holding"}]
  /\ op \in [Thread -> {"none", "front", "back"}]
  /\ ref \in [Thread -> Int \cup {NoElem, Lost}]

\* Beside a non-empty buffer some reader is always awake, whatever the others
\* push, pop, clear and resize and whenever a reader wakes without reason: a
\* push notifies one reader, and one that is awake does not go to sleep.  It is
\* all that one notify_one per push gives: readers do not consume, so the other
\* readers may sleep on beside a non-empty buffer.
NotAllAsleep ==
  cb # <<>> /\ Reader # {} => \E r \in Reader : pc[r] # "waiting"

\* The elements are in the order of their pushes, and none is there twice,
\* whatever threads overwrite a full buffer from both ends, pop, clear and
\* resize it.
InOrder == \A i, j \in 1..Len(cb) : i < j => cb[i] < cb[j]

\* "Thread safe circular buffer": a thread that follows the reference it got
\* from front or back finds the element that it was made for.
ReferenceStaysValid == \A t \in Thread : ref[t] # Lost
=============================================================================
