----------------------------- MODULE Tasks_proofs -----------------------------
(***************************************************************************)
(* Proofs about the thread pool, for any number of threads, callers and    *)
(* tasks.                                                                  *)
(***************************************************************************)
EXTENDS Tasks, FiniteSetTheorems, TLAPS

-----------------------------------------------------------------------------
(* Type correctness.                                                       *)

\* A thread inside a task has one.
RunInv ==
  \A w \in Worker : wpc[w] \in {"running", "body_notify", "ending"} => cur[w] \in Task

TypeInv == TypeOK /\ RunInv

\* Clearing the deque keeps the types.
LEMMA ClearWorkType ==
  ASSUME TypeOK, ClearWork
  PROVE  /\ work_' \in Seq(Task \cup {Stop})
         /\ fut' \in [Task -> {"none", "pending", "ready", "broken"}]
  BY DEF ClearWork, TypeOK

\* So does appending the stop messages.
LEMMA PushStopsType ==
  ASSUME TypeOK, PushStops
  PROVE  work_' \in Seq(Task \cup {Stop})
<1>1. finished_ \in SUBSET Worker
  BY DEF finished_
<1>2. Cardinality(finished_) \in Nat
  BY <1>1, TasksAssumption, FS_Subset, FS_CardinalityType
<1>3. [i \in 1..Cardinality(finished_) |-> Stop] \in Seq(Task \cup {Stop})
  BY <1>2
<1> QED
  BY <1>3 DEF PushStops, TypeOK

\* notify_one wakes at most one sleeping thread.
LEMMA NotifyFacts ==
  ASSUME NEW ws, NEW new \in AfterNotifyOne(ws)
  PROVE  \/ new = ws /\ \A w \in Worker : ws[w] # "waiting"
         \/ \E w \in Worker : ws[w] = "waiting" /\ new = [ws EXCEPT ![w] = "ready"]
  BY DEF AfterNotifyOne

\* Every action keeps the types.
LEMMA TypeStep == TypeInv /\ [Next]_vars => TypeInv'
<1> SUFFICES ASSUME TypeInv, [Next]_vars PROVE TypeInv'
  OBVIOUS
<1> TypeOK /\ RunInv
  BY DEF TypeInv
<1> USE TasksAssumption
<1>1. ASSUME NEW c \in Caller, NEW t \in Task, queue(c, t) PROVE TypeInv'
  BY <1>1 DEF queue, Enqueue, Goto, TypeInv, TypeOK, RunInv
<1>2. ASSUME NEW c \in Caller, queue_notify(c) PROVE TypeInv'
  <2>1. \/ wpc' = wpc
        \/ \E w \in Worker : wpc[w] = "waiting" /\ wpc' = [wpc EXCEPT ![w] = "ready"]
    BY <1>2, NotifyFacts DEF queue_notify
  <2> QED
    BY <1>2, <2>1 DEF queue_notify, Goto, TypeInv, TypeOK, RunInv
<1>3. ASSUME NEW c \in Caller, cancel_pending(c) PROVE TypeInv'
  BY <1>3, ClearWorkType DEF cancel_pending, TypeInv, TypeOK, RunInv
<1>4. ASSUME NEW w \in Worker, start(w) PROVE TypeInv'
  BY <1>4 DEF start, GotoW, TypeInv, TypeOK, RunInv
<1>5. CASE abort
  BY <1>5, ClearWorkType DEF abort, Goto, Caller, TypeInv, TypeOK, RunInv
<1>6. CASE finish
  BY <1>6, PushStopsType DEF finish, Goto, Caller, TypeInv, TypeOK, RunInv
<1>7. CASE finish_notify
  BY <1>7 DEF finish_notify, Goto, Caller, TypeInv, TypeOK, RunInv
<1>8. CASE destroy
  BY <1>8, PushStopsType DEF destroy, Goto, Caller, TypeInv, TypeOK, RunInv
<1>9. CASE destroy_members
  BY <1>9, ClearWorkType DEF destroy_members, Goto, Caller, TypeInv, TypeOK, RunInv
<1>10. ASSUME NEW w \in Worker, thread_take(w) PROVE TypeInv'
  <2>1. CASE work_ = <<>>
    BY <1>10, <2>1 DEF thread_take, GotoW, TypeInv, TypeOK, RunInv
  <2>2. CASE work_ # <<>>
    <3>1. Head(work_) \in Task \cup {Stop} /\ Tail(work_) \in Seq(Task \cup {Stop})
      BY <2>2 DEF TypeOK
    <3> QED
      BY <1>10, <2>2, <3>1 DEF thread_take, GotoW, TypeInv, TypeOK, RunInv
  <2> QED
    BY <2>1, <2>2
<1>11. ASSUME NEW w \in Worker, spurious_wakeup(w) PROVE TypeInv'
  BY <1>11 DEF spurious_wakeup, GotoW, TypeInv, TypeOK, RunInv
<1>12. ASSUME NEW w \in Worker, body_queue(w) PROVE TypeInv'
  <2>1. cur[w] \in Task /\ Child[cur[w]] \in Task
    BY <1>12 DEF body_queue, RunInv
  <2> QED
    BY <1>12, <2>1 DEF body_queue, Enqueue, GotoW, TypeInv, TypeOK, RunInv
<1>13. ASSUME NEW w \in Worker, body_notify(w) PROVE TypeInv'
  <2> DEFINE ws == [wpc EXCEPT ![w] = "ending"]
  <2>1. /\ wpc[w] = "body_notify"
        /\ \/ wpc' = ws
           \/ \E v \in Worker : ws[v] = "waiting" /\ wpc' = [ws EXCEPT ![v] = "ready"]
    BY <1>13, NotifyFacts DEF body_notify
  <2> QED
    BY <1>13, <2>1 DEF body_notify, TypeInv, TypeOK, RunInv
<1>14. ASSUME NEW w \in Worker, body_cancel(w) PROVE TypeInv'
  BY <1>14, ClearWorkType DEF body_cancel, GotoW, TypeInv, TypeOK, RunInv
<1>15. ASSUME NEW w \in Worker, body_return(w) PROVE TypeInv'
  BY <1>15 DEF body_return, GotoW, TypeInv, TypeOK, RunInv
<1>16. CASE UNCHANGED vars
  BY <1>16 DEF vars, TypeInv, TypeOK, RunInv
<1> QED
  BY <1>1, <1>2, <1>3, <1>4, <1>5, <1>6, <1>7, <1>8, <1>9, <1>10, <1>11, <1>12,
     <1>13, <1>14, <1>15, <1>16 DEF Next, ThreadStep

\* The deque, the threads and the futures always have their types.
THEOREM TypeCorrect == Spec => []TypeOK
<1>1. Init => TypeInv
  BY TasksAssumption DEF Init, TypeInv, TypeOK, RunInv
<1>2. TypeInv => TypeOK
  BY DEF TypeInv
<1> QED
  BY <1>1, <1>2, TypeStep, PTL DEF Spec

-----------------------------------------------------------------------------
(* No wakeup is lost.                                                      *)

\* Counting after one element came or went.
LEMMA CardAdd ==
  ASSUME NEW S, IsFiniteSet(S), NEW x, x \notin S
  PROVE  Cardinality(S \cup {x}) = Cardinality(S) + 1
  BY FS_AddElement

\* Removing an element takes one from the cardinality.
LEMMA CardRemove ==
  ASSUME NEW S, IsFiniteSet(S), NEW x, x \in S
  PROVE  Cardinality(S \ {x}) = Cardinality(S) - 1
  BY FS_RemoveElement

\* The sets that NoLostWakeup counts are finite.
Countable ==
  /\ IsFiniteSet(Ready) /\ Cardinality(Ready) \in Nat
  /\ IsFiniteSet(OwedByCallers) /\ Cardinality(OwedByCallers) \in Nat
  /\ IsFiniteSet(OwedByBodies) /\ Cardinality(OwedByBodies) \in Nat

\* They are, since the threads are finitely many.
LEMMA CountTypes == Countable
<1>1. IsFiniteSet(Caller)
  BY TasksAssumption, FS_AddElement DEF Caller
<1>2. Ready \in SUBSET Worker /\ OwedByBodies \in SUBSET Worker
  BY DEF Ready, OwedByBodies
<1>3. OwedByCallers \in SUBSET Caller
  BY DEF OwedByCallers
<1> QED
  BY <1>1, <1>2, <1>3, TasksAssumption, FS_Subset, FS_CardinalityType DEF Countable

\* They are in the next state as well.
LEMMA CountTypesNext == Countable'
  BY CountTypes, PTL

\* notify_all is still to come.
AllOwed == pc[Owner] \in {"notify_all", "dtor_notify"}

Awake == Cardinality(Ready) + Cardinality(OwedByCallers) + Cardinality(OwedByBodies)

\* A step that keeps the invariant: it leaves nobody asleep, or nobody that was
\* not asleep before and no more work than it wakes or owes.
LEMMA Balanced ==
  ASSUME NoLostWakeup,
         Waiting' = {} \/ AllOwed' \/ Len(work_') = 0
           \/ (Waiting # {} /\ ~AllOwed /\ Len(work_') - Len(work_) <= Awake' - Awake),
         Len(work_) \in Nat, Len(work_') \in Nat
  PROVE  NoLostWakeup'
<1>1. Awake \in Nat /\ Awake' \in Nat
  BY CountTypes, CountTypesNext DEF Awake, Countable
<1> QED
  BY <1>1 DEF NoLostWakeup, Awake, AllOwed

\* Every action keeps the invariant.
LEMMA WakeupStep == TypeInv /\ NoLostWakeup /\ [Next]_vars => NoLostWakeup'
<1> SUFFICES ASSUME TypeInv, NoLostWakeup, [Next]_vars PROVE NoLostWakeup'
  OBVIOUS
<1>0. TypeOK /\ TypeOK'
  BY TypeStep DEF TypeInv
<1>len. Len(work_) \in Nat /\ Len(work_') \in Nat
  BY <1>0 DEF TypeOK
<1> DEFINE Goal == \/ Waiting' = {} \/ AllOwed' \/ Len(work_') = 0
                   \/ /\ Waiting # {} /\ ~AllOwed
                      /\ Len(work_') - Len(work_) <= Awake' - Awake
<1> SUFFICES Goal
  BY <1>len, Balanced
<1>same. ASSUME UNCHANGED <<work_, wpc, pc>> PROVE Goal
  BY <1>same, <1>len, CountTypes
     DEF Waiting, AllOwed, Awake, Countable, Ready, OwedByCallers, OwedByBodies
<1>1. ASSUME NEW c \in Caller, NEW t \in Task, queue(c, t) PROVE Goal
  <2>1. /\ wpc' = wpc /\ Len(work_') = Len(work_) + 1
        /\ pc[c] = "idle" /\ pc' = [pc EXCEPT ![c] = "notify_one"]
    BY <1>0, <1>1 DEF queue, Enqueue, Goto, TypeOK
  <2>2. Waiting' = Waiting /\ Ready' = Ready /\ OwedByBodies' = OwedByBodies
    BY <2>1 DEF Waiting, Ready, OwedByBodies
  <2>3. OwedByCallers' = OwedByCallers \cup {c} /\ c \notin OwedByCallers
    BY <1>0, <2>1 DEF OwedByCallers, TypeOK
  <2>4. AllOwed' <=> AllOwed
    BY <1>0, <2>1 DEF AllOwed, TypeOK, Caller
  <2>5. Cardinality(OwedByCallers') = Cardinality(OwedByCallers) + 1
    BY <2>3, CountTypes, CardAdd DEF Countable
  <2> QED
    BY <1>len, <2>1, <2>2, <2>4, <2>5, CountTypes DEF Awake, Countable
<1>2. ASSUME NEW c \in Caller, queue_notify(c) PROVE Goal
  <2>1. /\ work_' = work_
        /\ pc[c] = "notify_one" /\ pc' = [pc EXCEPT ![c] = "idle"]
        /\ \/ wpc' = wpc /\ \A w \in Worker : wpc[w] # "waiting"
           \/ \E w \in Worker : wpc[w] = "waiting" /\ wpc' = [wpc EXCEPT ![w] = "ready"]
    BY <1>2, NotifyFacts DEF queue_notify, Goto
  <2>2. OwedByCallers' = OwedByCallers \ {c} /\ c \in OwedByCallers
    BY <1>0, <2>1 DEF OwedByCallers, TypeOK
  <2>3. AllOwed' <=> AllOwed
    BY <1>0, <2>1 DEF AllOwed, TypeOK, Caller
  <2>4. Cardinality(OwedByCallers') = Cardinality(OwedByCallers) - 1
    BY <2>2, CountTypes, CardRemove DEF Countable
  <2>5. CASE wpc' = wpc /\ \A w \in Worker : wpc[w] # "waiting"
    BY <2>5 DEF Waiting
  <2>6. ASSUME NEW w \in Worker, wpc[w] = "waiting", wpc' = [wpc EXCEPT ![w] = "ready"]
        PROVE  Goal
    <3>1. Ready' = Ready \cup {w} /\ w \notin Ready /\ OwedByBodies' = OwedByBodies
      BY <1>0, <2>6 DEF Ready, OwedByBodies, TypeOK
    <3>2. Cardinality(Ready') = Cardinality(Ready) + 1
      BY <3>1, CountTypes, CardAdd DEF Countable
    <3>3. Waiting # {}
      BY <2>6 DEF Waiting
    <3> QED
      BY <1>len, <2>1, <2>3, <2>4, <3>1, <3>2, <3>3, CountTypes DEF Awake, Countable
  <2> QED
    BY <2>1, <2>5, <2>6
<1>3. ASSUME NEW c \in Caller, cancel_pending(c) PROVE Goal
  BY <1>3 DEF cancel_pending, ClearWork
<1>4. ASSUME NEW w \in Worker, start(w) \/ spurious_wakeup(w) \/ body_return(w) PROVE Goal
  <2>1. /\ work_' = work_ /\ pc' = pc
        /\ wpc[w] \notin {"ready", "body_notify"} /\ wpc' = [wpc EXCEPT ![w] = "ready"]
    BY <1>4 DEF start, spurious_wakeup, body_return, GotoW
  <2>2. /\ Waiting' \subseteq Waiting /\ OwedByBodies' = OwedByBodies
        /\ OwedByCallers' = OwedByCallers /\ AllOwed' = AllOwed
        /\ Ready' = Ready \cup {w} /\ w \notin Ready
    BY <1>0, <2>1 DEF Waiting, OwedByBodies, OwedByCallers, AllOwed, Ready, TypeOK
  <2>3. Cardinality(Ready') = Cardinality(Ready) + 1
    BY <2>2, CountTypes, CardAdd DEF Countable
  <2> QED
    BY <1>len, <2>1, <2>2, <2>3, CountTypes DEF Awake, Countable
<1>5. CASE abort
  BY <1>5 DEF abort, ClearWork
<1>6. CASE finish \/ destroy
  BY <1>0, <1>6 DEF finish, destroy, Goto, AllOwed, Caller, TypeOK
<1>7. CASE finish_notify
  BY <1>7 DEF finish_notify, Waiting
<1>8. CASE destroy_members
  BY <1>8 DEF destroy_members, ClearWork
<1>9. ASSUME NEW w \in Worker, thread_take(w) PROVE Goal
  <2>1. CASE work_ = <<>>
    BY <1>9, <2>1 DEF thread_take
  <2>2. CASE work_ # <<>>
    <3>1. /\ wpc[w] = "ready" /\ work_' = Tail(work_) /\ pc' = pc
          /\ \E l \in {"done", "running"} : wpc' = [wpc EXCEPT ![w] = l]
      BY <1>9, <2>2 DEF thread_take, GotoW
    <3>2. Len(work_') = Len(work_) - 1
      BY <1>0, <2>2, <3>1 DEF TypeOK
    <3>3. /\ Waiting' = Waiting /\ OwedByBodies' = OwedByBodies
          /\ OwedByCallers' = OwedByCallers /\ AllOwed' = AllOwed
          /\ Ready' = Ready \ {w} /\ w \in Ready
      BY <1>0, <3>1 DEF Waiting, OwedByBodies, OwedByCallers, AllOwed, Ready, TypeOK
    <3>4. Cardinality(Ready') = Cardinality(Ready) - 1
      BY <3>3, CountTypes, CardRemove DEF Countable
    <3> QED
      BY <1>len, <3>2, <3>3, <3>4, CountTypes DEF Awake, Countable
  <2> QED
    BY <2>1, <2>2
<1>10. ASSUME NEW w \in Worker, body_queue(w) PROVE Goal
  <2>1. /\ wpc[w] = "running" /\ wpc' = [wpc EXCEPT ![w] = "body_notify"]
        /\ pc' = pc /\ Len(work_') = Len(work_) + 1
    BY <1>0, <1>10 DEF body_queue, Enqueue, GotoW, TypeOK
  <2>2. /\ Waiting' = Waiting /\ Ready' = Ready
        /\ OwedByCallers' = OwedByCallers /\ AllOwed' = AllOwed
        /\ OwedByBodies' = OwedByBodies \cup {w} /\ w \notin OwedByBodies
    BY <1>0, <2>1 DEF Waiting, OwedByBodies, OwedByCallers, AllOwed, Ready, TypeOK
  <2>3. Cardinality(OwedByBodies') = Cardinality(OwedByBodies) + 1
    BY <2>2, CountTypes, CardAdd DEF Countable
  <2> QED
    BY <1>len, <2>1, <2>2, <2>3, CountTypes DEF Awake, Countable
<1>11. ASSUME NEW w \in Worker, body_notify(w) PROVE Goal
  <2> DEFINE ws == [wpc EXCEPT ![w] = "ending"]
  <2>1. /\ work_' = work_ /\ pc' = pc /\ wpc[w] = "body_notify"
        /\ \/ wpc' = ws /\ \A v \in Worker : ws[v] # "waiting"
           \/ \E v \in Worker : ws[v] = "waiting" /\ wpc' = [ws EXCEPT ![v] = "ready"]
    BY <1>11, NotifyFacts DEF body_notify
  <2>2. CASE wpc' = ws /\ \A v \in Worker : ws[v] # "waiting"
    BY <2>2 DEF Waiting
  <2>3. ASSUME NEW v \in Worker, ws[v] = "waiting", wpc' = [ws EXCEPT ![v] = "ready"]
        PROVE  Goal
    <3>1. v # w /\ wpc[v] = "waiting"
      BY <1>0, <2>3 DEF TypeOK
    <3>2. /\ OwedByCallers' = OwedByCallers /\ AllOwed' = AllOwed
          /\ OwedByBodies' = OwedByBodies \ {w} /\ w \in OwedByBodies
          /\ Ready' = Ready \cup {v} /\ v \notin Ready
          /\ Waiting # {}
      BY <1>0, <2>1, <2>3, <3>1
         DEF Waiting, OwedByBodies, OwedByCallers, AllOwed, Ready, TypeOK
    <3>3. Cardinality(OwedByBodies') = Cardinality(OwedByBodies) - 1
      BY <3>2, CountTypes, CardRemove DEF Countable
    <3>4. Cardinality(Ready') = Cardinality(Ready) + 1
      BY <3>2, CountTypes, CardAdd DEF Countable
    <3> QED
      BY <1>len, <2>1, <3>2, <3>3, <3>4, CountTypes DEF Awake, Countable
  <2> QED
    BY <2>1, <2>2, <2>3
<1>12. ASSUME NEW w \in Worker, body_cancel(w) PROVE Goal
  BY <1>12 DEF body_cancel, ClearWork
<1> QED
  BY <1>same, <1>1, <1>2, <1>3, <1>4, <1>5, <1>6, <1>7, <1>8, <1>9, <1>10, <1>11, <1>12
     DEF Next, ThreadStep, vars

\* In every reachable state of the pool no wakeup is lost.
THEOREM NoWakeupIsLost == Spec => []NoLostWakeup
<1>1. Init => TypeInv /\ NoLostWakeup
  BY TasksAssumption DEF Init, TypeInv, TypeOK, RunInv, NoLostWakeup, Waiting
<1> QED
  BY <1>1, TypeStep, WakeupStep, PTL DEF Spec

-----------------------------------------------------------------------------
(* Every task is in one place.                                             *)

\* Only a thread inside a task has one.
CurInv ==
  \A w \in Worker : cur[w] # NoTask => wpc[w] \in {"running", "body_notify", "ending"}

\* A task in the deque is pending, no thread runs it, and it is there once.
DequeInv ==
  \A i \in 1..Len(work_) : work_[i] \in Task =>
    /\ fut[work_[i]] = "pending"
    /\ \A w \in Worker : cur[w] # work_[i]
    /\ \A j \in 1..Len(work_) : work_[j] = work_[i] => j = i

\* A task that a thread runs is pending, and no other thread runs it.
ThreadInv ==
  \A w \in Worker : cur[w] # NoTask =>
    /\ fut[cur[w]] = "pending"
    /\ \A v \in Worker : cur[v] = cur[w] => v = w

\* A pending task is in the deque or with a thread.
PendingInv ==
  \A t \in Task : fut[t] = "pending" =>
    \/ \E i \in 1..Len(work_) : work_[i] = t
    \/ \E w \in Worker : cur[w] = t

PlaceInv == CurInv /\ DequeInv /\ ThreadInv /\ PendingInv

\* What the four changes of the deque do to its entries.
LEMMA AppendEntries ==
  ASSUME TypeOK, NEW t \in Task, work_' = Append(work_, t)
  PROVE  /\ Len(work_') = Len(work_) + 1 /\ Len(work_) \in Nat
         /\ \A i \in 1..Len(work_) : work_'[i] = work_[i]
         /\ work_'[Len(work_) + 1] = t
  BY DEF TypeOK

\* finish appends a stop message for every thread it knows of.
LEMMA StopEntries ==
  ASSUME TypeOK, PushStops
  PROVE  /\ Cardinality(finished_) \in Nat /\ Len(work_) \in Nat
         /\ Len(work_') = Len(work_) + Cardinality(finished_)
         /\ \A i \in 1..Len(work_) : work_'[i] = work_[i]
         /\ \A i \in (Len(work_) + 1)..Len(work_') : work_'[i] = Stop
<1>1. finished_ \in SUBSET Worker
  BY DEF finished_
<1>2. Cardinality(finished_) \in Nat
  BY <1>1, TasksAssumption, FS_Subset, FS_CardinalityType
<1> DEFINE n == Cardinality(finished_)
           new == [i \in 1..n |-> Stop]
<1> HIDE DEF n
<1>3. n \in Nat /\ new \in Seq(Task \cup {Stop}) /\ Len(new) = n
  BY <1>2 DEF n
<1>4. work_' = work_ \o new /\ work_ \in Seq(Task \cup {Stop})
  BY DEF PushStops, TypeOK, n
<1> QED
  BY <1>3, <1>4 DEF n

\* A thread takes the first entry; the others move up.
LEMMA TakeEntries ==
  ASSUME TypeOK, work_ # <<>>, work_' = Tail(work_)
  PROVE  /\ Len(work_) \in Nat /\ 1 \in 1..Len(work_)
         /\ Len(work_') = Len(work_) - 1
         /\ Head(work_) = work_[1] /\ Head(work_) \in Task \cup {Stop}
         /\ \A i \in 1..Len(work_') : work_'[i] = work_[i + 1]
  BY DEF TypeOK

\* The five things a step does to the places of the tasks.
LEMMA PlaceKept ==
  ASSUME TypeOK, DequeInv, ThreadInv, PendingInv, cur' = cur, fut' = fut,
         work_' = work_ \/ PushStops
  PROVE  (DequeInv /\ ThreadInv /\ PendingInv)'
<1>1. CASE work_' = work_
  BY <1>1 DEF DequeInv, ThreadInv, PendingInv
<1>2. CASE PushStops
  <2>1. /\ Len(work_) \in Nat /\ Len(work_') \in Nat /\ Len(work_) <= Len(work_')
        /\ \A i \in 1..Len(work_) : work_'[i] = work_[i]
        /\ \A i \in (Len(work_) + 1)..Len(work_') : work_'[i] = Stop
    BY <1>2, StopEntries
  <2>2. \A i \in 1..Len(work_') : work_'[i] \in Task =>
          i \in 1..Len(work_) /\ work_'[i] = work_[i]
    BY <2>1, TasksAssumption
  <2>3. \A i \in 1..Len(work_) : i \in 1..Len(work_')
    BY <2>1
  <2>4. DequeInv'
    BY <2>2 DEF DequeInv
  <2>5. PendingInv'
    BY <2>1, <2>3 DEF PendingInv
  <2> QED
    BY <2>4, <2>5 DEF ThreadInv
<1> QED
  BY <1>1, <1>2

\* queue puts a task that was nowhere at the end of the deque.
LEMMA PlaceEnqueue ==
  ASSUME TypeOK, DequeInv, ThreadInv, PendingInv, cur' = cur,
         NEW t \in Task, Enqueue(t)
  PROVE  (DequeInv /\ ThreadInv /\ PendingInv)'
<1>1. /\ Len(work_') = Len(work_) + 1 /\ Len(work_) \in Nat
      /\ \A i \in 1..Len(work_) : work_'[i] = work_[i]
      /\ work_'[Len(work_) + 1] = t
  BY AppendEntries DEF Enqueue
<1>2. /\ fut[t] = "none" /\ fut'[t] = "pending"
      /\ \A u \in Task : u # t => fut'[u] = fut[u]
  BY DEF Enqueue, TypeOK
<1>3. \A i \in 1..Len(work_') : i \in 1..Len(work_) \/ i = Len(work_) + 1
  BY <1>1
<1>4. \A i \in 1..Len(work_) : work_[i] # t
  BY <1>2 DEF DequeInv
<1>5. \A w \in Worker : cur[w] # t
  BY <1>2, TasksAssumption DEF ThreadInv
<1>6. DequeInv'
  BY <1>1, <1>2, <1>3, <1>4, <1>5 DEF DequeInv
<1>7. ThreadInv'
  BY <1>2, <1>5 DEF ThreadInv, TypeOK
<1>8. PendingInv'
  <2> SUFFICES ASSUME NEW u \in Task, fut'[u] = "pending"
               PROVE  \/ \E i \in 1..Len(work_') : work_'[i] = u
                      \/ \E w \in Worker : cur'[w] = u
    BY DEF PendingInv
  <2>1. CASE u = t
    BY <1>1, <2>1
  <2>2. CASE u # t
    <3>1. \/ \E i \in 1..Len(work_) : work_[i] = u
          \/ \E w \in Worker : cur[w] = u
      BY <1>2, <2>2 DEF PendingInv
    <3>2. \A i \in 1..Len(work_) : i \in 1..Len(work_')
      BY <1>1
    <3> QED
      BY <1>1, <3>1, <3>2
  <2> QED
    BY <2>1, <2>2
<1> QED
  BY <1>6, <1>7, <1>8

\* cancel_pending breaks the promise of every task it throws away.
LEMMA PlaceClear ==
  ASSUME TypeOK, DequeInv, ThreadInv, PendingInv, cur' = cur, ClearWork
  PROVE  (DequeInv /\ ThreadInv /\ PendingInv)'
<1>1. work_' = <<>> /\ 1..Len(work_') = {}
  BY DEF ClearWork
<1>2. \A t \in Task : (\E i \in 1..Len(work_) : work_[i] = t) => fut'[t] = "broken"
  BY DEF ClearWork
<1>3. \A t \in Task : ~(\E i \in 1..Len(work_) : work_[i] = t) => fut'[t] = fut[t]
  BY DEF ClearWork
<1>4. DequeInv'
  BY <1>1 DEF DequeInv
<1>5. ThreadInv'
  <2> SUFFICES ASSUME NEW w \in Worker, cur[w] # NoTask
               PROVE  fut'[cur[w]] = "pending"
    BY DEF ThreadInv
  <2>1. cur[w] \in Task /\ fut[cur[w]] = "pending"
    BY DEF TypeOK, ThreadInv
  <2>2. ~ \E i \in 1..Len(work_) : work_[i] = cur[w]
    BY <2>1 DEF DequeInv
  <2> QED
    BY <1>3, <2>1, <2>2
<1>6. PendingInv'
  BY <1>1, <1>2, <1>3 DEF PendingInv
<1> QED
  BY <1>4, <1>5, <1>6

\* A task that a thread takes leaves the deque for that thread.
LEMMA PlaceTake ==
  ASSUME TypeOK, DequeInv, ThreadInv, PendingInv, fut' = fut,
         work_ # <<>>, work_' = Tail(work_), NEW w \in Worker, cur[w] = NoTask,
         IF Head(work_) = Stop THEN cur' = cur
         ELSE cur' = [cur EXCEPT ![w] = Head(work_)]
  PROVE  (DequeInv /\ ThreadInv /\ PendingInv)'
<1>1. /\ Len(work_) \in Nat /\ 1 \in 1..Len(work_)
      /\ Len(work_') = Len(work_) - 1
      /\ Head(work_) = work_[1] /\ Head(work_) \in Task \cup {Stop}
      /\ \A i \in 1..Len(work_') : work_'[i] = work_[i + 1]
  BY TakeEntries
<1>2. \A i \in 1..Len(work_') : i + 1 \in 1..Len(work_) /\ i + 1 # 1
  BY <1>1
<1>3. \A i \in 1..Len(work_) : i # 1 => i - 1 \in 1..Len(work_') /\ (i - 1) + 1 = i
  BY <1>1
<1>4. \A i \in 1..Len(work_') : work_'[i] \in Task =>
        fut[work_'[i]] = "pending" /\ work_'[i] # work_[1]
  <2> SUFFICES ASSUME NEW i \in 1..Len(work_'), work_'[i] \in Task
               PROVE  fut[work_'[i]] = "pending" /\ work_'[i] # work_[1]
    OBVIOUS
  <2>1. i + 1 \in 1..Len(work_) /\ i + 1 # 1 /\ work_[i + 1] = work_'[i]
    BY <1>1, <1>2
  <2> QED
    BY <1>1, <2>1 DEF DequeInv
<1>5. \A i, j \in 1..Len(work_') : work_'[i] \in Task /\ work_'[i] = work_'[j] => i = j
  <2> SUFFICES ASSUME NEW i \in 1..Len(work_'), NEW j \in 1..Len(work_'),
                      work_'[i] \in Task, work_'[i] = work_'[j]
               PROVE  i = j
    OBVIOUS
  <2>1. i + 1 \in 1..Len(work_) /\ j + 1 \in 1..Len(work_)
    BY <1>2
  <2>2. work_[i + 1] = work_[j + 1] /\ work_[i + 1] \in Task
    BY <1>1
  <2>3. i + 1 = j + 1
    BY <2>1, <2>2 DEF DequeInv
  <2> QED
    BY <2>3
<1>6. \A i \in 1..Len(work_'), v \in Worker : work_'[i] \in Task => cur[v] # work_'[i]
  <2> SUFFICES ASSUME NEW i \in 1..Len(work_'), NEW v \in Worker, work_'[i] \in Task
               PROVE  cur[v] # work_'[i]
    OBVIOUS
  <2>1. i + 1 \in 1..Len(work_) /\ work_[i + 1] = work_'[i]
    BY <1>1, <1>2
  <2> QED
    BY <2>1 DEF DequeInv
<1>7. \A t \in Task : (\E i \in 1..Len(work_) : work_[i] = t) =>
        t = work_[1] \/ \E i \in 1..Len(work_') : work_'[i] = t
  <2> SUFFICES ASSUME NEW t \in Task, NEW i \in 1..Len(work_), work_[i] = t, i # 1
               PROVE  \E j \in 1..Len(work_') : work_'[j] = t
    OBVIOUS
  <2>1. i - 1 \in 1..Len(work_') /\ (i - 1) + 1 = i
    BY <1>3
  <2>2. work_'[i - 1] = work_[(i - 1) + 1]
    BY <1>1, <2>1
  <2> QED
    BY <2>1, <2>2
<1>8. CASE Head(work_) = Stop
  <2>1. cur' = cur
    BY <1>8
  <2>2. DequeInv'
    BY <1>4, <1>5, <1>6, <2>1 DEF DequeInv
  <2>3. PendingInv'
    BY <1>1, <1>7, <1>8, <2>1, TasksAssumption DEF PendingInv
  <2> QED
    BY <2>1, <2>2, <2>3 DEF ThreadInv
<1>9. CASE Head(work_) # Stop
  <2> DEFINE h == work_[1]
  <2>1. /\ h \in Task /\ fut[h] = "pending"
        /\ \A v \in Worker : cur[v] # h
    BY <1>1, <1>9 DEF DequeInv
  <2>2. /\ cur'[w] = h
        /\ \A v \in Worker : v # w => cur'[v] = cur[v]
    BY <1>1, <1>9 DEF TypeOK
  <2> HIDE DEF h
  <2>3. DequeInv'
    <3>1. \A i \in 1..Len(work_'), v \in Worker : work_'[i] \in Task => cur'[v] # work_'[i]
      BY <1>4, <1>6, <2>2 DEF h
    <3> QED
      BY <1>4, <1>5, <3>1 DEF DequeInv
  <2>4. ThreadInv'
    BY <2>1, <2>2 DEF ThreadInv
  <2>5. PendingInv'
    <3> SUFFICES ASSUME NEW t \in Task, fut[t] = "pending",
                        ~ \E i \in 1..Len(work_') : work_'[i] = t
                 PROVE  \E v \in Worker : cur'[v] = t
      BY DEF PendingInv
    <3>1. CASE t = h
      BY <2>2, <3>1
    <3>2. CASE t # h
      <4>1. PICK v \in Worker : cur[v] = t
        BY <1>7, <3>2 DEF PendingInv, h
      <4>2. v # w
        BY <4>1, TasksAssumption
      <4> QED
        BY <2>2, <4>1, <4>2
    <3> QED
      BY <3>1, <3>2
  <2> QED
    BY <2>3, <2>4, <2>5
<1> QED
  BY <1>8, <1>9

\* A task whose body returns leaves its thread and is over.
LEMMA PlaceReturn ==
  ASSUME TypeOK, DequeInv, ThreadInv, PendingInv, work_' = work_,
         NEW w \in Worker, cur[w] \in Task,
         fut' = [fut EXCEPT ![cur[w]] = "ready"], cur' = [cur EXCEPT ![w] = NoTask]
  PROVE  (DequeInv /\ ThreadInv /\ PendingInv)'
<1>1. /\ cur'[w] = NoTask /\ fut'[cur[w]] = "ready"
      /\ \A v \in Worker : v # w => cur'[v] = cur[v]
      /\ \A t \in Task : t # cur[w] => fut'[t] = fut[t]
  BY DEF TypeOK
<1>2. DequeInv'
  BY <1>1, TasksAssumption DEF DequeInv
<1>3. \A v \in Worker : v # w /\ cur[v] # NoTask => cur[v] \in Task /\ cur[v] # cur[w]
  BY TasksAssumption DEF ThreadInv, TypeOK
<1>4. ThreadInv'
  BY <1>1, <1>3 DEF ThreadInv
<1>5. PendingInv'
  <2> SUFFICES ASSUME NEW t \in Task, fut'[t] = "pending"
               PROVE  \/ \E i \in 1..Len(work_) : work_[i] = t
                      \/ \E v \in Worker : cur'[v] = t
    BY DEF PendingInv
  <2>1. t # cur[w] /\ fut[t] = "pending"
    BY <1>1
  <2> QED
    BY <1>1, <2>1 DEF PendingInv
<1> QED
  BY <1>2, <1>4, <1>5

\* Every action keeps the tasks in their places.
LEMMA PlaceStep == TypeInv /\ PlaceInv /\ [Next]_vars => PlaceInv'
<1> SUFFICES ASSUME TypeInv, PlaceInv, [Next]_vars PROVE PlaceInv'
  OBVIOUS
<1> TypeOK /\ RunInv /\ CurInv /\ DequeInv /\ ThreadInv /\ PendingInv
  BY DEF TypeInv, PlaceInv
<1>kept. ASSUME work_' = work_ \/ PushStops, cur' = cur, fut' = fut, CurInv' PROVE PlaceInv'
  BY <1>kept, PlaceKept DEF PlaceInv
<1>clear. ASSUME ClearWork, cur' = cur, CurInv' PROVE PlaceInv'
  BY <1>clear, PlaceClear DEF PlaceInv
<1>1. ASSUME NEW c \in Caller, NEW t \in Task, queue(c, t) PROVE PlaceInv'
  <2>1. Enqueue(t) /\ cur' = cur /\ wpc' = wpc
    BY <1>1 DEF queue
  <2> QED
    BY <2>1, PlaceEnqueue DEF PlaceInv, CurInv
<1>2. ASSUME NEW c \in Caller, queue_notify(c) PROVE PlaceInv'
  <2>1. \/ wpc' = wpc
        \/ \E w \in Worker : wpc[w] = "waiting" /\ wpc' = [wpc EXCEPT ![w] = "ready"]
    BY <1>2, NotifyFacts DEF queue_notify
  <2>2. work_' = work_ /\ cur' = cur /\ fut' = fut
    BY <1>2 DEF queue_notify
  <2>3. CurInv'
    BY <2>1, <2>2 DEF CurInv, TypeOK
  <2> QED
    BY <1>kept, <2>2, <2>3
<1>3. ASSUME NEW c \in Caller, cancel_pending(c) PROVE PlaceInv'
  BY <1>clear, <1>3 DEF cancel_pending, CurInv
<1>4. ASSUME NEW w \in Worker, start(w) PROVE PlaceInv'
  <2>1. CurInv'
    BY <1>4 DEF start, GotoW, CurInv, TypeOK
  <2> QED
    BY <1>kept, <1>4, <2>1 DEF start
<1>5. CASE abort
  BY <1>clear, <1>5 DEF abort, CurInv
<1>6. CASE finish \/ destroy
  BY <1>kept, <1>6 DEF finish, destroy, CurInv
<1>7. CASE finish_notify
  <2>1. CurInv'
    BY <1>7 DEF finish_notify, CurInv
  <2> QED
    BY <1>kept, <1>7, <2>1 DEF finish_notify
<1>8. CASE destroy_members
  BY <1>clear, <1>8 DEF destroy_members, CurInv
<1>9. ASSUME NEW w \in Worker, thread_take(w) PROVE PlaceInv'
  <2>1. wpc[w] = "ready" /\ cur[w] = NoTask /\ fut' = fut
    BY <1>9 DEF thread_take, CurInv
  <2>2. CASE work_ = <<>>
    <3>1. work_' = work_ /\ cur' = cur /\ wpc' = [wpc EXCEPT ![w] = "waiting"]
      BY <1>9, <2>2 DEF thread_take, GotoW
    <3>2. CurInv'
      BY <2>1, <3>1 DEF CurInv, TypeOK
    <3> QED
      BY <1>kept, <2>1, <3>1, <3>2
  <2>3. CASE work_ # <<>>
    <3>1. /\ work_' = Tail(work_)
          /\ IF Head(work_) = Stop
             THEN wpc' = [wpc EXCEPT ![w] = "done"] /\ cur' = cur
             ELSE /\ wpc' = [wpc EXCEPT ![w] = "running"]
                  /\ cur' = [cur EXCEPT ![w] = Head(work_)]
      BY <1>9, <2>3 DEF thread_take, GotoW
    <3>2. CurInv'
      BY <2>1, <3>1 DEF CurInv, TypeOK
    <3> QED
      BY <2>1, <2>3, <3>1, <3>2, PlaceTake DEF PlaceInv
  <2> QED
    BY <2>2, <2>3
<1>10. ASSUME NEW w \in Worker, spurious_wakeup(w) PROVE PlaceInv'
  <2>1. CurInv'
    BY <1>10 DEF spurious_wakeup, GotoW, CurInv, TypeOK
  <2> QED
    BY <1>kept, <1>10, <2>1 DEF spurious_wakeup
<1>11. ASSUME NEW w \in Worker, body_queue(w) PROVE PlaceInv'
  <2>1. Child[cur[w]] \in Task
    BY <1>11, TasksAssumption DEF body_queue, RunInv
  <2>2. Enqueue(Child[cur[w]]) /\ cur' = cur
    BY <1>11 DEF body_queue
  <2>3. CurInv'
    BY <1>11 DEF body_queue, GotoW, CurInv, TypeOK
  <2> QED
    BY <2>1, <2>2, <2>3, PlaceEnqueue DEF PlaceInv
<1>12. ASSUME NEW w \in Worker, body_notify(w) PROVE PlaceInv'
  <2> DEFINE ws == [wpc EXCEPT ![w] = "ending"]
  <2>1. /\ wpc[w] = "body_notify"
        /\ \/ wpc' = ws
           \/ \E v \in Worker : ws[v] = "waiting" /\ wpc' = [ws EXCEPT ![v] = "ready"]
    BY <1>12, NotifyFacts DEF body_notify
  <2>2. work_' = work_ /\ cur' = cur /\ fut' = fut
    BY <1>12 DEF body_notify
  <2>3. CurInv'
    BY <2>1, <2>2 DEF CurInv, TypeOK
  <2> QED
    BY <1>kept, <2>2, <2>3
<1>13. ASSUME NEW w \in Worker, body_cancel(w) PROVE PlaceInv'
  <2>1. CurInv'
    BY <1>13 DEF body_cancel, GotoW, CurInv, TypeOK
  <2> QED
    BY <1>clear, <1>13, <2>1 DEF body_cancel
<1>14. ASSUME NEW w \in Worker, body_return(w) PROVE PlaceInv'
  <2>1. cur[w] \in Task
    BY <1>14 DEF body_return, RunInv
  <2>2. /\ work_' = work_
        /\ fut' = [fut EXCEPT ![cur[w]] = "ready"] /\ cur' = [cur EXCEPT ![w] = NoTask]
        /\ wpc' = [wpc EXCEPT ![w] = "ready"]
    BY <1>14 DEF body_return, GotoW
  <2>3. CurInv'
    BY <2>2 DEF CurInv, TypeOK
  <2> QED
    BY <2>1, <2>2, <2>3, PlaceReturn DEF PlaceInv
<1>15. CASE UNCHANGED vars
  BY <1>kept, <1>15 DEF vars, CurInv
<1> QED
  BY <1>1, <1>2, <1>3, <1>4, <1>5, <1>6, <1>7, <1>8, <1>9, <1>10, <1>11, <1>12,
     <1>13, <1>14, <1>15 DEF Next, ThreadStep

\* At the start no task has a place.
LEMMA PlaceInit == Init => TypeInv /\ PlaceInv
<1> SUFFICES ASSUME Init PROVE TypeInv /\ PlaceInv
  OBVIOUS
<1>1. TypeInv
  BY TasksAssumption DEF Init, TypeInv, TypeOK, RunInv
<1>2. 1..Len(work_) = {}
  BY DEF Init
<1> QED
  BY <1>1, <1>2 DEF Init, PlaceInv, CurInv, DequeInv, ThreadInv, PendingInv

\* Counting the places of one task.
LEMMA PlacesCounted == TypeInv /\ PlaceInv => EachTaskOnce
<1> SUFFICES ASSUME TypeInv, PlaceInv, NEW t \in Task
             PROVE  Cardinality({i \in 1..Len(work_) : work_[i] = t})
                      + Cardinality({w \in Worker : cur[w] = t})
                    = IF fut[t] = "pending" THEN 1 ELSE 0
  BY DEF EachTaskOnce
<1> TypeOK /\ DequeInv /\ ThreadInv /\ PendingInv
  BY DEF TypeInv, PlaceInv
<1> DEFINE D == {i \in 1..Len(work_) : work_[i] = t}
           R == {w \in Worker : cur[w] = t}
<1>1. Cardinality({}) = 0 /\ \A x : Cardinality({x}) = 1
  BY FS_EmptySet, FS_Singleton
<1>2. CASE fut[t] # "pending"
  <2>1. D = {} /\ R = {}
    BY <1>2, TasksAssumption DEF DequeInv, ThreadInv
  <2>2. Cardinality(D) = 0 /\ Cardinality(R) = 0
    BY <1>1, <2>1
  <2> QED
    BY <1>2, <2>2
<1>3. CASE fut[t] = "pending" /\ \E i \in 1..Len(work_) : work_[i] = t
  <2>1. PICK i \in 1..Len(work_) : work_[i] = t
    BY <1>3
  <2>2. D = {i} /\ R = {}
    BY <2>1 DEF DequeInv
  <2>3. Cardinality(D) = 1 /\ Cardinality(R) = 0
    BY <1>1, <2>2
  <2> QED
    BY <1>3, <2>3
<1>4. CASE fut[t] = "pending" /\ ~ \E i \in 1..Len(work_) : work_[i] = t
  <2>1. PICK w \in Worker : cur[w] = t
    BY <1>4 DEF PendingInv
  <2>2. D = {} /\ R = {w}
    BY <1>4, <2>1, TasksAssumption DEF ThreadInv
  <2>3. Cardinality(D) = 0 /\ Cardinality(R) = 1
    BY <1>1, <2>2
  <2> QED
    BY <1>4, <2>3
<1> QED
  BY <1>2, <1>3, <1>4

\* In every reachable state of the pool a pending task is in the deque once or
\* with one thread, and no other task is in either: no interleaving of queue,
\* cancel_pending, abort and the threads loses a task or runs it twice.
THEOREM EachTaskOnceHolds == Spec => []EachTaskOnce
  BY PlaceInit, TypeStep, PlaceStep, PlacesCounted, PTL DEF Spec

-----------------------------------------------------------------------------
(* The destructor leaves a stop message for every thread.                  *)

\* The sets that StopForEveryone counts are finite.
Numbers ==
  /\ IsFiniteSet(Live) /\ Cardinality(Live) \in Nat
  /\ IsFiniteSet(Stops) /\ Cardinality(Stops) \in Nat

\* They are, for a deque and finitely many threads.
LEMMA NumberTypes == TypeOK => Numbers
<1> SUFFICES ASSUME TypeOK PROVE Numbers
  OBVIOUS
<1>1. Live \in SUBSET Worker
  BY DEF Live
<1>2. Stops \in SUBSET (1..Len(work_)) /\ IsFiniteSet(1..Len(work_))
  BY FS_Interval DEF Stops, TypeOK
<1> QED
  BY <1>1, <1>2, TasksAssumption, FS_Subset, FS_CardinalityType DEF Numbers

\* They are in the next state as well.
LEMMA NumberTypesNext == TypeOK' => Numbers'
  BY NumberTypes, PTL

\* A deque one shorter has as many stop messages, or one fewer when it was one
\* that left: the others move one place to the front.
LEMMA StopsAfterTake ==
  ASSUME TypeOK, TypeOK', work_ # <<>>, work_' = Tail(work_)
  PROVE  Cardinality(Stops') =
           IF Head(work_) = Stop THEN Cardinality(Stops) - 1 ELSE Cardinality(Stops)
<1>0. IsFiniteSet(Stops) /\ IsFiniteSet(Stops') /\ Cardinality(Stops) \in Nat
  BY NumberTypes, NumberTypesNext DEF Numbers
<1>1. /\ Len(work_) \in Nat /\ 1 \in 1..Len(work_)
      /\ Len(work_') = Len(work_) - 1
      /\ Head(work_) = work_[1]
      /\ \A i \in 1..Len(work_') : work_'[i] = work_[i + 1]
  BY TakeEntries
<1> DEFINE Behind == Stops \ {1}
           Ahead == Stops'
           f == [i \in Behind |-> i - 1]
<1>2. \A i \in Behind : i - 1 \in Ahead
  <2> SUFFICES ASSUME NEW i \in Behind PROVE i - 1 \in Ahead
    OBVIOUS
  <2>1. i \in 1..Len(work_) /\ i # 1 /\ work_[i] = Stop
    BY DEF Stops
  <2>2. i - 1 \in 1..Len(work_') /\ (i - 1) + 1 = i
    BY <1>1, <2>1
  <2>3. work_'[i - 1] = work_[(i - 1) + 1]
    BY <1>1, <2>2
  <2> QED
    BY <2>1, <2>2, <2>3 DEF Stops
<1>3. \A j \in Ahead : j + 1 \in Behind /\ (j + 1) - 1 = j
  <2> SUFFICES ASSUME NEW j \in Ahead PROVE j + 1 \in Behind /\ (j + 1) - 1 = j
    OBVIOUS
  <2>1. j \in 1..Len(work_') /\ work_'[j] = Stop
    BY DEF Stops
  <2>2. j + 1 \in 1..Len(work_) /\ j + 1 # 1 /\ (j + 1) - 1 = j
    BY <1>1, <2>1
  <2>3. work_[j + 1] = Stop
    BY <1>1, <2>1
  <2> QED
    BY <2>2, <2>3 DEF Stops
<1>4. Behind \subseteq Nat
  BY <1>1 DEF Stops
<1> HIDE DEF Ahead, Behind
<1>5. f \in Bijection(Behind, Ahead)
  <2>1. f \in [Behind -> Ahead]
    BY <1>2
  <2>2. \A a, b \in Behind : f[a] = f[b] => a = b
    BY <1>4
  <2>3. \A j \in Ahead : \E i \in Behind : f[i] = j
    BY <1>3
  <2> QED
    BY <2>1, <2>2, <2>3 DEF Bijection, Injection, IsInjective, Surjection
<1>6. IsFiniteSet(Behind) /\
      Cardinality(Behind) = IF 1 \in Stops THEN Cardinality(Stops) - 1 ELSE Cardinality(Stops)
  BY <1>0, FS_RemoveElement DEF Behind
<1>7. ExistsBijection(Behind, Ahead)
  BY <1>5 DEF ExistsBijection
<1>8. Cardinality(Ahead) = Cardinality(Behind)
  BY <1>6, <1>7, FS_Bijection
<1>9. 1 \in Stops <=> Head(work_) = Stop
  BY <1>1 DEF Stops
<1> QED
  BY <1>6, <1>8, <1>9 DEF Ahead

\* finish leaves at least one stop message per thread ever started.
LEMMA StopsAfterFinish ==
  ASSUME TypeOK, TypeOK', PushStops
  PROVE  Cardinality(finished_) <= Cardinality(Stops')
<1>1. /\ Cardinality(finished_) \in Nat /\ Len(work_) \in Nat
      /\ Len(work_') = Len(work_) + Cardinality(finished_)
      /\ \A i \in (Len(work_) + 1)..Len(work_') : work_'[i] = Stop
  BY StopEntries
<1> DEFINE new == (Len(work_) + 1)..Len(work_')
<1>2. new \in SUBSET Stops'
  BY <1>1 DEF Stops
<1>3. Cardinality(new) = Cardinality(finished_)
  BY <1>1, FS_Interval
<1>4. IsFiniteSet(Stops')
  BY NumberTypesNext DEF Numbers
<1> HIDE DEF new
<1>5. Cardinality(new) <= Cardinality(Stops')
  BY <1>2, <1>4, FS_Subset
<1> QED
  BY <1>3, <1>5

Dying == pc[Owner] \in {"dtor_notify", "dtor_join"}

\* A step of the dying pool: what it says of the threads, the messages and the
\* tasks that cancel.
LEMMA StopsKept ==
  ASSUME TypeOK, TypeOK', StopForEveryone,
         Dying' /\ NoCancelBody' =>
           /\ Dying /\ NoCancelBody
           /\ \/ Live' = Live /\ Stops' = Stops
              \/ Live' = Live /\ Cardinality(Stops') = Cardinality(Stops)
              \/ \E w \in Live : /\ Live' = Live \ {w}
                                 /\ Cardinality(Stops') = Cardinality(Stops) - 1
  PROVE  StopForEveryone'
<1> SUFFICES ASSUME Dying', NoCancelBody'
             PROVE  Cardinality(Live') <= Cardinality(Stops')
  BY DEF StopForEveryone, Dying
<1>1. Cardinality(Live) <= Cardinality(Stops)
  BY DEF StopForEveryone, Dying
<1>2. Numbers /\ Numbers'
  BY NumberTypes, NumberTypesNext
<1>3. CASE Live' = Live /\ (Stops' = Stops \/ Cardinality(Stops') = Cardinality(Stops))
  BY <1>1, <1>3
<1>4. ASSUME NEW w \in Live, Live' = Live \ {w},
             Cardinality(Stops') = Cardinality(Stops) - 1
      PROVE  Cardinality(Live') <= Cardinality(Stops')
  <2>1. Cardinality(Live') = Cardinality(Live) - 1
    BY <1>2, <1>4, CardRemove DEF Numbers
  <2> QED
    BY <1>1, <1>2, <1>4, <2>1 DEF Numbers
<1> QED
  BY <1>3, <1>4

\* Every action keeps the balance.
LEMMA StopStep ==
  TypeInv /\ PlaceInv /\ StopForEveryone /\ [Next]_vars => StopForEveryone'
<1> SUFFICES ASSUME TypeInv, PlaceInv, StopForEveryone, [Next]_vars
             PROVE  StopForEveryone'
  OBVIOUS
<1> TypeOK /\ TypeOK' /\ RunInv
  BY TypeStep DEF TypeInv
<1> DEFINE Even == /\ Dying /\ NoCancelBody
                   /\ \/ Live' = Live /\ Stops' = Stops
                      \/ Live' = Live /\ Cardinality(Stops') = Cardinality(Stops)
                      \/ \E w \in Live : /\ Live' = Live \ {w}
                                         /\ Cardinality(Stops') = Cardinality(Stops) - 1
<1>own. Owner \in Caller
  BY DEF Caller
<1>even. ASSUME Dying' /\ NoCancelBody' => Even PROVE StopForEveryone'
  BY <1>even, StopsKept
<1>1. ASSUME NEW c \in Caller, NEW t \in Task, queue(c, t) PROVE StopForEveryone'
  <2>1. ~Dying'
    BY <1>1, <1>own DEF queue, Usable, Goto, Dying, TypeOK
  <2> QED
    BY <1>even, <2>1
<1>2. ASSUME NEW c \in Caller, queue_notify(c) PROVE StopForEveryone'
  <2>1. \/ wpc' = wpc
        \/ \E w \in Worker : wpc[w] = "waiting" /\ wpc' = [wpc EXCEPT ![w] = "ready"]
    BY <1>2, NotifyFacts DEF queue_notify
  <2>2. Live' = Live
    BY <2>1 DEF Live, TypeOK
  <2>3. Stops' = Stops /\ (Dying' => Dying) /\ NoCancelBody' = NoCancelBody
    BY <1>2, <1>own DEF queue_notify, Goto, Stops, Dying, NoCancelBody, TypeOK
  <2> QED
    BY <1>even, <2>2, <2>3
<1>3. ASSUME NEW c \in Caller, cancel_pending(c) PROVE StopForEveryone'
  <2>1. ~Dying'
    BY <1>3 DEF cancel_pending, Usable, Dying
  <2> QED
    BY <1>even, <2>1
<1>4. ASSUME NEW w \in Worker, start(w) PROVE StopForEveryone'
  <2>1. ~Dying'
    BY <1>4 DEF start, Dying
  <2> QED
    BY <1>even, <2>1
<1>5. CASE abort \/ finish
  <2>1. ~Dying'
    BY <1>5, <1>own DEF abort, finish, Goto, Dying, TypeOK
  <2> QED
    BY <1>even, <2>1
<1>6. CASE finish_notify
  <2>1. Live' = Live
    BY <1>6 DEF finish_notify, Live, TypeOK
  <2>2. Stops' = Stops /\ (Dying' => Dying) /\ NoCancelBody' = NoCancelBody
    BY <1>6, <1>own DEF finish_notify, Goto, Stops, Dying, NoCancelBody, TypeOK
  <2> QED
    BY <1>even, <2>1, <2>2
<1>7. CASE destroy
  <2>1. Cardinality(finished_) <= Cardinality(Stops')
    BY <1>7, StopsAfterFinish DEF destroy
  <2>2. Live' \in SUBSET finished_ /\ finished_ \in SUBSET Worker
    BY <1>7 DEF destroy, Live, finished_
  <2>3. IsFiniteSet(finished_) /\ Cardinality(finished_) \in Nat
    BY <2>2, TasksAssumption, FS_Subset, FS_CardinalityType
  <2>4. Cardinality(Live') <= Cardinality(finished_)
    BY <2>2, <2>3, FS_Subset
  <2>5. Cardinality(Live') \in Nat /\ Cardinality(Stops') \in Nat
    BY NumberTypesNext DEF Numbers
  <2>6. Cardinality(Live') <= Cardinality(Stops')
    BY <2>1, <2>3, <2>4, <2>5
  <2> QED
    BY <2>6 DEF StopForEveryone
<1>8. CASE destroy_members
  <2>1. ~Dying'
    BY <1>8, <1>own DEF destroy_members, Goto, Dying, TypeOK
  <2> QED
    BY <1>even, <2>1
<1>9. ASSUME NEW w \in Worker, thread_take(w) PROVE StopForEveryone'
  <2>1. /\ wpc[w] = "ready" /\ w \in Live
        /\ Dying' = Dying /\ NoCancelBody' = NoCancelBody
    BY <1>9 DEF thread_take, Live, Dying, NoCancelBody
  <2>2. CASE work_ = <<>>
    <3>1. work_' = work_ /\ wpc' = [wpc EXCEPT ![w] = "waiting"]
      BY <1>9, <2>2 DEF thread_take, GotoW
    <3>2. Live' = Live /\ Stops' = Stops
      BY <2>1, <3>1 DEF Live, Stops, TypeOK
    <3> QED
      BY <1>even, <2>1, <3>2
  <2>3. CASE work_ # <<>> /\ Head(work_) = Stop
    <3>1. work_' = Tail(work_) /\ wpc' = [wpc EXCEPT ![w] = "done"]
      BY <1>9, <2>3 DEF thread_take, GotoW
    <3>2. Live' = Live \ {w}
      BY <2>1, <3>1 DEF Live, TypeOK
    <3>3. Cardinality(Stops') = Cardinality(Stops) - 1
      BY <2>3, <3>1, StopsAfterTake
    <3> QED
      BY <1>even, <2>1, <3>2, <3>3
  <2>4. CASE work_ # <<>> /\ Head(work_) # Stop
    <3>1. work_' = Tail(work_) /\ wpc' = [wpc EXCEPT ![w] = "running"]
      BY <1>9, <2>4 DEF thread_take, GotoW
    <3>2. Live' = Live
      BY <2>1, <3>1 DEF Live, TypeOK
    <3>3. Cardinality(Stops') = Cardinality(Stops)
      BY <2>4, <3>1, StopsAfterTake
    <3> QED
      BY <1>even, <2>1, <3>2, <3>3
  <2> QED
    BY <2>2, <2>3, <2>4
<1>10. ASSUME NEW w \in Worker, spurious_wakeup(w) PROVE StopForEveryone'
  <2>1. /\ Live' = Live /\ Stops' = Stops
        /\ Dying' = Dying /\ NoCancelBody' = NoCancelBody
    BY <1>10 DEF spurious_wakeup, GotoW, Live, Stops, Dying, NoCancelBody, TypeOK
  <2> QED
    BY <1>even, <2>1
<1>11. ASSUME NEW w \in Worker, body_queue(w) PROVE StopForEveryone'
  <2>1. cur[w] \in Task /\ Child[cur[w]] \in Task /\ Child[cur[w]] \in Children
    BY <1>11, TasksAssumption DEF body_queue, RunInv, Children
  <2>2. /\ Enqueue(Child[cur[w]]) /\ pc' = pc
        /\ wpc[w] = "running" /\ wpc' = [wpc EXCEPT ![w] = "body_notify"]
    BY <1>11 DEF body_queue, GotoW
  <2>3. Live' = Live /\ Dying' = Dying
    BY <2>2 DEF Live, Dying, TypeOK
  <2>4. Stops' = Stops
    <3>1. /\ Len(work_') = Len(work_) + 1 /\ Len(work_) \in Nat
          /\ \A i \in 1..Len(work_) : work_'[i] = work_[i]
          /\ work_'[Len(work_) + 1] = Child[cur[w]]
      BY <2>1, <2>2, AppendEntries DEF Enqueue
    <3>2. Child[cur[w]] # Stop
      BY <2>1, TasksAssumption
    <3> QED
      BY <3>1, <3>2 DEF Stops
  <2>5. NoCancelBody' => NoCancelBody
    BY <2>1, <2>2, TasksAssumption DEF NoCancelBody, Enqueue, TypeOK
  <2> QED
    BY <1>even, <2>3, <2>4, <2>5
<1>12. ASSUME NEW w \in Worker, body_notify(w) PROVE StopForEveryone'
  <2> DEFINE ws == [wpc EXCEPT ![w] = "ending"]
  <2>1. /\ wpc[w] = "body_notify"
        /\ \/ wpc' = ws
           \/ \E v \in Worker : ws[v] = "waiting" /\ wpc' = [ws EXCEPT ![v] = "ready"]
    BY <1>12, NotifyFacts DEF body_notify
  <2>2. Live' = Live
    BY <2>1 DEF Live, TypeOK
  <2>3. Stops' = Stops /\ Dying' = Dying /\ NoCancelBody' = NoCancelBody
    BY <1>12 DEF body_notify, Stops, Dying, NoCancelBody
  <2> QED
    BY <1>even, <2>2, <2>3
<1>13. ASSUME NEW w \in Worker, body_cancel(w) PROVE StopForEveryone'
  \* The future of the task that cancels stays pending.
  <2>1. cur[w] \in Cancelling /\ cur[w] \in Task /\ ClearWork
    BY <1>13, TasksAssumption DEF body_cancel
  <2>2. fut[cur[w]] = "pending" /\ ~ \E i \in 1..Len(work_) : work_[i] = cur[w]
    BY <2>1, TasksAssumption DEF PlaceInv, ThreadInv, DequeInv
  <2>3. fut'[cur[w]] = "pending"
    BY <2>1, <2>2 DEF ClearWork
  <2>4. ~NoCancelBody'
    BY <2>1, <2>3 DEF NoCancelBody
  <2> QED
    BY <1>even, <2>4
<1>14. ASSUME NEW w \in Worker, body_return(w) PROVE StopForEveryone'
  <2>1. /\ cur[w] \in Task /\ work_' = work_ /\ pc' = pc
        /\ wpc[w] \in {"running", "ending"} /\ wpc' = [wpc EXCEPT ![w] = "ready"]
        /\ fut' = [fut EXCEPT ![cur[w]] = "ready"]
    BY <1>14 DEF body_return, GotoW, RunInv
  <2>2. Live' = Live /\ Stops' = Stops /\ Dying' = Dying
    BY <2>1 DEF Live, Stops, Dying, TypeOK
  <2>3. NoCancelBody' => NoCancelBody
    BY <2>1, TasksAssumption DEF NoCancelBody, TypeOK
  <2> QED
    BY <1>even, <2>2, <2>3
<1>15. CASE UNCHANGED vars
  <2>1. /\ Live' = Live /\ Stops' = Stops
        /\ Dying' = Dying /\ NoCancelBody' = NoCancelBody
    BY <1>15 DEF vars, Live, Stops, Dying, NoCancelBody
  <2> QED
    BY <1>even, <2>1
<1> QED
  BY <1>1, <1>2, <1>3, <1>4, <1>5, <1>6, <1>7, <1>8, <1>9, <1>10, <1>11, <1>12,
     <1>13, <1>14, <1>15 DEF Next, ThreadStep

\* From the moment the destructor has pushed its stop messages there is one for
\* every thread that is still there, whatever calls came before, as long as no
\* body cancels: no thread of any number is left to wait for a message that
\* another one took.
THEOREM StopForEveryoneHolds == Spec => []StopForEveryone
<1>1. Init => StopForEveryone
  BY DEF Init, StopForEveryone, Caller
<1> QED
  BY <1>1, PlaceInit, TypeStep, PlaceStep, StopStep, PTL DEF Spec
=============================================================================
