--------------------------------- MODULE Tasks ---------------------------------
(***************************************************************************)
(* struct tasks, the thread pool of parallel_computing.h: a deque of       *)
(* packaged tasks guarded by mtx_, a condition variable, and one future    *)
(* per worker thread ever started.                                         *)
(*                                                                         *)
(* The section of each call that holds mtx_ is one step; the notification  *)
(* after it is another one, so calls interleave there.  Sleeping on        *)
(* notifier_ releases mtx_ in the same instant.  A worker that is notified *)
(* evaluates its predicate again, exactly as one at the top of its loop.   *)
(*                                                                         *)
(* The owner makes the calls that touch finished_ (start, finish, abort,   *)
(* the destructor): start pushes to it without the mutex.  Any thread, and *)
(* the body of a task, may call queue and cancel_pending.                  *)
(***************************************************************************)
EXTENDS Integers, Sequences, FiniteSets

CONSTANTS
  Task,        \* the functions that are queued, each at most once
  Worker,      \* the threads that start may create
  Owner,       \* the thread that owns the pool
  Producer,    \* other threads that use it
  Cancelling,  \* the tasks whose body calls cancel_pending
  Child,       \* Child[t]: the task the body of t queues, or NoTask
  MayCancel,   \* the callers whose program calls cancel_pending
  MaxFinish,   \* bound on the calls of finish and abort, for model checking
  Stop,        \* the empty packaged_task
  NoTask

Caller == {Owner} \cup Producer
Children == {Child[t] : t \in Task} \ {NoTask}

ASSUME TasksAssumption ==
  /\ IsFiniteSet(Worker)
  /\ IsFiniteSet(Producer)
  /\ Cancelling \subseteq Task
  /\ MayCancel \subseteq Caller
  /\ MaxFinish \in Nat
  /\ Stop \notin Task
  /\ NoTask \notin Task
  /\ Child \in [Task -> Task \cup {NoTask}]
  \* Every task is queued by one piece of code.
  /\ \A t, u \in Task : Child[t] = Child[u] /\ Child[t] # NoTask => t = u

VARIABLES
  work_,     \* the deque
  wpc,       \* where each worker thread is
  cur,       \* the task it runs
  pc,        \* where each caller is in its call
  fut,       \* the future of each task: none, pending, ready or broken
  finishes   \* the calls of finish and abort so far

vars == <<work_, wpc, cur, pc, fut, finishes>>

Init ==
  /\ work_ = <<>>
  /\ wpc = [w \in Worker |-> "unborn"]
  /\ cur = [w \in Worker |-> NoTask]
  /\ pc = [c \in Caller |-> "idle"]
  /\ fut = [t \in Task |-> "none"]
  /\ finishes = 0

-----------------------------------------------------------------------------
(* The queue and the condition variable.                                   *)

Waiting == {w \in Worker : wpc[w] = "waiting"}

\* The threads with a future in finished_, which nothing removes.
finished_ == {w \in Worker : wpc[w] # "unborn"}

Live == {w \in Worker : wpc[w] \notin {"unborn", "done"}}

\* The object is not being destroyed.
Usable == pc[Owner] \notin {"dtor_notify", "dtor_join", "dead"}

Goto(c, label) == pc' = [pc EXCEPT ![c] = label]
GotoW(w, label) == wpc' = [wpc EXCEPT ![w] = label]

\* Store t as the last task of the deque.
Enqueue(t) ==
  /\ fut[t] = "none"
  /\ work_' = Append(work_, t)
  /\ fut' = [fut EXCEPT ![t] = "pending"]

\* Destroying the tasks of the deque breaks the promises of those not run.
ClearWork ==
  /\ work_' = <<>>
  /\ fut' = [t \in Task |-> IF \E i \in 1..Len(work_) : work_[i] = t
                            THEN "broken" ELSE fut[t]]

\* Mutants of PushStops: the stop messages overtake the tasks; one is missing.
PushStops_front == work_' = [i \in 1..Cardinality(finished_) |-> Stop] \o work_
PushStops_short == work_' = work_ \o [i \in 1..Cardinality(finished_) - 1 |-> Stop]

\* One empty task for every future in finished_.
PushStops == work_' = work_ \o [i \in 1..Cardinality(finished_) |-> Stop]

\* What notify_one makes of the states ws of the workers: one that sleeps wakes.
AfterNotifyOne(ws) ==
  IF \A w \in Worker : ws[w] # "waiting" THEN {ws}
  ELSE {[ws EXCEPT ![w] = "ready"] : w \in {v \in Worker : ws[v] = "waiting"}}

-----------------------------------------------------------------------------
(* The calls.                                                              *)

queue(c, t) ==
  /\ pc[c] = "idle"
  /\ Usable
  /\ t \notin Children
  /\ Enqueue(t)
  /\ Goto(c, "notify_one")
  /\ UNCHANGED <<wpc, cur, finishes>>

queue_notify(c) ==
  /\ pc[c] = "notify_one"
  /\ wpc' \in AfterNotifyOne(wpc)
  /\ Goto(c, "idle")
  /\ UNCHANGED <<work_, cur, fut, finishes>>

\* One round of the loop in start.
start(w) ==
  /\ pc[Owner] = "idle"
  /\ wpc[w] = "unborn"
  /\ GotoW(w, "ready")
  /\ UNCHANGED <<work_, cur, pc, fut, finishes>>

cancel_pending(c) ==
  /\ pc[c] = "idle"
  /\ Usable
  /\ c \in MayCancel
  /\ ClearWork
  /\ UNCHANGED <<wpc, cur, pc, finishes>>

\* abort is cancel_pending and then finish.
abort ==
  /\ pc[Owner] = "idle"
  /\ finishes < MaxFinish
  /\ finishes' = finishes + 1
  /\ ClearWork
  /\ Goto(Owner, "abort_finish")
  /\ UNCHANGED <<wpc, cur>>

finish ==
  /\ \/ pc[Owner] = "abort_finish" /\ UNCHANGED finishes
     \/ /\ pc[Owner] = "idle"
        /\ finishes < MaxFinish
        /\ finishes' = finishes + 1
  /\ PushStops
  /\ Goto(Owner, "notify_all")
  /\ UNCHANGED <<wpc, cur, fut>>

\* Mutant of finish_notify: notify_one instead of notify_all.
finish_notify_one ==
  /\ pc[Owner] \in {"notify_all", "dtor_notify"}
  /\ wpc' \in AfterNotifyOne(wpc)
  /\ Goto(Owner, IF pc[Owner] = "notify_all" THEN "idle" ELSE "dtor_join")
  /\ UNCHANGED <<work_, cur, fut, finishes>>

\* The last statement of finish; what follows it is commented out.
finish_notify ==
  /\ pc[Owner] \in {"notify_all", "dtor_notify"}
  /\ wpc' = [w \in Worker |-> IF wpc[w] = "waiting" THEN "ready" ELSE wpc[w]]
  /\ Goto(Owner, IF pc[Owner] = "notify_all" THEN "idle" ELSE "dtor_join")
  /\ UNCHANGED <<work_, cur, fut, finishes>>

\* ~tasks calls finish.  No other thread is inside a call of a dying object.
destroy ==
  /\ \A c \in Caller : pc[c] = "idle"
  /\ PushStops
  /\ Goto(Owner, "dtor_notify")
  /\ UNCHANGED <<wpc, cur, fut, finishes>>

\* Mutant of destroy_members: it also waits for the deque to be empty.
destroy_members_drains ==
  /\ pc[Owner] = "dtor_join"
  /\ Live = {}
  /\ work_ = <<>>
  /\ Goto(Owner, "dead")
  /\ UNCHANGED <<work_, wpc, cur, fut, finishes>>

\* The destructor of finished_ waits for every thread; then work_ goes.
destroy_members ==
  /\ pc[Owner] = "dtor_join"
  /\ Live = {}
  /\ ClearWork
  /\ Goto(Owner, "dead")
  /\ UNCHANGED <<wpc, cur, finishes>>

-----------------------------------------------------------------------------
(* thread_task.                                                            *)

\* Mutants of thread_take: the task is copied and stays in the deque; the
\* empty task is run like any other.
thread_take_no_pop(w) ==
  /\ wpc[w] = "ready"
  /\ work_ # <<>>
  /\ Head(work_) # Stop
  /\ GotoW(w, "running")
  /\ cur' = [cur EXCEPT ![w] = Head(work_)]
  /\ UNCHANGED <<work_, pc, fut, finishes>>

thread_take_unchecked(w) ==
  /\ wpc[w] = "ready"
  /\ work_ # <<>>
  /\ work_' = Tail(work_)
  /\ GotoW(w, "running")
  /\ cur' = [cur EXCEPT ![w] = Head(work_)]
  /\ UNCHANGED <<pc, fut, finishes>>

\* The critical section: sleep, or take the first task.
thread_take(w) ==
  /\ wpc[w] = "ready"
  /\ \/ /\ work_ = <<>>
        /\ GotoW(w, "waiting")
        /\ UNCHANGED <<work_, cur>>
     \/ /\ work_ # <<>>
        /\ work_' = Tail(work_)
        /\ IF Head(work_) = Stop
           THEN GotoW(w, "done") /\ UNCHANGED cur
           ELSE GotoW(w, "running") /\ cur' = [cur EXCEPT ![w] = Head(work_)]
  /\ UNCHANGED <<pc, fut, finishes>>

\* notifier_.wait may return without a notification.
spurious_wakeup(w) ==
  /\ wpc[w] = "waiting"
  /\ GotoW(w, "ready")
  /\ UNCHANGED <<work_, cur, pc, fut, finishes>>

\* The body of a task that queues another one, and its notify_one.
body_queue(w) ==
  /\ wpc[w] = "running"
  /\ Child[cur[w]] # NoTask
  /\ Enqueue(Child[cur[w]])
  /\ GotoW(w, "body_notify")
  /\ UNCHANGED <<cur, pc, finishes>>

body_notify(w) ==
  /\ wpc[w] = "body_notify"
  /\ wpc' \in AfterNotifyOne([wpc EXCEPT ![w] = "ending"])
  /\ UNCHANGED <<work_, cur, pc, fut, finishes>>

\* The body of a task that cancels the others.
body_cancel(w) ==
  /\ wpc[w] = "running"
  /\ Child[cur[w]] = NoTask
  /\ cur[w] \in Cancelling
  /\ ClearWork
  /\ GotoW(w, "ending")
  /\ UNCHANGED <<cur, pc, finishes>>

\* f() returns and its future is ready.
body_return(w) ==
  /\ \/ wpc[w] = "ending"
     \/ /\ wpc[w] = "running"
        /\ Child[cur[w]] = NoTask
        /\ cur[w] \notin Cancelling
  /\ fut' = [fut EXCEPT ![cur[w]] = "ready"]
  /\ cur' = [cur EXCEPT ![w] = NoTask]
  /\ GotoW(w, "ready")
  /\ UNCHANGED <<work_, pc, finishes>>

ThreadStep(w) ==
  \/ thread_take(w) \/ body_queue(w) \/ body_notify(w)
  \/ body_cancel(w) \/ body_return(w)

\* The steps of a caller that is inside a call.
CallStep(c) ==
  \/ queue_notify(c)
  \/ c = Owner /\ (finish_notify \/ destroy_members)
  \/ c = Owner /\ pc[Owner] = "abort_finish" /\ finish

Next ==
  \/ \E c \in Caller : queue_notify(c) \/ cancel_pending(c)
  \/ \E c \in Caller, t \in Task : queue(c, t)
  \/ \E w \in Worker : start(w) \/ ThreadStep(w) \/ spurious_wakeup(w)
  \/ abort \/ finish \/ finish_notify \/ destroy \/ destroy_members

Spec == Init /\ [][Next]_vars

\* A thread of the pool, and a caller inside a call, keep being scheduled, and
\* the body of a task returns.
FairSpec ==
  /\ Spec
  /\ \A w \in Worker : WF_vars(ThreadStep(w))
  /\ \A c \in Caller : WF_vars(CallStep(c))

-----------------------------------------------------------------------------
(* Properties.                                                             *)

\* The types of the deque, of the threads and of the futures.
TypeOK ==
  /\ work_ \in Seq(Task \cup {Stop})
  /\ wpc \in [Worker -> {"unborn", "ready", "waiting", "running", "body_notify",
                         "ending", "done"}]
  /\ cur \in [Worker -> Task \cup {NoTask}]
  /\ pc \in [Caller -> {"idle", "notify_one", "abort_finish", "notify_all",
                        "dtor_notify", "dtor_join", "dead"}]
  /\ fut \in [Task -> {"none", "pending", "ready", "broken"}]
  /\ finishes \in 0..MaxFinish

\* The notifications that are owed: those of queue, from a caller or from the
\* body of a task.
OwedByCallers == {c \in Caller : pc[c] = "notify_one"}
OwedByBodies == {w \in Worker : wpc[w] = "body_notify"}
Ready == {w \in Worker : wpc[w] = "ready"}

\* No wakeup is lost: a thread sleeps beside a non-empty deque only while as
\* many threads are awake at the deque, or notifications still to come, as the
\* deque has entries.  The mutex is released before notify_one, one thread is
\* woken per task, and every thread that found the deque empty is asleep by
\* then: any of those could have gone wrong.
NoLostWakeup ==
  Waiting # {} /\ pc[Owner] \notin {"notify_all", "dtor_notify"} =>
    Len(work_) <= Cardinality(Ready) + Cardinality(OwedByCallers)
                  + Cardinality(OwedByBodies)

\* A task whose future is pending is in the deque once or run by one thread,
\* and no other task is in either: none is lost, and none is run twice or after
\* its promise was broken, by any interleaving of queue, cancel_pending, abort
\* and the threads.
EachTaskOnce ==
  \A t \in Task :
    Cardinality({i \in 1..Len(work_) : work_[i] = t})
      + Cardinality({w \in Worker : cur[w] = t})
    = IF fut[t] = "pending" THEN 1 ELSE 0

\* t is in the deque with no stop message before it.
NextInLine(t) ==
  \E i \in 1..Len(work_) : work_[i] = t /\ \A j \in 1..i : work_[j] # Stop

\* A task that is in the deque before any stop message, while some thread is
\* there to take it, is run or cancelled: finish, abort and the destructor let
\* the threads work through what was queued before them.
QueuedTaskRuns ==
  \A t \in Task : NextInLine(t) /\ Live # {} ~> fut[t] \in {"ready", "broken"}

\* No body has called cancel_pending, and none is in the deque or to come.
NoCancelBody ==
  \A t \in Cancelling : fut[t] \in {"none", "broken"} /\ t \notin Children

Stops == {i \in 1..Len(work_) : work_[i] = Stop}

\* When the destructor has pushed its stop messages there is one for every
\* thread that is still there, whatever earlier calls of finish, abort,
\* cancel_pending and start have left behind: anonymous messages, threads that
\* took the message of another one, threads that outlived a finish.
StopForEveryone ==
  pc[Owner] \in {"dtor_notify", "dtor_join"} /\ NoCancelBody =>
    Cardinality(Live) <= Cardinality(Stops)

\* The destructor returns, after any calls of the pool, if no body cancels.
DestructorReturns ==
  pc[Owner] = "dtor_notify" /\ NoCancelBody ~> pc[Owner] = "dead"

\* finish and abort wait: when one of them returns, no thread that was started is
\* still there.  "abort() cancels all non-started tasks, and tells every working
\* thread stop running, and waits for them to finish up", and finish "enques a
\* 'stop the thread' message for every thread, then waits for them".
FinishWaits ==
  [][pc[Owner] = "notify_all" /\ pc'[Owner] = "idle" => Live' = {}]_vars

\* The destructor always returns: "cancel_pending() merely cancels all
\* non-started tasks", and stop messages are not tasks.
DestructorAlwaysReturns == pc[Owner] = "dtor_notify" ~> pc[Owner] = "dead"
=============================================================================
