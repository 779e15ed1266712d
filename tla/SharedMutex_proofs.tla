-------------------------- MODULE SharedMutex_proofs --------------------------
(***************************************************************************)
(* Proofs about the shared mutex, for any number of processes and of       *)
(* segments, and whichever of the processes fail or are killed.            *)
(***************************************************************************)
EXTENDS SharedMutex, FiniteSetTheorems, TLAPS

\* The actions, and what all of them are built from.
USE SharedMutexAssumption DEF Goto, Segment, MayInit, InInit, HasMutex

-----------------------------------------------------------------------------
(* Type correctness.                                                       *)

\* A process that is past shm_open, and was not told that it failed, has the number of an existing segment.
LEMMA OpenSegment ==
  ASSUME TypeOK, NEW p \in Proc, pc[p] \notin {"out", "create", "failed"}
  PROVE  seg[p] \in Segment /\ seg[p] \in 1..count
  BY DEF TypeOK

\* A process that leaves has its types.
LEMMA LeaveType ==
  ASSUME TypeOK, NEW p \in Proc, Leave(p), UNCHANGED <<count>>,
         name' \in 0..count,
         mutex' \in [Segment -> {"raw", "live", "destroyed"}],
         holder' \in [Segment -> Proc \cup {NoProc}]
  PROVE  TypeOK'
  BY DEF TypeOK, Leave

\* So has one that is told that its call failed.
LEMMA FailType ==
  ASSUME TypeOK, NEW p \in Proc, Goto(p, "failed"),
         UNCHANGED <<name, count, mutex, holder>>,
         seg' = seg \/ seg' = [seg EXCEPT ![p] = 0],
         created' \in [Proc -> {0, 1}]
  PROVE  TypeOK'
<1>1. CASE seg' = seg
  BY <1>1 DEF TypeOK
<1>2. CASE seg' = [seg EXCEPT ![p] = 0]
  BY <1>2 DEF TypeOK
<1> QED
  BY <1>1, <1>2

\* Every action keeps the types.
LEMMA TypeStep == TypeOK /\ [Next]_vars => TypeOK'
<1> SUFFICES ASSUME TypeOK, [Next]_vars PROVE TypeOK'
  OBVIOUS
<1>1. ASSUME NEW p \in Proc, shm_open(p) PROVE TypeOK'
  <2>1. UNCHANGED <<name, count, mutex, holder>> /\ Structure(p, name)
    BY <1>1 DEF shm_open
  <2>2. CASE name # 0 /\ Goto(p, "ftruncate")
    BY <2>1, <2>2 DEF Structure, TypeOK
  <2>3. CASE name = 0 /\ Goto(p, "create")
    BY <2>1, <2>3 DEF Structure, TypeOK
  <2> QED
    BY <1>1, <2>2, <2>3 DEF shm_open
<1>2. ASSUME NEW p \in Proc, shm_open_create(p) PROVE TypeOK'
  BY <1>2 DEF shm_open_create, past, TypeOK
<1>3. ASSUME NEW p \in Proc, ftruncate(p) \/ mmap(p) PROVE TypeOK'
  BY <1>3 DEF ftruncate, mmap, past, TypeOK
<1>4. ASSUME NEW p \in Proc, pthread_mutex_init(p) PROVE TypeOK'
  BY <1>4 DEF pthread_mutex_init, past, TypeOK
<1>5. ASSUME NEW p \in Proc, shared_mutex_close(p) \/ destroy_fails(p) \/ close_fails(p)
                             \/ crash(p)
      PROVE  TypeOK'
  <2>1. UNCHANGED <<name, count, mutex, holder>>
    BY <1>5 DEF shared_mutex_close, destroy_fails, close_fails, crash
  <2>2. Leave(p) \/ (Goto(p, "failed") /\ UNCHANGED <<seg, created>>)
    BY <1>5 DEF shared_mutex_close, destroy_fails, close_fails, crash
  <2>3. CASE Leave(p)
    BY <2>1, <2>3, LeaveType DEF TypeOK
  <2>4. CASE Goto(p, "failed") /\ UNCHANGED <<seg, created>>
    BY <2>1, <2>4, FailType DEF TypeOK
  <2> QED
    BY <2>2, <2>3, <2>4
<1>10. ASSUME NEW p \in Proc, shm_open_fails(p) \/ init_fails(p) PROVE TypeOK'
  <2>1. UNCHANGED <<name, count, mutex, holder>> /\ Goto(p, "failed")
    BY <1>10 DEF shm_open_fails, init_fails
  <2>2. seg' = seg \/ seg' = [seg EXCEPT ![p] = 0]
    BY <1>10 DEF shm_open_fails, init_fails, Structure
  <2>3. created' \in [Proc -> {0, 1}]
    BY <1>10 DEF shm_open_fails, init_fails, Structure, CreatedBy, TypeOK
  <2> QED
    BY <2>1, <2>2, <2>3, FailType
<1>6. ASSUME NEW p \in Proc, shared_mutex_destroy(p) PROVE TypeOK'
  BY <1>6 DEF shared_mutex_destroy, TypeOK
<1>7. ASSUME NEW p \in Proc, shared_mutex_destroy_unlink(p) PROVE TypeOK'
  <2>1. Leave(p) /\ name' = 0 /\ UNCHANGED <<count, mutex, holder>>
    BY <1>7 DEF shared_mutex_destroy_unlink
  <2> QED
    BY <2>1, LeaveType DEF TypeOK
<1>8. ASSUME NEW p \in Proc, pthread_mutex_lock(p) \/ pthread_mutex_unlock(p)
      PROVE  TypeOK'
  <2>1. CASE pthread_mutex_lock(p)
    BY <2>1 DEF pthread_mutex_lock, past, TypeOK
  <2>2. CASE pthread_mutex_unlock(p)
    BY <2>2 DEF pthread_mutex_unlock, past, TypeOK
  <2> QED
    BY <1>8, <2>1, <2>2
<1>9. CASE UNCHANGED vars
  BY <1>9 DEF vars, TypeOK
<1> QED
  BY <1>1, <1>2, <1>3, <1>4, <1>5, <1>6, <1>7, <1>8, <1>9, <1>10
  DEF Next, shared_mutex_init

\* The segments and the structures of the processes always have their types.
THEOREM TypeCorrect == Spec => []TypeOK
<1>1. Init => TypeOK
  BY DEF Init, TypeOK
<1> QED
  BY <1>1, TypeStep, PTL DEF Spec

-----------------------------------------------------------------------------
(* Orderly use.                                                            *)

\* A process that creates or destroys the mutex.
Exclusive(p) == Creating(p) \/ pc[p] = "unlink"

\* It is the only one that has anything to do with the segment: the others are out
\* or have a structure of no use.
Alone ==
  \A p, q \in Proc : Exclusive(p) /\ p # q => pc[q] \in MayInit

\* Whoever has a segment open and may use it has the one with the name; there is none yet while
\* one is about to be created.
OneSegment ==
  \A p \in Proc : /\ seg[p] # 0 /\ pc[p] # "failed" => seg[p] = name
                  /\ pc[p] = "create" => name = 0

\* What has the name is live, unless somebody is creating or destroying it.
NameLive == name # 0 => mutex[name] = "live" \/ \E p \in Proc : Exclusive(p)

\* Who is between lock and unlock is the holder.
LockedHolds == \A p \in Proc : pc[p] = "locked" => holder[seg[p]] = p

UseInv == Alone /\ OneSegment /\ NameLive /\ LockedHolds

\* The field created is set when a process is about to initialise the mutex.
CreatedKept == \A p \in Proc : pc[p] = "pthread_init" => created[p] = 1

\* The inductive invariant.
IInv == TypeOK /\ CreatedKept /\ (Orderly => UseInv)

\* Every action keeps created in step with the control.
LEMMA CreatedStep == TypeOK /\ CreatedKept /\ [Next]_vars => CreatedKept'
<1> SUFFICES ASSUME TypeOK, CreatedKept, [Next]_vars PROVE CreatedKept'
  OBVIOUS
<1> USE DEF TypeOK, CreatedKept
<1>1. ASSUME NEW p \in Proc, shm_open(p) PROVE CreatedKept'
  <2>1. Structure(p, name) /\ (Goto(p, "ftruncate") \/ Goto(p, "create"))
    BY <1>1 DEF shm_open
  <2> QED
    BY <2>1 DEF Structure
<1>2. ASSUME NEW p \in Proc, shm_open_create(p) PROVE CreatedKept'
  BY <1>2 DEF shm_open_create
<1>3. ASSUME NEW p \in Proc, ftruncate(p) \/ mmap(p) PROVE CreatedKept'
  BY <1>3 DEF ftruncate, mmap
<1>4. ASSUME NEW p \in Proc, pthread_mutex_init(p) PROVE CreatedKept'
  BY <1>4 DEF pthread_mutex_init
<1>5. ASSUME NEW p \in Proc, Leave(p) PROVE CreatedKept'
  BY <1>5 DEF Leave
<1>6. ASSUME NEW p \in Proc, shared_mutex_destroy(p) PROVE CreatedKept'
  BY <1>6 DEF shared_mutex_destroy
<1>7. ASSUME NEW p \in Proc, pthread_mutex_lock(p) \/ pthread_mutex_unlock(p)
      PROVE  CreatedKept'
  BY <1>7 DEF pthread_mutex_lock, pthread_mutex_unlock
<1>8. CASE UNCHANGED vars
  BY <1>8 DEF vars
<1>9. ASSUME NEW p \in Proc, Goto(p, "failed"),
             \A q \in Proc \ {p} : created'[q] = created[q]
      PROVE  CreatedKept'
  BY <1>9
<1>10. ASSUME NEW p \in Proc, shm_open_fails(p) \/ init_fails(p) \/ close_fails(p)
       PROVE  CreatedKept'
  <2>1. Goto(p, "failed") /\ \A q \in Proc \ {p} : created'[q] = created[q]
    BY <1>10 DEF shm_open_fails, init_fails, close_fails, Structure
  <2> QED
    BY <1>9, <2>1
<1>11. ASSUME NEW p \in Proc, destroy_fails(p) PROVE CreatedKept'
  <2>1. Leave(p) \/ (Goto(p, "failed") /\ UNCHANGED created)
    BY <1>11 DEF destroy_fails
  <2> QED
    BY <1>5, <1>9, <2>1
<1> QED
  BY <1>1, <1>2, <1>3, <1>4, <1>5, <1>6, <1>7, <1>8, <1>10, <1>11
  DEF Next, shared_mutex_init, shared_mutex_close, shared_mutex_destroy_unlink, crash

\* What is recorded as disorderly stays so.
LEMMA OrderlyBefore == [Next]_vars /\ Orderly' => Orderly
<1> USE DEF Orderly
<1>1. ASSUME NEW p \in Proc, shm_open(p), Orderly' PROVE Orderly
  BY <1>1 DEF shm_open
<1>2. ASSUME NEW p \in Proc, init_fails(p) \/ destroy_fails(p) \/ crash(p), Orderly'
      PROVE  Orderly
  <2>1. UNCHANGED <<mixed, pulled>> /\ (spoiled => spoiled')
    BY <1>2 DEF init_fails, destroy_fails, crash
  <2> QED
    BY <1>2, <2>1
<1>3. ASSUME NEW p \in Proc, shared_mutex_destroy(p), Orderly' PROVE Orderly
  BY <1>3 DEF shared_mutex_destroy
<1>4. ASSUME UNCHANGED past, Orderly' PROVE Orderly
  BY <1>4 DEF past
<1> QED
  BY <1>1, <1>2, <1>3, <1>4
  DEF Next, vars, shared_mutex_init, shm_open_create, ftruncate, mmap,
      pthread_mutex_init, shm_open_fails, shared_mutex_close, close_fails,
      shared_mutex_destroy_unlink, pthread_mutex_lock, pthread_mutex_unlock

-----------------------------------------------------------------------------
(* One lemma for each kind of step of orderly use.                         *)

\* When no other process is in shared_mutex_init or unlinks, one that finds no
\* segment, or has the only one to itself, is on its own.
LEMMA OthersOut ==
  ASSUME TypeOK, OneSegment, NEW p \in Proc, ~Beside(p),
         name = 0 \/ \A q \in Proc \ {p} : seg[q] # name \/ pc[q] = "failed"
  PROVE  \A q \in Proc \ {p} : pc[q] \in MayInit
  BY DEF TypeOK, OneSegment, Beside

\* Opening an existing segment, or finding none.
LEMMA UseOpen ==
  ASSUME TypeOK, CreatedKept, UseInv, NEW p \in Proc, shm_open(p), Orderly'
  PROVE  UseInv'
<1> USE DEF TypeOK, UseInv, OneSegment, Exclusive, Creating
<1>1. /\ UNCHANGED <<name, mutex, holder>> /\ pc[p] \in MayInit
      /\ seg' = [seg EXCEPT ![p] = name] /\ created' = [created EXCEPT ![p] = 0]
  BY DEF shm_open, Structure
<1>2. CASE name # 0
  <2>1. Goto(p, "ftruncate") /\ ~Busy(p)
    BY <1>2 DEF shm_open, Orderly
  <2>2. \A q \in Proc : ~Exclusive(q) /\ ~Exclusive(q)'
    BY <1>1, <2>1 DEF Busy
  <2>3. Alone' /\ OneSegment'
    BY <1>1, <1>2, <2>1, <2>2 DEF Alone
  <2>4. NameLive'
    BY <1>1, <1>2, <2>2 DEF NameLive
  <2>5. LockedHolds'
    BY <1>1, <2>1 DEF LockedHolds
  <2> QED
    BY <2>3, <2>4, <2>5
<1>3. CASE name = 0
  <2>1. Goto(p, "create") /\ ~Beside(p)
    BY <1>3 DEF shm_open, Orderly
  <2>2. \A q \in Proc \ {p} : pc[q] \in MayInit
    BY <1>3, <2>1, OthersOut
  <2>3. Alone'
    BY <1>1, <2>1, <2>2 DEF Alone
  <2>4. OneSegment' /\ NameLive' /\ LockedHolds'
    BY <1>1, <1>3, <2>1, <2>2 DEF NameLive, LockedHolds
  <2> QED
    BY <2>3, <2>4
<1> QED
  BY <1>2, <1>3

\* Creating the segment.
LEMMA UseCreate ==
  ASSUME TypeOK, UseInv, NEW p \in Proc, shm_open_create(p)
  PROVE  UseInv'
<1> USE DEF TypeOK, UseInv, OneSegment, Exclusive, Creating
<1>1. name = 0 /\ \A q \in Proc \ {p} : pc[q] \in MayInit
  BY DEF shm_open_create, Alone
<1>2. name' = count + 1 /\ seg' = [seg EXCEPT ![p] = name']
  BY <1>1 DEF shm_open_create
<1>3. /\ Goto(p, "ftruncate") /\ created' = [created EXCEPT ![p] = 1]
      /\ UNCHANGED <<mutex, holder>>
  BY DEF shm_open_create
<1>4. Exclusive(p)' /\ \A q \in Proc \ {p} : ~Exclusive(q)'
  BY <1>1, <1>3
<1>5. Alone' /\ NameLive'
  BY <1>1, <1>3, <1>4 DEF Alone, NameLive
<1>6. OneSegment' /\ LockedHolds'
  BY <1>1, <1>2, <1>3 DEF LockedHolds
<1> QED
  BY <1>5, <1>6

\* Sizing and mapping it.
LEMMA UseMap ==
  ASSUME TypeOK, CreatedKept, UseInv, NEW p \in Proc, ftruncate(p) \/ mmap(p)
  PROVE  UseInv'
<1> USE DEF TypeOK, UseInv, Exclusive, Creating
<1>1. /\ UNCHANGED <<name, mutex, holder, seg, created>>
      /\ pc[p] \in {"ftruncate", "mmap"}
      /\ \/ Goto(p, "mmap")
         \/ created[p] = 1 /\ Goto(p, "pthread_init")
         \/ created[p] # 1 /\ Goto(p, "open")
  BY DEF ftruncate, mmap
<1>2. \A q \in Proc : Exclusive(q)' <=> Exclusive(q)
  BY <1>1
<1>3. Alone' /\ NameLive'
  BY <1>1, <1>2 DEF Alone, NameLive
<1>4. OneSegment' /\ LockedHolds'
  BY <1>1 DEF OneSegment, LockedHolds
<1> QED
  BY <1>3, <1>4

\* Initialising the mutex.
LEMMA UseInit ==
  ASSUME TypeOK, CreatedKept, UseInv, NEW p \in Proc, pthread_mutex_init(p)
  PROVE  UseInv'
<1> USE DEF TypeOK, UseInv, Exclusive, Creating
<1>1. created[p] = 1 /\ \A q \in Proc \ {p} : pc[q] \in MayInit
  BY DEF pthread_mutex_init, CreatedKept, Alone
<1>2. seg[p] = name /\ name \in Segment
  BY OpenSegment DEF pthread_mutex_init, OneSegment
<1>3. /\ Goto(p, "open") /\ UNCHANGED <<name, seg, created>>
      /\ mutex' = [mutex EXCEPT ![seg[p]] = "live"]
  BY DEF pthread_mutex_init
<1>4. Alone'
  BY <1>1, <1>3 DEF Alone
<1>5. OneSegment'
  BY <1>1, <1>2, <1>3 DEF OneSegment
<1>6. LockedHolds'
  BY <1>1, <1>3 DEF LockedHolds
<1>7. NameLive'
  BY <1>2, <1>3 DEF NameLive
<1> QED
  BY <1>4, <1>5, <1>6, <1>7

\* p gives up its structure, whether its descriptor is closed or not.
GivesUp(p) ==
  /\ \/ Leave(p)
     \/ /\ Goto(p, "failed")
        /\ \A q \in Proc \ {p} : seg'[q] = seg[q] /\ created'[q] = created[q]
  /\ UNCHANGED <<name, mutex, holder>>

\* Giving up without having created or destroyed anything, by an error, by
\* shared_mutex_close or by a signal.
LEMMA UseGivesUp ==
  ASSUME TypeOK, UseInv, NEW p \in Proc, GivesUp(p), ~Exclusive(p) \/ pc[p] = "create"
  PROVE  UseInv'
<1> USE DEF TypeOK, UseInv, Exclusive, Creating
<1>0. /\ pc'[p] \in MayInit /\ UNCHANGED <<name, mutex, holder>>
      /\ pc'[p] = "out" => seg'[p] = 0
      /\ \A q \in Proc \ {p} : /\ pc'[q] = pc[q] /\ seg'[q] = seg[q]
                             /\ created'[q] = created[q]
  BY DEF GivesUp, Leave
<1>1. \A q \in Proc : Exclusive(q)' => Exclusive(q) /\ q # p
  BY <1>0
<1>2. Alone'
  BY <1>0, <1>1 DEF Alone
<1>3. OneSegment' /\ LockedHolds'
  BY <1>0 DEF OneSegment, LockedHolds
<1>4. NameLive'
  <2>1. CASE pc[p] = "create"
    BY <1>0, <2>1 DEF OneSegment, NameLive
  <2>2. CASE ~Exclusive(p)
    <3>1. \A q \in Proc : Exclusive(q) => Exclusive(q)'
      BY <1>0, <2>2
    <3> QED
      BY <1>0, <3>1 DEF NameLive
  <2> QED
    BY <2>1, <2>2
<1> QED
  BY <1>2, <1>3, <1>4

\* Destroying a mutex that nobody else has open.
LEMMA UseDestroy ==
  ASSUME TypeOK, UseInv, NEW p \in Proc, shared_mutex_destroy(p), Orderly'
  PROVE  UseInv'
<1> USE DEF TypeOK, UseInv, Exclusive, Creating
<1>1. /\ Goto(p, "unlink") /\ UNCHANGED <<name, holder, seg, created>>
      /\ pc[p] = "open" /\ seg[p] = name
      /\ ~Beside(p) /\ \A q \in Proc \ {p} : seg[q] # seg[p] \/ pc[q] = "failed"
  BY DEF shared_mutex_destroy, Orderly, OneSegment
<1>2. \A q \in Proc \ {p} : pc[q] \in MayInit
  BY <1>1, OthersOut
<1>3. Alone' /\ NameLive'
  BY <1>1, <1>2 DEF Alone, NameLive
<1>4. OneSegment' /\ LockedHolds'
  BY <1>1, <1>2 DEF OneSegment, LockedHolds
<1> QED
  BY <1>3, <1>4

\* Removing its name.
LEMMA UseUnlink ==
  ASSUME TypeOK, UseInv, NEW p \in Proc, shared_mutex_destroy_unlink(p)
  PROVE  UseInv'
<1> USE DEF TypeOK, UseInv, Exclusive, Creating
<1>1. \A q \in Proc \ {p} : pc[q] \in MayInit
  BY DEF shared_mutex_destroy_unlink, Alone
<1>2. name' = 0 /\ \A q \in Proc : pc'[q] \in MayInit /\ (pc'[q] = "out" => seg'[q] = 0)
  BY <1>1 DEF shared_mutex_destroy_unlink, Leave
<1> QED
  BY <1>2 DEF Alone, OneSegment, NameLive, LockedHolds

\* Locking and unlocking it.
LEMMA UseLock ==
  ASSUME TypeOK, UseInv, NEW p \in Proc, pthread_mutex_lock(p) \/ pthread_mutex_unlock(p)
  PROVE  UseInv'
<1> USE DEF TypeOK, UseInv, Exclusive, Creating
<1>1. /\ UNCHANGED <<name, mutex, seg, created>>
      /\ pc[p] \in HasMutex
      /\ \/ Goto(p, "locked") /\ holder' = [holder EXCEPT ![seg[p]] = p]
         \/ Goto(p, "open") /\ holder' = [holder EXCEPT ![seg[p]] = NoProc]
  BY DEF pthread_mutex_lock, pthread_mutex_unlock
<1>2. \A q \in Proc : Exclusive(q)' <=> Exclusive(q)
  BY <1>1
<1>3. Alone' /\ NameLive' /\ OneSegment'
  BY <1>1, <1>2 DEF Alone, NameLive, OneSegment
<1>4. seg[p] = name /\ name \in Segment
  BY <1>1, OpenSegment DEF OneSegment
<1>5. holder[name] \in {p, NoProc}
  BY <1>4 DEF pthread_mutex_lock, pthread_mutex_unlock, LockedHolds
<1>6. \A q \in Proc : pc[q] = "locked" => q = p
  BY <1>5 DEF LockedHolds, OneSegment
<1>7. LockedHolds'
  <2>1. \A q \in Proc : pc'[q] = "locked" => q = p
    BY <1>1, <1>6
  <2>2. pc'[p] = "locked" => holder'[seg'[p]] = p
    BY <1>1, <1>4
  <2> QED
    BY <2>1, <2>2 DEF LockedHolds
<1> QED
  BY <1>3, <1>7

-----------------------------------------------------------------------------
(* The theorems.                                                           *)

\* Every step keeps the invariant.
LEMMA UseStep == IInv /\ [Next]_vars => IInv'
<1> SUFFICES ASSUME IInv, [Next]_vars, Orderly' PROVE UseInv'
  BY TypeStep, CreatedStep DEF IInv
<1>0. TypeOK /\ CreatedKept /\ UseInv
  BY OrderlyBefore DEF IInv
<1>1. ASSUME NEW p \in Proc, shm_open_fails(p) \/ init_fails(p) PROVE UseInv'
  <2>1. /\ Goto(p, "failed") /\ UNCHANGED <<name, mutex, holder>>
        /\ \A q \in Proc \ {p} : seg'[q] = seg[q] /\ created'[q] = created[q]
    <3>1. CASE shm_open_fails(p)
      BY <1>0, <3>1 DEF shm_open_fails, Structure, TypeOK
    <3>2. CASE init_fails(p)
      BY <1>0, <3>2 DEF init_fails, TypeOK
    <3> QED
      BY <1>1, <3>1, <3>2
  <2>2. pc[p] \in MayInit \/ (pc[p] \in InInit /\ created[p] # 1)
    BY <1>1 DEF shm_open_fails, init_fails, Orderly
  <2> QED
    BY <1>0, <2>1, <2>2, UseGivesUp DEF GivesUp, Exclusive, Creating
<1>2. ASSUME NEW p \in Proc, shared_mutex_close(p) \/ close_fails(p) PROVE UseInv'
  <2>1. GivesUp(p) /\ pc[p] = "open"
    BY <1>2 DEF shared_mutex_close, close_fails, GivesUp
  <2> QED
    BY <1>0, <2>1, UseGivesUp DEF Exclusive, Creating
<1>3. ASSUME NEW p \in Proc, crash(p) PROVE UseInv'
  <2>1. GivesUp(p) /\ ~Exclusive(p)
    BY <1>3 DEF crash, Orderly, Exclusive, GivesUp
  <2> QED
    BY <1>0, <2>1, UseGivesUp
<1>4. ASSUME NEW p \in Proc PROVE ~destroy_fails(p)
  BY DEF destroy_fails, Orderly
<1>5. CASE UNCHANGED vars
  BY <1>0, <1>5 DEF vars, UseInv, Alone, OneSegment, NameLive, LockedHolds,
                    Exclusive, Creating
<1> QED
  BY <1>0, <1>1, <1>2, <1>3, <1>4, <1>5, UseOpen, UseCreate, UseMap, UseInit,
     UseDestroy, UseUnlink, UseLock
  DEF Next, shared_mutex_init

\* The invariant holds throughout.
LEMMA UseCorrect == Spec => []IInv
<1>1. Init => IInv
  BY DEF Init, IInv, TypeOK, CreatedKept, UseInv, Alone, OneSegment, NameLive,
         LockedHolds, Exclusive, Creating
<1> QED
  BY <1>1, UseStep, PTL DEF Spec

\* As long as creations and destructions of the mutex stay on their own and none
\* is cut short, all processes that have it have the same one, it is initialised,
\* and it is the one the name leads to.
THEOREM OneLiveMutexHolds == Spec => []OneLiveMutex
<1>1. IInv => OneLiveMutex
  <2> SUFFICES ASSUME TypeOK, UseInv, Orderly PROVE OneLiveMutex
    BY DEF IInv, OneLiveMutex, LoadedIsLive, OneMutex
  <2>1. \A p \in Users : seg[p] = name /\ name # 0
    BY DEF Users, TypeOK, UseInv, OneSegment
  <2>2. ASSUME NEW p \in Users PROVE \A q \in Proc : ~Exclusive(q)
    BY <2>2 DEF Users, UseInv, Alone, Exclusive, Creating
  <2>3. \A p \in Users : mutex[seg[p]] = "live"
    BY <2>1, <2>2 DEF UseInv, NameLive
  <2>4. ASSUME NEW p \in Proc, Exclusive(p), name # 0
        PROVE  seg[p] = name
    BY <2>4 DEF Exclusive, Creating, UseInv, OneSegment, TypeOK
  <2> QED
    BY <2>1, <2>3, <2>4 DEF OneLiveMutex, LoadedIsLive, OneMutex, UseInv, NameLive, Exclusive
<1> QED
  BY <1>1, UseCorrect, PTL

\* In orderly use the mutex excludes: at most one process is between lock and
\* unlock, also when others create, close or load it or are killed meanwhile.
THEOREM ExclusionHolds == Spec => []Exclusion
<1>1. IInv => Exclusion
  <2> SUFFICES ASSUME TypeOK, UseInv, Orderly
               PROVE  Cardinality({p \in Proc : pc[p] = "locked"}) <= 1
    BY DEF IInv, Exclusion
  <2>1. \A p, q \in Proc : pc[p] = "locked" /\ pc[q] = "locked" => p = q
    <3> SUFFICES ASSUME NEW p \in Proc, NEW q \in Proc, pc[p] = "locked", pc[q] = "locked"
                 PROVE  p = q
      OBVIOUS
    <3>1. seg[p] = name /\ seg[q] = name
      BY DEF TypeOK, UseInv, OneSegment
    <3> QED
      BY <3>1 DEF UseInv, LockedHolds
  <2>2. CASE {p \in Proc : pc[p] = "locked"} = {}
    BY <2>2, FS_EmptySet
  <2>3. CASE \E p \in Proc : pc[p] = "locked"
    <3>0. PICK p \in Proc : pc[p] = "locked"
      BY <2>3
    <3>1. {q \in Proc : pc[q] = "locked"} = {p}
      BY <2>1, <3>0
    <3> QED
      BY <3>1, FS_Singleton, 1 <= 1
  <2> QED
    BY <2>2, <2>3
<1> QED
  BY <1>1, UseCorrect, PTL
=============================================================================
