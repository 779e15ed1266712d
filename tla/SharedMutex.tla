------------------------------ MODULE SharedMutex ------------------------------
(***************************************************************************)
(* shared_mutex.cpp: a pthread mutex in a shared memory segment with a     *)
(* name, created by the process that does not find it.  Each system call   *)
(* is a step, and each may fail where the code looks at its result.        *)
(*                                                                         *)
(* Segments are numbered in the order of their creation.  One whose name   *)
(* is gone lives on for those who have mapped it.                          *)
(***************************************************************************)
EXTENDS Integers, FiniteSets

CONSTANTS
  Proc,       \* the processes
  MayFail,    \* those whose system calls may fail
  MayCrash,   \* those that may be killed
  MaxSegment, \* bound on the segments ever created, for model checking
  NoProc

ASSUME SharedMutexAssumption ==
  /\ NoProc \notin Proc
  /\ MayFail \subseteq Proc /\ MayCrash \subseteq Proc
  /\ MaxSegment \in Nat

Segment == 1..MaxSegment

VARIABLES
  name,      \* the segment that has the name, or 0
  count,     \* the segments created so far
  mutex,     \* what is in each segment: a raw, live or destroyed mutex
  holder,    \* the process that has locked it, or NoProc
  pc,        \* where each process is
  seg,       \* its shm_fd: the segment it has open, or 0
  created,   \* the field created of its structure
  mixed,     \* history: a creation or a destruction overlapped another call
  spoiled,   \* history: a creation or a destruction was cut short
  pulled     \* history: a mutex was destroyed that others had open

past == <<mixed, spoiled, pulled>>
vars == <<name, count, mutex, holder, pc, seg, created, past>>

Init ==
  /\ name = 0 /\ count = 0
  /\ mutex = [s \in Segment |-> "raw"]
  /\ holder = [s \in Segment |-> NoProc]
  /\ pc = [p \in Proc |-> "out"]
  /\ seg = [p \in Proc |-> 0]
  /\ created = [p \in Proc |-> 0]
  /\ mixed = FALSE /\ spoiled = FALSE /\ pulled = FALSE

Goto(p, label) == pc' = [pc EXCEPT ![p] = label]

InInit == {"create", "ftruncate", "mmap", "pthread_init"}
HasMutex == {"open", "locked"}

\* The process may call shared_mutex_init.  After a call that failed it has a
\* structure of no use whose shm_fd and created are still set: the segment stays
\* open to it until it initialises a structure anew, and is not closed then.
MayInit == {"out", "failed"}

\* p is about to become, or is, the creator.
Creating(p) == pc[p] = "create" \/ (pc[p] \in InInit /\ created[p] = 1)

\* Another process is inside a call that must not overlap with one of p.
Busy(p) == \E q \in Proc \ {p} : Creating(q) \/ pc[q] = "unlink"
Beside(p) == \E q \in Proc \ {p} : pc[q] \in InInit \cup {"unlink"}

\* The structure is gone, and its descriptor is closed.
Leave(p) ==
  /\ Goto(p, "out")
  /\ seg' = [seg EXCEPT ![p] = 0]
  /\ created' = [created EXCEPT ![p] = 0]

-----------------------------------------------------------------------------
(* shared_mutex_init.                                                      *)

\* shared_mutex_t mutex = {NULL, 0, NULL, 0}, and then an shm_fd.
Structure(p, fd) ==
  /\ seg' = [seg EXCEPT ![p] = fd]
  /\ created' = [created EXCEPT ![p] = 0]

\* Mutant of shm_open: errno is left over from an earlier call.
shm_open_stale(p) ==
  /\ pc[p] \in MayInit
  /\ Structure(p, 0)
  /\ Goto(p, "create")
  /\ mixed' = (mixed \/ Beside(p))
  /\ UNCHANGED <<name, count, mutex, holder, spoiled, pulled>>

\* Open what exists.
shm_open(p) ==
  /\ pc[p] \in MayInit
  /\ Structure(p, name)
  /\ \/ /\ name # 0
        /\ Goto(p, "ftruncate")
        /\ mixed' = (mixed \/ Busy(p))
     \/ /\ name = 0
        /\ Goto(p, "create")
        /\ mixed' = (mixed \/ Beside(p))
  /\ UNCHANGED <<name, count, mutex, holder, spoiled, pulled>>

\* The name cannot be opened for another reason than its absence.
shm_open_fails(p) ==
  /\ pc[p] \in MayInit
  /\ p \in MayFail
  /\ Structure(p, 0)
  /\ Goto(p, "failed")
  /\ UNCHANGED <<name, count, mutex, holder, past>>

\* O_CREAT without O_EXCL: a segment that came up since is opened, and created
\* is set all the same.
shm_open_create(p) ==
  /\ pc[p] = "create"
  /\ \/ /\ name = 0
        /\ count < MaxSegment
        /\ count' = count + 1
        /\ name' = count'
     \/ name # 0 /\ UNCHANGED <<name, count>>
  /\ seg' = [seg EXCEPT ![p] = name']
  /\ created' = [created EXCEPT ![p] = 1]
  /\ Goto(p, "ftruncate")
  /\ UNCHANGED <<mutex, holder, past>>

ftruncate(p) ==
  /\ pc[p] = "ftruncate"
  /\ Goto(p, "mmap")
  /\ UNCHANGED <<name, count, mutex, holder, seg, created, past>>

mmap(p) ==
  /\ pc[p] = "mmap"
  /\ Goto(p, IF created[p] = 1 THEN "pthread_init" ELSE "open")
  /\ UNCHANGED <<name, count, mutex, holder, seg, created, past>>

\* A second initialisation forgets who holds the mutex.
pthread_mutex_init(p) ==
  /\ pc[p] = "pthread_init"
  /\ mutex' = [mutex EXCEPT ![seg[p]] = "live"]
  /\ holder' = [holder EXCEPT ![seg[p]] = NoProc]
  /\ Goto(p, "open")
  /\ UNCHANGED <<name, count, seg, created, past>>

\* The field created is set whether or not the second shm_open succeeds.
CreatedBy(p) == IF pc[p] = "create" THEN 1 ELSE created[p]

\* Mutant of init_fails: the result of the second shm_open is not looked at.
init_fails_unchecked(p) ==
  /\ pc[p] \in InInit
  /\ p \in MayFail
  /\ spoiled' = (spoiled \/ created[p] = 1)
  /\ created' = [created EXCEPT ![p] = CreatedBy(p)]
  /\ Goto(p, IF pc[p] = "create" THEN "ftruncate" ELSE "failed")
  /\ UNCHANGED <<name, count, mutex, holder, seg, mixed, pulled>>

\* Any of these calls fails: the structure is returned as far as it came, with
\* its descriptor open, and what was created stays behind.
init_fails(p) ==
  /\ pc[p] \in InInit
  /\ p \in MayFail
  /\ spoiled' = (spoiled \/ created[p] = 1)
  /\ created' = [created EXCEPT ![p] = CreatedBy(p)]
  /\ Goto(p, "failed")
  /\ UNCHANGED <<name, count, mutex, holder, seg, mixed, pulled>>

shared_mutex_init(p) ==
  \/ shm_open(p) \/ shm_open_create(p) \/ ftruncate(p) \/ mmap(p)
  \/ pthread_mutex_init(p) \/ shm_open_fails(p) \/ init_fails(p)

-----------------------------------------------------------------------------
(* shared_mutex_close and shared_mutex_destroy.                            *)

\* Mutant of shared_mutex_close: the name is removed.
shared_mutex_close_unlinks(p) ==
  /\ pc[p] = "open"
  /\ name' = 0
  /\ Leave(p)
  /\ UNCHANGED <<count, mutex, holder, past>>

shared_mutex_close(p) ==
  /\ pc[p] = "open"
  /\ Leave(p)
  /\ UNCHANGED <<name, count, mutex, holder, past>>

\* munmap or close fails: the mutex is given up with its descriptor open.
close_fails(p) ==
  /\ pc[p] = "open"
  /\ p \in MayFail
  /\ Goto(p, "failed")
  /\ UNCHANGED <<name, count, mutex, holder, seg, created, past>>

\* pthread_mutex_destroy, munmap and close.  A locked mutex is refused: the call
\* returns -1 and has changed nothing.
shared_mutex_destroy(p) ==
  /\ pc[p] = "open"
  /\ holder[seg[p]] = NoProc
  /\ mutex' = [mutex EXCEPT ![seg[p]] = "destroyed"]
  /\ pulled' = (pulled \/ \E q \in Proc \ {p} : seg[q] = seg[p] /\ pc[q] # "failed")
  /\ mixed' = (mixed \/ Beside(p))
  /\ Goto(p, "unlink")
  /\ UNCHANGED <<name, count, holder, seg, created, spoiled>>

\* shm_unlink removes whatever has the name by now.
shared_mutex_destroy_unlink(p) ==
  /\ pc[p] = "unlink"
  /\ name' = 0
  /\ Leave(p)
  /\ UNCHANGED <<count, mutex, holder, past>>

\* A call after the destruction of the mutex fails and the name stays: munmap or
\* close with the descriptor open, or shm_unlink.
destroy_fails(p) ==
  /\ pc[p] = "unlink"
  /\ p \in MayFail
  /\ spoiled' = TRUE
  /\ \/ Goto(p, "failed") /\ UNCHANGED <<seg, created>>
     \/ Leave(p)
  /\ UNCHANGED <<name, count, mutex, holder, mixed, pulled>>

-----------------------------------------------------------------------------
(* The users of the mutex, and the system.                                 *)

pthread_mutex_lock(p) ==
  /\ pc[p] = "open"
  /\ holder[seg[p]] = NoProc
  /\ holder' = [holder EXCEPT ![seg[p]] = p]
  /\ Goto(p, "locked")
  /\ UNCHANGED <<name, count, mutex, seg, created, past>>

pthread_mutex_unlock(p) ==
  /\ pc[p] = "locked"
  /\ holder' = [holder EXCEPT ![seg[p]] = NoProc]
  /\ Goto(p, "open")
  /\ UNCHANGED <<name, count, mutex, seg, created, past>>

crash(p) ==
  /\ p \in MayCrash
  /\ pc[p] # "out"
  /\ spoiled' = (spoiled \/ Creating(p) \/ pc[p] = "unlink")
  /\ Leave(p)
  /\ UNCHANGED <<name, count, mutex, holder, mixed, pulled>>

Next == \E p \in Proc :
  \/ shared_mutex_init(p) \/ shared_mutex_close(p) \/ close_fails(p)
  \/ shared_mutex_destroy(p) \/ shared_mutex_destroy_unlink(p) \/ destroy_fails(p)
  \/ pthread_mutex_lock(p) \/ pthread_mutex_unlock(p) \/ crash(p)

Spec == Init /\ [][Next]_vars

-----------------------------------------------------------------------------
(* Properties.                                                             *)

\* The types of the segments and of the structures of the processes: past its
\* shm_open a process has a segment open, unless it was told that it failed.
TypeOK ==
  /\ name \in 0..count /\ count \in 0..MaxSegment
  /\ mutex \in [Segment -> {"raw", "live", "destroyed"}]
  /\ holder \in [Segment -> Proc \cup {NoProc}]
  /\ pc \in [Proc -> MayInit \cup InInit \cup HasMutex \cup {"unlink"}]
  /\ created \in [Proc -> {0, 1}]
  /\ seg \in [Proc -> 0..count]
  /\ \A p \in Proc : /\ pc[p] \in {"out", "create"} => seg[p] = 0
                     /\ pc[p] \notin {"out", "create", "failed"} => seg[p] # 0

\* The uses the functions are meant for: creations and destructions on their
\* own, none of them cut short, no destruction under the feet of others.  The
\* header asks for the first only, and only of creations.
Orderly == ~mixed /\ ~spoiled /\ ~pulled

Users == {p \in Proc : pc[p] \in HasMutex}

\* In orderly use a process that was given the mutex was given an initialised
\* one, and so will be the next: one with the name is live unless somebody is
\* still creating or destroying it.
LoadedIsLive ==
  Orderly => /\ \A p \in Users : mutex[seg[p]] = "live"
             /\ name = 0 \/ mutex[name] = "live"
                \/ \E p \in Proc : seg[p] = name /\ (Creating(p) \/ pc[p] = "unlink")

\* In orderly use all have the mutex that has the name.
OneMutex == Orderly => \A p \in Users : seg[p] = name

\* In orderly use everybody who was given a mutex has the same one, it was
\* initialised and not destroyed, and whoever loads it next will have it too:
\* LoadedIsLive and OneMutex.
OneLiveMutex == LoadedIsLive /\ OneMutex

\* In orderly use at most one process is between lock and unlock, whoever
\* creates, closes and loads the mutex beside it, and whoever is killed.
Exclusion == Orderly => Cardinality({p \in Proc : pc[p] = "locked"}) <= 1
=============================================================================
