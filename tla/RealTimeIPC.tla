------------------------------ MODULE RealTimeIPC ------------------------------
(***************************************************************************)
(* The data plane of class RealTimeIPC: one shared-memory segment, the     *)
(* named mutex that guards it, and the endpoints (one RealTimeIPC object,  *)
(* driven by one thread, per process) that are attached to it.             *)
(*                                                                         *)
(* Every public call copies the whole packet out of the segment under the  *)
(* mutex (getDataPacket), releases the mutex, works on the local copy and, *)
(* for the calls that write, copies the whole packet back under the mutex  *)
(* (setDataPacket).  The two copies are two critical sections, so calls of *)
(* different endpoints interleave between them.  A memcpy is not atomic:   *)
(* it is two steps here, the header and then the payload.                  *)
(*                                                                         *)
(* Time is a whole number of ticks of CLOCK_MONOTONIC and a tick is longer *)
(* than 1e-5 s, so that a latency above (below) the code's 1e-5 is one     *)
(* above 0 (not above 0) here.                                             *)
(*                                                                         *)
(* Every endpoint here has its memory and passes the right n_bytes.  The   *)
(* early returns of update and flush for a wrong size, and those of all    *)
(* calls but breakBond and dump for a client without memory, touch nothing *)
(* and are stutters.  A client without memory must not make these two:     *)
(* getDataPacket would lock through a null mutex_.  bonded_prev_ and       *)
(* is_hard_rt_prev_ only decide what is printed, and the time_ of update is *)
(* the clock.                                                              *)
(***************************************************************************)
EXTENDS Integers

CONSTANTS
  Procs,      \* the endpoints attached to the segment
  Servers,    \* the endpoints opened as SHMEM_SERVER, the others as SHMEM_CLIENT
  Calls,      \* Calls[p]: the public calls the program of endpoint p makes
  MayCrash,   \* the endpoints whose process may be killed at any step
  Periodic,   \* the servers whose program calls flush periodically
  FlushGap,   \* most ticks between two returns of flush in a Periodic server
  Watchdog,   \* watchdog_, in ticks
  StartTime,  \* the clock when the segment is created
  MaxTime,    \* bound of the clock, for model checking
  NoProc,     \* nobody holds the mutex
  Zero        \* the payload whose bytes are all 0x0

ReadCalls == {"isBonded", "isHardRT", "dump", "flush"}
WriteCalls == {"bond", "breakBond", "setHardRT", "setSoftRT", "update"}
\* destroy is the destructor: isBonded and then, if bonded, destroy_break, the
\* breakBond it makes.
Writers == WriteCalls \cup {"destroy_break"}
CallNames == ReadCalls \cup WriteCalls \cup {"destroy"}

ASSUME EndpointAssumption ==
  /\ Servers \subseteq Procs
  /\ Periodic \subseteq Servers
  /\ MayCrash \subseteq Procs
  /\ NoProc \notin Procs
  /\ Calls \in [Procs -> SUBSET CallNames]

ASSUME TimeAssumption ==
  /\ Watchdog \in Nat
  /\ FlushGap \in Nat
  /\ StartTime \in Nat
  /\ MaxTime \in Nat
  /\ StartTime <= MaxTime

\* A payload is identified by the update that supplied it: who and when.
Command == [by : Procs, at : Nat]

ASSUME ZeroAssumption == Zero \notin Command

Header == [bond_flag_ : {0, 1}, rt_flag_ : {0, 1}, time_ : Nat]
DataPacket == [header_ : Header, buffer : Command \cup {Zero}]

\* DataPacket::clear(), and the memset of a segment that was just created.
Cleared == [header_ |-> [bond_flag_ |-> 0, rt_flag_ |-> 0, time_ |-> 0],
            buffer |-> Zero]

VARIABLES
  shmem,                 \* the bytes of the mapped segment
  mutex,                 \* the holder of the named mutex, or NoProc
  now,                   \* CLOCK_MONOTONIC
  pc,                    \* where each endpoint is in its current call
  op,                    \* the call it is in
  arg,                   \* the time argument of update
  pkt,                   \* the local DataPacket of the call
  data_time_prev_,
  start_watchdog_time_,
  flush_time_prev_,
  \* History variables, read by no action.
  committed,             \* the segment when setDataPacket last completed
  disturbed,             \* somebody wrote the segment since p's getDataPacket
  freshAt                \* when the data last changed or the bond was last made

shared == <<shmem, mutex>>
calls == <<pc, op, arg, pkt>>
fields == <<data_time_prev_, start_watchdog_time_, flush_time_prev_>>
history == <<committed, disturbed, freshAt>>
vars == <<shared, now, calls, fields, history>>

Init ==
  /\ shmem = Cleared
  /\ mutex = NoProc
  /\ now = StartTime
  /\ pc = [p \in Procs |-> "idle"]
  /\ op = [p \in Procs |-> "none"]
  /\ arg = [p \in Procs |-> 0]
  /\ pkt = [p \in Procs |-> Cleared]
  /\ data_time_prev_ = [p \in Procs |-> 0]
  /\ start_watchdog_time_ = [p \in Procs |-> -1]
  /\ flush_time_prev_ = [p \in Procs |-> 0]
  /\ committed = Cleared
  /\ disturbed = [p \in Procs |-> FALSE]
  /\ freshAt = StartTime

-----------------------------------------------------------------------------
(* Entering and leaving a call.                                            *)

At(p, label, names) == pc[p] = label /\ op[p] \in names

Goto(p, label) == pc' = [pc EXCEPT ![p] = label]

\* The program of p makes call c; update stamps its data with the clock.
Call(p, c) ==
  /\ pc[p] = "idle"
  /\ Goto(p, "lock_get")
  /\ op' = [op EXCEPT ![p] = c]
  /\ arg' = [arg EXCEPT ![p] = IF c = "update" THEN now ELSE 0]
  /\ UNCHANGED <<shared, now, pkt, fields, history>>

\* The call of p returns; its local packet goes out of scope.
Return(p) ==
  /\ Goto(p, IF op[p] \in {"destroy", "destroy_break"} THEN "gone" ELSE "idle")
  /\ op' = [op EXCEPT ![p] = "none"]
  /\ arg' = [arg EXCEPT ![p] = 0]
  /\ pkt' = [pkt EXCEPT ![p] = Cleared]

-----------------------------------------------------------------------------
(* getDataPacket and setDataPacket.                                        *)

\* Mutant of GetLock: getDataPacket copies without the lock.
GetLock_unguarded(p) ==
  /\ pc[p] = "lock_get"
  /\ mutex' = p
  /\ pkt' = [pkt EXCEPT ![p] = [Cleared EXCEPT !.header_ = shmem.header_]]
  /\ Goto(p, "copy_get")
  /\ UNCHANGED <<shmem, now, op, arg, fields, history>>

\* Take the mutex, copy the header.
GetLock(p) ==
  /\ pc[p] = "lock_get"
  /\ mutex = NoProc
  /\ mutex' = p
  /\ pkt' = [pkt EXCEPT ![p] = [Cleared EXCEPT !.header_ = shmem.header_]]
  /\ Goto(p, "copy_get")
  /\ UNCHANGED <<shmem, now, op, arg, fields, history>>

\* Mutant of GetUnlock: the mutex is kept until the call returns.
GetUnlock_keeps(p) ==
  /\ pc[p] = "copy_get"
  /\ pkt' = [pkt EXCEPT ![p].buffer = shmem.buffer]
  /\ disturbed' = [disturbed EXCEPT ![p] = FALSE]
  /\ Goto(p, "body")
  /\ UNCHANGED <<shared, now, op, arg, fields, committed, freshAt>>

\* Copy the payload, release the mutex.
GetUnlock(p) ==
  /\ pc[p] = "copy_get"
  /\ mutex' = NoProc
  /\ pkt' = [pkt EXCEPT ![p].buffer = shmem.buffer]
  /\ disturbed' = [disturbed EXCEPT ![p] = FALSE]
  /\ Goto(p, "body")
  /\ UNCHANGED <<shmem, now, op, arg, fields, committed, freshAt>>

\* For the history: a writing call between its two critical sections, the data
\* of a packet, and a write that raises the bond flag.
Midway(p) == op[p] \in Writers /\ pc[p] \in {"body", "lock_set"}
Data(m) == <<m.header_.time_, m.buffer>>
BondMade(m, n) == m.header_.bond_flag_ = 0 /\ n.header_.bond_flag_ = 1

SetLock(p) ==
  /\ pc[p] = "lock_set"
  /\ mutex = NoProc
  /\ mutex' = p
  /\ shmem' = [shmem EXCEPT !.header_ = pkt[p].header_]
  /\ Goto(p, "copy_set")
  /\ UNCHANGED <<now, op, arg, pkt, fields, history>>

\* The write completes and the call returns.
SetUnlock(p) ==
  /\ pc[p] = "copy_set"
  /\ mutex' = NoProc
  /\ shmem' = [shmem EXCEPT !.buffer = pkt[p].buffer]
  /\ Return(p)
  /\ committed' = shmem'
  /\ disturbed' = [q \in Procs |-> q # p /\ Midway(q)]
  /\ freshAt' = IF Data(shmem') # Data(committed) \/ BondMade(committed, shmem')
                THEN now ELSE freshAt
  /\ UNCHANGED <<now, fields>>

-----------------------------------------------------------------------------
(* What each call does with its local packet between the two copies.       *)

Bonded(p) == pkt[p].header_.bond_flag_ = 1
HardRT(p) == pkt[p].header_.rt_flag_ = 1

\* A call that returns without setDataPacket leaves the segment alone.
ReadOnly(p) ==
  /\ Return(p)
  /\ disturbed' = [disturbed EXCEPT ![p] = FALSE]
  /\ UNCHANGED <<shared, now, committed, freshAt>>

\* A call that writes goes on to setDataPacket with the packet new.
WriteBack(p, new) ==
  /\ pkt' = [pkt EXCEPT ![p] = new]
  /\ Goto(p, "lock_set")
  /\ UNCHANGED <<shared, now, op, arg, fields, history>>

\* isBonded, isHardRT and dump return what the packet says.
Query(p) ==
  /\ At(p, "body", {"isBonded", "isHardRT", "dump"})
  /\ ReadOnly(p)
  /\ UNCHANGED fields

\* What the writing call c of p, with time t, makes of the packet m it read.
Result(c, p, t, m) ==
  CASE c = "bond"      -> [m EXCEPT !.header_.bond_flag_ = 1]
    [] c = "setHardRT" -> [m EXCEPT !.header_.rt_flag_ = 1]
    [] c = "setSoftRT" -> [m EXCEPT !.header_.rt_flag_ = 0]
    [] c \in {"breakBond", "destroy_break"} ->
         [m EXCEPT !.header_.bond_flag_ = 0, !.header_.rt_flag_ = 0]
    [] c = "update" /\ m.header_.bond_flag_ = 1 ->
         [m EXCEPT !.header_.time_ = t, !.buffer = [by |-> p, at |-> t]]
    [] OTHER -> m

Applied(p, m) == Result(op[p], p, arg[p], m)

\* Mutant of bond: a segment that is bonded already is not refused.
bond_always(p) ==
  /\ At(p, "body", {"bond"})
  /\ WriteBack(p, Applied(p, pkt[p]))

\* bond() refuses a packet that is already bonded.
bond(p) ==
  /\ At(p, "body", {"bond"})
  /\ IF Bonded(p) THEN ReadOnly(p) /\ UNCHANGED fields
                  ELSE WriteBack(p, Applied(p, pkt[p]))

breakBond(p) ==
  /\ At(p, "body", {"breakBond", "destroy_break"})
  /\ WriteBack(p, Applied(p, pkt[p]))

\* Mutant of setHardRT: the flag is counted up instead of set.
setHardRT_counts(p) ==
  /\ At(p, "body", {"setHardRT"})
  /\ WriteBack(p, [pkt[p] EXCEPT !.header_.rt_flag_ = @ + 1])

setHardRT(p) ==
  /\ At(p, "body", {"setHardRT"})
  /\ WriteBack(p, Applied(p, pkt[p]))

setSoftRT(p) ==
  /\ At(p, "body", {"setSoftRT"})
  /\ WriteBack(p, Applied(p, pkt[p]))

\* Mutant of update: the bond flag is not looked at.
update_unbonded(p) ==
  /\ At(p, "body", {"update"})
  /\ WriteBack(p, [pkt[p] EXCEPT !.header_.time_ = arg[p],
                                 !.buffer = [by |-> p, at |-> arg[p]]])

\* update writes the packet back also when it is not bonded and left it alone.
update(p) ==
  /\ At(p, "body", {"update"})
  /\ WriteBack(p, Applied(p, pkt[p]))

\* ~RealTimeIPC: nothing more to do for a packet that is not bonded.
destroy(p) ==
  /\ At(p, "body", {"destroy"})
  /\ IF Bonded(p)
     THEN /\ Goto(p, "lock_get")
          /\ op' = [op EXCEPT ![p] = "destroy_break"]
          /\ pkt' = [pkt EXCEPT ![p] = Cleared]
          /\ disturbed' = [disturbed EXCEPT ![p] = FALSE]
          /\ UNCHANGED <<shared, now, arg, fields, committed, freshAt>>
     ELSE ReadOnly(p) /\ UNCHANGED fields

-----------------------------------------------------------------------------
(* flush: deliver the payload, then judge how fresh it is.  The clock is   *)
(* read here, after the mutex was released.                                *)

FlushTime(p) == IF Bonded(p) THEN pkt[p].header_.time_ ELSE 0
Latency(p) == FlushTime(p) - data_time_prev_[p]
Distance(a, b) == IF a >= b THEN a - b ELSE b - a

\* A client that is too far from the clock returns at once.
ClientTooOld(p) ==
  p \notin Servers /\ Distance(now, FlushTime(p)) > 2 * Watchdog

\* The writer's cycle time is within the watchdog.
InRange(p) == Latency(p) < Watchdog /\ Latency(p) > 0
Overrun(p) == ~InRange(p) /\ Latency(p) > Watchdog
\* The same data as in the previous flush.
Repeated(p) == ~InRange(p) /\ ~Overrun(p) /\ Latency(p) <= 0

Stalled(p) ==
  /\ Repeated(p)
  /\ start_watchdog_time_[p] # -1
  /\ now - start_watchdog_time_[p] > Watchdog

\* The watchdog expires; it matters only in hard real time.
Expired(p) == Bonded(p) /\ (Overrun(p) \/ Stalled(p))
Reset(p) == Expired(p) /\ HardRT(p)

\* The ErrorCode flush returns and the obuffer it fills.  Only the server
\* zeroes the buffer when the watchdog expires.
FlushRet(p) == IF ClientTooOld(p) \/ Reset(p) THEN "WATCHDOG" ELSE "NONE_ERROR"

FlushOut(p) ==
  IF Bonded(p) /\ ~(Reset(p) /\ p \in Servers) THEN pkt[p].buffer ELSE Zero

\* Mutant of NextStart: every repeated flush starts the watchdog again.
NextStart_rearmed(p) ==
  IF Bonded(p) /\ InRange(p) THEN -1
  ELSE IF Bonded(p) /\ Repeated(p) THEN now
  ELSE start_watchdog_time_[p]

\* start_watchdog_time_ after a flush that reads data.
NextStart(p) ==
  IF Bonded(p) /\ InRange(p) THEN -1
  ELSE IF Bonded(p) /\ Repeated(p) /\ start_watchdog_time_[p] = -1 THEN now
  ELSE start_watchdog_time_[p]

flush(p) ==
  /\ At(p, "body", {"flush"})
  /\ ReadOnly(p)
  /\ IF ClientTooOld(p)
     THEN UNCHANGED fields
     ELSE /\ start_watchdog_time_' = [start_watchdog_time_ EXCEPT ![p] = NextStart(p)]
          /\ data_time_prev_' = [data_time_prev_ EXCEPT ![p] = FlushTime(p)]
          /\ flush_time_prev_' = [flush_time_prev_ EXCEPT ![p] = now]

-----------------------------------------------------------------------------
(* The environment: the clock and the death of a process.                  *)

\* A periodic server that is still there has flushed less than FlushGap ago.
Tick ==
  /\ now < MaxTime
  /\ \A s \in Periodic : pc[s] # "gone" => now - flush_time_prev_[s] < FlushGap
  /\ now' = now + 1
  /\ UNCHANGED <<shared, calls, fields, history>>

\* The process of p is killed.  Nothing releases the mutex it may hold.
Crash(p) ==
  /\ p \in MayCrash
  /\ pc[p] # "gone"
  /\ Goto(p, "gone")
  /\ op' = [op EXCEPT ![p] = "none"]
  /\ arg' = [arg EXCEPT ![p] = 0]
  /\ pkt' = [pkt EXCEPT ![p] = Cleared]
  /\ disturbed' = [disturbed EXCEPT ![p] = FALSE]
  /\ UNCHANGED <<shared, now, fields, committed, freshAt>>

\* The steps of p inside a call.
Step(p) ==
  \/ GetLock(p) \/ GetUnlock(p) \/ SetLock(p) \/ SetUnlock(p)
  \/ Query(p) \/ bond(p) \/ breakBond(p) \/ setHardRT(p) \/ setSoftRT(p)
  \/ update(p) \/ flush(p) \/ destroy(p)

Next ==
  \/ \E p \in Procs : \E c \in Calls[p] : Call(p, c)
  \/ \E p \in Procs : Step(p) \/ Crash(p)
  \/ Tick

Spec == Init /\ [][Next]_vars

\* A thread that is inside a call keeps being scheduled.
FairSpec == Spec /\ \A p \in Procs : WF_vars(Step(p))

-----------------------------------------------------------------------------
(* Properties.                                                             *)

Labels == {"idle", "lock_get", "copy_get", "body", "lock_set", "copy_set", "gone"}

\* The types of the segment, of the calls in progress and of the fields of
\* the RealTimeIPC objects.
TypeOK ==
  /\ shmem \in DataPacket
  /\ mutex \in Procs \cup {NoProc}
  /\ now \in StartTime..MaxTime
  /\ pc \in [Procs -> Labels]
  /\ op \in [Procs -> CallNames \cup {"none", "destroy_break"}]
  /\ arg \in [Procs -> Nat]
  /\ pkt \in [Procs -> DataPacket]
  /\ data_time_prev_ \in [Procs -> Nat]
  /\ start_watchdog_time_ \in [Procs -> Nat \cup {-1}]
  /\ flush_time_prev_ \in [Procs -> Nat]
  /\ committed \in DataPacket
  /\ disturbed \in [Procs -> BOOLEAN]
  /\ freshAt \in Nat

\* The payload is the one that was stamped with the time in the header.
Whole(m) ==
  IF m.buffer = Zero THEN m.header_.time_ = 0
                     ELSE m.buffer.at = m.header_.time_

\* No call ever works on a packet whose time belongs to one update and whose
\* payload belongs to another, whatever calls interleave between the copies of
\* getDataPacket and setDataPacket and whichever process is killed in the
\* middle of a copy: the mutex covers both memcpy, and every writer that moves
\* the time moves the payload with it.
NoTornPacket ==
  /\ mutex = NoProc => Whole(shmem)
  /\ \A p \in Procs : pc[p] \in {"body", "lock_set"} => Whole(pkt[p])

\* setDataPacket of p completes in this step.
Completes(p) == pc[p] = "copy_set" /\ mutex' = NoProc

\* A call that writes (bond, breakBond, setHardRT, setSoftRT, update, the
\* destructor) acts as one atomic read-modify-write of the segment, and bond
\* succeeds only from an unbonded segment, unless another endpoint completed a
\* write between its two critical sections: a lost update, a bond granted
\* twice and a bond that comes back after breakBond all need that overlap.
UndisturbedIsAtomic ==
  [][\A p \in Procs : Completes(p) /\ ~disturbed[p] =>
       /\ committed' = Applied(p, committed)
       /\ op[p] = "bond" => committed.header_.bond_flag_ = 0]_vars

\* Endpoint p is about to return from a hard real-time flush with a command.
DeliversHard(p) ==
  /\ At(p, "body", {"flush"})
  /\ HardRT(p)
  /\ FlushRet(p) = "NONE_ERROR"
  /\ FlushOut(p) # Zero

\* When the writer dies or stalls, a periodic server in hard real time stops
\* applying its last command: flush never returns NONE_ERROR with a command
\* later than the watchdog plus three flush periods after the last new data
\* or the last bond (one for a flush already under way, one until the packet
\* is read, one until it is read again and arms the watchdog).
StaleCommandBound ==
  \A s \in Periodic : DeliversHard(s) => now - freshAt <= Watchdog + 3 * FlushGap

\* The branch of flush commented "the client is not writing new data in the
\* shared memory" raises the watchdog only on data that is older than
\* the watchdog.
StallMeansNoNewData ==
  \A s \in Servers :
    At(s, "body", {"flush"}) /\ Reset(s) /\ Stalled(s) => now - FlushTime(s) > Watchdog

\* Once the other endpoints are outside any call and none of them died with
\* the mutex, a call of p returns: no call keeps the mutex on any of its paths,
\* the destructor's two calls included, and none waits for an answer of a peer.
SoloCallReturns ==
  \A p \in Procs :
    <>[](\A q \in Procs \ {p} : pc[q] \in {"idle", "gone"} /\ mutex # q)
      => []<>(pc[p] \in {"idle", "gone"})

\* The abstract channel, its register being what the last write left.
Channel == INSTANCE AtomicIPC WITH mem <- committed

\* A segment that only one endpoint writes is the atomic channel: whatever
\* reads go on, each of its calls is one indivisible step, a bond is granted
\* once and the time of its commands never goes back.
ImplementsChannel == Channel!Spec
=============================================================================
