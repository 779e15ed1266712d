-------------------------- MODULE RealTimeIPC_proofs --------------------------
(***************************************************************************)
(* Proofs about RealTimeIPC, for any number of endpoints, any assignment   *)
(* of calls to them, any watchdog and any process that may be killed.      *)
(***************************************************************************)
EXTENDS RealTimeIPC, TLAPS

USE DEF ReadCalls, WriteCalls, Writers, CallNames

-----------------------------------------------------------------------------
(* Packets.                                                                *)

\* The packets the actions build are packets.
LEMMA PacketFacts ==
  /\ Cleared \in DataPacket
  /\ \A m \in DataPacket : m.header_ \in Header /\ m.buffer \in Command \cup {Zero}
  /\ \A m \in DataPacket, n \in DataPacket :
       /\ [m EXCEPT !.header_ = n.header_] \in DataPacket
       /\ [m EXCEPT !.buffer = n.buffer] \in DataPacket
  BY DEF Cleared, DataPacket, Header

\* What each writing call makes of a packet, field by field.
LEMMA ResultFields ==
  ASSUME NEW c, NEW p, NEW t \in Nat, NEW m \in DataPacket
  PROVE  /\ \/ /\ Result(c, p, t, m).header_.time_ = m.header_.time_
               /\ Result(c, p, t, m).buffer = m.buffer
            \/ /\ c = "update"
               /\ Result(c, p, t, m).header_.time_ = t
               /\ Result(c, p, t, m).buffer = [by |-> p, at |-> t]
         /\ p \in Procs => Result(c, p, t, m) \in DataPacket
<1>1. CASE c = "bond"
  BY <1>1 DEF Result, DataPacket, Header
<1>2. CASE c = "setHardRT"
  BY <1>2 DEF Result, DataPacket, Header
<1>3. CASE c = "setSoftRT"
  BY <1>3 DEF Result, DataPacket, Header
<1>4. CASE c \in {"breakBond", "destroy_break"}
  BY <1>4 DEF Result, DataPacket, Header
<1>5. CASE c = "update" /\ m.header_.bond_flag_ = 1
  <2>1. p \in Procs => [by |-> p, at |-> t] \in Command
    BY DEF Command
  <2> QED
    BY <1>5, <2>1 DEF Result, DataPacket, Header
<1>6. CASE ~(c \in {"bond", "setHardRT", "setSoftRT", "breakBond", "destroy_break"})
           /\ ~(c = "update" /\ m.header_.bond_flag_ = 1)
  BY <1>6 DEF Result
<1> QED
  BY <1>1, <1>2, <1>3, <1>4, <1>5, <1>6

\* Applied turns a packet into a packet.
LEMMA AppliedType ==
  ASSUME TypeOK, NEW p \in Procs, NEW m \in DataPacket
  PROVE  Applied(p, m) \in DataPacket
  BY ResultFields DEF Applied, TypeOK

\* Only update changes the data of a packet, and it changes time and payload.
LEMMA AppliedData ==
  ASSUME TypeOK, NEW p \in Procs, NEW m \in DataPacket
  PROVE  \/ /\ Applied(p, m).header_.time_ = m.header_.time_
            /\ Applied(p, m).buffer = m.buffer
         \/ /\ op[p] = "update"
            /\ Applied(p, m).header_.time_ = arg[p]
            /\ Applied(p, m).buffer = [by |-> p, at |-> arg[p]]
<1>1. arg[p] \in Nat
  BY DEF TypeOK
<1> QED
  BY <1>1, ResultFields DEF Applied

\* A writing call makes a whole packet of a whole packet.
LEMMA AppliedWhole ==
  ASSUME TypeOK, NEW p \in Procs, NEW m \in DataPacket, Whole(m)
  PROVE  Whole(Applied(p, m))
<1>1. [by |-> p, at |-> arg[p]] # Zero
  BY ZeroAssumption DEF Command, TypeOK
<1> DEFINE r == Applied(p, m)
<1>2. \/ r.header_.time_ = m.header_.time_ /\ r.buffer = m.buffer
      \/ r.header_.time_ = arg[p] /\ r.buffer = [by |-> p, at |-> arg[p]]
  BY AppliedData
<1> HIDE DEF r
<1>3. Whole(r)
  BY <1>1, <1>2 DEF Whole
<1> QED
  BY <1>3 DEF r

-----------------------------------------------------------------------------
(* Type correctness.                                                       *)

\* Leaving a call restores the resting values.
LEMMA ReturnType ==
  ASSUME TypeOK, NEW p \in Procs, Return(p)
  PROVE  /\ pc' \in [Procs -> Labels]
         /\ op' \in [Procs -> CallNames \cup {"none", "destroy_break"}]
         /\ arg' \in [Procs -> Nat]
         /\ pkt' \in [Procs -> DataPacket]
  BY PacketFacts DEF TypeOK, Return, Goto, Labels

\* A call that does not write keeps the types, whatever it does to the fields
\* of its object.
LEMMA ReadOnlyType ==
  ASSUME TypeOK, NEW p \in Procs, ReadOnly(p),
         data_time_prev_' \in [Procs -> Nat],
         start_watchdog_time_' \in [Procs -> Nat \cup {-1}],
         flush_time_prev_' \in [Procs -> Nat]
  PROVE  TypeOK'
<1>1. Return(p)
  BY DEF ReadOnly
<1> QED
  BY <1>1, ReturnType DEF TypeOK, ReadOnly, shared

\* Going on to setDataPacket with a packet keeps the types.
LEMMA WriteBackType ==
  ASSUME TypeOK, NEW p \in Procs, NEW m \in DataPacket, WriteBack(p, m)
  PROVE  TypeOK'
  BY DEF TypeOK, WriteBack, Goto, Labels, shared, fields, history

\* Every action keeps the types.
LEMMA TypeStep == TypeOK /\ [Next]_vars => TypeOK'
<1> SUFFICES ASSUME TypeOK, [Next]_vars PROVE TypeOK'
  OBVIOUS
<1> USE EndpointAssumption, TimeAssumption
<1>1. ASSUME NEW p \in Procs, NEW c \in Calls[p], Call(p, c) PROVE TypeOK'
  <2>1. c \in CallNames
    OBVIOUS
  <2>2. now \in Nat
    BY DEF TypeOK
  <2> QED
    BY <1>1, <2>1, <2>2 DEF TypeOK, Call, Goto, Labels, shared, fields, history
<1>2. ASSUME NEW p \in Procs, GetLock(p) PROVE TypeOK'
  <2>1. [Cleared EXCEPT !.header_ = shmem.header_] \in DataPacket
    BY PacketFacts DEF TypeOK
  <2> QED
    BY <1>2, <2>1 DEF TypeOK, GetLock, Goto, Labels, fields, history
<1>3. ASSUME NEW p \in Procs, GetUnlock(p) PROVE TypeOK'
  <2>1. [pkt[p] EXCEPT !.buffer = shmem.buffer] \in DataPacket
    BY PacketFacts DEF TypeOK
  <2>2. pkt' \in [Procs -> DataPacket]
    BY <1>3, <2>1 DEF TypeOK, GetUnlock
  <2> QED
    BY <1>3, <2>2 DEF TypeOK, GetUnlock, Goto, Labels, fields
<1>4. ASSUME NEW p \in Procs, SetLock(p) PROVE TypeOK'
  <2>1. [shmem EXCEPT !.header_ = pkt[p].header_] \in DataPacket
    BY PacketFacts DEF TypeOK
  <2> QED
    BY <1>4, <2>1 DEF TypeOK, SetLock, Goto, Labels, fields, history
<1>5. ASSUME NEW p \in Procs, SetUnlock(p) PROVE TypeOK'
  <2>1. [shmem EXCEPT !.buffer = pkt[p].buffer] \in DataPacket
    BY PacketFacts DEF TypeOK
  <2>2. Return(p) /\ now \in Nat
    BY <1>5 DEF SetUnlock, TypeOK
  <2>3. shmem' \in DataPacket /\ committed' \in DataPacket
    BY <1>5, <2>1 DEF SetUnlock
  <2>4. freshAt' \in Nat
    BY <1>5, <2>2 DEF SetUnlock, TypeOK
  <2>5. disturbed' \in [Procs -> BOOLEAN]
    BY <1>5 DEF SetUnlock
  <2>6. mutex' \in Procs \cup {NoProc} /\ now' = now /\ fields' = fields
    BY <1>5 DEF SetUnlock
  <2> QED
    BY <2>2, <2>3, <2>4, <2>5, <2>6, ReturnType DEF TypeOK, fields
<1>6. ASSUME NEW p \in Procs, Query(p) PROVE TypeOK'
  BY <1>6, ReadOnlyType DEF Query, fields, TypeOK
<1>7. ASSUME NEW p \in Procs, bond(p) PROVE TypeOK'
  <2>1. CASE Bonded(p)
    BY <1>7, <2>1, ReadOnlyType DEF bond, fields, TypeOK
  <2>2. CASE ~Bonded(p)
    <3>1. Applied(p, pkt[p]) \in DataPacket
      BY AppliedType DEF TypeOK
    <3> QED
      BY <1>7, <2>2, <3>1, WriteBackType DEF bond
  <2> QED
    BY <2>1, <2>2
<1>8. ASSUME NEW p \in Procs, breakBond(p) \/ setHardRT(p) \/ setSoftRT(p) \/ update(p)
      PROVE  TypeOK'
  <2>1. Applied(p, pkt[p]) \in DataPacket
    BY AppliedType DEF TypeOK
  <2> QED
    BY <1>8, <2>1, WriteBackType DEF breakBond, setHardRT, setSoftRT, update
<1>9. ASSUME NEW p \in Procs, flush(p) PROVE TypeOK'
  <2>1. FlushTime(p) \in Nat /\ now \in Nat
    BY DEF FlushTime, TypeOK, DataPacket, Header
  <2>2. NextStart(p) \in Nat \cup {-1}
    BY <2>1 DEF NextStart, TypeOK
  <2>3. /\ data_time_prev_' \in [Procs -> Nat]
        /\ start_watchdog_time_' \in [Procs -> Nat \cup {-1}]
        /\ flush_time_prev_' \in [Procs -> Nat]
    BY <1>9, <2>1, <2>2 DEF flush, fields, TypeOK
  <2> QED
    BY <1>9, <2>3, ReadOnlyType DEF flush
<1>10. ASSUME NEW p \in Procs, destroy(p) PROVE TypeOK'
  <2>1. CASE Bonded(p)
    <3>1. /\ Goto(p, "lock_get")
          /\ op' = [op EXCEPT ![p] = "destroy_break"]
          /\ pkt' = [pkt EXCEPT ![p] = Cleared]
          /\ disturbed' = [disturbed EXCEPT ![p] = FALSE]
          /\ UNCHANGED <<shared, now, arg, fields, committed, freshAt>>
      BY <1>10, <2>1 DEF destroy
    <3> QED
      BY <3>1, PacketFacts DEF Goto, TypeOK, Labels, shared, fields
  <2>2. CASE ~Bonded(p)
    BY <1>10, <2>2, ReadOnlyType DEF destroy, fields, TypeOK
  <2> QED
    BY <2>1, <2>2
<1>11. CASE Tick
  BY <1>11 DEF Tick, TypeOK, shared, calls, fields, history
<1>12. ASSUME NEW p \in Procs, Crash(p) PROVE TypeOK'
  BY <1>12, PacketFacts DEF Crash, Goto, TypeOK, Labels, shared, fields
<1>13. CASE UNCHANGED vars
  BY <1>13 DEF vars, shared, calls, fields, history, TypeOK
<1> QED
  BY <1>1, <1>2, <1>3, <1>4, <1>5, <1>6, <1>7, <1>8, <1>9, <1>10, <1>11, <1>12, <1>13
     DEF Next, Step

\* The segment, the calls in progress and the fields of every object always
\* have their types.
THEOREM TypeCorrect == Spec => []TypeOK
<1>1. Init => TypeOK
  BY EndpointAssumption, TimeAssumption, PacketFacts DEF Init, TypeOK, Labels
<1> QED
  BY <1>1, TypeStep, PTL DEF Spec

-----------------------------------------------------------------------------
(* The inductive invariant.                                                *)

\* Whoever copies holds the mutex.
Exclusion ==
  \A p \in Procs : pc[p] \in {"copy_get", "copy_set"} => mutex = p

\* The segment is the last completed write, but for a setDataPacket that is
\* half-way and has only copied the header.
SegmentInv ==
  /\ mutex = NoProc => shmem = committed
  /\ \A p \in Procs :
       /\ pc[p] = "copy_get" => shmem = committed /\ pkt[p].header_ = committed.header_
       /\ pc[p] = "copy_set" => shmem = [committed EXCEPT !.header_ = pkt[p].header_]

\* What is in the segment, and every local packet that was read completely, is
\* whole.
WholeInv ==
  /\ Whole(committed)
  /\ \A p \in Procs : pc[p] \in {"body", "lock_set", "copy_set"} => Whole(pkt[p])

\* While nobody else has written, a writing call works on what is committed.
Fresh(p) ==
  /\ pc[p] \in {"lock_set", "copy_set"} => op[p] \in Writers
  /\ ~disturbed[p] /\ op[p] \in Writers =>
       /\ pc[p] = "body" => pkt[p] = committed
       /\ pc[p] \in {"lock_set", "copy_set"} =>
            /\ pkt[p] = Applied(p, committed)
            /\ op[p] = "bond" => committed.header_.bond_flag_ = 0

FreshInv == \A p \in Procs : Fresh(p)

IInv == TypeOK /\ Exclusion /\ SegmentInv /\ WholeInv /\ FreshInv

\* Nothing happens to the call of q.
Same(q) ==
  /\ pc'[q] = pc[q]
  /\ op'[q] = op[q]
  /\ arg'[q] = arg[q]
  /\ pkt'[q] = pkt[q]
  /\ disturbed'[q] = disturbed[q]

\* A step of p outside the critical sections keeps the invariant if it leaves
\* p with a whole packet and a fresh one.
LEMMA LocalStep ==
  ASSUME IInv, TypeOK', NEW p \in Procs,
         UNCHANGED <<shmem, mutex, committed>>,
         \A q \in Procs \ {p} : Same(q),
         pc'[p] \notin {"copy_get", "copy_set"},
         pc'[p] \in {"body", "lock_set"} => Whole(pkt'[p]),
         Fresh(p)'
  PROVE  IInv'
<1>1. Exclusion'
  BY DEF IInv, Exclusion, Same
<1>2. SegmentInv'
  BY DEF IInv, SegmentInv, Same
<1>3. WholeInv'
  BY DEF IInv, WholeInv, Same
<1>4. FreshInv'
  <2>1. ASSUME NEW q \in Procs \ {p} PROVE Fresh(q)'
    BY DEF IInv, FreshInv, Fresh, Same, Applied
  <2>2. \A q \in Procs : Fresh(q)'
    BY <2>1
  <2> QED
    BY <2>2 DEF FreshInv, Fresh
<1> QED
  BY <1>1, <1>2, <1>3, <1>4 DEF IInv

\* The steps that end a call without writing.
LEMMA ReadOnlyStep ==
  ASSUME IInv, TypeOK', NEW p \in Procs, ReadOnly(p)
  PROVE  IInv'
<1>1. /\ pc'[p] \in {"idle", "gone"}
      /\ \A q \in Procs \ {p} : Same(q)
      /\ UNCHANGED <<shmem, mutex, committed>>
  BY DEF ReadOnly, Return, Goto, Same, IInv, TypeOK, shared
<1> QED
  BY <1>1, LocalStep DEF Fresh

\* The steps that go on to setDataPacket.
LEMMA WriteBackStep ==
  ASSUME IInv, TypeOK', NEW p \in Procs,
         pc[p] = "body", op[p] \in Writers,
         op[p] = "bond" => ~Bonded(p),
         WriteBack(p, Applied(p, pkt[p]))
  PROVE  IInv'
<1>1. /\ pc'[p] = "lock_set"
      /\ op' = op /\ arg' = arg /\ disturbed' = disturbed
      /\ pkt'[p] = Applied(p, pkt[p])
      /\ \A q \in Procs \ {p} : Same(q)
      /\ UNCHANGED <<shmem, mutex, committed>>
  BY DEF WriteBack, Goto, Same, IInv, TypeOK, shared, history
<1>2. pkt[p] \in DataPacket /\ Whole(pkt[p])
  BY DEF IInv, TypeOK, WholeInv
<1>3. Whole(pkt'[p])
  BY <1>1, <1>2, AppliedWhole DEF IInv
<1>4. Fresh(p)'
  <2>1. ~disturbed[p] => pkt[p] = committed
    BY DEF IInv, FreshInv, Fresh
  <2>2. op[p] = "bond" /\ ~disturbed[p] => committed.header_.bond_flag_ = 0
    BY <1>2, <2>1 DEF Bonded, DataPacket, Header
  <2> QED
    BY <1>1, <2>1, <2>2 DEF Fresh, Applied
<1> QED
  BY <1>1, <1>3, <1>4, LocalStep

\* Every action keeps the invariant.
LEMMA InductiveStep == IInv /\ [Next]_vars => IInv'
<1> SUFFICES ASSUME IInv, [Next]_vars PROVE IInv'
  OBVIOUS
<1> TypeOK /\ TypeOK'
  BY TypeStep DEF IInv
<1> USE EndpointAssumption
<1>1. ASSUME NEW p \in Procs, NEW c \in Calls[p], Call(p, c) PROVE IInv'
  <2>1. /\ pc'[p] = "lock_get"
        /\ \A q \in Procs \ {p} : Same(q)
        /\ UNCHANGED <<shmem, mutex, committed>>
    BY <1>1 DEF Call, Goto, Same, TypeOK, shared, history
  <2> QED
    BY <2>1, LocalStep DEF Fresh
<1>2. ASSUME NEW p \in Procs, GetLock(p) PROVE IInv'
  <2>1. /\ mutex = NoProc /\ mutex' = p
        /\ pc'[p] = "copy_get" /\ pkt'[p].header_ = shmem.header_
        /\ \A q \in Procs \ {p} : Same(q)
        /\ UNCHANGED <<shmem, committed>>
    BY <1>2, PacketFacts DEF GetLock, Goto, Same, TypeOK, history, DataPacket
  <2>2. \A q \in Procs \ {p} : pc[q] \notin {"copy_get", "copy_set"}
    BY <2>1 DEF IInv, Exclusion
  <2>3. Exclusion'
    BY <2>1, <2>2 DEF Exclusion, Same
  <2>4. SegmentInv'
    BY <2>1, <2>2 DEF IInv, SegmentInv, Same
  <2>5. WholeInv'
    BY <2>1 DEF IInv, WholeInv, Same
  <2>6. FreshInv'
    BY <2>1 DEF IInv, FreshInv, Fresh, Same, Applied
  <2> QED
    BY <2>3, <2>4, <2>5, <2>6 DEF IInv
<1>3. ASSUME NEW p \in Procs, GetUnlock(p) PROVE IInv'
  <2>1. /\ pc[p] = "copy_get" /\ mutex = p /\ mutex' = NoProc
        /\ shmem = committed /\ pkt[p].header_ = committed.header_
    BY <1>3 DEF GetUnlock, IInv, Exclusion, SegmentInv
  <2>2. /\ pc'[p] = "body" /\ pkt'[p] = [pkt[p] EXCEPT !.buffer = shmem.buffer]
        /\ \A q \in Procs \ {p} : Same(q)
        /\ UNCHANGED <<shmem, committed>>
    BY <1>3 DEF GetUnlock, Goto, Same, TypeOK
  <2>3. \A q \in Procs \ {p} : pc[q] \notin {"copy_get", "copy_set"}
    BY <2>1 DEF IInv, Exclusion
  <2>4. pkt'[p] = committed
    BY <2>1, <2>2 DEF TypeOK, DataPacket
  <2>5. Exclusion'
    BY <2>2, <2>3 DEF Exclusion, Same
  <2>6. SegmentInv'
    BY <2>1, <2>2, <2>3 DEF IInv, SegmentInv, Same
  <2>7. WholeInv'
    BY <2>2, <2>4 DEF IInv, WholeInv, Same
  <2>8. FreshInv'
    BY <2>2, <2>4 DEF IInv, FreshInv, Fresh, Same, Applied
  <2> QED
    BY <2>5, <2>6, <2>7, <2>8 DEF IInv
<1>4. ASSUME NEW p \in Procs, SetLock(p) PROVE IInv'
  <2>1. /\ pc[p] = "lock_set" /\ mutex = NoProc /\ mutex' = p
        /\ pc'[p] = "copy_set" /\ pkt' = pkt /\ op' = op /\ arg' = arg
        /\ disturbed' = disturbed
        /\ shmem' = [shmem EXCEPT !.header_ = pkt[p].header_]
        /\ \A q \in Procs \ {p} : Same(q)
        /\ committed' = committed
    BY <1>4 DEF SetLock, Goto, Same, TypeOK, history
  <2>2. shmem = committed /\ \A q \in Procs \ {p} : pc[q] \notin {"copy_get", "copy_set"}
    BY <2>1 DEF IInv, Exclusion, SegmentInv
  <2>3. Exclusion'
    BY <2>1, <2>2 DEF Exclusion, Same
  <2>4. SegmentInv'
    BY <2>1, <2>2 DEF SegmentInv, Same
  <2>5. WholeInv'
    BY <2>1 DEF IInv, WholeInv, Same
  <2>6. FreshInv'
    BY <2>1 DEF IInv, FreshInv, Fresh, Same, Applied
  <2> QED
    BY <2>3, <2>4, <2>5, <2>6 DEF IInv
<1>5. ASSUME NEW p \in Procs, SetUnlock(p) PROVE IInv'
  <2>1. /\ pc[p] = "copy_set" /\ mutex = p /\ mutex' = NoProc
        /\ shmem = [committed EXCEPT !.header_ = pkt[p].header_]
        /\ Whole(pkt[p])
    BY <1>5 DEF SetUnlock, IInv, Exclusion, SegmentInv, WholeInv
  <2>2. \A q \in Procs \ {p} : pc[q] \notin {"copy_get", "copy_set"}
    BY <2>1 DEF IInv, Exclusion
  <2>3. shmem' = pkt[p] /\ committed' = pkt[p]
    BY <1>5, <2>1 DEF SetUnlock, TypeOK, DataPacket
  <2>4. /\ pc'[p] \in {"idle", "gone"}
        /\ \A q \in Procs \ {p} :
             /\ pc'[q] = pc[q] /\ op'[q] = op[q] /\ pkt'[q] = pkt[q]
             /\ Midway(q) => disturbed'[q]
    <3>1. Return(p) /\ disturbed' = [q \in Procs |-> q # p /\ Midway(q)]
      BY <1>5 DEF SetUnlock
    <3> QED
      BY <3>1 DEF Return, Goto, TypeOK
  <2>5. Exclusion'
    BY <2>2, <2>4 DEF Exclusion
  <2>6. SegmentInv'
    BY <2>2, <2>3, <2>4 DEF SegmentInv
  <2>7. WholeInv'
    BY <2>1, <2>3, <2>4 DEF IInv, WholeInv
  <2>8. FreshInv'
    BY <2>2, <2>4 DEF IInv, FreshInv, Fresh, Midway
  <2> QED
    BY <2>5, <2>6, <2>7, <2>8 DEF IInv
<1>6. ASSUME NEW p \in Procs, Query(p) \/ flush(p) PROVE IInv'
  BY <1>6, ReadOnlyStep DEF Query, flush
<1>7. ASSUME NEW p \in Procs, bond(p) PROVE IInv'
  BY <1>7, ReadOnlyStep, WriteBackStep DEF bond, At
<1>8. ASSUME NEW p \in Procs, breakBond(p) \/ setHardRT(p) \/ setSoftRT(p) \/ update(p)
      PROVE  IInv'
  BY <1>8, WriteBackStep DEF breakBond, setHardRT, setSoftRT, update, At
<1>9. ASSUME NEW p \in Procs, destroy(p) PROVE IInv'
  <2>1. CASE Bonded(p)
    <3>1. /\ pc'[p] = "lock_get"
          /\ \A q \in Procs \ {p} : Same(q)
          /\ UNCHANGED <<shmem, mutex, committed>>
      BY <1>9, <2>1 DEF destroy, Goto, Same, TypeOK, shared
    <3> QED
      BY <3>1, LocalStep DEF Fresh
  <2>2. CASE ~Bonded(p)
    BY <1>9, <2>2, ReadOnlyStep DEF destroy
  <2> QED
    BY <2>1, <2>2
<1>10. CASE Tick
  BY <1>10 DEF Tick, shared, calls, history,
     IInv, Exclusion, SegmentInv, WholeInv, FreshInv, Fresh, Applied
<1>11. ASSUME NEW p \in Procs, Crash(p) PROVE IInv'
  <2>1. /\ pc'[p] = "gone"
        /\ \A q \in Procs \ {p} : Same(q)
        /\ UNCHANGED <<shmem, mutex, committed>>
    BY <1>11 DEF Crash, Goto, Same, TypeOK, shared
  <2> QED
    BY <2>1, LocalStep DEF Fresh
<1>12. CASE UNCHANGED vars
  BY <1>12 DEF vars, shared, calls, history,
     IInv, Exclusion, SegmentInv, WholeInv, FreshInv, Fresh, Applied
<1> QED
  BY <1>1, <1>2, <1>3, <1>4, <1>5, <1>6, <1>7, <1>8, <1>9, <1>10, <1>11, <1>12
     DEF Next, Step

\* The invariant holds in every reachable state.
THEOREM Invariant == Spec => []IInv
<1>1. Init => IInv
  <2>1. Init => TypeOK
    BY EndpointAssumption, TimeAssumption, PacketFacts DEF Init, TypeOK, Labels
  <2>2. Init => Whole(committed)
    BY DEF Init, Whole, Cleared
  <2> QED
    BY <2>1, <2>2 DEF Init, IInv, Exclusion, SegmentInv, WholeInv, FreshInv, Fresh
<1> QED
  BY <1>1, InductiveStep, PTL DEF Spec

\* No call works on a packet whose header and payload belong to different
\* updates, for any number of endpoints and any process killed mid-copy.
THEOREM PacketsAreWhole == Spec => []NoTornPacket
<1>1. IInv => NoTornPacket
  BY DEF IInv, SegmentInv, WholeInv, NoTornPacket
<1> QED
  BY <1>1, Invariant, PTL

\* A writing call whose two critical sections no other write separates is one
\* atomic read-modify-write of the segment.
THEOREM AtomicUnlessDisturbed == Spec => UndisturbedIsAtomic
<1> DEFINE A == \A p \in Procs : Completes(p) /\ ~disturbed[p] =>
                  /\ committed' = Applied(p, committed)
                  /\ op[p] = "bond" => committed.header_.bond_flag_ = 0
<1>1. ASSUME IInv, [Next]_vars PROVE [A]_vars
  <2> SUFFICES ASSUME Next, NEW p \in Procs, Completes(p), ~disturbed[p]
               PROVE  /\ committed' = Applied(p, committed)
                      /\ op[p] = "bond" => committed.header_.bond_flag_ = 0
    BY <1>1
  <2>1. pc[p] = "copy_set" /\ mutex = p /\ mutex' # mutex
    BY <1>1, EndpointAssumption DEF Completes, IInv, Exclusion
  <2>2. PICK q \in Procs : GetLock(q) \/ GetUnlock(q) \/ SetLock(q) \/ SetUnlock(q)
    BY <2>1 DEF Next, Step, Call, Query, bond, breakBond, setHardRT, setSoftRT, update,
       flush, destroy, Tick, Crash, ReadOnly, WriteBack, shared
  <2>3. SetUnlock(p)
    BY <1>1, <2>1, <2>2, EndpointAssumption
       DEF GetLock, GetUnlock, SetLock, SetUnlock, IInv, Exclusion
  <2>4. committed' = pkt[p]
    BY <1>1, <2>1, <2>3 DEF SetUnlock, IInv, TypeOK, SegmentInv, DataPacket
  <2>5. Fresh(p)
    BY <1>1 DEF IInv, FreshInv
  <2> QED
    BY <2>1, <2>4, <2>5 DEF Fresh
<1> QED
  BY <1>1, Invariant, PTL DEF Spec, UndisturbedIsAtomic

-----------------------------------------------------------------------------
(* Calls that write one at a time make the segment the atomic channel.     *)

\* At most one endpoint is inside a call that writes.
OneAtATime ==
  \A p, q \in Procs : op[p] \in Writers /\ op[q] \in Writers => p = q

\* Nobody writes between the two critical sections of a call, and commands
\* are stamped in the order in which they are written.
SerialInv ==
  /\ \A p \in Procs : ~disturbed[p]
  /\ committed.header_.time_ <= now
  /\ \A p \in Procs : op[p] = "update" => /\ committed.header_.time_ <= arg[p]
                                          /\ arg[p] \in StartTime..now

\* The segment changes only when setDataPacket completes, and then it holds
\* the packet of the call.
LEMMA CommitStep ==
  ASSUME IInv, [Next]_vars, committed' # committed
  PROVE  \E p \in Procs : pc[p] = "copy_set" /\ SetUnlock(p) /\ committed' = pkt[p]
<1>1. PICK p \in Procs : SetUnlock(p)
  BY DEF Next, Step, Call, GetLock, GetUnlock, SetLock, Query, bond, breakBond,
     setHardRT, setSoftRT, update, flush, destroy, Tick, Crash, ReadOnly, WriteBack,
     vars, history
<1>2. pc[p] = "copy_set" /\ committed' = pkt[p]
  BY <1>1 DEF SetUnlock, IInv, TypeOK, SegmentInv, DataPacket
<1> QED
  BY <1>1, <1>2

\* What is committed is what the call that commits makes of the segment.
LEMMA SerialCommits ==
  ASSUME IInv, SerialInv, [Next]_vars, committed' # committed
  PROVE  \E p \in Procs :
           /\ SetUnlock(p)
           /\ op[p] \in Writers
           /\ committed' = Applied(p, committed)
           /\ op[p] = "bond" => committed.header_.bond_flag_ = 0
<1>1. PICK p \in Procs : pc[p] = "copy_set" /\ SetUnlock(p) /\ committed' = pkt[p]
  BY CommitStep
<1> QED
  BY <1>1 DEF IInv, FreshInv, Fresh, SerialInv

\* Only setDataPacket of another endpoint disturbs a call.
LEMMA NotDisturbed ==
  ASSUME IInv, OneAtATime, SerialInv, [Next]_vars
  PROVE  \A q \in Procs : ~disturbed'[q]
<1>1. ASSUME NEW p \in Procs, SetUnlock(p), NEW q \in Procs PROVE ~disturbed'[q]
  <2>1. op[p] \in Writers
    BY <1>1 DEF SetUnlock, IInv, FreshInv, Fresh
  <2>2. Midway(q) => p = q
    BY <2>1 DEF Midway, OneAtATime
  <2> QED
    BY <1>1, <2>2 DEF SetUnlock
<1>2. CASE \A p \in Procs : ~SetUnlock(p)
  <2>1. \/ disturbed' = disturbed
        \/ \E p \in Procs : disturbed' = [disturbed EXCEPT ![p] = FALSE]
    BY <1>2 DEF Next, Step, Call, GetLock, GetUnlock, SetLock, Query, bond, breakBond,
       setHardRT, setSoftRT, update, flush, destroy, Tick, Crash, ReadOnly, WriteBack,
       vars, history
  <2> QED
    BY <2>1 DEF SerialInv, IInv, TypeOK
<1> QED
  BY <1>1, <1>2

\* An update is stamped with the clock when it is called, and keeps its stamp.
LEMMA StampStep ==
  ASSUME IInv, [Next]_vars, NEW w \in Procs, op'[w] = "update"
  PROVE  (op[w] = "update" /\ arg'[w] = arg[w]) \/ arg'[w] = now
<1>1. ASSUME NEW q \in Procs, NEW c \in Calls[q], Call(q, c)
      PROVE  (op[w] = "update" /\ arg'[w] = arg[w]) \/ arg'[w] = now
  BY <1>1 DEF Call, IInv, TypeOK
<1>2. ASSUME NEW q \in Procs, destroy(q)
      PROVE  op[w] = "update" /\ arg'[w] = arg[w]
  BY <1>2 DEF destroy, ReadOnly, Return, IInv, TypeOK
<1>3. ASSUME ~ \E q \in Procs : \E c \in Calls[q] : Call(q, c),
             ~ \E q \in Procs : destroy(q)
      PROVE  \/ op' = op /\ arg' = arg
             \/ \E q \in Procs : op' = [op EXCEPT ![q] = "none"]
                                 /\ arg' = [arg EXCEPT ![q] = 0]
  BY <1>3 DEF Next, Step, GetLock, GetUnlock, SetLock, SetUnlock, Query, bond,
     breakBond, setHardRT, setSoftRT, update, flush, Tick, Crash, ReadOnly, Return,
     WriteBack, vars, calls
<1> QED
  BY <1>1, <1>2, <1>3 DEF IInv, TypeOK

\* Every action keeps SerialInv while the calls that write take turns.
LEMMA SerialStep ==
  ASSUME IInv, OneAtATime, SerialInv, [Next]_vars
  PROVE  SerialInv'
<1> USE EndpointAssumption, TimeAssumption
<1>1. \A p \in Procs : ~disturbed'[p]
  BY NotDisturbed
<1>2. now' = now \/ now' = now + 1
  BY DEF Next, Step, Call, GetLock, GetUnlock, SetLock, SetUnlock, Query, bond, breakBond,
     setHardRT, setSoftRT, update, flush, destroy, Tick, Crash, ReadOnly, WriteBack, vars
<1>3. /\ now \in Nat /\ now >= StartTime /\ \A p \in Procs : arg[p] \in Nat
      /\ committed \in DataPacket /\ committed.header_.time_ \in Nat
  BY DEF IInv, TypeOK, DataPacket, Header
<1>4. CASE committed' = committed
  <2>1. ASSUME NEW p \in Procs, op'[p] = "update"
        PROVE  committed'.header_.time_ <= arg'[p] /\ arg'[p] \in StartTime..now'
    <3>1. \/ op[p] = "update" /\ arg'[p] = arg[p]
          \/ arg'[p] = now
      BY <2>1, StampStep
    <3> QED
      BY <1>2, <1>3, <1>4, <3>1 DEF SerialInv
  <2> QED
    BY <1>1, <1>2, <1>3, <1>4, <2>1 DEF SerialInv
<1>5. CASE committed' # committed
  <2>1. PICK w \in Procs : /\ SetUnlock(w)
                           /\ op[w] \in Writers
                           /\ committed' = Applied(w, committed)
    BY <1>5, SerialCommits
  <2>2. now' = now /\ \A p \in Procs : op'[p] # "update"
    BY <2>1 DEF SetUnlock, Return, OneAtATime, Writers, WriteCalls, IInv, TypeOK
  <2>3. committed'.header_.time_ <= now
    <3>1. \/ committed'.header_.time_ = committed.header_.time_
          \/ op[w] = "update" /\ committed'.header_.time_ = arg[w]
      BY <1>3, <2>1, AppliedData DEF IInv
    <3> QED
      BY <1>3, <3>1 DEF SerialInv
  <2> QED
    BY <1>1, <2>2, <2>3 DEF SerialInv
<1> QED
  BY <1>4, <1>5

\* Each commit is a step of the channel.
LEMMA ChannelStep ==
  ASSUME IInv, SerialInv, [Next]_vars
  PROVE  [Channel!Next]_committed
<1> SUFFICES ASSUME committed' # committed PROVE Channel!Next
  OBVIOUS
<1>1. PICK w \in Procs :
        /\ op[w] \in Writers
        /\ committed' = Result(op[w], w, arg[w], committed)
        /\ op[w] = "bond" => committed.header_.bond_flag_ = 0
  BY SerialCommits DEF Applied
<1>2. CASE op[w] = "bond"
  BY <1>1, <1>2 DEF Result, Channel!Next, Channel!Bond
<1>3. CASE op[w] = "setHardRT"
  BY <1>1, <1>3 DEF Result, Channel!Next, Channel!SetHardRT
<1>4. CASE op[w] = "setSoftRT"
  BY <1>1, <1>4 DEF Result, Channel!Next, Channel!SetSoftRT
<1>5. CASE op[w] \in {"breakBond", "destroy_break"}
  BY <1>1, <1>5 DEF Result, Channel!Next, Channel!BreakBond
<1>6. CASE op[w] = "update" /\ committed.header_.bond_flag_ = 1
  <2>1. arg[w] \in StartTime..MaxTime /\ committed.header_.time_ <= arg[w]
    BY <1>6, TimeAssumption DEF SerialInv, IInv, TypeOK
  <2>2. Channel!Update(w, arg[w])
    BY <1>1, <1>6, <2>1 DEF Result, Channel!Update
  <2> QED
    BY <2>1, <2>2 DEF Channel!Next
<1>7. CASE op[w] = "update" /\ committed.header_.bond_flag_ # 1
  BY <1>1, <1>7 DEF Result
<1> QED
  BY <1>1, <1>2, <1>3, <1>4, <1>5, <1>6, <1>7 DEF Writers, WriteCalls

\* Any number of endpoints that write, but take turns in doing so, implement
\* the atomic channel: the mutex of each copy is enough for the readers, and a
\* lock that the callers hold around every call that writes would be enough for
\* the writers.  A process killed inside a call does not spoil it.
THEOREM SerialCallsAreAtomic == Spec /\ []OneAtATime => ImplementsChannel
<1>1. Init => Channel!Init
  BY DEF Init, Channel!Init, Cleared
<1>2. Init => SerialInv
  BY TimeAssumption DEF Init, SerialInv, Cleared
<1>3. IInv /\ OneAtATime /\ SerialInv /\ [Next]_vars => SerialInv'
  BY SerialStep
<1>4. IInv /\ SerialInv /\ [Next]_vars => [Channel!Next]_committed
  BY ChannelStep
<1> QED
  BY <1>1, <1>2, <1>3, <1>4, Invariant, PTL DEF Spec, ImplementsChannel, Channel!Spec

\* Only endpoint w makes calls that write.
OnlyWriter(w) == \A p \in Procs \ {w} : Calls[p] \subseteq ReadCalls

\* The other endpoints are in no call or in one that reads.
OthersRead(w) == \A p \in Procs \ {w} : op[p] \in ReadCalls \cup {"none"}

\* An endpoint that makes only calls that read is never in one that writes.
LEMMA OthersReadStep ==
  ASSUME NEW w \in Procs, OnlyWriter(w), IInv, OthersRead(w), [Next]_vars
  PROVE  OthersRead(w)'
<1> USE EndpointAssumption
<1>1. ASSUME NEW q \in Procs, NEW c \in Calls[q], Call(q, c)
      PROVE  OthersRead(w)'
  BY <1>1 DEF Call, OnlyWriter, OthersRead, IInv, TypeOK
<1>2. ASSUME NEW q \in Procs, destroy(q)
      PROVE  OthersRead(w)'
  <2>1. q = w
    BY <1>2 DEF destroy, At, OthersRead, ReadCalls
  <2>2. \A p \in Procs \ {w} : op'[p] = op[p]
    BY <1>2, <2>1 DEF destroy, ReadOnly, Return, IInv, TypeOK
  <2> QED
    BY <2>2 DEF OthersRead
<1>3. CASE /\ ~ \E q \in Procs : \E c \in Calls[q] : Call(q, c)
           /\ ~ \E q \in Procs : destroy(q)
  <2>1. \/ op' = op
        \/ \E q \in Procs : op' = [op EXCEPT ![q] = "none"]
    BY <1>3 DEF Next, Step, GetLock, GetUnlock, SetLock, SetUnlock, Query, bond,
       breakBond, setHardRT, setSoftRT, update, flush, Tick, Crash, ReadOnly, Return,
       WriteBack, vars, calls
  <2> QED
    BY <2>1 DEF OthersRead, IInv, TypeOK
<1> QED
  BY <1>1, <1>2, <1>3

\* A segment that one endpoint writes and any number of endpoints read
\* implements the atomic channel: a single writer always takes turns.
THEOREM OneWriterIsAtomic ==
  ASSUME NEW w \in Procs, OnlyWriter(w)
  PROVE  Spec => ImplementsChannel
<1>1. Init => OthersRead(w)
  BY DEF Init, OthersRead
<1>2. IInv /\ OthersRead(w) /\ [Next]_vars => OthersRead(w)'
  BY OthersReadStep
<1>3. OthersRead(w) => OneAtATime
  BY DEF OthersRead, OneAtATime, ReadCalls, Writers, WriteCalls
<1> QED
  BY <1>1, <1>2, <1>3, Invariant, SerialCallsAreAtomic, PTL DEF Spec

-----------------------------------------------------------------------------
(* A stalled writer's command is dropped in time.                          *)

IsBonded(m) == m.header_.bond_flag_ = 1

FreshTime == freshAt \in StartTime..now

\* The last flush of s is at most a flush period ago; before the clock has moved
\* there may have been none.
Recent(s) ==
  /\ flush_time_prev_[s] <= now
  /\ pc[s] # "gone" => now - flush_time_prev_[s] <= FlushGap \/ now = StartTime

\* Data that the last flush of s has not seen arrived at most one period before
\* it, since the packet of that flush was read; while the watchdog is not armed
\* the data or the bond is at most two periods older than that flush; when the
\* watchdog was armed they were at most three periods old.
Seen(s) ==
  /\ IsBonded(committed) /\ committed.header_.time_ # data_time_prev_[s] =>
       freshAt >= flush_time_prev_[s] - FlushGap
  /\ IsBonded(committed) /\ start_watchdog_time_[s] = -1 =>
       freshAt >= flush_time_prev_[s] - 2 * FlushGap
  /\ start_watchdog_time_[s] # -1 => freshAt >= start_watchdog_time_[s] - 3 * FlushGap

\* The same of the packet that a flush under way has read; it is what is
\* committed but for a bond that was broken, or something fresh came after it.
Reading(s) == pc[s] \in {"copy_get", "body"} /\ op[s] = "flush"

Held(s) ==
  Reading(s) =>
    /\ \/ freshAt >= flush_time_prev_[s]
       \/ /\ pkt[s].header_.time_ = committed.header_.time_
          /\ IsBonded(committed) => Bonded(s)
    /\ Bonded(s) /\ pkt[s].header_.time_ # data_time_prev_[s] =>
         freshAt >= flush_time_prev_[s] - FlushGap
    /\ Bonded(s) /\ start_watchdog_time_[s] = -1 =>
         freshAt >= flush_time_prev_[s] - 2 * FlushGap

Watched(s) == Recent(s) /\ Seen(s) /\ Held(s)

WatchInv == FreshTime /\ \A s \in Periodic : Watched(s)

\* The numbers are numbers.
LEMMA WatchTypes ==
  ASSUME TypeOK, NEW s \in Periodic
  PROVE  /\ s \in Procs /\ s \in Servers
         /\ now \in Nat /\ freshAt \in Nat /\ StartTime \in Nat
         /\ FlushGap \in Nat /\ Watchdog \in Nat
         /\ flush_time_prev_[s] \in Nat /\ data_time_prev_[s] \in Nat
         /\ start_watchdog_time_[s] \in Nat \cup {-1}
         /\ pkt[s] \in DataPacket /\ pkt[s].header_.time_ \in Nat
         /\ committed \in DataPacket /\ committed.header_.time_ \in Nat
  BY EndpointAssumption, TimeAssumption DEF TypeOK, DataPacket, Header

\* A step that neither writes nor ends a flush of s.
LEMMA WatchLocal ==
  ASSUME NEW s \in Procs, Watched(s), UNCHANGED <<now, committed, freshAt, fields>>,
         pc'[s] # "gone" => pc[s] # "gone",
         Reading(s)' => Reading(s) /\ pkt'[s].header_ = pkt[s].header_
  PROVE  Watched(s)'
<1>1. Recent(s)'
  BY DEF Watched, Recent, fields
<1>2. Seen(s)'
  BY DEF Watched, Seen, fields
<1>3. Held(s)'
  BY DEF Watched, Held, Bonded, fields
<1> QED
  BY <1>1, <1>2, <1>3 DEF Watched

\* Nothing of the call of q changes.
Quiet(q) == pc'[q] = pc[q] /\ op'[q] = op[q] /\ pkt'[q] = pkt[q]

\* A step of p alone, which is not the beginning or the end of a flush.
LEMMA WatchOther ==
  ASSUME WatchInv, UNCHANGED <<now, committed, freshAt, fields>>, NEW p \in Procs,
         \A q \in Procs \ {p} : Quiet(q),
         pc'[p] # "gone" => pc[p] # "gone",
         Reading(p)' => Reading(p) /\ pkt'[p].header_ = pkt[p].header_
  PROVE  WatchInv'
<1>1. FreshTime'
  BY DEF WatchInv, FreshTime
<1>2. ASSUME NEW s \in Periodic PROVE Watched(s)'
  <2>1. s \in Procs /\ Watched(s)
    BY EndpointAssumption DEF WatchInv
  <2>2. CASE s = p
    BY <2>1, <2>2, WatchLocal
  <2>3. CASE s # p
    <3>1. Quiet(s)
      BY <2>1, <2>3
    <3>2. (Reading(s)' <=> Reading(s)) /\ pkt'[s] = pkt[s] /\ pc'[s] = pc[s]
      BY <3>1 DEF Quiet, Reading
    <3> QED
      BY <2>1, <3>2, WatchLocal
  <2> QED
    BY <2>2, <2>3
<1> QED
  BY <1>1, <1>2 DEF WatchInv

\* A flush begins to read: its packet is what is committed.
LEMMA WatchGetLock ==
  ASSUME IInv, WatchInv, NEW p \in Procs, GetLock(p)
  PROVE  WatchInv'
<1> TypeOK
  BY DEF IInv
<1>1. /\ pc[p] = "lock_get" /\ pc'[p] = "copy_get" /\ op' = op
      /\ pkt'[p].header_ = shmem.header_ /\ shmem = committed
      /\ UNCHANGED <<now, committed, freshAt, fields>>
      /\ \A q \in Procs \ {p} : Quiet(q)
  BY PacketFacts DEF GetLock, Goto, TypeOK, DataPacket, history, Quiet, IInv, SegmentInv
<1>2. CASE p \notin Periodic \/ op[p] # "flush"
  <2>1. FreshTime'
    BY <1>1 DEF WatchInv, FreshTime
  <2>2. ASSUME NEW s \in Periodic PROVE Watched(s)'
    <3>1. s \in Procs /\ Watched(s)
      BY EndpointAssumption DEF WatchInv
    <3>2. CASE s = p
      BY <1>1, <1>2, <3>1, <3>2, WatchLocal DEF Reading
    <3>3. CASE s # p
      <4>1. Quiet(s)
        BY <1>1, <3>1, <3>3
      <4>2. (Reading(s)' <=> Reading(s)) /\ pkt'[s] = pkt[s] /\ pc'[s] = pc[s]
        BY <4>1 DEF Quiet, Reading
      <4> QED
        BY <1>1, <3>1, <4>2, WatchLocal
    <3> QED
      BY <3>2, <3>3
  <2> QED
    BY <2>1, <2>2 DEF WatchInv
<1>3. CASE p \in Periodic /\ op[p] = "flush"
  <2>1. FreshTime'
    BY <1>1 DEF WatchInv, FreshTime
  <2>2. ASSUME NEW s \in Periodic, s # p PROVE Watched(s)'
    <3>1. s \in Procs /\ Watched(s) /\ Quiet(s)
      BY <1>1, <2>2, EndpointAssumption DEF WatchInv
    <3>2. (Reading(s)' <=> Reading(s)) /\ pkt'[s] = pkt[s] /\ pc'[s] = pc[s]
      BY <3>1 DEF Quiet, Reading
    <3> QED
      BY <1>1, <3>1, <3>2, WatchLocal
  <2>3. Watched(p)'
    <3>1. Watched(p)
      BY <1>3 DEF WatchInv
    <3>2. Recent(p)' /\ Seen(p)'
      BY <1>1, <3>1 DEF Watched, Recent, Seen, fields
    <3>3. pkt'[p].header_ = committed.header_
      BY <1>1
    <3>4. Held(p)'
      BY <1>1, <3>1, <3>3 DEF Watched, Seen, Held, Bonded, IsBonded, fields
    <3> QED
      BY <3>2, <3>4 DEF Watched
  <2> QED
    BY <2>1, <2>2, <2>3 DEF WatchInv
<1> QED
  BY <1>2, <1>3

\* A write: new data and a new bond are fresh; otherwise the data stays and the
\* segment is not bonded unless it was.
LEMMA WatchSetUnlock ==
  ASSUME IInv, WatchInv, NEW p \in Procs, SetUnlock(p)
  PROVE  WatchInv'
<1> TypeOK /\ TypeOK'
  BY TypeStep DEF IInv, Next, Step
<1>1. /\ pc[p] = "copy_set" /\ UNCHANGED <<now, fields>>
      /\ pc'[p] \in {"idle", "gone"}
      /\ \A q \in Procs \ {p} : Quiet(q)
  BY DEF SetUnlock, Return, Goto, Quiet, TypeOK
<1>2. \/ freshAt' = now
      \/ /\ freshAt' = freshAt /\ committed'.header_.time_ = committed.header_.time_
         /\ IsBonded(committed)' => IsBonded(committed)
  <2>1. CASE Data(shmem') # Data(committed) \/ BondMade(committed, shmem')
    BY <2>1 DEF SetUnlock
  <2>2. CASE ~(Data(shmem') # Data(committed) \/ BondMade(committed, shmem'))
    <3>1. freshAt' = freshAt /\ committed' = shmem'
      BY <2>2 DEF SetUnlock
    <3>2. Data(committed') = Data(committed) /\ ~BondMade(committed, committed')
      BY <2>2, <3>1
    <3>3. committed.header_.bond_flag_ \in {0, 1}
      BY DEF TypeOK, DataPacket, Header
    <3> QED
      BY <3>1, <3>2, <3>3 DEF Data, BondMade, IsBonded
  <2> QED
    BY <2>1, <2>2
<1>3. FreshTime' /\ now \in Nat /\ freshAt \in Nat /\ freshAt <= freshAt' /\ freshAt <= now
  BY <1>1, <1>2, TimeAssumption DEF WatchInv, FreshTime, TypeOK
<1>4. ASSUME NEW s \in Periodic PROVE Watched(s)'
  <2> DEFINE f == flush_time_prev_[s]
             a == start_watchdog_time_[s]
  <2>1. s \in Procs /\ Watched(s)
    BY EndpointAssumption DEF WatchInv
  <2>2. /\ now \in Nat /\ FlushGap \in Nat /\ f \in Nat /\ f <= now
        /\ a \in Nat \cup {-1} /\ (a # -1 => freshAt >= a - 3 * FlushGap)
        /\ freshAt' \in Nat
    BY <2>1, WatchTypes DEF Watched, Recent, Seen, TypeOK
  <2>3. /\ flush_time_prev_'[s] = f /\ start_watchdog_time_'[s] = a
        /\ data_time_prev_'[s] = data_time_prev_[s] /\ now' = now
    BY <1>1 DEF fields
  <2>4. /\ Reading(s)' => Reading(s) /\ s # p
        /\ pc'[s] # "gone" => pc[s] # "gone"
        /\ s # p => pkt'[s] = pkt[s]
    BY <1>1, <2>1 DEF Reading, Quiet
  <2>5. Recent(s)'
    BY <2>1, <2>3, <2>4 DEF Watched, Recent
  <2>6. CASE freshAt' = now
    <3>1. freshAt' >= f /\ freshAt' >= f - FlushGap /\ freshAt' >= f - 2 * FlushGap
      BY <2>2, <2>6
    <3>2. a # -1 => freshAt' >= a - 3 * FlushGap
      BY <1>3, <2>2, <2>6
    <3> QED
      BY <2>3, <2>5, <3>1, <3>2 DEF Watched, Seen, Held
  <2>7. CASE /\ freshAt' = freshAt /\ committed'.header_.time_ = committed.header_.time_
             /\ IsBonded(committed)' => IsBonded(committed)
    <3>1. Seen(s)'
      BY <2>1, <2>3, <2>7 DEF Watched, Seen, IsBonded
    <3>2. Held(s)'
      BY <2>1, <2>3, <2>4, <2>7 DEF Watched, Held, Bonded, IsBonded
    <3> QED
      BY <2>5, <3>1, <3>2 DEF Watched
  <2> QED
    BY <1>2, <2>6, <2>7
<1> QED
  BY <1>3, <1>4 DEF WatchInv

\* A flush ends.
LEMMA WatchFlush ==
  ASSUME IInv, WatchInv, NEW p \in Procs, flush(p)
  PROVE  WatchInv'
<1> TypeOK
  BY DEF IInv
<1>1. /\ pc[p] = "body" /\ op[p] = "flush" /\ pc'[p] = "idle"
      /\ UNCHANGED <<now, committed, freshAt>>
      /\ \A q \in Procs \ {p} : Quiet(q)
  BY DEF flush, At, ReadOnly, Return, Goto, Quiet, TypeOK
<1>2. FreshTime'
  BY <1>1 DEF WatchInv, FreshTime
<1>3. ASSUME NEW s \in Periodic, s # p PROVE Watched(s)'
  <2>1. s \in Procs /\ Watched(s) /\ Quiet(s)
    BY <1>1, <1>3, EndpointAssumption DEF WatchInv
  <2>2. /\ flush_time_prev_'[s] = flush_time_prev_[s]
        /\ start_watchdog_time_'[s] = start_watchdog_time_[s]
        /\ data_time_prev_'[s] = data_time_prev_[s]
    BY <1>3, <2>1 DEF flush, fields, TypeOK
  <2>3. (Reading(s)' <=> Reading(s)) /\ pkt'[s] = pkt[s] /\ pc'[s] = pc[s]
    BY <2>1 DEF Quiet, Reading
  <2> QED
    BY <1>1, <2>1, <2>2, <2>3 DEF Watched, Recent, Seen, Held, Bonded
<1>4. ASSUME p \in Periodic PROVE Watched(p)'
  <2> DEFINE f == flush_time_prev_[p]
             a == start_watchdog_time_[p]
             d == data_time_prev_[p]
             t == pkt[p].header_.time_
             G == FlushGap
  <2>1. /\ p \in Servers /\ now \in Nat /\ freshAt \in Nat /\ StartTime \in Nat
        /\ G \in Nat /\ f \in Nat /\ d \in Nat /\ a \in Nat \cup {-1} /\ t \in Nat
    BY <1>4, WatchTypes
  <2>2. Watched(p) /\ freshAt >= StartTime
    BY <1>4 DEF WatchInv, FreshTime
  <2>3. /\ flush_time_prev_'[p] = now /\ data_time_prev_'[p] = FlushTime(p)
        /\ start_watchdog_time_'[p] = NextStart(p)
    BY <2>1 DEF flush, ClientTooOld, TypeOK
  <2>4. f >= now - G \/ freshAt >= now
    BY <1>1, <2>1, <2>2 DEF Watched, Recent
  <2>5. /\ \/ freshAt >= f
           \/ t = committed.header_.time_ /\ (IsBonded(committed) => Bonded(p))
        /\ Bonded(p) /\ t # d => freshAt >= f - G
        /\ Bonded(p) /\ a = -1 => freshAt >= f - 2 * G
        /\ a # -1 => freshAt >= a - 3 * G
    BY <1>1, <2>2 DEF Watched, Seen, Held, Reading
  <2>6. Bonded(p) => FlushTime(p) = t
    BY DEF FlushTime
  <2>7. Bonded(p) /\ NextStart(p) = -1 => t # d
    <3> SUFFICES ASSUME Bonded(p), t = d PROVE NextStart(p) # -1
      OBVIOUS
    <3>1. Latency(p) = 0
      BY <2>1, <2>6 DEF Latency
    <3>2. Watchdog \in Nat
      BY TimeAssumption
    <3>3. ~InRange(p) /\ Repeated(p)
      BY <3>1, <3>2 DEF InRange, Overrun, Repeated
    <3> QED
      BY <2>1, <3>3 DEF NextStart
  <2>8. NextStart(p) # -1 => (NextStart(p) = now /\ a = -1 /\ Bonded(p)) \/ NextStart(p) = a
    BY DEF NextStart
  <2> HIDE DEF f, a, d, t, G
  <2>9. IsBonded(committed) /\ committed.header_.time_ # FlushTime(p) => freshAt >= now - G
    BY <2>1, <2>4, <2>5, <2>6
  <2>10. IsBonded(committed) /\ NextStart(p) = -1 => freshAt >= now - 2 * G
    BY <2>1, <2>4, <2>5, <2>7
  <2>11. NextStart(p) # -1 => freshAt >= NextStart(p) - 3 * G
    BY <2>1, <2>4, <2>5, <2>8
  <2>12. Seen(p)'
    BY <1>1, <2>3, <2>9, <2>10, <2>11 DEF Seen, IsBonded, G
  <2>13. Recent(p)'
    BY <1>1, <2>1, <2>3 DEF Recent, G
  <2>14. Held(p)'
    BY <1>1 DEF Held, Reading
  <2> QED
    BY <2>12, <2>13, <2>14 DEF Watched
<1> QED
  BY <1>2, <1>3, <1>4 DEF WatchInv

\* Every action keeps the invariant.
LEMMA WatchStep == IInv /\ WatchInv /\ [Next]_vars => WatchInv'
<1> SUFFICES ASSUME IInv, WatchInv, [Next]_vars PROVE WatchInv'
  OBVIOUS
<1> TypeOK
  BY DEF IInv
<1>ro. ASSUME NEW p \in Procs, pc[p] = "body", ReadOnly(p), UNCHANGED fields PROVE WatchInv'
  <2>1. /\ pc'[p] \in {"idle", "gone"} /\ UNCHANGED <<now, committed, freshAt, fields>>
        /\ \A q \in Procs \ {p} : Quiet(q)
    BY <1>ro DEF ReadOnly, Return, Goto, Quiet, TypeOK
  <2> QED
    BY <1>ro, <2>1, WatchOther DEF Reading
<1>wb. ASSUME NEW p \in Procs, pc[p] = "body", NEW m, WriteBack(p, m) PROVE WatchInv'
  <2>1. /\ pc'[p] = "lock_set" /\ UNCHANGED <<now, committed, freshAt, fields>>
        /\ \A q \in Procs \ {p} : Quiet(q)
    BY <1>wb DEF WriteBack, Goto, Quiet, TypeOK, history
  <2> QED
    BY <1>wb, <2>1, WatchOther DEF Reading
<1>1. ASSUME NEW p \in Procs, NEW c \in Calls[p], Call(p, c) PROVE WatchInv'
  <2>1. /\ pc[p] = "idle" /\ pc'[p] = "lock_get"
        /\ UNCHANGED <<now, committed, freshAt, fields>>
        /\ \A q \in Procs \ {p} : Quiet(q)
    BY <1>1 DEF Call, Goto, Quiet, TypeOK, history
  <2> QED
    BY <2>1, WatchOther DEF Reading
<1>2. ASSUME NEW p \in Procs, GetLock(p) PROVE WatchInv'
  BY <1>2, WatchGetLock
<1>3. ASSUME NEW p \in Procs, GetUnlock(p) PROVE WatchInv'
  <2>1. /\ pc[p] = "copy_get" /\ pc'[p] = "body" /\ op' = op
        /\ pkt'[p].header_ = pkt[p].header_
        /\ UNCHANGED <<now, committed, freshAt, fields>>
        /\ \A q \in Procs \ {p} : Quiet(q)
    BY <1>3 DEF GetUnlock, Goto, Quiet, TypeOK, DataPacket
  <2> QED
    BY <2>1, WatchOther DEF Reading
<1>4. ASSUME NEW p \in Procs, SetLock(p) PROVE WatchInv'
  <2>1. /\ pc[p] = "lock_set" /\ pc'[p] = "copy_set"
        /\ UNCHANGED <<now, committed, freshAt, fields>>
        /\ \A q \in Procs \ {p} : Quiet(q)
    BY <1>4 DEF SetLock, Goto, Quiet, TypeOK, history
  <2> QED
    BY <2>1, WatchOther DEF Reading
<1>5. ASSUME NEW p \in Procs, SetUnlock(p) PROVE WatchInv'
  BY <1>5, WatchSetUnlock
<1>6. ASSUME NEW p \in Procs, Query(p) PROVE WatchInv'
  BY <1>6, <1>ro DEF Query, At
<1>7. ASSUME NEW p \in Procs, bond(p) PROVE WatchInv'
  BY <1>7, <1>ro, <1>wb DEF bond, At
<1>8. ASSUME NEW p \in Procs, breakBond(p) \/ setHardRT(p) \/ setSoftRT(p) \/ update(p)
      PROVE  WatchInv'
  BY <1>8, <1>wb DEF breakBond, setHardRT, setSoftRT, update, At
<1>9. ASSUME NEW p \in Procs, flush(p) PROVE WatchInv'
  BY <1>9, WatchFlush
<1>10. ASSUME NEW p \in Procs, destroy(p) PROVE WatchInv'
  <2>1. CASE Bonded(p)
    <3>1. /\ pc[p] = "body" /\ pc'[p] = "lock_get"
          /\ UNCHANGED <<now, committed, freshAt, fields>>
          /\ \A q \in Procs \ {p} : Quiet(q)
      BY <1>10, <2>1 DEF destroy, At, Goto, Quiet, TypeOK
    <3> QED
      BY <3>1, WatchOther DEF Reading
  <2>2. CASE ~Bonded(p)
    BY <1>10, <1>ro, <2>2 DEF destroy, At
  <2> QED
    BY <2>1, <2>2
<1>11. ASSUME NEW p \in Procs, Crash(p) PROVE WatchInv'
  <2>1. /\ pc'[p] = "gone" /\ UNCHANGED <<now, committed, freshAt, fields>>
        /\ \A q \in Procs \ {p} : Quiet(q)
    BY <1>11 DEF Crash, Goto, Quiet, TypeOK
  <2> QED
    BY <2>1, WatchOther DEF Reading
<1>12. CASE Tick
  <2>1. /\ now' = now + 1 /\ UNCHANGED <<pc, op, pkt, committed, freshAt, fields>>
        /\ \A s \in Periodic : pc[s] # "gone" => now - flush_time_prev_[s] < FlushGap
    BY <1>12 DEF Tick, calls, history
  <2>2. FreshTime'
    BY <2>1, TimeAssumption DEF WatchInv, FreshTime, TypeOK
  <2>3. ASSUME NEW s \in Periodic PROVE Watched(s)'
    <3>1. Watched(s)
      BY DEF WatchInv
    <3>2. now \in Nat /\ flush_time_prev_[s] \in Nat /\ FlushGap \in Nat
      BY WatchTypes
    <3>3. Recent(s)'
      BY <2>1, <3>1, <3>2 DEF Watched, Recent, fields
    <3>4. Seen(s)' /\ Held(s)'
      BY <2>1, <3>1 DEF Watched, Seen, Held, Reading, Bonded, fields
    <3> QED
      BY <3>3, <3>4 DEF Watched
  <2> QED
    BY <2>2, <2>3 DEF WatchInv
<1>13. CASE UNCHANGED vars
  <2>1. FreshTime'
    BY <1>13 DEF vars, history, WatchInv, FreshTime
  <2>2. ASSUME NEW s \in Periodic PROVE Watched(s)'
    BY <1>13 DEF vars, history, calls, fields, WatchInv, Watched, Recent, Seen, Held,
       Reading, Bonded
  <2> QED
    BY <2>1, <2>2 DEF WatchInv
<1> QED
  BY <1>1, <1>2, <1>3, <1>4, <1>5, <1>6, <1>7, <1>8, <1>9, <1>10, <1>11, <1>12, <1>13
     DEF Next, Step

\* What the invariant says of a flush that delivers a command in hard real time.
LEMMA WatchBound == TypeOK /\ WatchInv => StaleCommandBound
<1> SUFFICES ASSUME TypeOK, WatchInv, NEW s \in Periodic, DeliversHard(s)
             PROVE  now - freshAt <= Watchdog + 3 * FlushGap
  BY DEF StaleCommandBound
<1> DEFINE f == flush_time_prev_[s]
           a == start_watchdog_time_[s]
           t == pkt[s].header_.time_
           d == data_time_prev_[s]
           G == FlushGap
<1>1. /\ s \in Servers /\ now \in Nat /\ freshAt \in Nat /\ StartTime \in Nat
      /\ G \in Nat /\ Watchdog \in Nat
      /\ f \in Nat /\ d \in Nat /\ a \in Nat \cup {-1} /\ t \in Nat
  BY WatchTypes
<1>2. Watched(s) /\ freshAt >= StartTime /\ Reading(s) /\ pc[s] = "body"
  BY DEF WatchInv, FreshTime, DeliversHard, At, Reading
<1>3. f >= now - G \/ freshAt >= now
  BY <1>1, <1>2 DEF Watched, Recent
<1>4. /\ Bonded(s) /\ t # d => freshAt >= f - G
      /\ Bonded(s) /\ a = -1 => freshAt >= f - 2 * G
      /\ a # -1 => freshAt >= a - 3 * G
  BY <1>2 DEF Watched, Seen, Held
<1>5. Bonded(s) /\ ~Stalled(s)
  BY DEF DeliversHard, FlushRet, FlushOut, Reset, Expired
<1>6. t = d => a = -1 \/ now - a <= Watchdog
  <2> SUFFICES ASSUME t = d PROVE a = -1 \/ now - a <= Watchdog
    OBVIOUS
  <2>1. Latency(s) = 0
    BY <1>1, <1>5 DEF Latency, FlushTime
  <2>2. Repeated(s)
    BY <1>1, <2>1 DEF Repeated, InRange, Overrun
  <2> QED
    BY <1>1, <1>5, <2>2 DEF Stalled
<1> HIDE DEF f, a, d, t, G
<1>7. CASE t # d
  BY <1>1, <1>3, <1>4, <1>5, <1>7 DEF G
<1>8. CASE a = -1
  BY <1>1, <1>3, <1>4, <1>5, <1>8 DEF G
<1>9. CASE a # -1 /\ now - a <= Watchdog
  BY <1>1, <1>4, <1>9 DEF G
<1> QED
  BY <1>6, <1>7, <1>8, <1>9

\* For any watchdog, any flush period and any endpoints, a periodic server in hard
\* real time stops applying the last command of a writer that has died or stalled
\* at most the watchdog and three flush periods after the last new data or bond.
THEOREM StaleCommandsDropped == Spec => []StaleCommandBound
<1>1. Init => WatchInv
  <2> SUFFICES ASSUME Init PROVE WatchInv
    OBVIOUS
  <2>1. FreshTime
    BY TimeAssumption DEF Init, FreshTime
  <2>2. ~IsBonded(committed)
    BY DEF Init, Cleared, IsBonded
  <2>3. ASSUME NEW s \in Periodic PROVE Watched(s)
    <3>1. s \in Procs
      BY EndpointAssumption
    <3> QED
      BY <2>2, <3>1, TimeAssumption DEF Init, Watched, Recent, Seen, Held, Reading
  <2> QED
    BY <2>1, <2>3 DEF WatchInv
<1>2. IInv => TypeOK
  BY DEF IInv
<1> QED
  BY <1>1, <1>2, Invariant, WatchStep, WatchBound, PTL DEF Spec

-----------------------------------------------------------------------------
(* When the watchdog of a repeated packet is right.                        *)

\* While its watchdog runs, a server reads no data that comes a watchdog or more
\* after the data it read before.
PromptWriter ==
  \A s \in Servers : flush(s) /\ Bonded(s) /\ start_watchdog_time_[s] # -1 =>
    Latency(s) < Watchdog

\* No data is stamped ahead of the clock.
StampInv ==
  /\ shmem.header_.time_ <= now
  /\ \A p \in Procs : pkt[p].header_.time_ <= now /\ arg[p] <= now

\* The watchdog was started after the data that the server has read last.
ArmedAfterData ==
  \A s \in Servers : start_watchdog_time_[s] # -1 =>
    data_time_prev_[s] <= start_watchdog_time_[s]

\* The stamps are numbers.
LEMMA StampTypes ==
  ASSUME TypeOK
  PROVE  /\ now \in Nat /\ shmem \in DataPacket /\ shmem.header_.time_ \in Nat
         /\ \A p \in Procs : /\ pkt[p] \in DataPacket /\ pkt[p].header_.time_ \in Nat
                             /\ arg[p] \in Nat
  BY TimeAssumption DEF TypeOK, DataPacket, Header

\* The packets and the arguments that a step of p makes.
LEMMA StampLocal ==
  ASSUME TypeOK, StampInv, NEW p \in Procs, now' = now,
         shmem'.header_.time_ <= now,
         pkt'[p].header_.time_ <= now, arg'[p] <= now,
         \A q \in Procs \ {p} : pkt'[q] = pkt[q] /\ arg'[q] = arg[q]
  PROVE  StampInv'
  BY DEF StampInv

\* Every action keeps the stamps behind the clock.
LEMMA ClockStep == IInv /\ StampInv /\ [Next]_vars => StampInv'
<1> SUFFICES ASSUME IInv, StampInv, [Next]_vars PROVE StampInv'
  OBVIOUS
<1> TypeOK
  BY DEF IInv
<1> USE StampTypes
<1>ret. ASSUME NEW p \in Procs, Return(p), now' = now, shmem'.header_.time_ <= now
        PROVE  StampInv'
  <2>1. /\ pkt'[p].header_.time_ = 0 /\ arg'[p] = 0
        /\ \A q \in Procs \ {p} : pkt'[q] = pkt[q] /\ arg'[q] = arg[q]
    BY <1>ret DEF Return, Cleared, TypeOK
  <2> QED
    BY <1>ret, <2>1, StampLocal
<1>ro. ASSUME NEW p \in Procs, ReadOnly(p) PROVE StampInv'
  BY <1>ro, <1>ret DEF ReadOnly, shared, StampInv
<1>wb. ASSUME NEW p \in Procs, WriteBack(p, Applied(p, pkt[p])) PROVE StampInv'
  <2>1. /\ pkt'[p] = Applied(p, pkt[p]) /\ arg' = arg /\ now' = now /\ shmem' = shmem
        /\ \A q \in Procs \ {p} : pkt'[q] = pkt[q]
    BY <1>wb DEF WriteBack, shared, TypeOK
  <2>2. pkt'[p].header_.time_ \in {pkt[p].header_.time_, arg[p]}
    BY <2>1, AppliedData
  <2> QED
    BY <2>1, <2>2, StampLocal DEF StampInv
<1>1. ASSUME NEW p \in Procs, NEW c \in Calls[p], Call(p, c) PROVE StampInv'
  <2>1. /\ pkt' = pkt /\ now' = now /\ shmem' = shmem /\ arg'[p] \in {0, now}
        /\ \A q \in Procs \ {p} : arg'[q] = arg[q]
    BY <1>1 DEF Call, shared, TypeOK
  <2> QED
    BY <2>1, StampLocal DEF StampInv
<1>2. ASSUME NEW p \in Procs, GetLock(p) \/ GetUnlock(p) PROVE StampInv'
  <2>1. /\ pkt'[p].header_ \in {pkt[p].header_, shmem.header_} /\ arg' = arg
        /\ now' = now /\ shmem' = shmem
        /\ \A q \in Procs \ {p} : pkt'[q] = pkt[q]
    BY <1>2, PacketFacts DEF GetLock, GetUnlock, TypeOK, DataPacket
  <2> QED
    BY <2>1, StampLocal DEF StampInv
<1>3. ASSUME NEW p \in Procs, SetLock(p) PROVE StampInv'
  <2>1. shmem'.header_ = pkt[p].header_ /\ UNCHANGED <<now, arg, pkt>>
    BY <1>3 DEF SetLock, DataPacket
  <2> QED
    BY <2>1, StampLocal DEF StampInv
<1>4. ASSUME NEW p \in Procs, SetUnlock(p) PROVE StampInv'
  <2>1. shmem'.header_ = shmem.header_ /\ now' = now /\ Return(p)
    BY <1>4 DEF SetUnlock, DataPacket
  <2> QED
    BY <1>ret, <2>1 DEF StampInv
<1>5. ASSUME NEW p \in Procs, Query(p) \/ flush(p) PROVE StampInv'
  BY <1>5, <1>ro DEF Query, flush
<1>6. ASSUME NEW p \in Procs, \/ bond(p) \/ breakBond(p) \/ setHardRT(p)
                              \/ setSoftRT(p) \/ update(p)
      PROVE  StampInv'
  BY <1>6, <1>ro, <1>wb DEF bond, breakBond, setHardRT, setSoftRT, update
<1>7. ASSUME NEW p \in Procs, destroy(p) \/ Crash(p) PROVE StampInv'
  <2>1. CASE ReadOnly(p)
    BY <2>1, <1>ro
  <2>2. CASE ~ReadOnly(p)
    <3>1. /\ pkt'[p].header_.time_ = 0 /\ arg'[p] \in {arg[p], 0}
          /\ now' = now /\ shmem' = shmem
          /\ \A q \in Procs \ {p} : pkt'[q] = pkt[q] /\ arg'[q] = arg[q]
      BY <1>7, <2>2 DEF destroy, Crash, shared, Cleared, TypeOK
    <3> QED
      BY <3>1, StampLocal DEF StampInv
  <2> QED
    BY <2>1, <2>2
<1>8. CASE Tick
  BY <1>8 DEF Tick, shared, calls, StampInv
<1>9. CASE UNCHANGED vars
  BY <1>9 DEF vars, shared, calls, StampInv
<1> QED
  BY <1>1, <1>2, <1>3, <1>4, <1>5, <1>6, <1>7, <1>8, <1>9 DEF Next, Step

\* A flush of a prompt writer's data keeps the order of data and watchdog: new
\* data stops the watchdog, and old data is older than its start.
LEMMA ArmedStep ==
  ASSUME IInv, StampInv, ArmedAfterData, [Next]_vars, [PromptWriter]_vars
  PROVE  ArmedAfterData'
<1> TypeOK
  BY DEF IInv
<1>1. CASE UNCHANGED fields
  BY <1>1 DEF fields, ArmedAfterData
<1>2. ASSUME NEW p \in Procs, flush(p), ~(UNCHANGED fields), NEW s \in Servers,
             start_watchdog_time_'[s] # -1
      PROVE  data_time_prev_'[s] <= start_watchdog_time_'[s]
  <2>1. CASE s # p
    <3>1. /\ start_watchdog_time_'[s] = start_watchdog_time_[s]
          /\ data_time_prev_'[s] = data_time_prev_[s]
      BY <1>2, <2>1, EndpointAssumption DEF flush, TypeOK
    <3> QED
      BY <1>2, <3>1 DEF ArmedAfterData
  <2>2. CASE s = p
    <3> DEFINE a == start_watchdog_time_[s]
               d == data_time_prev_[s]
    <3>1. /\ now \in Nat /\ FlushTime(s) \in Nat /\ FlushTime(s) <= now
          /\ a \in Nat \cup {-1} /\ d \in Nat /\ Watchdog \in Nat
      BY <1>2, <2>2, StampTypes, TimeAssumption DEF FlushTime, StampInv, TypeOK
    <3>2. start_watchdog_time_'[s] = NextStart(s) /\ data_time_prev_'[s] = FlushTime(s)
      BY <1>2, <2>2 DEF flush, fields, TypeOK
    <3>3. a # -1 => d <= a
      BY DEF ArmedAfterData
    <3>4. Bonded(s) /\ a # -1 => Latency(s) < Watchdog
      BY <1>2, <2>2 DEF PromptWriter, vars
    <3>5. NextStart(s) # -1
      BY <1>2, <3>2
    <3> HIDE DEF a, d
    <3>6. CASE ~Bonded(s)
      <4>1. FlushTime(s) = 0 /\ NextStart(s) = a
        BY <3>6 DEF FlushTime, NextStart, a
      <4> QED
        BY <3>1, <3>2, <3>5, <4>1
    <3>7. CASE Bonded(s) /\ a # -1
      <4>1. Latency(s) = FlushTime(s) - d
        BY DEF Latency, d
      <4>2. ~(Latency(s) > 0) /\ NextStart(s) = a
        BY <3>4, <3>5, <3>7 DEF NextStart, InRange, a
      <4> QED
        BY <3>1, <3>2, <3>3, <3>7, <4>1, <4>2
    <3>8. CASE Bonded(s) /\ a = -1
      <4>1. NextStart(s) = now
        BY <3>5, <3>8 DEF NextStart, a
      <4> QED
        BY <3>1, <3>2, <4>1
    <3> QED
      BY <3>6, <3>7, <3>8
  <2> QED
    BY <2>1, <2>2
<1>3. UNCHANGED fields \/ \E p \in Procs : flush(p)
  BY DEF Next, Step, Call, GetLock, GetUnlock, SetLock, SetUnlock, Query, bond, breakBond,
     setHardRT, setSoftRT, update, destroy, Tick, Crash, WriteBack, vars
<1> QED
  BY <1>1, <1>2, <1>3 DEF ArmedAfterData

\* If no cycle of the writer that a server notices while its watchdog runs is as
\* long as the watchdog, the branch of flush for a writer that has stopped is
\* taken only for data older than the watchdog: all false alarms come from an
\* overrun (or a latency of exactly the watchdog) that leaves it running.
THEOREM PromptStallsAreReal == Spec /\ [][PromptWriter]_vars => []StallMeansNoNewData
<1>1. Init => StampInv /\ ArmedAfterData
  BY TimeAssumption, EndpointAssumption DEF Init, StampInv, ArmedAfterData, Cleared
<1>2. IInv /\ StampInv /\ ArmedAfterData => StallMeansNoNewData
  <2> SUFFICES ASSUME IInv, StampInv, ArmedAfterData, NEW s \in Servers, Reset(s), Stalled(s)
               PROVE  now - FlushTime(s) > Watchdog
    BY DEF StallMeansNoNewData
  <2>1. TypeOK /\ s \in Procs
    BY EndpointAssumption DEF IInv
  <2>2. /\ now \in Nat /\ FlushTime(s) \in Nat /\ data_time_prev_[s] \in Nat
        /\ start_watchdog_time_[s] \in Nat \cup {-1} /\ Watchdog \in Nat
    BY <2>1, StampTypes, TimeAssumption DEF FlushTime, TypeOK
  <2>3. /\ start_watchdog_time_[s] # -1 /\ now - start_watchdog_time_[s] > Watchdog
        /\ FlushTime(s) - data_time_prev_[s] <= 0
    BY DEF Stalled, Repeated, Latency
  <2>4. data_time_prev_[s] <= start_watchdog_time_[s]
    BY <2>3 DEF ArmedAfterData
  <2> QED
    BY <2>2, <2>3, <2>4
<1>3. /\ IInv /\ StampInv /\ ArmedAfterData /\ [Next]_vars /\ [PromptWriter]_vars
           => StampInv' /\ ArmedAfterData'
  BY ClockStep, ArmedStep
<1> QED
  BY <1>1, <1>2, <1>3, Invariant, PTL DEF Spec
=============================================================================
