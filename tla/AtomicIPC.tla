------------------------------- MODULE AtomicIPC -------------------------------
(***************************************************************************)
(* What RealTimeIPC promises the two ends of a channel: a register with a  *)
(* bond flag, a real-time flag and a time-stamped command, on which every  *)
(* call that writes is one indivisible step.  There is no lock and no copy *)
(* here.  bond is granted once; a command is taken only while bonded, and  *)
(* the time of the commands never goes back.                               *)
(***************************************************************************)
EXTENDS Integers

CONSTANTS
  Procs,      \* the endpoints that write
  StartTime,  \* the earliest time a command may carry
  MaxTime,    \* the latest
  Zero        \* the payload whose bytes are all 0x0

VARIABLE mem  \* the packet in the register

Init == mem = [header_ |-> [bond_flag_ |-> 0, rt_flag_ |-> 0, time_ |-> 0],
               buffer |-> Zero]

Bond ==
  /\ mem.header_.bond_flag_ = 0
  /\ mem' = [mem EXCEPT !.header_.bond_flag_ = 1]

BreakBond == mem' = [mem EXCEPT !.header_.bond_flag_ = 0, !.header_.rt_flag_ = 0]

SetHardRT == mem' = [mem EXCEPT !.header_.rt_flag_ = 1]

SetSoftRT == mem' = [mem EXCEPT !.header_.rt_flag_ = 0]

\* A bonded endpoint commands with data of time t.
Update(p, t) ==
  /\ mem.header_.bond_flag_ = 1
  /\ mem.header_.time_ <= t
  /\ mem' = [mem EXCEPT !.header_.time_ = t, !.buffer = [by |-> p, at |-> t]]

Next ==
  \/ Bond \/ BreakBond \/ SetHardRT \/ SetSoftRT
  \/ \E p \in Procs, t \in StartTime..MaxTime : Update(p, t)

Spec == Init /\ [][Next]_mem
=============================================================================
