------------------------------ MODULE MCRtThread ------------------------------
(* A small instance of RtThread: a second of four nanoseconds.  The memory and *)
(* the timer share no variable, so one program has all threads and no timer,   *)
(* and another has one periodic thread.                                        *)
EXTENDS RtThread

CONSTANTS main, t1, t2

MCPrograms == {[threads |-> {main, t1, t2}, timed |-> FALSE],
               [threads |-> {t1}, timed |-> TRUE]}
=============================================================================
