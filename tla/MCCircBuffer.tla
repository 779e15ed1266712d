---------------------------- MODULE MCCircBuffer ----------------------------
(* Small instances of CircBuffer: readers r1, r2 and threads w, k. *)
EXTENDS CircBuffer, TLC

CONSTANTS r1, r2, w, k

\* Two readers, of which one consumes, a producer and a thread that resizes.
MixedCalls == [t \in Thread |->
  CASE t = r1 -> {"front", "pop_front"}
    [] t = r2 -> {"front", "back"}
    [] t = w  -> {"push_back", "push_front"}
    [] OTHER  -> {"clear", "set_capacity"}]

\* A reader and a producer, the least that share a buffer.
PairCalls == [t \in Thread |-> IF t = w THEN {"push_back"} ELSE {"front"}]
=============================================================================
