---------------------------- MODULE MCSharedMutex ----------------------------
(* A small instance of SharedMutex: three processes, one of them unreliable. *)
EXTENDS SharedMutex, TLC

CONSTANTS p1, p2, p3

Reliable == Permutations({p1, p2})
=============================================================================
