---------------------------- MODULE MCRealTimeIPC ----------------------------
(* Small instances of RealTimeIPC: a server s and clients c1, c2. *)
EXTENDS RealTimeIPC, TLC

CONSTANTS s, c1, c2

MCServers == {s}

\* Everybody writes: the flags and the data are changed from both sides.
RaceCalls == [p \in Procs |->
  IF p = s THEN {"breakBond", "setHardRT"} ELSE {"bond", "update", "destroy"}]

\* A periodic server that reads, and the one client that writes.
OneWriterCalls == [p \in Procs |->
  IF p = s THEN {"flush"}
           ELSE {"bond", "setHardRT", "setSoftRT", "update", "isHardRT", "destroy"}]

\* The same with a client that comes and goes and stays in hard real time.
StallCalls == [p \in Procs |->
  IF p = s THEN {"flush"} ELSE {"bond", "breakBond", "setHardRT", "update"}]

Clients == Permutations({c1, c2})
=============================================================================
