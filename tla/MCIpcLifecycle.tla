---------------------------- MODULE MCIpcLifecycle ----------------------------
(* Small instances of IpcLifecycle: two servers and two clients. *)
EXTENDS IpcLifecycle, TLC

Alike == Permutations(Server) \cup Permutations(Client)
=============================================================================
