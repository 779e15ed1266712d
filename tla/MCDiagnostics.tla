----------------------------- MODULE MCDiagnostics -----------------------------
(* A small instance of Diagnostics: a message of the level that has no report, *)
(* and one of an unknown level, which becomes OK.                              *)
EXTENDS Diagnostics

CONSTANTS s, u

MCMsg == {s, u}

MCLevelName == [m \in MCMsg |-> IF m = s THEN "STALE" ELSE "DEBUG"]
=============================================================================
