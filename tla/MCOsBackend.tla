---------------------------- MODULE MCOsBackend ----------------------------
(* Instances of OsBackend for TLC.                                          *)
EXTENDS OsBackend, TLC

Callers == Permutations(Caller)
=============================================================================
