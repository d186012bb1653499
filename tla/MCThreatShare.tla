---------------------------- MODULE MCThreatShare ----------------------------
(* Instances of ThreatShare for TLC.                                        *)
EXTENDS ThreatShare

\* Every daemon names every other.
MeshPeers == [n \in Node |-> Node \ {n}]

ShortTtl == [n \in Node |-> IF n = "a" THEN 0 ELSE 1]
=============================================================================
