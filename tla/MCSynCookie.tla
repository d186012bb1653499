---------------------------- MODULE MCSynCookie ----------------------------
(* Instances of SynCookie for TLC.                                         *)
EXTENDS SynCookie, TLC

CONSTANTS f1, f2

Alike == Permutations(Cpu) \cup Permutations(Flow)

Owner == [f \in Flow |-> "s"]

Tiers(low, high) == [low |-> low, high |-> high]
OnOff == {Tiers(2, 3), Tiers(0, 0)}
=============================================================================
