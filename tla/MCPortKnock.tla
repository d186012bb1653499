----------------------------- MODULE MCPortKnock -----------------------------
(* Instances of PortKnock for TLC.                                          *)
EXTENDS PortKnock, TLC

Cpus == Permutations(Cpu)

Knock(s, w) == [sequence |-> s, open |-> 9, window |-> w]

TwoSteps == {Knock(<<1, 2>>, 1), Knock(<<2, 1>>, 2)}
=============================================================================
