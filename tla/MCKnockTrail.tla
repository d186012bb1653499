----------------------------- MODULE MCKnockTrail -----------------------------
(* Instances of KnockTrail for TLC.                                         *)
EXTENDS KnockTrail

Knock(s, w) == [sequence |-> s, open |-> 9, window |-> w]

\* Three different ports, and a second sequence that starts elsewhere.
DistinctSteps == {Knock(<<1, 2, 3>>, 1), Knock(<<2, 1>>, 2), Knock(<<>>, 1)}
=============================================================================
