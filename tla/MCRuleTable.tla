----------------------------- MODULE MCRuleTable -----------------------------
(* Instances of RuleTable for TLC.                                          *)
EXTENDS RuleTable, TLC

CanonicalAddr == [n \in Name |-> n]

Handlers == Permutations(Handler)

PolicyV  == [n \in Name |-> IF n = "v"
  THEN [reason |-> "manual", limit |-> [k \in Kind |-> MaxLimit]]
  ELSE [reason |-> "absent", limit |-> [k \in Kind |-> 0]]]
=============================================================================
