---------------------------- MODULE MCController ----------------------------
(* Instances of Controller for TLC.                                         *)
EXTENDS Controller, TLC

One(x) == [list |-> FALSE, of |-> <<x>>]
List(s) == [list |-> TRUE, of |-> s]
L(is, key, value) == [is |-> is, key |-> key, value |-> value]

MCLine ==
  {L("version", "", One(x)) : x \in {"2", "'1'"}}
  \cup {L("header", s, One("")) : s \in {"block", "syn_cookie", "knock", "dns"}}
  \cup {L("item", "ip", One("a")), L("item", "label", One("x")),
        L("item", "low_pps", One("1"))}
  \cup {L("field", "color", One("x"))}
  \cup {L("field", "rate_limit_pps", One(x)) : x \in {"", "1", "2", "x"}}
  \cup {L("field", "rate_limit_kbps", One("1")),
        L("field", "high_pps", One("'1'"))}
  \cup {L("field", "open_port", One(x)) : x \in {"2", "9"}}
  \cup {L("field", "sequence", v) :
          v \in {One(""), One("1"), List(<<"1">>), List(<<"'1'">>), List(<<"1", "2">>)}}
  \cup {L("field", "blocked_domains", List(<<"'1'", "">>))}

Scalar == {"", "a", "x", "1", "'1'", "2", "9"}
MCNumber == [x \in Scalar |->
  CASE x = "1" -> 1 [] x = "2" -> 2 [] x = "9" -> 9 [] OTHER -> -1]
MCUnquoted == [x \in Scalar |-> IF x = "'1'" THEN "1" ELSE x]

Node(h, t) == [host |-> h, token |-> t]
MCNodeLists == {<<Node("h2", ""), Node("h1", "t")>>}
MCTokenOf == [h \in Host |-> "t"]
=============================================================================
