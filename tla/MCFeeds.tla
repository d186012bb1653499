------------------------------- MODULE MCFeeds -------------------------------
(* Instances of Feeds for TLC.                                              *)
EXTENDS Feeds

\* Two domains and the one list of threatintel.
FeedSources == [f \in Feed |-> IF f = "dns" THEN {"d1", "d2"} ELSE {"list"}]

\* Both feeds may name "x"; "y" is of the DNS feed only.
FeedAnswers == [s \in Source |->
  CASE s = "list" -> {{}, {"x"}}
    [] s = "d1"   -> {{"y"}}
    [] OTHER      -> {{}, {"x"}}]
=============================================================================
