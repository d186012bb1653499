------------------------------ MODULE Topology ------------------------------
(***************************************************************************)
(* The map of blocks: topology.Recorder, the two handlers that read it,    *)
(* and the page that draws it (web/dashboard), which loads the recent      *)
(* events, remembers the sequence number it is at and opens a stream for   *)
(* what comes after.  The browser reopens a stream that broke with the     *)
(* address it was first opened with.                                       *)
(*                                                                         *)
(* An event is its sequence number: where it came from and where the map   *)
(* puts it are left out.  The recorder dies with its daemon.               *)
(***************************************************************************)
EXTENDS Integers, SequencesExt

CONSTANTS
  Ring,      \* maxEvents: 500 in the code
  Backfill,  \* ?limit= of the page's first request: 100
  MaxSeq     \* bound on the events of one life of the daemon

ASSUME TopologyConstantsOK == Ring \in Nat \ {0} /\ Backfill \in Nat \ {0} /\ MaxSeq \in Nat

VARIABLES
  seq,     \* Recorder.seq
  events,  \* Recorder.events
  page     \* the page: where it is, the snapshot taken for it, topoSeenSeq,
           \* the stream's address and its cursor; and as history what it has
           \* drawn, from where, what it could not get, and whether the
           \* daemon has been restarted under it

mapVars == <<seq, events, page>>

Closed == [at |-> "closed", snap |-> <<>>, seen |-> 0, url |-> 0, cursor |-> 0,
           drawn |-> <<>>, base |-> 0, lost |-> {}, old |-> FALSE]

MapInit == seq = 0 /\ events = <<>> /\ page = Closed

\* Mutant: the ring that is full keeps its oldest events.
Kept_Oldest(s) == IF Len(s) > Ring THEN SubSeq(s, 1, Ring) ELSE s

Kept(s) == IF Len(s) > Ring THEN SubSeq(s, Len(s) - Ring + 1, Len(s)) ELSE s

\* An event the ring drops before the page has it is out of its reach.
Observe ==
  /\ seq < MaxSeq
  /\ seq' = seq + 1
  /\ events' = Kept(Append(events, seq'))
  /\ page' = IF page.at \in {"open", "broken"} /\ seq' - Ring > page.seen
             THEN [page EXCEPT !.lost = @ \cup {seq' - Ring}] ELSE page

Newest(n) == SubSeq(events, Max({1, Len(events) - n + 1}), Len(events))

\* The events of a list that are newer than n, in their order: a SelectSeq
\* without recursion.
Newer(list, n) ==
  LET kept == {i \in DOMAIN list : list[i] > n}
      nth(k) == CHOOSE i \in kept : Cardinality({h \in kept : h <= i}) = k
  IN [k \in 1 .. Cardinality(kept) |-> list[nth(k)]]

Since(n) == Newer(events, n)

\* pushTopoEvent: what is not newer than the newest drawn is a repetition.
Fresh(list) == Newer(list, page.seen)
LastOf(list, n) == IF list = <<>> THEN n ELSE Last(list)

Open(p) == [p EXCEPT !.at = "open", !.url = p.seen, !.cursor = p.seen]

\* handleTopology: Snapshot under r.mu ...
Snapshot ==
  /\ page.at = "closed"
  /\ page' = [Closed EXCEPT !.at = "asked", !.snap = Newest(Backfill),
                            !.base = IF events = <<>> THEN seq ELSE Newest(Backfill)[1] - 1]
  /\ UNCHANGED <<seq, events>>

\* ... and then LatestSeq under r.mu again: the page takes it for the newest
\* event it was sent, and asks the stream for what follows.
LatestSeq ==
  /\ page.at = "asked"
  /\ LET seen == IF seq = 0 THEN LastOf(page.snap, 0) ELSE seq
         between == (LastOf(page.snap, page.base) + 1) .. seen
     IN page' = Open([page EXCEPT !.seen = seen, !.drawn = page.snap, !.snap = <<>>,
                                  !.lost = between])
  /\ UNCHANGED <<seq, events>>

\* The first request failed: the stream alone, from the beginning of the ring.
StreamOnly ==
  /\ page.at \in {"closed", "asked"}
  /\ page' = Open([Closed EXCEPT !.base = IF events = <<>> THEN seq ELSE events[1] - 1])
  /\ UNCHANGED <<seq, events>>

Sent(list) == LastOf(list, 0)

\* handleTopologyStream: one tick, and the page that draws what it brings.
StreamTick ==
  LET list == Since(page.cursor) IN
  /\ page.at = "open" /\ list # <<>>
  /\ page' = [page EXCEPT !.cursor = Sent(list), !.drawn = @ \o Fresh(list),
                          !.seen = LastOf(Fresh(list), @)]
  /\ UNCHANGED <<seq, events>>

Break ==
  /\ page.at = "open" /\ page' = [page EXCEPT !.at = "broken"]
  /\ UNCHANGED <<seq, events>>

Reopen ==
  /\ page.at = "broken"
  /\ page' = [page EXCEPT !.at = "open", !.cursor = page.url]
  /\ UNCHANGED <<seq, events>>

Close ==
  /\ page.at # "closed" /\ page' = Closed
  /\ UNCHANGED <<seq, events>>

\* A new daemon counts from the beginning again; the page does not know.
RestartMap ==
  /\ seq' = 0 /\ events' = <<>>
  /\ page' = CASE page.at = "open" -> [page EXCEPT !.at = "broken", !.old = TRUE]
               [] page.at = "broken" -> [page EXCEPT !.old = TRUE]
               [] OTHER -> Closed

Browse == Snapshot \/ LatestSeq \/ StreamOnly \/ StreamTick \/ Break \/ Reopen \/ Close

\* The map draws no event twice, whatever streams broke and daemons restarted;
\* and of the daemon it was loaded from it misses none up to the newest it has
\* drawn, but those the ring dropped too early and those recorded between the
\* two locks of its first request; and a stream with nothing to send has drawn
\* the newest.
StreamComplete ==
  /\ \A i, j \in DOMAIN page.drawn : i < j => page.drawn[i] < page.drawn[j]
  /\ ~page.old => (page.base + 1) .. page.seen \subseteq Range(page.drawn) \cup page.lost
  /\ ~page.old /\ page.at = "open" /\ Since(page.cursor) = <<>> => page.seen = seq
=============================================================================
