------------------------------- MODULE Detector -------------------------------
(***************************************************************************)
(* The anomaly detector (internal/anomaly) and the per-source counters it  *)
(* polls (activity map, track_activity in the XDP program).  The kernel    *)
(* only counts, on every CPU at once and never back to zero; each poll     *)
(* reads the counters entry by entry, takes the difference from the poll   *)
(* before, compares it with the source's own baseline and raises an alert  *)
(* when that stays out of bounds.  Rates are packets per poll interval.    *)
(***************************************************************************)
EXTENDS Integers, FiniteSets

CONSTANTS
  Src,          \* source addresses
  Cpus,         \* how many CPUs count packets
  MinPackets,   \* MinPacketRate
  Multiplier,   \* RateMultiplier
  SynPercent,   \* SynRatioThreshold, in percent
  Consecutive,  \* ConsecutiveSamples
  AutoBlock,
  MaxPackets    \* bound: packets of each source

ASSUME ConstantsOK ==
  /\ Cpus \in Nat \ {0} /\ MinPackets \in Nat \ {0} /\ Multiplier \in Nat \ {0}
  /\ SynPercent \in 1 .. 100 /\ Consecutive \in Nat \ {0}
  /\ AutoBlock \in BOOLEAN /\ MaxPackets \in Nat

VARIABLES
  activity,  \* the kernel's counters; no packets is no entry
  pending,   \* SYNs counted as packets and not yet as SYNs
  pc,        \* where poll() is
  snap,      \* what ActivitySnapshot has read
  todo,      \* sources poll() has still to read, or to judge
  baselines, \* Detector.baselines; a new one is all zero
  mixed,     \* history: sources that sent something other than a SYN
  samples,   \* history: the packet counts each source was judged by
  flood,     \* history: polls in a row that saw a SYN flood, since the alert
  alerts,    \* history: alerts raised about each source
  blocked    \* history: sources it has blocked

kernel  == <<activity, pending, mixed>>
history == <<samples, flood, alerts, blocked>>
vars == <<kernel, pc, snap, todo, baselines, history>>

Counters == [packets : Nat, syns : Nat]
None == [packets |-> 0, syns |-> 0]

\* seen matters up to 3 only.
Baseline == [packets : Nat, syns : Nat, rate : Nat,
             strikes : 0 .. Consecutive - 1, seen : 0 .. 3]
NewBaseline == [packets |-> 0, syns |-> 0, rate |-> 0, strikes |-> 0, seen |-> 0]

CountersOK ==
  /\ activity \in [Src -> Counters]
  /\ pending \in [Src -> 0 .. Cpus]
  /\ snap \in [Src -> Counters]
PollOK ==
  /\ pc \in {"idle", "read", "judge"}
  /\ todo \subseteq Src
  /\ baselines \in [Src -> Baseline]
HistoryOK ==
  /\ mixed \subseteq Src /\ blocked \subseteq Src
  /\ samples \in [Src -> SUBSET Nat]
  /\ flood \in [Src -> Nat] /\ alerts \in [Src -> Nat]
TypeOK == CountersOK /\ PollOK /\ HistoryOK

Init ==
  /\ activity = [s \in Src |-> None]
  /\ pending = [s \in Src |-> 0]
  /\ pc = "idle" /\ todo = {}
  /\ snap = [s \in Src |-> None]
  /\ baselines = [s \in Src |-> NewBaseline]
  /\ mixed = {} /\ blocked = {}
  /\ samples = [s \in Src |-> {}]
  /\ flood = [s \in Src |-> 0] /\ alerts = [s \in Src |-> 0]

-----------------------------------------------------------------------------
(* track_activity.  A packet that finds the map full, or whose entry       *)
(* another CPU has just made, is not counted and changes nothing here.     *)

Tracked(s) == activity[s].packets > 0
Noted(s, syn) == mixed' = IF syn THEN mixed ELSE mixed \cup {s}

\* The first packet makes the entry, both counts at once.
FirstPacket(s, syn) ==
  /\ ~Tracked(s) /\ MaxPackets > 0
  /\ activity' = [activity EXCEPT ![s] =
       [packets |-> 1, syns |-> IF syn THEN 1 ELSE 0]]
  /\ Noted(s, syn)
  /\ UNCHANGED <<pending, pc, snap, todo, baselines, history>>

\* Later ones add to it, packets first ...
CountPacket(s, syn) ==
  /\ Tracked(s) /\ activity[s].packets < MaxPackets
  /\ pending[s] < Cpus
  /\ activity' = [activity EXCEPT ![s].packets = @ + 1]
  /\ pending' = IF syn THEN [pending EXCEPT ![s] = @ + 1] ELSE pending
  /\ Noted(s, syn)
  /\ UNCHANGED <<pc, snap, todo, baselines, history>>

\* ... and SYNs in another addition.
CountSyn(s) ==
  /\ pending[s] > 0
  /\ activity' = [activity EXCEPT ![s].syns = @ + 1]
  /\ pending' = [pending EXCEPT ![s] = @ - 1]
  /\ UNCHANGED <<mixed, pc, snap, todo, baselines, history>>

-----------------------------------------------------------------------------
(* poll().                                                                 *)

BeginPoll ==
  /\ pc = "idle"
  /\ pc' = "read" /\ snap' = [s \in Src |-> None]
  /\ todo' = {s \in Src : Tracked(s)}
  /\ UNCHANGED <<kernel, baselines, history>>

\* ActivitySnapshot copies one entry after the other while packets come in.  An
\* entry made meanwhile may be in it or not.
Read(s) ==
  /\ pc = "read" /\ Tracked(s) /\ snap[s] = None
  /\ snap' = [snap EXCEPT ![s] = activity[s]]
  /\ todo' = todo \ {s}
  /\ UNCHANGED <<kernel, pc, baselines, history>>

\* The iteration fails: nobody is judged this time.
PollFails ==
  /\ pc = "read"
  /\ pc' = "idle" /\ todo' = {}
  /\ UNCHANGED <<kernel, snap, baselines, history>>

\* It is complete.
Loop ==
  /\ pc = "read" /\ todo = {}
  /\ pc' = "judge"
  /\ todo' = {s \in Src : snap[s] # None}
  /\ UNCHANGED <<kernel, snap, baselines, history>>

SafeDelta(cur, prev) == IF cur < prev THEN 0 ELSE cur - prev

SynFlood(d, syns) == d >= MinPackets /\ 100 * syns >= SynPercent * d

RateJump(rate, seen, d) ==
  /\ seen > 2 /\ d >= MinPackets
  /\ rate > 0 /\ d >= rate * Multiplier

\* Mutant: without a baseline nothing is anomalous.
Anomalous_Warm(rate, seen, d, syns) ==
  d > 0 /\ seen > 2 /\ (SynFlood(d, syns) \/ RateJump(rate, seen, d))

\* Mutant: the floor holds for one of the two signs only.
Anomalous_NoFloor(rate, seen, d, syns) ==
  d > 0 /\ (100 * syns >= SynPercent * d \/ RateJump(rate, seen, d))

\* evaluate.
Anomalous(rate, seen, d, syns) ==
  d > 0 /\ (SynFlood(d, syns) \/ RateJump(rate, seen, d))

Between(a, b) == (IF a < b THEN a ELSE b) .. (IF a < b THEN b ELSE a)

\* ewma: some value between the old average and the new sample, which is the
\* first average if there is none.
Ewma(prev, d) == IF prev = 0 THEN {d} ELSE Between(prev, d)

\* Mutant: the average starts from zero.
Rates_FromZero(hot, b, seen, d) == IF hot THEN {b.rate} ELSE Between(b.rate, d)

\* What the baseline's rate may become: anomalous samples leave it alone.
Rates(hot, b, seen, d) ==
  IF hot THEN {b.rate} ELSE IF seen > 1 THEN Ewma(b.rate, d) ELSE {d}

\* flag: an alert, and a block, which the firewall may refuse.
Flag(s) ==
  /\ alerts' = [alerts EXCEPT ![s] = @ + 1]
  /\ blocked' \in IF AutoBlock THEN {blocked, blocked \cup {s}} ELSE {blocked}

\* A flood as its source sees it: so many packets that they are a SYN flood
\* even if every CPU has one of the SYNs still to count.
Enough(d) == d >= MinPackets /\ 100 * (d - Cpus) >= SynPercent * d
Flooding(s, d) == s \notin mixed /\ Enough(d)

\* Mutant: the alert leaves the strikes as they are.
Strikes_Kept(hot, full, n) == IF hot THEN n + 1 ELSE 0

\* An alert starts the count anew, a normal sample too.
Strikes(hot, full, n) == IF hot /\ ~full THEN n + 1 ELSE 0

\* One turn of the loop over the snapshot, under d.mu.
Judge(s) ==
  LET b    == baselines[s]
      d    == SafeDelta(snap[s].packets, b.packets)
      syns == SafeDelta(snap[s].syns, b.syns)
      seen == IF b.seen < 3 THEN b.seen + 1 ELSE 3
      hot  == Anomalous(b.rate, seen, d, syns)
      full == hot /\ b.strikes + 1 >= Consecutive
  IN /\ pc = "judge" /\ s \in todo
     /\ todo' = todo \ {s}
     /\ \E r \in Rates(hot, b, seen, d) :
          baselines' = [baselines EXCEPT ![s] =
            [packets |-> snap[s].packets, syns |-> snap[s].syns, rate |-> r,
             strikes |-> Strikes(hot, full, b.strikes), seen |-> seen]]
     /\ samples' = [samples EXCEPT ![s] = @ \cup {d}]
     /\ IF full THEN Flag(s) ELSE UNCHANGED <<alerts, blocked>>
     /\ flood' = [flood EXCEPT ![s] =
          IF ~full /\ Flooding(s, d) THEN @ + 1 ELSE 0]
     /\ UNCHANGED <<kernel, pc, snap>>

EndPoll ==
  /\ pc = "judge" /\ todo = {}
  /\ pc' = "idle"
  /\ UNCHANGED <<kernel, snap, todo, baselines, history>>

Next ==
  \/ BeginPoll \/ PollFails \/ Loop \/ EndPoll
  \/ \E s \in Src :
       \/ \E syn \in BOOLEAN : FirstPacket(s, syn) \/ CountPacket(s, syn)
       \/ CountSyn(s) \/ Read(s) \/ Judge(s)

Spec == Init /\ [][Next]_vars

-----------------------------------------------------------------------------
(* Properties.                                                             *)

\* Nobody is flagged, let alone blocked, for one burst: each alert used up
\* ConsecutiveSamples polls of its own that all saw MinPacketRate or more,
\* however late a poll ran or how many failed in between.
AlertsPaidFor ==
  \A s \in Src :
    /\ MinPackets * (Consecutive * alerts[s] + baselines[s].strikes)
         <= activity[s].packets
    /\ s \in blocked => alerts[s] > 0

\* A flood does not slip through: a source that sends nothing but SYNs, and
\* enough of them between polls, is flagged within ConsecutiveSamples polls of
\* it, although a poll may read a packet's count before its SYN's.
FloodFlagged == \A s \in Src : flood[s] < Consecutive

\* The packet counts s was judged by differ by less than the multiplier.
Steady(s) == \A x, y \in samples[s] : x < Multiplier * y

\* A source that sends no SYNs and whose rate varies by less than the
\* multiplier is never flagged, from its first poll on.
SteadyNotFlagged ==
  \A s \in Src :
    activity[s].syns = 0 /\ pending[s] = 0 /\ Steady(s) =>
      alerts[s] = 0 /\ baselines[s].strikes = 0
=============================================================================
