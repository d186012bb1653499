---------------------------- MODULE DetectorProofs ----------------------------
(***************************************************************************)
(* Proofs about Detector, for any number of sources and CPUs and any       *)
(* thresholds.                                                             *)
(***************************************************************************)
EXTENDS Detector, TLAPS

\* The thresholds are positive numbers.
LEMMA Bounds ==
  /\ Cpus \in Nat /\ MinPackets \in Nat /\ Multiplier \in Nat
  /\ SynPercent \in Nat /\ SynPercent > 0
  /\ Consecutive \in Nat /\ Consecutive > 0
  /\ MinPackets > 0 /\ MaxPackets \in Nat
BY ConstantsOK DEF ConstantsOK

\* Multiplication keeps the order.
LEMMA Times ==
  ASSUME NEW m \in Nat, NEW x \in Nat, NEW y \in Nat, x <= y
  PROVE  m * x <= m * y
OBVIOUS

LEMMA TimesSucc ==
  ASSUME NEW m \in Nat, NEW x \in Nat
  PROVE  m * (x + 1) = m * x + m
OBVIOUS

-----------------------------------------------------------------------------
(* Type correctness.                                                       *)

\* What a turn of the loop computes.
Delta(s) == SafeDelta(snap[s].packets, baselines[s].packets)
DeltaSyn(s) == SafeDelta(snap[s].syns, baselines[s].syns)
Seen(s) == IF baselines[s].seen < 3 THEN baselines[s].seen + 1 ELSE 3
Hot(s) == Anomalous(baselines[s].rate, Seen(s), Delta(s), DeltaSyn(s))
Full(s) == Hot(s) /\ baselines[s].strikes + 1 >= Consecutive

LEMMA Deltas ==
  ASSUME TypeOK, NEW s \in Src
  PROVE  /\ Delta(s) \in Nat /\ DeltaSyn(s) \in Nat
         /\ Seen(s) \in 1 .. 3
         /\ baselines[s] \in Baseline /\ snap[s] \in Counters
<1>1. baselines[s] \in Baseline /\ snap[s] \in Counters
  BY DEF TypeOK, CountersOK, PollOK
<1>2. Delta(s) \in Nat /\ DeltaSyn(s) \in Nat
  BY <1>1 DEF Delta, DeltaSyn, SafeDelta, Baseline, Counters
<1>3. Seen(s) \in 1 .. 3
  BY <1>1 DEF Seen, Baseline
<1> QED BY <1>1, <1>2, <1>3

\* The new rate is a number, and no less than the old one or the sample.
LEMMA RatesOK ==
  ASSUME TypeOK, NEW s \in Src, NEW hot \in BOOLEAN, NEW d \in Nat, NEW seen \in 1 .. 3,
         NEW r \in Rates(hot, baselines[s], seen, d)
  PROVE  /\ r \in Nat
         /\ r >= d \/ (r >= baselines[s].rate /\ (hot \/ seen > 1))
<1>1. baselines[s].rate \in Nat
  BY DEF TypeOK, PollOK, Baseline
<1>2. CASE hot
  BY <1>1, <1>2 DEF Rates
<1>3. CASE ~hot /\ ~(seen > 1)
  <2>1. r = d
    BY <1>3 DEF Rates
  <2>2. r \in Nat /\ r >= d
    BY <2>1
  <2> QED BY <2>2
<1>4. CASE ~hot /\ seen > 1
  <2>1. r \in Ewma(baselines[s].rate, d)
    BY <1>4 DEF Rates
  <2>2. CASE baselines[s].rate = 0
    <3>1. r = d
      BY <2>1, <2>2 DEF Ewma
    <3>2. r \in Nat /\ r >= d
      BY <3>1
    <3> QED BY <3>2
  <2>3. CASE baselines[s].rate # 0
    <3>1. r \in Between(baselines[s].rate, d)
      BY <2>1, <2>3 DEF Ewma
    <3>2. CASE baselines[s].rate < d
      BY <3>1, <3>2, <1>1, <1>4 DEF Between
    <3>3. CASE ~(baselines[s].rate < d)
      BY <3>1, <3>3, <1>1, <1>4 DEF Between
    <3> QED BY <3>2, <3>3
  <2> QED BY <2>2, <2>3
<1> QED BY <1>2, <1>3, <1>4

\* The baseline a turn of the loop leaves behind.
LEMMA Judged ==
  ASSUME TypeOK, NEW s \in Src, Judge(s)
  PROVE  /\ \E r \in Rates(Hot(s), baselines[s], Seen(s), Delta(s)) :
              baselines' = [baselines EXCEPT ![s] =
                [packets |-> snap[s].packets, syns |-> snap[s].syns, rate |-> r,
                 strikes |-> Strikes(Hot(s), Full(s), baselines[s].strikes),
                 seen |-> Seen(s)]]
         /\ samples' = [samples EXCEPT ![s] = @ \cup {Delta(s)}]
         /\ IF Full(s) THEN Flag(s) ELSE UNCHANGED <<alerts, blocked>>
         /\ flood' = [flood EXCEPT ![s] =
              IF ~Full(s) /\ Flooding(s, Delta(s)) THEN @ + 1 ELSE 0]
         /\ pc = "judge" /\ s \in todo /\ todo' = todo \ {s}
         /\ UNCHANGED <<kernel, pc, snap>>
BY DEF Judge, Hot, Full, Seen, Delta, DeltaSyn

\* Strikes stay below the number that raises an alert.
LEMMA StrikesOK ==
  ASSUME TypeOK, NEW s \in Src
  PROVE  Strikes(Hot(s), Full(s), baselines[s].strikes) \in 0 .. Consecutive - 1
<1>1. baselines[s].strikes \in 0 .. Consecutive - 1
  BY DEF TypeOK, PollOK, Baseline
<1>2. CASE Hot(s) /\ ~Full(s)
  <2>1. ~(baselines[s].strikes + 1 >= Consecutive)
    BY <1>2 DEF Full
  <2>2. Strikes(Hot(s), Full(s), baselines[s].strikes) = baselines[s].strikes + 1
    BY <1>2 DEF Strikes
  <2> HIDE DEF Strikes, Hot, Full
  <2> QED BY <1>1, <2>1, <2>2, Bounds
<1>3. CASE ~(Hot(s) /\ ~Full(s))
  <2>1. Strikes(Hot(s), Full(s), baselines[s].strikes) = 0
    BY <1>3 DEF Strikes
  <2> QED BY <2>1, Bounds
<1> QED BY <1>2, <1>3

LEMMA JudgeTypes ==
  ASSUME TypeOK, NEW s \in Src, Judge(s)
  PROVE  TypeOK'
<1>1. PICK r \in Rates(Hot(s), baselines[s], Seen(s), Delta(s)) :
        baselines' = [baselines EXCEPT ![s] =
          [packets |-> snap[s].packets, syns |-> snap[s].syns, rate |-> r,
           strikes |-> Strikes(Hot(s), Full(s), baselines[s].strikes),
           seen |-> Seen(s)]]
  BY Judged
<1>2. Delta(s) \in Nat /\ Seen(s) \in 1 .. 3 /\ snap[s] \in Counters
  BY Deltas
<1>3. Hot(s) \in BOOLEAN
  BY DEF Hot, Anomalous, SynFlood, RateJump
<1>4. r \in Nat
  BY <1>1, <1>2, <1>3, RatesOK
<1>5. PollOK'
  <2>1. baselines' \in [Src -> Baseline]
    BY <1>1, <1>2, <1>4, StrikesOK DEF TypeOK, PollOK, Baseline, Counters
  <2> QED BY <2>1, Judged DEF TypeOK, PollOK
<1>6. HistoryOK'
  <2>1. alerts' \in [Src -> Nat] /\ blocked' \subseteq Src
    <3>1. CASE Full(s)
      <4>1. Flag(s)
        BY <3>1, Judged
      <4> QED BY <4>1 DEF Flag, TypeOK, HistoryOK
    <3>2. CASE ~Full(s)
      BY <3>2, Judged DEF TypeOK, HistoryOK
    <3> QED BY <3>1, <3>2
  <2>2. samples' \in [Src -> SUBSET Nat]
    BY <1>2, Judged DEF TypeOK, HistoryOK
  <2>3. flood' \in [Src -> Nat]
    BY Judged DEF TypeOK, HistoryOK
  <2>4. mixed' \subseteq Src
    BY Judged DEF TypeOK, HistoryOK, kernel
  <2> QED BY <2>1, <2>2, <2>3, <2>4 DEF HistoryOK
<1>7. CountersOK'
  BY Judged DEF TypeOK, CountersOK, kernel
<1> QED BY <1>5, <1>6, <1>7 DEF TypeOK

LEMMA TypesKept == TypeOK /\ [Next]_vars => TypeOK'
<1> SUFFICES ASSUME TypeOK, [Next]_vars PROVE TypeOK'
  OBVIOUS
<1> USE DEF TypeOK, CountersOK, PollOK, HistoryOK, Counters
<1>1. CASE BeginPoll
  BY <1>1 DEF BeginPoll, kernel, history, None
<1>2. CASE PollFails
  BY <1>2 DEF PollFails, kernel, history
<1>3. CASE Loop
  BY <1>3 DEF Loop, kernel, history
<1>4. CASE EndPoll
  BY <1>4 DEF EndPoll, kernel, history
<1>5. ASSUME NEW s \in Src, NEW syn \in BOOLEAN, FirstPacket(s, syn)
      PROVE  TypeOK'
  BY <1>5 DEF FirstPacket, Noted, history
<1>6. ASSUME NEW s \in Src, NEW syn \in BOOLEAN, CountPacket(s, syn)
      PROVE  TypeOK'
  BY <1>6, Bounds DEF CountPacket, Noted, history
<1>7. ASSUME NEW s \in Src, CountSyn(s)
      PROVE  TypeOK'
  BY <1>7, Bounds DEF CountSyn, history
<1>8. ASSUME NEW s \in Src, Read(s)
      PROVE  TypeOK'
  BY <1>8 DEF Read, kernel, history
<1>9. ASSUME NEW s \in Src, Judge(s)
      PROVE  TypeOK'
  BY <1>9, JudgeTypes
<1>10. CASE UNCHANGED vars
  BY <1>10 DEF vars, kernel, history
<1> QED BY <1>1, <1>2, <1>3, <1>4, <1>5, <1>6, <1>7, <1>8, <1>9, <1>10 DEF Next

LEMMA TypesInit == Init => TypeOK
BY Bounds DEF Init, TypeOK, CountersOK, PollOK, HistoryOK, Counters, None, Baseline,
  NewBaseline

\* Type correctness of the counters, the poll and what it remembers.
THEOREM TypeCorrect == Spec => []TypeOK
BY TypesInit, TypesKept, PTL DEF Spec

-----------------------------------------------------------------------------
(* The counters only grow, a snapshot lies between the baseline and them,  *)
(* and a source that sends SYNs only has no more packets uncounted as SYNs *)
(* than there are CPUs.                                                    *)

CountsInv(s) ==
  /\ activity[s].syns + pending[s] <= activity[s].packets
  /\ s \notin mixed => activity[s].packets <= activity[s].syns + pending[s]

SnapInv(s) ==
  /\ snap[s].packets <= activity[s].packets /\ snap[s].syns <= activity[s].syns
  /\ snap[s].syns <= snap[s].packets
  /\ s \notin mixed => snap[s].packets <= snap[s].syns + Cpus

BaseInv(s) ==
  /\ baselines[s].packets <= activity[s].packets
  /\ baselines[s].syns <= activity[s].syns
  /\ baselines[s].syns <= baselines[s].packets
  /\ snap[s] # None =>
       /\ baselines[s].packets <= snap[s].packets
       /\ baselines[s].syns <= snap[s].syns

TodoInv == pc = "judge" => \A s \in todo : snap[s] # None

CountInv ==
  /\ \A s \in Src : CountsInv(s) /\ SnapInv(s) /\ BaseInv(s)
  /\ TodoInv

LEMMA CountInit == Init => CountInv
BY Bounds DEF Init, CountInv, CountsInv, SnapInv, BaseInv, TodoInv, None, NewBaseline

\* A packet is counted: nothing but the counters of its source changes, and
\* they do not shrink.
Counted(s) ==
  /\ activity' = [activity EXCEPT ![s] = activity'[s]]
  /\ pending' = [pending EXCEPT ![s] = pending'[s]]
  /\ activity'[s].packets >= activity[s].packets
  /\ activity'[s].syns >= activity[s].syns
  /\ mixed \subseteq mixed' /\ mixed' \subseteq mixed \cup {s}
  /\ UNCHANGED <<pc, snap, todo, baselines, history>>

LEMMA CountedKept ==
  ASSUME TypeOK, TypeOK', CountInv, NEW s \in Src, Counted(s), CountsInv(s)'
  PROVE  CountInv'
<1> USE DEF TypeOK, CountersOK, PollOK, Counters
<1>1. ASSUME NEW u \in Src
      PROVE  /\ activity'[u].packets >= activity[u].packets
             /\ activity'[u].syns >= activity[u].syns
             /\ u # s => activity'[u] = activity[u] /\ pending'[u] = pending[u]
             /\ u # s => (u \in mixed' <=> u \in mixed)
             /\ u \in mixed => u \in mixed'
             /\ snap'[u] = snap[u] /\ baselines'[u] = baselines[u]
             /\ activity[u] \in Counters /\ activity'[u] \in Counters
  <2>1. CASE u = s
    BY <2>1 DEF Counted
  <2>2. CASE u # s
    <3>1. activity'[u] = activity[u] /\ pending'[u] = pending[u]
      BY <2>2 DEF Counted
    <3>2. activity[u].packets \in Nat /\ activity[u].syns \in Nat
      OBVIOUS
    <3>3. activity'[u].packets >= activity[u].packets /\ activity'[u].syns >= activity[u].syns
      BY <3>1, <3>2
    <3> QED BY <2>2, <3>1, <3>3 DEF Counted
  <2> QED BY <2>1, <2>2
<1>2. ASSUME NEW u \in Src PROVE CountsInv(u)'
  <2>1. CASE u = s
    BY <2>1
  <2>2. CASE u # s
    BY <2>2, <1>1 DEF CountsInv, CountInv
  <2> QED BY <2>1, <2>2
<1>3. ASSUME NEW u \in Src PROVE SnapInv(u)'
  <2>1. SnapInv(u) /\ snap[u] \in Counters
    BY DEF CountInv
  <2>2. /\ snap'[u].packets <= activity'[u].packets /\ snap'[u].syns <= activity'[u].syns
        /\ snap'[u].syns <= snap'[u].packets
    BY <2>1, <1>1 DEF SnapInv
  <2>3. u \notin mixed' => snap'[u].packets <= snap'[u].syns + Cpus
    BY <2>1, <1>1 DEF SnapInv
  <2> QED BY <2>2, <2>3 DEF SnapInv
<1>4. ASSUME NEW u \in Src PROVE BaseInv(u)'
  <2>1. BaseInv(u) /\ baselines[u] \in Baseline
    BY DEF CountInv
  <2>2. baselines[u].packets \in Nat /\ baselines[u].syns \in Nat
    BY <2>1 DEF Baseline
  <2> QED BY <2>1, <2>2, <1>1 DEF BaseInv
<1>5. TodoInv'
  BY DEF CountInv, TodoInv, Counted
<1> QED BY <1>2, <1>3, <1>4, <1>5 DEF CountInv

LEMMA PacketCounted ==
  ASSUME TypeOK, TypeOK', CountInv, NEW s \in Src, NEW syn \in BOOLEAN,
         FirstPacket(s, syn) \/ CountPacket(s, syn) \/ CountSyn(s)
  PROVE  CountInv'
<1> USE DEF TypeOK, CountersOK, Counters
<1>1. CountsInv(s)
  BY DEF CountInv
<1>2. CASE FirstPacket(s, syn)
  <2>1. activity[s].packets = 0 /\ activity[s].syns = 0 /\ pending[s] = 0
    <3>1. ~(activity[s].packets > 0)
      BY <1>2 DEF FirstPacket, Tracked
    <3>2. activity[s].packets \in Nat /\ activity[s].syns \in Nat /\ pending[s] \in Nat
      BY Bounds
    <3>3. activity[s].syns + pending[s] <= activity[s].packets
      BY <1>1 DEF CountsInv
    <3> HIDE DEF TypeOK, CountersOK, Counters
    <3> QED BY <3>1, <3>2, <3>3
  <2>2. /\ activity'[s].packets = 1
        /\ activity'[s].syns = IF syn THEN 1 ELSE 0
        /\ pending'[s] = 0
    BY <1>2, <2>1 DEF FirstPacket
  <2>3. ~syn => s \in mixed'
    BY <1>2 DEF FirstPacket, Noted
  <2>4. CountsInv(s)'
    <3>1. CASE syn
      BY <2>2, <3>1 DEF CountsInv
    <3>2. CASE ~syn
      BY <2>2, <2>3, <3>2 DEF CountsInv
    <3> QED BY <3>1, <3>2
  <2>5. activity'[s].syns >= 0
    BY <2>2
  <2>6. Counted(s)
    BY <1>2, <2>1, <2>2, <2>5 DEF FirstPacket, Noted, Counted
  <2> QED BY <2>4, <2>6, CountedKept
<1>3. CASE CountPacket(s, syn)
  <2>1. activity' = [activity EXCEPT ![s].packets = @ + 1]
    BY <1>3 DEF CountPacket
  <2>2. activity'[s].packets = activity[s].packets + 1 /\ activity'[s].syns = activity[s].syns
    BY <2>1
  <2>3. IF syn THEN pending'[s] = pending[s] + 1 ELSE pending'[s] = pending[s]
    BY <1>3 DEF CountPacket
  <2>4. /\ ~syn => s \in mixed'
        /\ s \in mixed => s \in mixed'
    BY <1>3 DEF CountPacket, Noted
  <2>5. CountsInv(s)'
    <3>1. CASE syn
      BY <1>1, <2>2, <2>3, <2>4, <3>1 DEF CountsInv
    <3>2. CASE ~syn
      BY <1>1, <2>2, <2>3, <2>4, <3>2 DEF CountsInv
    <3> QED BY <3>1, <3>2
  <2>6. activity'[s].packets >= activity[s].packets /\ activity'[s].syns >= activity[s].syns
    BY <2>2
  <2>7. pending' = [pending EXCEPT ![s] = pending'[s]]
    BY <1>3 DEF CountPacket
  <2>8. activity' = [activity EXCEPT ![s] = activity'[s]]
    BY <2>1
  <2>9. Counted(s)
    BY <1>3, <2>6, <2>7, <2>8 DEF CountPacket, Noted, Counted
  <2> QED BY <2>5, <2>9, CountedKept
<1>4. CASE CountSyn(s)
  <2>1. /\ activity' = [activity EXCEPT ![s].syns = @ + 1]
        /\ pending' = [pending EXCEPT ![s] = @ - 1] /\ mixed' = mixed
    BY <1>4 DEF CountSyn
  <2>2. /\ activity'[s].packets = activity[s].packets
        /\ activity'[s].syns = activity[s].syns + 1
        /\ pending'[s] = pending[s] - 1
    BY <2>1
  <2>3. pending[s] \in Nat
    BY Bounds
  <2>4. CountsInv(s)'
    BY <1>1, <2>1, <2>2, <2>3 DEF CountsInv
  <2>5. activity'[s].packets >= activity[s].packets /\ activity'[s].syns >= activity[s].syns
    BY <2>2
  <2>6. Counted(s)
    BY <1>4, <2>1, <2>5 DEF CountSyn, Counted
  <2> QED BY <2>4, <2>6, CountedKept
<1> QED BY <1>2, <1>3, <1>4

\* Everything else leaves the counters alone.
LEMMA PollCounts ==
  ASSUME TypeOK, TypeOK', CountInv, UNCHANGED kernel,
         NEW s \in Src, BeginPoll \/ Read(s) \/ PollFails \/ Loop \/ EndPoll
  PROVE  CountInv'
<1> USE DEF TypeOK, CountersOK, PollOK, Counters, kernel
<1>1. ASSUME NEW u \in Src PROVE CountsInv(u)'
  BY DEF CountInv, CountsInv
<1>2. CASE BeginPoll
  <2>1. pc' = "read" /\ baselines' = baselines /\ \A u \in Src : snap'[u] = None
    BY <1>2 DEF BeginPoll
  <2>2. ASSUME NEW u \in Src PROVE SnapInv(u)' /\ BaseInv(u)'
    BY <2>1, Bounds DEF CountInv, SnapInv, BaseInv, None
  <2> QED BY <1>1, <2>1, <2>2 DEF CountInv, TodoInv
<1>3. CASE Read(s)
  <2>1. pc = "read" /\ pc' = pc /\ baselines' = baselines
        /\ snap' = [snap EXCEPT ![s] = activity[s]]
    BY <1>3 DEF Read, history
  <2>2. ASSUME NEW u \in Src PROVE SnapInv(u)' /\ BaseInv(u)'
    <3>1. CASE u # s
      BY <2>1, <3>1 DEF CountInv, SnapInv, BaseInv
    <3>2. CASE u = s
      <4>1. snap'[u] = activity[u] /\ activity'[u] = activity[u]
        BY <2>1, <3>2
      <4>2. CountsInv(u) /\ BaseInv(u) /\ pending[u] \in 0 .. Cpus /\ activity[u] \in Counters
        BY DEF CountInv
      <4>3. SnapInv(u)'
        BY <4>1, <4>2, Bounds DEF SnapInv, CountsInv
      <4>4. BaseInv(u)'
        BY <4>1, <4>2, <2>1 DEF BaseInv
      <4> QED BY <4>3, <4>4
    <3> QED BY <3>1, <3>2
  <2> QED BY <1>1, <2>1, <2>2 DEF CountInv, TodoInv
<1>4. CASE PollFails \/ Loop \/ EndPoll
  <2>1. snap' = snap /\ baselines' = baselines
    BY <1>4 DEF PollFails, Loop, EndPoll
  <2>2. ASSUME NEW u \in Src PROVE SnapInv(u)' /\ BaseInv(u)'
    BY <2>1 DEF CountInv, SnapInv, BaseInv
  <2>3. TodoInv'
    BY <1>4, <2>1 DEF PollFails, Loop, EndPoll, TodoInv
  <2> QED BY <1>1, <2>2, <2>3 DEF CountInv
<1> QED BY <1>2, <1>3, <1>4

LEMMA JudgeCounts ==
  ASSUME TypeOK, TypeOK', CountInv, NEW s \in Src, Judge(s)
  PROVE  CountInv'
<1> USE DEF TypeOK, CountersOK, PollOK, Counters
<1>1. /\ snap' = snap /\ activity' = activity /\ pending' = pending /\ mixed' = mixed
      /\ pc' = pc /\ todo' \subseteq todo
      /\ baselines'[s].packets = snap[s].packets /\ baselines'[s].syns = snap[s].syns
      /\ \A u \in Src \ {s} : baselines'[u] = baselines[u]
  BY Judged DEF kernel
<1>2. ASSUME NEW u \in Src PROVE CountsInv(u)' /\ SnapInv(u)'
  BY <1>1 DEF CountInv, CountsInv, SnapInv
<1>3. ASSUME NEW u \in Src PROVE BaseInv(u)'
  <2>1. CASE u = s
    BY <2>1, <1>1 DEF CountInv, SnapInv, BaseInv
  <2>2. CASE u # s
    BY <2>2, <1>1 DEF CountInv, BaseInv
  <2> QED BY <2>1, <2>2
<1>4. TodoInv'
  BY <1>1 DEF CountInv, TodoInv
<1> QED BY <1>2, <1>3, <1>4 DEF CountInv

LEMMA CountKept == TypeOK /\ TypeOK' /\ CountInv /\ [Next]_vars => CountInv'
<1> SUFFICES ASSUME TypeOK, TypeOK', CountInv, [Next]_vars PROVE CountInv'
  OBVIOUS
<1>1. ASSUME NEW s \in Src, NEW syn \in BOOLEAN, FirstPacket(s, syn) \/ CountPacket(s, syn)
      PROVE  CountInv'
  BY <1>1, PacketCounted
<1>2. ASSUME NEW s \in Src, CountSyn(s) PROVE CountInv'
  <2>1. TRUE \in BOOLEAN
    OBVIOUS
  <2> QED BY <1>2, <2>1, PacketCounted
<1>3. ASSUME NEW s \in Src, Read(s) PROVE CountInv'
  <2>1. UNCHANGED kernel
    BY <1>3 DEF Read
  <2> QED BY <1>3, <2>1, PollCounts
<1>4. ASSUME NEW s \in Src, Judge(s) PROVE CountInv'
  BY <1>4, JudgeCounts
<1>5. ASSUME BeginPoll \/ PollFails \/ Loop \/ EndPoll PROVE CountInv'
  <2>1. UNCHANGED kernel
    BY <1>5 DEF BeginPoll, PollFails, Loop, EndPoll
  <2>2. CASE Src = {}
    <3>1. TodoInv'
      BY <1>5, <2>2 DEF TodoInv, TypeOK, PollOK
    <3> QED BY <2>2, <3>1 DEF CountInv
  <2>3. CASE Src # {}
    <3>1. PICK s \in Src : TRUE
      BY <2>3
    <3> QED BY <1>5, <2>1, PollCounts
  <2> QED BY <2>2, <2>3
<1>6. CASE UNCHANGED vars
  BY <1>6 DEF vars, kernel, history, CountInv, CountsInv, SnapInv, BaseInv, TodoInv
<1> QED BY <1>1, <1>2, <1>3, <1>4, <1>5, <1>6 DEF Next

-----------------------------------------------------------------------------
(* What a turn of the loop sees.                                           *)

LEMMA DeltaIs ==
  ASSUME TypeOK, CountInv, NEW s \in Src, Judge(s)
  PROVE  /\ Delta(s) = snap[s].packets - baselines[s].packets
         /\ DeltaSyn(s) = snap[s].syns - baselines[s].syns
         /\ s \notin mixed => DeltaSyn(s) >= Delta(s) - Cpus
<1>1. snap[s] # None
  BY DEF Judge, CountInv, TodoInv
<1>2. BaseInv(s) /\ SnapInv(s)
  BY DEF CountInv
<1>3. baselines[s] \in Baseline /\ snap[s] \in Counters
  BY Deltas
<1>4. /\ Delta(s) = snap[s].packets - baselines[s].packets
      /\ DeltaSyn(s) = snap[s].syns - baselines[s].syns
  BY <1>1, <1>2, <1>3 DEF BaseInv, Delta, DeltaSyn, SafeDelta, Baseline, Counters
<1>5. ASSUME s \notin mixed PROVE DeltaSyn(s) >= Delta(s) - Cpus
  BY <1>2, <1>3, <1>4, <1>5, Bounds DEF SnapInv, BaseInv, Baseline, Counters
<1> QED BY <1>4, <1>5

\* An anomalous sample has at least MinPackets packets.
LEMMA HotFloor ==
  ASSUME NEW s \in Src, Hot(s)
  PROVE  Delta(s) >= MinPackets
BY DEF Hot, Anomalous, SynFlood, RateJump

-----------------------------------------------------------------------------
(* Alerts are paid for with packets.                                       *)

Spent(s) == Consecutive * alerts[s] + baselines[s].strikes

PaidInv ==
  \A s \in Src :
    /\ MinPackets * Spent(s) <= baselines[s].packets
    /\ s \in blocked => alerts[s] > 0

LEMMA SpentNat ==
  ASSUME TypeOK, NEW s \in Src
  PROVE  Consecutive * alerts[s] \in Nat /\ Spent(s) \in Nat
<1>1. alerts[s] \in Nat /\ baselines[s].strikes \in Nat
  BY Bounds DEF TypeOK, HistoryOK, PollOK, Baseline
<1> QED BY <1>1, Bounds DEF Spent

\* A turn of the loop adds one to what is spent if the sample was anomalous,
\* and never more.
LEMMA JudgeSpends ==
  ASSUME TypeOK, TypeOK', NEW s \in Src, Judge(s)
  PROVE  /\ Hot(s) => Spent(s)' <= Spent(s) + 1
         /\ ~Hot(s) => Spent(s)' <= Spent(s)
<1>1. baselines'[s].strikes = Strikes(Hot(s), Full(s), baselines[s].strikes)
  BY Judged DEF TypeOK, PollOK
<1>2. /\ alerts[s] \in Nat /\ alerts'[s] \in Nat
      /\ baselines[s].strikes \in 0 .. Consecutive - 1
  BY DEF TypeOK, HistoryOK, PollOK, Baseline
<1>3. CASE Full(s)
  <2>1. alerts'[s] = alerts[s] + 1
    BY <1>3, Judged DEF Flag, TypeOK, HistoryOK
  <2>2. Hot(s) /\ baselines[s].strikes + 1 >= Consecutive
    BY <1>3 DEF Full
  <2>3. baselines'[s].strikes = 0
    BY <1>1, <1>3 DEF Strikes
  <2>4. Consecutive * alerts'[s] = Consecutive * alerts[s] + Consecutive
    BY <1>2, <2>1, TimesSucc, Bounds
  <2>5. Consecutive * alerts[s] \in Nat
    BY SpentNat
  <2>6. Spent(s)' <= Spent(s) + 1
    <3>1. Consecutive * alerts'[s] + baselines'[s].strikes
            <= Consecutive * alerts[s] + baselines[s].strikes + 1
      BY <1>2, <2>2, <2>3, <2>4, <2>5, Bounds
    <3> QED BY <3>1 DEF Spent
  <2> QED BY <2>2, <2>6
<1>4. CASE ~Full(s)
  <2>1. alerts' = alerts
    BY <1>4, Judged
  <2>2. Consecutive * alerts[s] \in Nat
    BY SpentNat
  <2>3. CASE Hot(s)
    <3>1. baselines'[s].strikes = baselines[s].strikes + 1
      BY <1>1, <1>4, <2>3 DEF Strikes
    <3>2. Spent(s)' <= Spent(s) + 1
      <4>1. Consecutive * alerts'[s] + baselines'[s].strikes
              <= Consecutive * alerts[s] + baselines[s].strikes + 1
        BY <1>2, <2>1, <2>2, <3>1, Bounds
      <4> QED BY <4>1 DEF Spent
    <3> QED BY <2>3, <3>2
  <2>4. CASE ~Hot(s)
    <3>1. baselines'[s].strikes = 0
      BY <1>1, <2>4 DEF Strikes
    <3>2. Spent(s)' <= Spent(s)
      <4>1. Consecutive * alerts'[s] + baselines'[s].strikes
              <= Consecutive * alerts[s] + baselines[s].strikes
        BY <1>2, <2>1, <2>2, <3>1, Bounds
      <4> QED BY <4>1 DEF Spent
    <3> QED BY <2>4, <3>2
  <2> QED BY <2>3, <2>4
<1> QED BY <1>3, <1>4

LEMMA JudgePays ==
  ASSUME TypeOK, TypeOK', CountInv, PaidInv, NEW s \in Src, Judge(s)
  PROVE  PaidInv'
<1>1. /\ baselines'[s].packets = snap[s].packets
      /\ \A u \in Src \ {s} : baselines'[u] = baselines[u] /\ alerts'[u] = alerts[u]
  BY Judged DEF TypeOK, PollOK, HistoryOK, Flag
<1>2. Spent(s) \in Nat /\ Spent(s)' \in Nat
  <2>1. Consecutive * alerts'[s] \in Nat /\ baselines'[s].strikes \in Nat
    BY Bounds DEF TypeOK, HistoryOK, PollOK, Baseline
  <2> QED BY <2>1, SpentNat DEF Spent
<1>3. /\ baselines[s].packets \in Nat /\ snap[s].packets \in Nat
      /\ Delta(s) = snap[s].packets - baselines[s].packets /\ Delta(s) \in Nat
  BY Deltas, DeltaIs DEF Baseline, Counters
<1>4. MinPackets * Spent(s) <= baselines[s].packets
  BY DEF PaidInv
<1>5. MinPackets * Spent(s)' <= snap[s].packets
  <2>1. MinPackets * Spent(s) \in Nat /\ MinPackets * (Spent(s)') \in Nat
    BY <1>2, Bounds
  <2>2. CASE Hot(s)
    <3>1. Spent(s)' <= Spent(s) + 1
      BY <2>2, JudgeSpends
    <3>2. MinPackets * (Spent(s)') <= MinPackets * (Spent(s) + 1)
      BY <1>2, <3>1, Times, Bounds
    <3>3. MinPackets * (Spent(s) + 1) = MinPackets * Spent(s) + MinPackets
      BY <1>2, TimesSucc, Bounds
    <3>4. Delta(s) >= MinPackets
      BY <2>2, HotFloor
    <3> HIDE DEF Spent, Delta
    <3> QED BY <1>3, <1>4, <2>1, <3>2, <3>3, <3>4, Bounds
  <2>3. CASE ~Hot(s)
    <3>1. Spent(s)' <= Spent(s)
      BY <2>3, JudgeSpends
    <3>2. MinPackets * (Spent(s)') <= MinPackets * Spent(s)
      BY <1>2, <3>1, Times, Bounds
    <3> HIDE DEF Spent, Delta
    <3> QED BY <1>3, <1>4, <2>1, <3>2
  <2> QED BY <2>2, <2>3
<1>6. ASSUME NEW u \in Src
      PROVE  MinPackets * (Spent(u)') <= baselines'[u].packets
  <2>1. CASE u = s
    BY <2>1, <1>1, <1>5
  <2>2. CASE u # s
    BY <2>2, <1>1 DEF PaidInv, Spent
  <2> QED BY <2>1, <2>2
<1>7. ASSUME NEW u \in Src, u \in blocked'
      PROVE  alerts'[u] > 0
  <2>1. alerts[u] \in Nat /\ (u \in blocked => alerts[u] > 0)
    BY DEF TypeOK, HistoryOK, PaidInv
  <2>2. CASE Full(s)
    <3>1. alerts' = [alerts EXCEPT ![s] = @ + 1] /\ blocked' \subseteq blocked \cup {s}
      BY <2>2, Judged DEF Flag
    <3> QED BY <2>1, <3>1, <1>7 DEF TypeOK, HistoryOK
  <2>3. CASE ~Full(s)
    BY <2>1, <2>3, <1>7, Judged
  <2> QED BY <2>2, <2>3
<1> QED BY <1>6, <1>7 DEF PaidInv

\* Steps that judge nobody.
LEMMA OtherSteps ==
  ASSUME [Next]_vars, ~\E s \in Src : Judge(s)
  PROVE  UNCHANGED <<baselines, history>>
BY DEF Next, vars, kernel, history, BeginPoll, PollFails, Loop, EndPoll, FirstPacket,
  CountPacket, CountSyn, Read

LEMMA PaidKept ==
  TypeOK /\ TypeOK' /\ CountInv /\ PaidInv /\ [Next]_vars => PaidInv'
<1> SUFFICES ASSUME TypeOK, TypeOK', CountInv, PaidInv, [Next]_vars PROVE PaidInv'
  OBVIOUS
<1>1. ASSUME NEW s \in Src, Judge(s) PROVE PaidInv'
  BY <1>1, JudgePays
<1>2. CASE ~\E s \in Src : Judge(s)
  <2>1. baselines' = baselines /\ alerts' = alerts /\ blocked' = blocked
    BY <1>2, OtherSteps DEF history
  <2> QED BY <2>1 DEF PaidInv, Spent
<1> QED BY <1>1, <1>2

LEMMA PaidInit == Init => PaidInv
<1> SUFFICES ASSUME Init, NEW s \in Src
             PROVE  MinPackets * Spent(s) <= baselines[s].packets /\ s \notin blocked
  BY DEF PaidInv
<1>1. Spent(s) = 0 /\ baselines[s].packets = 0
  BY Bounds DEF Init, NewBaseline, Spent
<1> QED BY <1>1, Bounds DEF Init

\* Every alert used up ConsecutiveSamples polls of its own, each with
\* MinPacketRate or more; the packets of all of them were really sent.
THEOREM AlertsArePaidFor == Spec => []AlertsPaidFor
<1>1. TypeOK /\ CountInv /\ PaidInv => AlertsPaidFor
  <2> SUFFICES ASSUME TypeOK, CountInv, PaidInv, NEW s \in Src
               PROVE  /\ MinPackets * (Consecutive * alerts[s] + baselines[s].strikes)
                           <= activity[s].packets
                      /\ s \in blocked => alerts[s] > 0
    BY DEF AlertsPaidFor
  <2>1. MinPackets * Spent(s) <= baselines[s].packets /\ (s \in blocked => alerts[s] > 0)
    BY DEF PaidInv
  <2>2. baselines[s].packets <= activity[s].packets
    BY DEF CountInv, BaseInv
  <2>3. /\ MinPackets * Spent(s) \in Nat
        /\ baselines[s].packets \in Nat /\ activity[s].packets \in Nat
    BY SpentNat, Deltas, Bounds DEF Baseline, TypeOK, CountersOK, Counters
  <2>4. MinPackets * Spent(s) <= activity[s].packets
    BY <2>1, <2>2, <2>3
  <2> QED BY <2>1, <2>4 DEF Spent
<1> QED BY <1>1, TypesInit, TypesKept, CountInit, CountKept, PaidInit, PaidKept,
           PTL DEF Spec

-----------------------------------------------------------------------------
(* Floods are flagged.                                                     *)

FloodInv == \A s \in Src : flood[s] <= baselines[s].strikes

\* A sample that is a flood whatever the CPUs have still to count is anomalous.
LEMMA FloodIsHot ==
  ASSUME TypeOK, CountInv, NEW s \in Src, Judge(s), Flooding(s, Delta(s))
  PROVE  Hot(s)
<1>1. /\ Delta(s) >= MinPackets /\ 100 * (Delta(s) - Cpus) >= SynPercent * Delta(s)
      /\ s \notin mixed
  BY DEF Flooding, Enough
<1>2. DeltaSyn(s) >= Delta(s) - Cpus /\ Delta(s) \in Nat /\ DeltaSyn(s) \in Nat
  BY <1>1, DeltaIs, Deltas
<1>3. SynPercent * Delta(s) \in Nat
  BY <1>2, Bounds
<1>4. 100 * DeltaSyn(s) >= SynPercent * Delta(s)
  <2> HIDE DEF Delta, DeltaSyn
  <2>1. 100 * DeltaSyn(s) >= 100 * (Delta(s) - Cpus)
    BY <1>2, Bounds
  <2> QED BY <1>1, <1>2, <1>3, <2>1, Bounds
<1>5. Delta(s) > 0
  BY <1>1, <1>2, Bounds
<1> QED BY <1>1, <1>4, <1>5 DEF Hot, Anomalous, SynFlood

LEMMA FloodKept ==
  TypeOK /\ TypeOK' /\ CountInv /\ FloodInv /\ [Next]_vars => FloodInv'
<1> SUFFICES ASSUME TypeOK, TypeOK', CountInv, FloodInv, [Next]_vars PROVE FloodInv'
  OBVIOUS
<1>1. ASSUME NEW s \in Src, Judge(s) PROVE FloodInv'
  <2>1. /\ baselines'[s].strikes = Strikes(Hot(s), Full(s), baselines[s].strikes)
        /\ \A u \in Src \ {s} : baselines'[u] = baselines[u] /\ flood'[u] = flood[u]
    BY <1>1, Judged DEF TypeOK, PollOK, HistoryOK
  <2>2. /\ flood[s] \in Nat /\ baselines[s].strikes \in Nat
        /\ baselines'[s].strikes \in Nat
    BY Bounds DEF TypeOK, HistoryOK, PollOK, Baseline
  <2>3. flood'[s] <= baselines'[s].strikes
    <3>1. CASE ~Full(s) /\ Flooding(s, Delta(s))
      <4>1. flood'[s] = flood[s] + 1
        BY <1>1, <3>1, Judged DEF TypeOK, HistoryOK
      <4>2. baselines'[s].strikes = baselines[s].strikes + 1
        BY <1>1, <2>1, <3>1, FloodIsHot DEF Strikes
      <4>3. flood[s] <= baselines[s].strikes
        BY DEF FloodInv
      <4> QED BY <2>2, <4>1, <4>2, <4>3
    <3>2. CASE ~(~Full(s) /\ Flooding(s, Delta(s)))
      <4>1. flood'[s] = 0
        BY <1>1, <3>2, Judged DEF TypeOK, HistoryOK
      <4> QED BY <2>2, <4>1
    <3> QED BY <3>1, <3>2
  <2>4. ASSUME NEW u \in Src PROVE flood'[u] <= baselines'[u].strikes
    <3>1. CASE u = s
      BY <2>3, <3>1
    <3>2. CASE u # s
      BY <2>1, <3>2 DEF FloodInv
    <3> QED BY <3>1, <3>2
  <2> QED BY <2>4 DEF FloodInv
<1>2. CASE ~\E s \in Src : Judge(s)
  <2>1. baselines' = baselines /\ flood' = flood
    BY <1>2, OtherSteps DEF history
  <2> QED BY <2>1 DEF FloodInv
<1> QED BY <1>1, <1>2

LEMMA FloodInit == Init => FloodInv
BY DEF Init, NewBaseline, FloodInv

\* A source that sends SYNs only, and enough of them between polls, is flagged
\* within ConsecutiveSamples polls of it, on however many CPUs they arrive.
THEOREM FloodIsFlagged == Spec => []FloodFlagged
<1>1. TypeOK /\ FloodInv => FloodFlagged
  <2> SUFFICES ASSUME TypeOK, FloodInv, NEW s \in Src PROVE flood[s] < Consecutive
    BY DEF FloodFlagged
  <2>1. /\ flood[s] \in Nat /\ baselines[s].strikes \in 0 .. Consecutive - 1
        /\ flood[s] <= baselines[s].strikes
    BY DEF TypeOK, HistoryOK, PollOK, Baseline, FloodInv
  <2> QED BY <2>1, Bounds
<1> QED BY <1>1, TypesInit, TypesKept, CountInit, CountKept, FloodInit, FloodKept,
           PTL DEF Spec

-----------------------------------------------------------------------------
(* Steady sources are left alone.                                          *)

NoSyns(s) == activity[s].syns = 0 /\ pending[s] = 0

\* The baseline is no lower than some packet count s was judged by.
Grounded(s) ==
  baselines[s].seen > 0 => \E y \in samples[s] : y <= baselines[s].rate

Calm(s) == alerts[s] = 0 /\ baselines[s].strikes = 0

SteadyInv == \A s \in Src : NoSyns(s) /\ Steady(s) => Calm(s) /\ Grounded(s)

\* Without SYNs a sample within the multiplier of the others is normal.
LEMMA SteadyNotHot ==
  ASSUME TypeOK, CountInv, NEW s \in Src, Judge(s), NoSyns(s), Grounded(s), Steady(s)'
  PROVE  ~Hot(s)
<1>1. Delta(s) \in Nat /\ DeltaSyn(s) \in Nat /\ Seen(s) \in 1 .. 3
  BY Deltas
<1>2. DeltaSyn(s) = 0
  <2>1. SnapInv(s) /\ BaseInv(s) /\ snap[s].syns \in Nat /\ baselines[s].syns \in Nat
    BY Deltas DEF CountInv, Counters, Baseline
  <2>2. DeltaSyn(s) = snap[s].syns - baselines[s].syns
    BY DeltaIs
  <2>3. snap[s].syns <= 0
    BY <2>1 DEF SnapInv, NoSyns
  <2> HIDE DEF DeltaSyn
  <2> QED BY <1>1, <2>1, <2>2, <2>3
<1>3. ASSUME SynFlood(Delta(s), DeltaSyn(s)) PROVE FALSE
  <2>1. Delta(s) >= MinPackets /\ 100 * DeltaSyn(s) >= SynPercent * Delta(s)
    BY <1>3 DEF SynFlood
  <2> HIDE DEF Delta, DeltaSyn
  <2>2. Delta(s) >= 1
    BY <1>1, <2>1, Bounds
  <2>3. SynPercent * 1 <= SynPercent * Delta(s)
    BY <1>1, <2>2, Times, Bounds
  <2>4. SynPercent * Delta(s) \in Nat
    BY <1>1, Bounds
  <2> QED BY <1>2, <2>1, <2>3, <2>4, Bounds
<1>4. ASSUME RateJump(baselines[s].rate, Seen(s), Delta(s)) PROVE FALSE
  <2>1. Seen(s) > 2 /\ Delta(s) >= baselines[s].rate * Multiplier
    BY <1>4 DEF RateJump
  <2>2. baselines[s].seen > 0
    <3>1. baselines[s].seen \in 0 .. 3
      BY Deltas DEF Baseline
    <3> QED BY <2>1, <3>1 DEF Seen
  <2>3. PICK y \in samples[s] : y <= baselines[s].rate
    BY <2>2 DEF Grounded
  <2>4. Delta(s) \in samples'[s] /\ y \in samples'[s]
    BY <2>3, Judged DEF TypeOK, HistoryOK
  <2>5. Delta(s) < Multiplier * y
    BY <2>4 DEF Steady
  <2>6. y \in Nat /\ baselines[s].rate \in Nat
    BY Deltas DEF TypeOK, HistoryOK, Baseline
  <2>7. Multiplier * y <= Multiplier * baselines[s].rate
    BY <2>3, <2>6, Times, Bounds
  <2>8. Multiplier * baselines[s].rate = baselines[s].rate * Multiplier
    BY <2>6, Bounds
  <2>9. /\ Multiplier * y \in Nat /\ Multiplier * baselines[s].rate \in Nat
    BY <2>6, Bounds
  <2> HIDE DEF Delta
  <2> QED BY <1>1, <2>1, <2>5, <2>7, <2>8, <2>9
<1> QED BY <1>3, <1>4 DEF Hot, Anomalous

LEMMA SteadyJudge ==
  ASSUME TypeOK, TypeOK', CountInv, SteadyInv, NEW s \in Src, Judge(s)
  PROVE  SteadyInv'
<1>1. /\ samples' = [samples EXCEPT ![s] = @ \cup {Delta(s)}]
      /\ activity' = activity /\ pending' = pending
      /\ \A u \in Src \ {s} : /\ baselines'[u] = baselines[u] /\ alerts'[u] = alerts[u]
                              /\ samples'[u] = samples[u]
  BY Judged DEF TypeOK, PollOK, HistoryOK, Flag, kernel
<1>2. ASSUME NoSyns(s)', Steady(s)' PROVE Calm(s)' /\ Grounded(s)'
  <2>1. samples'[s] = samples[s] \cup {Delta(s)}
    BY <1>1 DEF TypeOK, HistoryOK
  <2>2. NoSyns(s)
    BY <1>1, <1>2 DEF NoSyns
  <2>3. Steady(s)
    BY <1>2, <2>1 DEF Steady
  <2>4. Calm(s) /\ Grounded(s)
    BY <2>2, <2>3 DEF SteadyInv
  <2>5. ~Hot(s)
    BY <1>2, <2>2, <2>4, SteadyNotHot
  <2>6. PICK r \in Rates(Hot(s), baselines[s], Seen(s), Delta(s)) :
          baselines' = [baselines EXCEPT ![s] =
            [packets |-> snap[s].packets, syns |-> snap[s].syns, rate |-> r,
             strikes |-> Strikes(Hot(s), Full(s), baselines[s].strikes),
             seen |-> Seen(s)]]
    BY Judged
  <2>7. /\ baselines'[s].strikes = Strikes(Hot(s), Full(s), baselines[s].strikes)
        /\ baselines'[s].rate = r
    BY <2>6 DEF TypeOK, PollOK
  <2>8. Calm(s)'
    <3>1. baselines'[s].strikes = 0
      BY <2>5, <2>7 DEF Strikes
    <3>2. alerts' = alerts
      BY <2>5, Judged DEF Full
    <3> QED BY <2>4, <3>1, <3>2 DEF Calm
  <2>9. Grounded(s)'
    <3>1. Delta(s) \in Nat /\ Seen(s) \in 1 .. 3 /\ baselines[s] \in Baseline
      BY Deltas
    <3>2. Hot(s) \in BOOLEAN
      BY DEF Hot, Anomalous, SynFlood, RateJump
    <3>3. r \in Nat
      BY <2>6, <3>1, <3>2, RatesOK
    <3>4. CASE r >= Delta(s)
      BY <2>1, <2>7, <3>1, <3>3, <3>4 DEF Grounded
    <3>5. CASE r >= baselines[s].rate /\ Seen(s) > 1
      <4>1. baselines[s].seen \in 0 .. 3 /\ baselines[s].rate \in Nat
        BY <3>1 DEF Baseline
      <4>2. baselines[s].seen > 0
        BY <3>5, <4>1 DEF Seen
      <4>3. PICK y \in samples[s] : y <= baselines[s].rate
        BY <2>4, <4>2 DEF Grounded
      <4>4. y \in samples'[s] /\ y \in Nat
        BY <2>1, <4>3 DEF TypeOK, HistoryOK
      <4>5. y <= r
        BY <3>3, <3>5, <4>1, <4>3, <4>4
      <4> QED BY <2>7, <4>4, <4>5 DEF Grounded
    <3>6. r >= Delta(s) \/ (r >= baselines[s].rate /\ Seen(s) > 1)
      BY <2>5, <2>6, <3>1, <3>2, RatesOK
    <3> QED BY <3>4, <3>5, <3>6
  <2> QED BY <2>8, <2>9
<1>3. ASSUME NEW u \in Src, u # s, NoSyns(u)', Steady(u)'
      PROVE  Calm(u)' /\ Grounded(u)'
  <2>1. NoSyns(u) /\ Steady(u)
    BY <1>1, <1>3 DEF NoSyns, Steady
  <2> QED BY <1>1, <1>3, <2>1 DEF SteadyInv, Calm, Grounded
<1> QED BY <1>2, <1>3 DEF SteadyInv

LEMMA SteadyKept ==
  TypeOK /\ TypeOK' /\ CountInv /\ SteadyInv /\ [Next]_vars => SteadyInv'
<1> SUFFICES ASSUME TypeOK, TypeOK', CountInv, SteadyInv, [Next]_vars PROVE SteadyInv'
  OBVIOUS
<1>1. ASSUME NEW s \in Src, Judge(s) PROVE SteadyInv'
  BY <1>1, SteadyJudge
<1>2. CASE ~\E s \in Src : Judge(s)
  <2>1. baselines' = baselines /\ alerts' = alerts /\ samples' = samples
    BY <1>2, OtherSteps DEF history
  <2>2. ASSUME NEW u \in Src, NoSyns(u)' PROVE NoSyns(u)
    <3>1. ASSUME NEW s \in Src, NEW syn \in BOOLEAN, FirstPacket(s, syn)
          PROVE  NoSyns(u)
      <4>1. CASE u = s
        <5>1. ~(activity[s].packets > 0) /\ CountsInv(s)
          BY <3>1 DEF FirstPacket, Tracked, CountInv
        <5>2. /\ activity[s].packets \in Nat /\ activity[s].syns \in Nat
              /\ pending[s] \in Nat
          BY Bounds DEF TypeOK, CountersOK, Counters
        <5>3. activity[s].syns + pending[s] <= activity[s].packets
          BY <5>1 DEF CountsInv
        <5>4. activity[s].syns = 0 /\ pending[s] = 0
          BY <5>1, <5>2, <5>3
        <5> QED BY <4>1, <5>4 DEF NoSyns
      <4>2. CASE u # s
        BY <2>2, <3>1, <4>2 DEF FirstPacket, NoSyns, TypeOK, CountersOK
      <4> QED BY <4>1, <4>2
    <3>2. ASSUME NEW s \in Src, NEW syn \in BOOLEAN, CountPacket(s, syn)
          PROVE  NoSyns(u)
      <4>1. activity'[u].syns = activity[u].syns
        BY <3>2 DEF CountPacket, TypeOK, CountersOK, Counters
      <4>2. pending'[u] = pending[u] \/ pending'[u] = pending[u] + 1
        BY <3>2 DEF CountPacket, TypeOK, CountersOK
      <4>3. pending[u] \in Nat
        BY Bounds DEF TypeOK, CountersOK
      <4> QED BY <2>2, <4>1, <4>2, <4>3 DEF NoSyns
    <3>3. ASSUME NEW s \in Src, CountSyn(s)
          PROVE  NoSyns(u)
      <4>1. CASE u = s
        <5>1. activity'[s].syns = activity[s].syns + 1 /\ activity[s].syns \in Nat
          BY <3>3 DEF CountSyn, TypeOK, CountersOK, Counters
        <5> QED BY <2>2, <4>1, <5>1 DEF NoSyns
      <4>2. CASE u # s
        BY <2>2, <3>3, <4>2 DEF CountSyn, NoSyns, TypeOK, CountersOK
      <4> QED BY <4>1, <4>2
    <3>4. CASE UNCHANGED kernel
      BY <2>2, <3>4 DEF kernel, NoSyns
    <3>5. \/ UNCHANGED kernel
          \/ \E s \in Src : CountSyn(s)
          \/ \E s \in Src, syn \in BOOLEAN : FirstPacket(s, syn) \/ CountPacket(s, syn)
      BY <1>2 DEF Next, vars, BeginPoll, PollFails, Loop, EndPoll, Read, kernel
    <3> QED BY <3>1, <3>2, <3>3, <3>4, <3>5
  <2> QED BY <2>1, <2>2 DEF SteadyInv, Calm, Grounded, Steady
<1> QED BY <1>1, <1>2

LEMMA SteadyInit == Init => SteadyInv
BY DEF Init, NewBaseline, SteadyInv, Calm, Grounded

\* A source that sends no SYNs and whose rate varies by less than the
\* multiplier is never flagged.
THEOREM SteadyIsNotFlagged == Spec => []SteadyNotFlagged
<1>1. SteadyInv => SteadyNotFlagged
  BY DEF SteadyInv, SteadyNotFlagged, NoSyns, Calm
<1> QED BY <1>1, TypesInit, TypesKept, CountInit, CountKept, SteadyInit, SteadyKept,
           PTL DEF Spec
=============================================================================
