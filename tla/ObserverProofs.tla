--------------------------- MODULE ObserverProofs ---------------------------
(***************************************************************************)
(* Theorems about what runs when an address is blocked, the observers and  *)
(* who calls them: the reports shared between daemons, the backends that   *)
(* set rules of the operating system, and the map of blocks.               *)
(***************************************************************************)
EXTENDS ThreatShare, OsBackend, FiniteSetTheorems, TLAPS


\* A report in flight is about a block of its sender, to one of its peers.
ReportsHaveOrigin ==
  \A r \in net : <<r.from, r.ip>> \in origin /\ r.to \in Peers[r.from]

\* What comes back with the file was in the table when it was saved.
DiskHasOrigin ==
  \A n \in Node, a \in Addr : disk[n][a] = "shared" =>
    \E m \in Node : <<m, a>> \in origin /\ n \in Peers[m]

OriginInv == TypeOK /\ ReportsHaveOrigin /\ DiskHasOrigin /\ SharedHasOrigin

LEMMA LifetimeType ==
  ASSUME NEW r \in Report PROVE Lifetime(r) \in Nat \ {0}
  <1>1. r.from \in Node
    BY DEF Report
  <1>2. Ttl[r.from] \in Nat /\ DefaultTTL \in Nat \ {0}
    BY <1>1, ConstantsOK
  <1> QED
    BY <1>2 DEF Lifetime

LEMMA ExpiryType ==
  ASSUME now \in Nat, NEW r \in Report PROVE Expiry(r) \in Nat \ {0}
  <1>1. Lifetime(r) \in Nat \ {0} /\ MaxTime \in Nat \ {0, 1}
    BY LifetimeType, ConstantsOK
  <1> QED
    BY <1>1 DEF Expiry

\* Relay only makes reports.
LEMMA RelayType ==
  ASSUME TypeOK, made < MaxReports, NEW n \in Node, NEW a \in Addr
  PROVE  /\ Relay(n, a) \subseteq Report
         /\ \A r \in Relay(n, a) : r.from = n /\ r.ip = a /\ r.to \in Peers[n]
         /\ made + 1 \in 0 .. MaxReports
  <1>1. Peers[n] \subseteq Node
    BY ConstantsOK
  <1>2. made + 1 \in 1 .. MaxReports
    BY ConstantsOK DEF TypeOK
  <1> QED
    BY <1>1, <1>2 DEF Relay, Report

\* What blocking an address does to everything but the registry.
LEMMA BlockStep ==
  ASSUME TypeOK, NEW n \in Node, NEW a \in Addr, NEW r \in Reason,
         NEW others \in SUBSET net, BlockWithReason(n, a, r, others)
  PROVE  /\ block' \in [Node -> [Addr -> Reason]]
         /\ net' \subseteq Report
         /\ made' \in 0 .. MaxReports
         /\ \A m \in Node, b \in Addr :
              block'[m][b] = IF m = n /\ b = a THEN r ELSE block[m][b]
         /\ \A x \in net' : x \in net \/ /\ r # "shared" /\ x.from = n
                                         /\ x.ip = a /\ x.to \in Peers[n]
  <1>1. CASE Observed(n, r) /\ made < MaxReports
    BY <1>1, RelayType DEF BlockWithReason, TypeOK, Observed
  <1>2. CASE ~(Observed(n, r) /\ made < MaxReports)
    BY <1>2 DEF BlockWithReason, TypeOK
  <1> QED
    BY <1>1, <1>2

LEMMA TypeStep == ASSUME TypeOK, [Next]_vars PROVE TypeOK'
  <1> USE DEF TypeOK
  <1>1. CASE Tick
    BY <1>1, ConstantsOK DEF Tick
  <1>2. ASSUME NEW n \in Node, NEW a \in Addr, LocalBlock(n, a) PROVE TypeOK'
    <2>1. BlockWithReason(n, a, "local", net) /\ "local" \in Reason
      BY <1>2 DEF LocalBlock, Reason
    <2> QED
      BY <1>2, <2>1, BlockStep DEF LocalBlock
  <1>3. ASSUME NEW n \in Node, NEW a \in Addr, OperatorUnblock(n, a) PROVE TypeOK'
    BY <1>3 DEF OperatorUnblock, Reason
  <1>4. ASSUME NEW n \in Node, Persist(n) PROVE TypeOK'
    BY <1>4 DEF Persist
  <1>5. ASSUME NEW n \in Node, Serve(n) PROVE TypeOK'
    BY <1>5 DEF Serve
  <1>6. ASSUME NEW n \in Node, Restart(n) PROVE TypeOK'
    BY <1>6 DEF Restart
  <1>7. ASSUME NEW r \in net, ApplyBlock(r) PROVE TypeOK'
    <2>1. r.to \in Node /\ r.ip \in Addr /\ net \ {r} \in SUBSET net
      BY DEF Report
    <2>2. BlockWithReason(r.to, r.ip, "shared", net \ {r}) /\ "shared" \in Reason
      BY <1>7 DEF ApplyBlock, Reason
    <2>3. accepted' \in [Node -> [Addr -> Nat]]
      BY <1>7, <2>1 DEF ApplyBlock
    <2> QED
      BY <1>7, <2>1, <2>2, <2>3, BlockStep DEF ApplyBlock, Accepts
  <1>8. ASSUME NEW r \in applying, ApplyEntry(r) PROVE TypeOK'
    <2>1. r.to \in Node /\ r.ip \in Addr /\ Expiry(r) \in Nat
      BY ExpiryType, ConstantsOK DEF Report
    <2> QED
      BY <1>8, <2>1 DEF ApplyEntry
  <1>9. ASSUME NEW r \in net, Lose(r) PROVE TypeOK'
    BY <1>9 DEF Lose
  <1>10. ASSUME NEW n \in Node, SweepCollect(n) PROVE TypeOK'
    BY <1>10 DEF SweepCollect, Without, Due
  <1>11. ASSUME NEW n \in Node, NEW a \in Addr, SweepUnblock(n, a) PROVE TypeOK'
    <2>1. block' = block \/ block' = [block EXCEPT ![n][a] = "none"]
      BY <1>11 DEF SweepUnblock
    <2>3. block' \in [Node -> [Addr -> Reason]]
      <3>1. "none" \in Reason
        BY DEF Reason
      <3>2. CASE block' = block
        BY <3>2
      <3>3. CASE block' = [block EXCEPT ![n][a] = "none"]
        BY <3>1, <3>3
      <3> QED
        BY <2>1, <3>2, <3>3
    <2>4. orphaned' = orphaned \/ orphaned' = orphaned \cup {<<n, a>>}
      BY <1>11 DEF SweepUnblock
    <2>5. orphaned' \subseteq Node \X Addr
      BY <2>4
    <2>2. /\ expired' \in [Node -> SUBSET Addr]
          /\ \A m \in Node : phase[m] = "boot" => expired'[m] = {}
      BY <1>11 DEF SweepUnblock
    <2> QED
      BY <1>11, <2>2, <2>3, <2>5 DEF SweepUnblock
  <1>12. CASE UNCHANGED vars
    BY <1>12 DEF vars
  <1> QED
    BY <1>1, <1>2, <1>3, <1>4, <1>5, <1>6, <1>7, <1>8, <1>9, <1>10, <1>11, <1>12
       DEF Next

LEMMA InitType == Init => TypeOK
  BY ConstantsOK DEF Init, TypeOK, Nothing, Reason

-----------------------------------------------------------------------------
(* Where shared blocks come from.                                          *)

LEMMA OriginStep == ASSUME OriginInv, [Next]_vars PROVE OriginInv'
  <1> USE DEF OriginInv
  <1>1. TypeOK'
    BY TypeStep
  <1>2. ASSUME NEW n \in Node, NEW a \in Addr, LocalBlock(n, a) PROVE OriginInv'
    <2>1. BlockWithReason(n, a, "local", net) /\ "local" \in Reason
      BY <1>2 DEF LocalBlock, Reason
    <2>2. origin' = origin \cup {<<n, a>>} /\ disk' = disk
      BY <1>2 DEF LocalBlock
    <2>3. /\ \A m \in Node, b \in Addr :
               block'[m][b] = IF m = n /\ b = a THEN "local" ELSE block[m][b]
          /\ \A x \in net' : x \in net \/ /\ x.from = n /\ x.ip = a
                                          /\ x.to \in Peers[n]
      BY <2>1, BlockStep
    <2>4. ReportsHaveOrigin'
      BY <2>2, <2>3 DEF ReportsHaveOrigin
    <2>5. DiskHasOrigin' /\ SharedHasOrigin'
      BY <2>2, <2>3 DEF DiskHasOrigin, SharedHasOrigin
    <2> QED
      BY <1>1, <2>4, <2>5
  <1>3. ASSUME NEW r \in net, ApplyBlock(r) PROVE OriginInv'
    <2>1. r \in Report /\ r.to \in Node /\ r.from \in Node /\ r.ip \in Addr
      BY DEF TypeOK, Report
    <2>2. BlockWithReason(r.to, r.ip, "shared", net \ {r}) /\ "shared" \in Reason
      BY <1>3 DEF ApplyBlock, Reason
    <2>3. origin' = origin /\ disk' = disk
      BY <1>3 DEF ApplyBlock
    <2>4. /\ \A m \in Node, b \in Addr : block'[m][b] =
               IF m = r.to /\ b = r.ip THEN "shared" ELSE block[m][b]
          /\ \A x \in net' : x \in net
      BY <2>1, <2>2, BlockStep
    <2>5. <<r.from, r.ip>> \in origin /\ r.to \in Peers[r.from]
      BY DEF ReportsHaveOrigin
    <2>6. SharedHasOrigin'
      BY <2>1, <2>3, <2>4, <2>5 DEF SharedHasOrigin
    <2>7. ReportsHaveOrigin' /\ DiskHasOrigin'
      BY <2>3, <2>4 DEF ReportsHaveOrigin, DiskHasOrigin
    <2> QED
      BY <1>1, <2>6, <2>7
  <1>4. ASSUME origin' = origin, net' \subseteq net,
               \A n \in Node, a \in Addr :
                 /\ block'[n][a] = "shared" =>
                      block[n][a] = "shared" \/ disk[n][a] = "shared"
                 /\ disk'[n][a] = "shared" =>
                      block[n][a] = "shared" \/ disk[n][a] = "shared"
        PROVE  OriginInv'
    BY <1>1, <1>4 DEF ReportsHaveOrigin, DiskHasOrigin, SharedHasOrigin
  <1>5. ASSUME NEW n \in Node,
               Persist(n) \/ Serve(n) \/ Restart(n) \/ SweepCollect(n)
        PROVE  OriginInv'
    <2>1. CASE Persist(n)
      BY <1>4, <2>1 DEF Persist, TypeOK
    <2>2. CASE Restart(n)
      BY <1>4, <2>2 DEF Restart, TypeOK
    <2>3. CASE Serve(n) \/ SweepCollect(n)
      BY <1>4, <2>3 DEF Serve, SweepCollect
    <2> QED
      BY <1>5, <2>1, <2>2, <2>3
  <1>7. ASSUME NEW n \in Node, NEW a \in Addr,
               OperatorUnblock(n, a) \/ SweepUnblock(n, a)
        PROVE  OriginInv'
    <2>1. /\ block' = [block EXCEPT ![n][a] = "none"] \/ block' = block
          /\ origin' = origin /\ net' = net /\ disk' = disk
      BY <1>7 DEF OperatorUnblock, SweepUnblock
    <2>2. CASE block' = block
      BY <1>4, <2>1, <2>2
    <2>3. CASE block' = [block EXCEPT ![n][a] = "none"]
      BY <1>4, <2>1, <2>3 DEF TypeOK
    <2> QED
      BY <2>1, <2>2, <2>3
  <1>6. CASE \/ Tick \/ UNCHANGED vars
             \/ \E r \in net : Lose(r)
             \/ \E r \in applying : ApplyEntry(r)
    BY <1>4, <1>6 DEF Tick, vars, Lose, ApplyEntry
  <1> QED
    BY <1>2, <1>3, <1>5, <1>6, <1>7 DEF Next

\* No relay of a relay: a shared block was made by a daemon that names this
\* one among its peers.
THEOREM OriginCorrect == Spec => []SharedHasOrigin
  <1>1. Init => OriginInv
    BY InitType DEF Init, OriginInv, ReportsHaveOrigin, DiskHasOrigin,
                    SharedHasOrigin, Nothing
  <1>2. OriginInv /\ [Next]_vars => OriginInv'
    BY OriginStep
  <1>3. OriginInv => SharedHasOrigin
    BY DEF OriginInv
  <1> QED
    BY <1>1, <1>2, <1>3, PTL DEF Spec

-----------------------------------------------------------------------------
(* Who knows when a shared block ends.                                     *)

TrackInv == TypeOK /\ SharedTracked

LEMMA TrackStep == ASSUME TrackInv, [Next]_vars PROVE TrackInv'
  <1> USE DEF TrackInv
  <1>1. TypeOK'
    BY TypeStep
  <1> SUFFICES ASSUME NEW n \in Node, NEW a \in Addr, block'[n][a] = "shared"
               PROVE  \/ entries'[n][a] # 0 \/ a \in expired'[n]
                      \/ <<n, a>> \in orphaned'
                      \/ \E r \in applying' : r.to = n /\ r.ip = a
    BY <1>1 DEF SharedTracked
  <1> DEFINE Tracked == \/ entries'[n][a] # 0 \/ a \in expired'[n]
                        \/ <<n, a>> \in orphaned'
                        \/ \E r \in applying' : r.to = n /\ r.ip = a
  <1>3. ASSUME NEW m \in Node, NEW b \in Addr, LocalBlock(m, b) PROVE Tracked
    <2>1. BlockWithReason(m, b, "local", net) /\ "local" \in Reason
      BY <1>3 DEF LocalBlock, Reason
    <2>2. block[n][a] = "shared"
      BY <2>1, BlockStep
    <2> QED
      BY <1>3, <2>2 DEF LocalBlock, SharedTracked
  <1>4. ASSUME NEW r \in net, ApplyBlock(r) PROVE Tracked
    <2>1. r.to \in Node /\ r.ip \in Addr
      BY DEF TypeOK, Report
    <2>2. BlockWithReason(r.to, r.ip, "shared", net \ {r}) /\ "shared" \in Reason
      BY <1>4 DEF ApplyBlock, Reason
    <2>3. /\ applying' = applying \cup {r} /\ entries' = entries
          /\ expired' = expired /\ orphaned' = orphaned \ {<<r.to, r.ip>>}
      BY <1>4 DEF ApplyBlock
    <2>4. (r.to = n /\ r.ip = a) \/ block[n][a] = "shared"
      BY <2>1, <2>2, BlockStep
    <2> QED
      BY <2>3, <2>4 DEF SharedTracked
  <1>5. ASSUME NEW r \in applying, ApplyEntry(r) PROVE Tracked
    <2>1. r \in Report /\ r.to \in Node /\ r.ip \in Addr /\ Expiry(r) \in Nat \ {0}
      BY ExpiryType, ConstantsOK DEF TypeOK, Report
    <2>2. CASE r.to = n /\ r.ip = a
      BY <1>5, <2>1, <2>2 DEF ApplyEntry, TypeOK
    <2>3. CASE ~(r.to = n /\ r.ip = a)
      <3>1. /\ block' = block /\ expired' = expired /\ orphaned' = orphaned
            /\ applying' = applying \ {r}
        BY <1>5 DEF ApplyEntry
      <3>2. entries'[n][a] = entries[n][a]
        BY <1>5, <2>1, <2>3 DEF ApplyEntry, TypeOK
      <3>3. block[n][a] = "shared"
        BY <3>1
      <3> QED
        BY <2>3, <3>1, <3>2, <3>3 DEF SharedTracked
    <2> QED
      BY <2>2, <2>3
  <1>6. ASSUME NEW m \in Node, Restart(m) PROVE Tracked
    <2>1. CASE m = n
      BY <1>6, <2>1 DEF Restart, TypeOK
    <2>2. CASE m # n
      <3>1. block'[n] = block[n] /\ entries'[n] = entries[n]
            /\ expired'[n] = expired[n]
        BY <1>6, <2>2 DEF Restart, TypeOK
      <3>2. /\ \A r \in applying : r.to = n => r \in applying'
            /\ orphaned \subseteq orphaned'
        BY <1>6, <2>2 DEF Restart
      <3> QED
        BY <3>1, <3>2 DEF SharedTracked
    <2> QED
      BY <2>1, <2>2
  <1>7. ASSUME NEW m \in Node, SweepCollect(m) PROVE Tracked
    <2>1. block[n][a] = "shared"
      BY <1>7 DEF SweepCollect
    <2>2. CASE m = n /\ a \in Due(m)
      <3>1. expired'[n] = Due(n)
        BY <1>7, <2>2 DEF SweepCollect, TypeOK
      <3> QED
        BY <2>2, <3>1
    <2>3. CASE ~(m = n /\ a \in Due(m))
      <3>1. entries'[n][a] = entries[n][a]
        BY <1>7, <2>3 DEF SweepCollect, Without, TypeOK
      <3>2. a \in expired[n] => a \in expired'[n]
        BY <1>7, <2>3 DEF SweepCollect, TypeOK
      <3> QED
        BY <1>7, <2>1, <3>1, <3>2 DEF SweepCollect, SharedTracked
    <2> QED
      BY <2>2, <2>3
  <1>8. ASSUME NEW m \in Node, NEW b \in Addr, SweepUnblock(m, b) PROVE Tracked
    <2>1. /\ block[n][a] = "shared" /\ orphaned \subseteq orphaned'
          /\ m = n /\ b = a => <<n, a>> \in orphaned'
      BY <1>8 DEF SweepUnblock, TypeOK
    <2>2. ~(m = n /\ b = a) => (a \in expired[n] => a \in expired'[n])
      BY <1>8 DEF SweepUnblock, TypeOK
    <2> QED
      BY <1>8, <2>1, <2>2 DEF SweepUnblock, SharedTracked
  <1>9. ASSUME NEW m \in Node, NEW b \in Addr,
               OperatorUnblock(m, b) \/ Serve(m)
        PROVE  Tracked
    <2>1. /\ entries' = entries /\ expired' = expired /\ applying' = applying
          /\ orphaned' = orphaned
          /\ block' = block \/ block' = [block EXCEPT ![m][b] = "none"]
      BY <1>9 DEF OperatorUnblock, Serve
    <2>2. block[n][a] = "shared"
      <3>1. CASE block' = [block EXCEPT ![m][b] = "none"]
        <4>1. block'[n][a] = IF n = m /\ a = b THEN "none" ELSE block[n][a]
          BY <3>1 DEF TypeOK
        <4> QED
          BY <4>1
      <3> QED
        BY <2>1, <3>1
    <2> QED
      BY <2>1, <2>2 DEF SharedTracked
  <1>10. CASE Tick \/ UNCHANGED vars \/ \E r \in net : Lose(r)
    BY <1>10 DEF Tick, vars, Lose, SharedTracked
  <1>11. ASSUME NEW m \in Node, Persist(m) PROVE Tracked
    BY <1>11 DEF Persist, SharedTracked
  <1> QED
    BY <1>3, <1>4, <1>5, <1>6, <1>7, <1>8, <1>9, <1>10, <1>11 DEF Next

\* Whoever enforces a shared block knows when to lift it, unless the file
\* brought the block back, whatever reports, sweeps and crashes interleave.
THEOREM TrackingCorrect == Spec => []SharedTracked
  <1>1. Init => TrackInv
    BY InitType DEF Init, TrackInv, SharedTracked, Nothing
  <1>2. TrackInv /\ [Next]_vars => TrackInv'
    BY TrackStep
  <1>3. TrackInv => SharedTracked
    BY DEF TrackInv
  <1> QED
    BY <1>1, <1>2, <1>3, PTL DEF Spec

\* Every reachable state has the types.
THEOREM TypeCorrect == Spec => []TypeOK
  BY InitType, TypeStep, PTL DEF Spec

-----------------------------------------------------------------------------
(* The life of the first report about an address: being applied, then in    *)
(* the registry, then in the sweep's hands, one place at a time; in the     *)
(* first two its block is in force unless an operator lifted it.            *)

Waiting(n, a) == {r \in applying : r.to = n /\ r.ip = a}

FirstInv ==
  \A n \in Node, a \in Addr :
    /\ accepted[n][a] = 0 =>
         entries[n][a] = 0 /\ a \notin expired[n] /\ Waiting(n, a) = {}
    /\ accepted[n][a] = 1 =>
         /\ \A r, s \in Waiting(n, a) : r = s
         /\ Waiting(n, a) # {} => entries[n][a] = 0 /\ a \notin expired[n]
         /\ entries[n][a] # 0 => a \notin expired[n]
         /\ (entries[n][a] # 0 \/ Waiting(n, a) # {}) /\ <<n, a>> \notin lifted =>
              block[n][a] # "none"

LEMMA FirstStep == ASSUME TypeOK, FirstInv, [Next]_vars PROVE FirstInv'
  <1> DEFINE First(n, a) ==
        /\ accepted[n][a] = 0 =>
             entries[n][a] = 0 /\ a \notin expired[n] /\ Waiting(n, a) = {}
        /\ accepted[n][a] = 1 =>
             /\ \A r, s \in Waiting(n, a) : r = s
             /\ Waiting(n, a) # {} => entries[n][a] = 0 /\ a \notin expired[n]
             /\ entries[n][a] # 0 => a \notin expired[n]
             /\ (entries[n][a] # 0 \/ Waiting(n, a) # {}) /\ <<n, a>> \notin lifted =>
                  block[n][a] # "none"
  <1> SUFFICES ASSUME NEW n \in Node, NEW a \in Addr PROVE First(n, a)'
    BY DEF FirstInv
  <1>0. First(n, a) /\ accepted[n][a] \in Nat
    BY DEF FirstInv, TypeOK
  <1>1. CASE /\ accepted'[n][a] = accepted[n][a] /\ entries'[n][a] = entries[n][a]
             /\ a \in expired'[n] <=> a \in expired[n]
             /\ Waiting(n, a)' = Waiting(n, a)
             /\ \/ block'[n][a] # "none" \/ <<n, a>> \in lifted'
                \/ block'[n][a] = block[n][a] /\ (<<n, a>> \in lifted <=> <<n, a>> \in lifted')
    BY <1>0, <1>1
  <1> HIDE DEF First
  <1>2. CASE Tick \/ UNCHANGED vars \/ \E r \in net : Lose(r)
    BY <1>1, <1>2 DEF Tick, vars, Lose, Waiting
  <1>3. ASSUME NEW m \in Node, Persist(m) \/ Serve(m) PROVE First(n, a)'
    BY <1>1, <1>3 DEF Persist, Serve, Waiting
  <1>4. ASSUME NEW m \in Node, NEW b \in Addr, LocalBlock(m, b)
        PROVE  First(n, a)'
    <2>1. BlockWithReason(m, b, "local", net) /\ "local" \in Reason
      BY <1>4 DEF LocalBlock, Reason
    <2>2. block'[n][a] = IF m = n /\ b = a THEN "local" ELSE block[n][a]
      BY <2>1, BlockStep
    <2>3. UNCHANGED <<accepted, entries, expired, applying, lifted>>
      BY <1>4 DEF LocalBlock
    <2> QED
      BY <1>1, <2>2, <2>3 DEF Waiting
  <1>5. ASSUME NEW m \in Node, NEW b \in Addr, OperatorUnblock(m, b)
        PROVE  First(n, a)'
    <2>1. /\ UNCHANGED <<accepted, entries, expired, applying>>
          /\ lifted' = lifted \cup {<<m, b>>}
      BY <1>5 DEF OperatorUnblock
    <2>2. block'[n][a] = IF m = n /\ b = a THEN "none" ELSE block[n][a]
      BY <1>5 DEF OperatorUnblock, TypeOK
    <2> QED
      BY <1>1, <2>1, <2>2 DEF Waiting
  <1>6. ASSUME NEW m \in Node, Restart(m) PROVE First(n, a)'
    <2>1. CASE m = n
      <3>1. entries'[n][a] = 0 /\ expired'[n] = {} /\ Waiting(n, a)' = {}
        BY <1>6, <2>1 DEF Restart, TypeOK, Waiting
      <3> QED
        BY <3>1 DEF First
    <2>2. CASE m # n
      <3>1. /\ accepted' = accepted /\ entries'[n] = entries[n]
            /\ expired'[n] = expired[n] /\ block'[n] = block[n] /\ lifted' = lifted
        BY <1>6, <2>2 DEF Restart, TypeOK
      <3>2. Waiting(n, a)' = Waiting(n, a)
        BY <1>6, <2>2 DEF Restart, Waiting
      <3> QED
        BY <1>1, <3>1, <3>2
    <2> QED
      BY <2>1, <2>2
  <1>7. ASSUME NEW r \in net, ApplyBlock(r) PROVE First(n, a)'
    <2>1. r.to \in Node /\ r.ip \in Addr
      BY DEF TypeOK, Report
    <2>2. BlockWithReason(r.to, r.ip, "shared", net \ {r}) /\ "shared" \in Reason
      BY <1>7 DEF ApplyBlock, Reason
    <2>3. block'[n][a] = IF r.to = n /\ r.ip = a THEN "shared" ELSE block[n][a]
      BY <2>1, <2>2, BlockStep
    <2>4. /\ entries' = entries /\ expired' = expired
          /\ applying' = applying \cup {r}
          /\ lifted' = lifted \ {<<r.to, r.ip>>}
          /\ accepted'[n][a] = IF r.to = n /\ r.ip = a THEN accepted[n][a] + 1
                               ELSE accepted[n][a]
      BY <1>7, <2>1 DEF ApplyBlock, TypeOK
    <2>5. CASE ~(r.to = n /\ r.ip = a)
      <3>1. Waiting(n, a)' = Waiting(n, a)
        BY <2>4, <2>5 DEF Waiting
      <3> QED
        BY <1>1, <2>3, <2>4, <2>5, <3>1
    <2>6. CASE r.to = n /\ r.ip = a /\ accepted[n][a] = 0
      <3>1. entries[n][a] = 0 /\ a \notin expired[n] /\ Waiting(n, a) = {}
        BY <1>0, <2>6 DEF First
      <3>2. Waiting(n, a)' = {r}
        BY <2>4, <2>6, <3>1 DEF Waiting
      <3> QED
        BY <2>3, <2>4, <2>6, <3>1, <3>2 DEF First
    <2>7. CASE r.to = n /\ r.ip = a /\ accepted[n][a] # 0
      <3>1. accepted'[n][a] \notin {0, 1}
        BY <1>0, <2>4, <2>7
      <3> QED
        BY <3>1 DEF First
    <2> QED
      BY <2>5, <2>6, <2>7
  <1>8. ASSUME NEW r \in applying, ApplyEntry(r) PROVE First(n, a)'
    <2>1. r.to \in Node /\ r.ip \in Addr /\ Expiry(r) \in Nat \ {0}
      BY ExpiryType, ConstantsOK DEF TypeOK, Report
    <2>2. /\ UNCHANGED <<accepted, expired, block, lifted>>
          /\ applying' = applying \ {r}
          /\ entries'[n][a] = IF r.to = n /\ r.ip = a THEN Expiry(r) ELSE entries[n][a]
      BY <1>8, <2>1 DEF ApplyEntry, TypeOK
    <2>3. CASE ~(r.to = n /\ r.ip = a)
      <3>1. Waiting(n, a)' = Waiting(n, a)
        BY <2>2, <2>3 DEF Waiting
      <3> QED
        BY <1>1, <2>2, <2>3, <3>1
    <2>4. CASE r.to = n /\ r.ip = a
      <3>1. r \in Waiting(n, a) /\ Waiting(n, a)' = Waiting(n, a) \ {r}
        BY <2>2, <2>4 DEF Waiting
      <3>2. CASE accepted[n][a] = 1
        <4>1. Waiting(n, a)' = {}
          BY <1>0, <3>1, <3>2 DEF First
        <4> QED
          BY <1>0, <2>1, <2>2, <2>4, <3>1, <3>2, <4>1 DEF First
      <3>3. CASE accepted[n][a] # 1
        BY <1>0, <2>2, <3>1, <3>3 DEF First
      <3> QED
        BY <3>2, <3>3
    <2> QED
      BY <2>3, <2>4
  <1>9. ASSUME NEW m \in Node, SweepCollect(m) PROVE First(n, a)'
    <2>1. /\ UNCHANGED <<accepted, block, lifted>>
          /\ Waiting(n, a)' = Waiting(n, a)
          /\ expired'[n] = IF m = n THEN Due(n) ELSE expired[n]
          /\ entries'[n][a] = IF m = n /\ a \in Due(n) THEN 0 ELSE entries[n][a]
          /\ m = n => expired[n] = {}
      BY <1>9 DEF SweepCollect, Without, Waiting, TypeOK
    <2>2. a \in Due(n) => entries[n][a] # 0
      BY DEF Due
    <2> QED
      BY <1>0, <2>1, <2>2 DEF First
  <1>10. ASSUME NEW m \in Node, NEW b \in Addr, SweepUnblock(m, b)
         PROVE  First(n, a)'
    <2>1. /\ UNCHANGED <<accepted, entries, lifted>>
          /\ Waiting(n, a)' = Waiting(n, a)
          /\ b \in expired[m]
      BY <1>10 DEF SweepUnblock, Waiting
    <2>2. /\ a \in expired'[n] <=> a \in expired[n] /\ ~(m = n /\ b = a)
          /\ ~(m = n /\ b = a) => block'[n][a] = block[n][a]
      BY <1>10 DEF SweepUnblock, TypeOK
    <2>3. CASE m = n /\ b = a
      BY <1>0, <2>1, <2>2, <2>3 DEF First
    <2>4. CASE ~(m = n /\ b = a)
      BY <1>1, <2>1, <2>2, <2>4
    <2> QED
      BY <2>3, <2>4
  <1> QED
    BY <1>2, <1>3, <1>4, <1>5, <1>6, <1>7, <1>8, <1>9, <1>10 DEF Next

\* An address one report has named is enforced for as long as List shows it,
\* unless an operator lifted it, in any fleet and whatever blocks, sweeps and
\* crashes interleave with the report.
THEOREM FirstReportCorrect == Spec => []FirstReportEnforced
  <1>1. Init => FirstInv
    BY DEF Init, FirstInv, Nothing, Waiting
  <1>2. TypeOK /\ FirstInv /\ [Next]_vars => FirstInv'
    BY FirstStep
  <1>3. FirstInv => FirstReportEnforced
    BY DEF FirstInv, FirstReportEnforced
  <1> QED
    BY <1>1, <1>2, <1>3, TypeCorrect, PTL DEF Spec

-----------------------------------------------------------------------------
(* The backends on Windows and macOS. *)

\* Listed is enforced, while the daemon runs, and enforced is listed or left
\* behind by an earlier life.
Agree(t) ==
  /\ up = "up" /\ t \in mirror => os[t] > 0
  /\ os[t] > 0 => t \in mirror \cup left

CallType ==
  [at : {"idle", "command", "record", "observe"}, t : Target \cup {"none"},
   do : {"none", "block", "unblock"}, alone : BOOLEAN]

BackendType ==
  /\ scope \subseteq Target
  /\ platform \in {"windows", "darwin"} /\ up \in {"up", "closing", "down"}
  /\ os \in [Target -> Nat] /\ mirror \subseteq Target
  /\ call \in [Caller -> CallType]
  /\ toClose \subseteq Target /\ left \subseteq Target /\ mixed \subseteq Target

Recording(t) == \E c \in Caller : call[c].at = "record" /\ call[c].t = t

\* A call none has crossed is the only one on its target, in a daemon that is
\* not closing; any other has its target among the mixed ones.
OneEach ==
  \A c \in Caller : call[c].at # "idle" =>
    /\ call[c].t \in Target /\ call[c].do \in {"block", "unblock"}
    /\ call[c].alone => /\ up = "up"
                        /\ \A d \in Caller : call[d].at # "idle" /\ call[d].t = call[c].t => d = c
    /\ ~call[c].alone => call[c].t \in mixed

IdleCalls == \A c \in Caller : call[c].at = "idle" => call[c].t = "none"

\* What the command of an uncrossed call did is there when it records it.
CommandHolds ==
  \A c \in Caller : call[c].at = "record" /\ call[c].alone =>
    IF call[c].do = "block" THEN os[call[c].t] > 0 ELSE os[call[c].t] = 0

Settled ==
  \A t \in Target \ mixed : t \notin toClose /\ ~Recording(t) => Agree(t)

\* A closing daemon has noted what it leaves enforced.
NotedLeft ==
  up = "closing" =>
    \A t \in Target \ mixed : t \notin toClose /\ os[t] > 0 => t \in left

Phases ==
  /\ up # "closing" => toClose = {}
  /\ up = "down" =>
       mirror = {} /\ mixed = {} /\ \A c \in Caller : call[c].at = "idle"

BackendInv ==
  BackendType /\ OneEach /\ IdleCalls /\ CommandHolds /\ Settled /\ NotedLeft /\ Phases


-----------------------------------------------------------------------------
(* The map: what the page has drawn, and what its stream still reaches. *)
-----------------------------------------------------------------------------
(* The map.  The ring and what is sent of it are runs of sequence numbers. *)

\* s counts on from b.
IsRun(s, b) == s \in Seq(Nat) /\ \A i \in 1 .. Len(s) : s[i] = b + i

PageType ==
  [at : {"closed", "asked", "open", "broken"}, snap : Seq(Nat), seen : Nat, url : Nat,
   cursor : Nat, drawn : Seq(Nat), base : Nat, lost : SUBSET Nat, old : BOOLEAN]

\* The ring is the newest of the events, and all of them until it is full.
RingHolds ==
  /\ seq \in Nat /\ IsRun(events, seq - Len(events))
  /\ Len(events) <= Ring /\ Len(events) <= seq
  /\ Len(events) < Ring => Len(events) = seq

\* The events are drawn in their order, up to the newest seen.
InOrder ==
  /\ \A i, j \in 1 .. Len(page.drawn) : i < j => page.drawn[i] < page.drawn[j]
  /\ \A i \in 1 .. Len(page.drawn) : page.drawn[i] <= page.seen

Covered ==
  ~page.old => (page.base + 1) .. page.seen \subseteq Range(page.drawn) \cup page.lost

\* A page with a stream stands before what the ring still holds, or knows what
\* it has lost; wherever its stream is reopened, that is before what it has seen.
InReach ==
  page.at \in {"open", "broken"} /\ ~page.old =>
    /\ page.url <= page.seen /\ page.cursor <= page.seen /\ page.seen <= seq
    /\ \A e \in (page.base + 1) .. (seq - Len(events)) : page.seen < e => e \in page.lost

\* A page without one has drawn nothing; the snapshot it waits for is a run.
Asking ==
  /\ page.at \in {"closed", "asked"} => page.drawn = <<>> /\ page.seen = 0
  /\ page.at = "asked" => IsRun(page.snap, page.base) /\ page.base + Len(page.snap) <= seq

MapInv == page \in PageType /\ RingHolds /\ InOrder /\ Covered /\ InReach /\ Asking


LEMMA BackendStarts == BackendInit => BackendInv
  <1> SUFFICES ASSUME BackendInit PROVE BackendInv
    OBVIOUS
  <1>1. scope \subseteq Target
    BY OsConstantsOK DEF BackendInit, Target
  <1> QED
    BY <1>1 DEF BackendInit, BackendInv, BackendType, CallType, NoCall, OneEach, IdleCalls,
       CommandHolds, Settled, Agree, NotedLeft, Phases, Recording

\* A call begins: whom it crosses is mixed from here on.
LEMMA BeginStep ==
  ASSUME BackendInv, NEW c \in Caller, NEW t \in scope,
         NEW do \in {"block", "unblock"}, Begin(c, t, do)
  PROVE  BackendInv'
  <1> USE DEF BackendInv, BackendType, Begin
  <1> DEFINE crosses == Busy(t) \/ up = "closing"
  <1>1. /\ UNCHANGED <<platform, scope, up, os, mirror, toClose, left>>
        /\ up # "down" /\ call[c] = NoCall /\ t \in Target
        /\ mixed' = IF crosses THEN mixed \cup {t} ELSE mixed
    OBVIOUS
  <1>2. /\ call' = [Crossed({t}) EXCEPT ![c] =
             [at |-> "command", t |-> t, do |-> do, alone |-> ~crosses]]
        /\ DOMAIN Crossed({t}) = Caller
        /\ \A d \in Caller : Crossed({t})[d] =
             IF call[d].t = t THEN [call[d] EXCEPT !.alone = FALSE] ELSE call[d]
    BY DEF Crossed
  <1> HIDE DEF Begin, crosses
  <1>3. PICK b \in BOOLEAN : b <=> ~crosses
    BY Zenon
  <1>12. call'[c] = [at |-> "command", t |-> t, do |-> do, alone |-> b]
    <2>1. call'[c] = [at |-> "command", t |-> t, do |-> do, alone |-> ~crosses]
      BY <1>2, Zenon
    <2>2. b = ~crosses
      BY <1>3, Zenon
    <2> QED
      BY <2>1, <2>2, Zenon
  <1>13. \A d \in Caller : d # c => call'[d] =
             IF call[d].t = t THEN [call[d] EXCEPT !.alone = FALSE] ELSE call[d]
    BY <1>2, Zenon
  <1>14. \A d \in Caller : call[d] \in CallType
    OBVIOUS
  <1>15. ASSUME NEW d \in Caller, d # c
         PROVE  /\ call'[d].at = call[d].at /\ call'[d].t = call[d].t
                /\ call'[d].do = call[d].do /\ call'[d] \in CallType
                /\ call'[d].alone => call[d].alone /\ call[d].t # t
                /\ ~call'[d].alone => ~call[d].alone \/ call[d].t = t
    BY <1>13, <1>14, <1>15 DEF CallType
  <1>16. /\ call'[c].at = "command" /\ call'[c].t = t /\ call'[c].do = do
         /\ call'[c] \in CallType /\ (call'[c].alone <=> ~crosses)
    BY <1>1, <1>3, <1>12 DEF CallType
  <1>4. BackendType'
    <2>1. ASSUME NEW d \in Caller PROVE call'[d] \in CallType
      BY <1>15, <1>16
    <2>2. DOMAIN call' = Caller /\ call' = [d \in Caller |-> call'[d]]
      BY <1>2
    <2> QED
      BY <1>1, <2>1, <2>2
  <1>5. OneEach'
    <2> SUFFICES ASSUME NEW d \in Caller, call'[d].at # "idle"
                 PROVE  /\ call'[d].t \in Target /\ call'[d].do \in {"block", "unblock"}
                        /\ call'[d].alone =>
                             /\ up = "up"
                             /\ \A e \in Caller :
                                  call'[e].at # "idle" /\ call'[e].t = call'[d].t => e = d
                        /\ ~call'[d].alone => call'[d].t \in mixed'
      BY <1>1 DEF OneEach, Target
    <2>1. CASE d = c
      <3>1. CASE crosses
        BY <1>1, <1>16, <2>1, <3>1
      <3>2. CASE ~crosses
        <4>1. up = "up" /\ \A e \in Caller : call[e].t # t
          BY <1>1, <3>2 DEF Busy, crosses
        <4>2. \A e \in Caller : e # c => call'[e].t # t
          BY <1>15, <4>1
        <4> QED
          BY <1>1, <1>16, <2>1, <3>2, <4>1, <4>2
      <3> QED
        BY <3>1, <3>2
    <2>2. CASE d # c
      BY <1>1, <1>15, <1>16, <2>2 DEF OneEach, Busy, crosses
    <2> QED
      BY <2>1, <2>2
  <1>6. IdleCalls'
    BY <1>15, <1>16 DEF IdleCalls
  <1>7. CommandHolds'
    BY <1>1, <1>15, <1>16 DEF CommandHolds
  <1>9. \A u \in Target : Recording(u) => Recording(u)'
    BY <1>1, <1>15 DEF Recording, NoCall
  <1>10. Settled'
    BY <1>1, <1>9 DEF Settled, Agree, Target
  <1>11. NotedLeft' /\ Phases'
    BY <1>1 DEF NotedLeft, Phases, Target
  <1> QED
    BY <1>4, <1>5, <1>6, <1>7, <1>10, <1>11

\* A call returns, or goes on to its next stage.
LEMMA ReturnType ==
  ASSUME BackendType, NEW c \in Caller, Return(c)
  PROVE  /\ call' \in [Caller -> CallType]
         /\ \A d \in Caller : d # c => call'[d] = call[d]
         /\ call'[c].at = "idle" /\ call'[c].t = "none"
  BY DEF BackendType, Return, NoCall, CallType

LEMMA SetType ==
  ASSUME BackendType, NEW c \in Caller,
         NEW stage \in {"idle", "command", "record", "observe"}, Set(c, stage)
  PROVE  /\ call' \in [Caller -> CallType]
         /\ \A d \in Caller : d # c => call'[d] = call[d]
         /\ call'[c].at = stage /\ call'[c].t = call[c].t /\ call'[c].do = call[c].do
         /\ call'[c].alone = call[c].alone
  BY DEF BackendType, Set, CallType

\* The command of a call, which only a crossed one shares its target with.
LEMMA CommandStep ==
  ASSUME BackendInv, NEW c \in Caller, Command(c) PROVE BackendInv'
  <1> USE DEF BackendInv
  <1>1. /\ call[c].at = "command" /\ call[c].t \in Target
        /\ UNCHANGED <<platform, scope, up, mirror, toClose, left, mixed>>
    BY DEF Command, OneEach
  <1> DEFINE t == call[c].t
  <1>2. CASE Return(c) /\ os' = os
    <2>1. /\ call' \in [Caller -> CallType]
          /\ \A d \in Caller : d # c => call'[d] = call[d]
          /\ call'[c].at = "idle" /\ call'[c].t = "none"
      BY <1>2, ReturnType
    <2>2. BackendType' /\ OneEach' /\ IdleCalls' /\ CommandHolds'
      BY <1>1, <1>2, <2>1 DEF BackendType, OneEach, IdleCalls, CommandHolds, Target
    <2>3. \A u \in Target : Recording(u)' <=> Recording(u)
      BY <1>1, <2>1 DEF Recording
    <2>4. Settled'
      BY <1>1, <1>2, <2>3 DEF Settled, Agree, Target
    <2>5. NotedLeft' /\ Phases'
      BY <1>1, <1>2, <2>1 DEF NotedLeft, Phases, Target
    <2> QED
      BY <2>2, <2>4, <2>5
  <1>3. ASSUME NEW n \in Nat, Set(c, "record"), os' = [os EXCEPT ![t] = n],
               IF call[c].do = "block" THEN n > 0 ELSE n = 0
        PROVE  BackendInv'
    <2>1. /\ call' \in [Caller -> CallType]
          /\ \A d \in Caller : d # c => call'[d] = call[d]
          /\ call'[c].at = "record" /\ call'[c].t = t /\ call'[c].do = call[c].do
          /\ call'[c].alone = call[c].alone
      BY <1>3, SetType
    <2>2. os' \in [Target -> Nat] /\ os'[t] = n
          /\ \A u \in Target : u # t => os'[u] = os[u]
      BY <1>1, <1>3 DEF BackendType
    <2>3. BackendType' /\ OneEach' /\ IdleCalls'
      BY <1>1, <2>1, <2>2 DEF BackendType, OneEach, IdleCalls, Target
    <2>4. CommandHolds'
      <3> SUFFICES ASSUME NEW d \in Caller, call'[d].at = "record", call'[d].alone
                   PROVE  IF call'[d].do = "block" THEN os'[call'[d].t] > 0
                                                   ELSE os'[call'[d].t] = 0
        BY DEF CommandHolds
      <3>1. CASE d = c
        BY <1>3, <2>1, <2>2, <3>1
      <3>2. CASE d # c
        <4>1. call'[d] = call[d] /\ call[d].t # t /\ call[d].t \in Target
          BY <1>1, <2>1, <3>2 DEF OneEach
        <4> QED
          BY <2>2, <4>1 DEF CommandHolds
      <3> QED
        BY <3>1, <3>2
    <2>5. \A u \in Target : Recording(u) \/ u = t => Recording(u)'
      BY <1>1, <2>1 DEF Recording
    <2>6. Settled'
      <3> SUFFICES ASSUME NEW u \in Target, u \notin mixed, u \notin toClose,
                          ~Recording(u)'
                   PROVE  Agree(u)'
        BY <1>1 DEF Settled, Target
      <3>1. u # t /\ ~Recording(u)
        BY <2>5
      <3>2. Agree(u)
        BY <3>1 DEF Settled
      <3> QED
        BY <1>1, <2>2, <3>1, <3>2 DEF Agree
    <2>7. NotedLeft'
      BY <1>1, <2>2 DEF NotedLeft, OneEach, Target
    <2>8. Phases'
      BY <1>1, <2>1 DEF Phases
    <2> QED
      BY <2>3, <2>4, <2>6, <2>7, <2>8
  <1>4. CASE /\ call[c].do = "block" /\ os' = [os EXCEPT ![t] = Copies(t)]
             /\ Set(c, "record")
    <2>1. Copies(t) \in Nat /\ Copies(t) > 0
      BY <1>1 DEF Copies, AddWindows, AddDarwin, BackendType
    <2> QED
      BY <1>3, <1>4, <2>1
  <1>5. CASE /\ call[c].do = "unblock" /\ os' = [os EXCEPT ![t] = 0]
             /\ Set(c, "record")
    BY <1>3, <1>5
  <1> QED
    BY <1>2, <1>4, <1>5 DEF Command

\* The mirror: an uncrossed call puts it in step with the rules.
LEMMA RecordStep ==
  ASSUME BackendInv, NEW c \in Caller, Record(c) PROVE BackendInv'
  <1> USE DEF BackendInv
  <1> DEFINE t == call[c].t
  <1>1. /\ call[c].at = "record" /\ t \in Target /\ call[c].do \in {"block", "unblock"}
        /\ UNCHANGED <<platform, scope, up, os, toClose>>
        /\ mirror' = IF call[c].do = "block" THEN mirror \cup {t} ELSE mirror \ {t}
        /\ left' = left \ {t}
        /\ mixed' = IF call[c].alone THEN mixed \ {t} ELSE mixed
    BY DEF Record, OneEach
  <1>2. /\ call' \in [Caller -> CallType]
        /\ \A d \in Caller : d # c => call'[d] = call[d]
        /\ \/ call'[c].at = "idle" /\ call'[c].t = "none"
           \/ /\ call'[c].at = "observe" /\ call'[c].t = t /\ call'[c].do = call[c].do
              /\ call'[c].alone = call[c].alone
    BY ReturnType, SetType DEF Record
  <1> HIDE DEF t
  <1>3. BackendType' /\ IdleCalls'
    BY <1>1, <1>2 DEF BackendType, IdleCalls, Target
  <1>4. OneEach'
    <2> SUFFICES ASSUME NEW d \in Caller, call'[d].at # "idle"
                 PROVE  /\ call'[d].t \in Target /\ call'[d].do \in {"block", "unblock"}
                        /\ call'[d].alone =>
                             /\ up = "up"
                             /\ \A e \in Caller :
                                  call'[e].at # "idle" /\ call'[e].t = call'[d].t => e = d
                        /\ ~call'[d].alone => call'[d].t \in mixed'
      BY <1>1 DEF OneEach, Target
    <2>1. \A e \in Caller : call'[e].at # "idle" =>
            /\ call[e].at # "idle" /\ call'[e].t = call[e].t /\ call'[e].do = call[e].do
            /\ call'[e].alone = call[e].alone
      BY <1>1, <1>2 DEF t
    <2>2. ~call[d].alone => call[d].t \in mixed'
      <3>1. CASE call[c].alone /\ d # c
        BY <1>1, <2>1, <3>1 DEF OneEach, t
      <3>2. CASE ~call[c].alone \/ d = c
        BY <1>1, <2>1, <3>2 DEF OneEach
      <3> QED
        BY <3>1, <3>2
    <2> QED
      BY <2>1, <2>2 DEF OneEach
  <1>5. CommandHolds'
    BY <1>1, <1>2 DEF CommandHolds
  <1>6. Settled'
    <2> SUFFICES ASSUME NEW u \in Target, u \notin mixed', u \notin toClose,
                        ~Recording(u)'
                 PROVE  Agree(u)'
      BY <1>1 DEF Settled, Target
    <2>1. CASE u = t
      <3>1. call[c].alone
        BY <1>1, <2>1 DEF OneEach, t
      <3>2. IF call[c].do = "block" THEN os[t] > 0 ELSE os[t] = 0
        BY <1>1, <3>1 DEF CommandHolds, t
      <3> QED
        BY <1>1, <2>1, <3>2 DEF Agree
    <2>2. CASE u # t
      <3>1. u \notin mixed /\ ~Recording(u)
        BY <1>1, <1>2, <2>2 DEF Recording, t
      <3> QED
        BY <1>1, <2>2, <3>1 DEF Settled, Agree
    <2> QED
      BY <2>1, <2>2
  <1>7. NotedLeft'
    <2> SUFFICES ASSUME up = "closing", NEW u \in Target, u \notin mixed',
                        u \notin toClose, os[u] > 0
                 PROVE  u \in left'
      BY <1>1 DEF NotedLeft, Target
    <2>1. ~call[c].alone
      BY <1>1 DEF OneEach
    <2>2. t \in mixed /\ mixed' = mixed
      BY <1>1, <2>1 DEF OneEach, t
    <2> QED
      BY <1>1, <2>2 DEF NotedLeft
  <1>8. Phases'
    BY <1>1, <1>2 DEF Phases
  <1> QED
    BY <1>3, <1>4, <1>5, <1>6, <1>7, <1>8

LEMMA ObserversStep ==
  ASSUME BackendInv, NEW c \in Caller, Observers(c) PROVE BackendInv'
  <1> USE DEF BackendInv
  <1>1. /\ call[c].at = "observe"
        /\ UNCHANGED <<platform, scope, up, os, mirror, toClose, left, mixed>>
    BY DEF Observers
  <1>2. /\ call' \in [Caller -> CallType]
        /\ \A d \in Caller : d # c => call'[d] = call[d]
        /\ call'[c].at = "idle" /\ call'[c].t = "none"
    BY ReturnType DEF Observers
  <1>3. BackendType' /\ OneEach' /\ IdleCalls' /\ CommandHolds'
    BY <1>1, <1>2 DEF BackendType, OneEach, IdleCalls, CommandHolds, Target
  <1>4. \A u \in Target : Recording(u)' <=> Recording(u)
    BY <1>1, <1>2 DEF Recording
  <1>5. Settled' /\ NotedLeft' /\ Phases'
    BY <1>1, <1>2, <1>4 DEF Settled, Agree, NotedLeft, Phases, Target
  <1> QED
    BY <1>3, <1>5

\* Close begins: every call under way is crossed.
LEMMA ClosingStep ==
  ASSUME BackendInv, CloseWindows \/ CloseDarwin PROVE BackendInv'
  <1> USE DEF BackendInv
  <1>1. /\ up = "up" /\ up' = "closing" /\ UNCHANGED <<platform, scope, mirror>>
        /\ mixed' = mixed \cup {t \in Target : Busy(t)}
        /\ \A d \in Caller : call'[d] =
             IF call[d].t \in Target THEN [call[d] EXCEPT !.alone = FALSE] ELSE call[d]
        /\ DOMAIN call' = Caller /\ call' = [d \in Caller |-> call'[d]]
    BY DEF CloseWindows, CloseDarwin, Closing, Crossed
  <1>2. \A d \in Caller : call[d] \in CallType
    BY DEF BackendType
  <1>3. ASSUME NEW d \in Caller
        PROVE  /\ call'[d].at = call[d].at /\ call'[d].t = call[d].t
               /\ call'[d].do = call[d].do /\ call'[d] \in CallType
               /\ call[d].t \in Target => ~call'[d].alone
    BY <1>1, <1>2 DEF CallType
  <1>4. toClose = {} /\ toClose' \subseteq Target
    BY <1>1 DEF Phases, CloseWindows, CloseDarwin, BackendType
  <1>5. /\ os' \in [Target -> Nat] /\ left' \subseteq Target
        /\ \A u \in Target : os'[u] > 0 => os'[u] = os[u]
    BY DEF CloseWindows, CloseDarwin, BackendType
  <1>6. BackendType'
    BY <1>1, <1>3, <1>4, <1>5 DEF BackendType, Target
  <1>7. OneEach' /\ IdleCalls' /\ CommandHolds'
    BY <1>1, <1>3 DEF OneEach, IdleCalls, CommandHolds, Busy, Target
  <1>8. ASSUME NEW u \in Target, u \notin mixed', u \notin toClose', os'[u] > 0
        PROVE  u \in left'
    <2>1. u \notin mixed /\ ~Recording(u)
      BY <1>1, <1>8 DEF Busy, Recording
    <2>2. u \in mirror \cup left
      BY <1>4, <1>5, <1>8, <2>1 DEF Settled, Agree
    <2> QED
      BY <1>5, <1>8, <2>2 DEF CloseWindows, CloseDarwin
  <1>9. Settled' /\ NotedLeft' /\ Phases'
    BY <1>1, <1>8 DEF Settled, Agree, NotedLeft, Phases, Target
  <1> QED
    BY <1>6, <1>7, <1>9

LEMMA CloseOneStep ==
  ASSUME BackendInv, NEW t \in Target, CloseOne(t) PROVE BackendInv'
  <1> USE DEF BackendInv
  <1>1. /\ up = "closing" /\ UNCHANGED <<platform, scope, up, call, mixed>>
        /\ toClose' = toClose \ {t}
    BY DEF CloseOne, Phases
  <1>2. /\ os' \in [Target -> Nat] /\ mirror' \subseteq Target
        /\ left' \subseteq Target /\ left \subseteq left'
        /\ \A u \in Target : u # t => os'[u] = os[u]
        /\ os'[t] = 0 \/ t \in left'
    BY DEF CloseOne, BackendType
  <1>3. BackendType' /\ OneEach' /\ IdleCalls'
    BY <1>1, <1>2 DEF BackendType, OneEach, IdleCalls, Target
  <1>4. CommandHolds'
    BY <1>1 DEF CommandHolds, OneEach
  <1>5. NotedLeft'
    BY <1>1, <1>2 DEF NotedLeft, Target, BackendType
  <1>6. Settled' /\ Phases'
    BY <1>1, <1>5 DEF Settled, Agree, NotedLeft, Phases
  <1> QED
    BY <1>3, <1>4, <1>5, <1>6

\* The process ends, in order or not, and a new one starts.
LEMMA LifeStep ==
  ASSUME BackendInv, Exit \/ Crash \/ Load PROVE BackendInv'
  <1> USE DEF BackendInv
  <1>1. CASE Exit \/ Crash
    <2>1. /\ mirror' = {} /\ toClose' = {} /\ up' = "down" /\ mixed' = {}
          /\ UNCHANGED <<platform, scope, os>>
          /\ call' = [c \in Caller |-> NoCall]
      BY <1>1 DEF Exit, Crash, Gone
    <2>2. left' \subseteq Target /\ \A u \in Target : os[u] > 0 => u \in left'
      <3>1. CASE Crash
        BY <3>1 DEF Crash
      <3>2. CASE Exit
        BY <3>2 DEF Exit, NotedLeft, BackendType
      <3> QED
        BY <1>1, <3>1, <3>2
    <2>3. \A d \in Caller : call'[d].at = "idle" /\ call'[d].t = "none"
      BY <2>1 DEF NoCall
    <2>4. call' \in [Caller -> CallType]
      BY <2>1 DEF NoCall, CallType
    <2>5. BackendType'
      BY <2>1, <2>2, <2>4 DEF BackendType, Target
    <2>6. OneEach' /\ IdleCalls' /\ CommandHolds'
      BY <2>3 DEF OneEach, IdleCalls, CommandHolds
    <2>7. Settled' /\ NotedLeft' /\ Phases'
      BY <2>1, <2>2, <2>3 DEF Settled, Agree, NotedLeft, Phases, Target
    <2> QED
      BY <2>5, <2>6, <2>7
  <1>2. CASE Load
    <2>1. /\ up = "down" /\ up' = "up"
          /\ UNCHANGED <<platform, scope, mirror, call, toClose, mixed>>
          /\ mirror = {} /\ mixed = {} /\ toClose = {}
          /\ \A c \in Caller : call[c].at = "idle"
      BY <1>2 DEF Load, Phases
    <2>2. /\ os' \in [Target -> Nat] /\ left' \subseteq Target
          /\ \A u \in Target : os'[u] > 0 => u \in left'
      <3>1. \A u \in Target : ~Recording(u)
        BY <2>1 DEF Recording
      <3>2. \A u \in Target : os[u] > 0 => u \in left
        BY <2>1, <3>1 DEF Settled, Agree
      <3> QED
        BY <1>2, <3>2 DEF Load, BackendType
    <2> QED
      BY <2>1, <2>2 DEF BackendType, OneEach, IdleCalls, CommandHolds, Settled, Agree,
         NotedLeft, Phases, Target
  <1> QED
    BY <1>1, <1>2

LEMMA BackendStep == ASSUME BackendInv, [BackendNext]_backendVars PROVE BackendInv'
  <1>1. CASE UNCHANGED osVars
    BY <1>1 DEF osVars, BackendInv, BackendType, OneEach, IdleCalls, CommandHolds,
       Settled, Agree, Recording, NotedLeft, Phases, Target
  <1> QED
    BY <1>1, BeginStep, CommandStep, RecordStep, ObserversStep, ClosingStep,
       CloseOneStep, LifeStep DEF BackendNext, backendVars

\* On Windows and on macOS, whatever fails, crosses or crashes: where no call is
\* under way and none crossed another, what is listed is enforced, and what is
\* enforced is listed or was left behind by an earlier life of the daemon.
THEOREM QuietlyAgrees == BackendSpec => []QuietAgrees
  <1>1. BackendInv => QuietAgrees
    BY DEF BackendInv, Settled, Agree, Recording, Busy, QuietAgrees
  <1> QED
    BY <1>1, BackendStarts, BackendStep, PTL DEF BackendSpec

LEMMA Interval ==
  ASSUME NEW m \in Nat, NEW n \in Nat, m <= n
  PROVE  Cardinality((m + 1) .. n) = n - m
  <1>1. m + 1 \in Int /\ n \in Int
    OBVIOUS
  <1>2. Cardinality((m + 1) .. n) = IF m + 1 > n THEN 0 ELSE n - (m + 1) + 1
    BY <1>1, FS_Interval
  <1> QED
    BY <1>2

\* What is newer than n in a run is the end of it.
LEMMA NewerRun ==
  ASSUME NEW s, NEW b \in Int, IsRun(s, b), NEW n \in Int
  PROVE  \E m \in 0 .. Len(s) :
           /\ IsRun(Newer(s, n), b + m) /\ Len(Newer(s, n)) = Len(s) - m
           /\ m > 0 => b + m <= n
           /\ m < Len(s) => b + m >= n
  <1> DEFINE L == Len(s)
             kept == {i \in DOMAIN s : s[i] > n}
             nth(k) == CHOOSE i \in kept : Cardinality({h \in kept : h <= i}) = k
  <1>1. L \in Nat /\ DOMAIN s = 1 .. L /\ \A i \in 1 .. L : s[i] = b + i /\ s[i] \in Nat
    BY DEF IsRun
  <1>2. Newer(s, n) = [k \in 1 .. Cardinality(kept) |-> s[nth(k)]]
    BY DEF Newer
  <1>3. PICK m \in 0 .. L : /\ m > 0 => b + m <= n
                            /\ m < L => b + m >= n
    <2>1. CASE n < b
      BY <1>1, <2>1
    <2>2. CASE b <= n /\ n < b + L
      <3>1. n - b \in 0 .. L /\ b + (n - b) = n
        BY <1>1, <2>2
      <3>2. PICK m \in 0 .. L : m = n - b
        BY <3>1
      <3>3. b + m = n
        BY <3>1, <3>2
      <3> QED
        BY <3>3
    <2>3. CASE n >= b + L
      <3>1. L \in 0 .. L
        BY <1>1
      <3> QED
        BY <1>1, <2>3, <3>1
    <2> QED
      BY <1>1, <2>1, <2>2, <2>3
  <1>4. kept = (m + 1) .. L
    <2>1. ASSUME NEW i \in 1 .. L PROVE s[i] > n <=> i >= m + 1
      <3>1. s[i] = b + i
        BY <1>1
      <3> QED
        BY <1>1, <1>3, <3>1
    <2> QED
      BY <1>1, <1>3, <2>1
  <1> HIDE DEF kept
  <1>5. Cardinality(kept) = L - m
    <2>1. m \in Nat /\ L \in Nat /\ m <= L
      BY <1>1, <1>3
    <2> HIDE DEF L
    <2> QED
      BY <1>4, <2>1, Interval
  <1>6. ASSUME NEW k \in 1 .. L - m PROVE nth(k) = m + k
    <2>1. ASSUME NEW i \in kept PROVE Cardinality({h \in kept : h <= i}) = i - m
      <3>1. /\ {h \in kept : h <= i} = (m + 1) .. i
            /\ m \in Nat /\ i \in Nat /\ m <= i
        BY <1>1, <1>3, <1>4
      <3>2. Cardinality((m + 1) .. i) = i - m
        BY <3>1, Interval
      <3> QED
        BY <3>1, <3>2
    <2>2. m + k \in kept /\ \A i \in kept : i - m = k => i = m + k
      BY <1>1, <1>3, <1>4
    <2>3. Cardinality({h \in kept : h <= m + k}) = k
      BY <1>3, <2>1, <2>2
    <2>4. \A i \in kept : Cardinality({h \in kept : h <= i}) = k => i = m + k
      BY <2>1, <2>2
    <2> QED
      BY <2>2, <2>3, <2>4
  <1> HIDE DEF nth
  <1>7. Newer(s, n) = [k \in 1 .. L - m |-> s[m + k]]
    BY <1>2, <1>5, <1>6
  <1>8. L - m \in Nat /\ \A k \in 1 .. L - m : m + k \in 1 .. L /\ s[m + k] \in Nat
    BY <1>1, <1>3
  <1>9. Newer(s, n) \in Seq(Nat) /\ Len(Newer(s, n)) = L - m
    <2>1. PICK N \in Nat : N = L - m
      BY <1>8
    <2>2. Newer(s, n) \in [1 .. N -> Nat]
      BY <1>7, <1>8, <2>1
    <2> QED
      BY <2>1, <2>2
  <1>10. \A k \in 1 .. L - m : Newer(s, n)[k] = b + m + k
    BY <1>1, <1>3, <1>7, <1>8
  <1>11. IsRun(Newer(s, n), b + m)
    BY <1>9, <1>10 DEF IsRun
  <1> QED
    BY <1>3, <1>9, <1>11
LEMMA MaxOfTwo ==
  ASSUME NEW x \in Int
  PROVE  Max({1, x}) = IF x > 1 THEN x ELSE 1
  BY DEF Max

\* The end of a run, from its m-th element on.
LEMMA EndOfRun ==
  ASSUME NEW s, NEW b \in Int, IsRun(s, b), NEW m \in 0 .. Len(s)
  PROVE  /\ IsRun(SubSeq(s, m + 1, Len(s)), b + m)
         /\ Len(SubSeq(s, m + 1, Len(s))) = Len(s) - m
  <1>1. s \in Seq(Nat) /\ Len(s) \in Nat /\ \A i \in 1 .. Len(s) : s[i] = b + i
    BY DEF IsRun
  <1>2. /\ SubSeq(s, m + 1, Len(s)) \in Seq(Nat)
        /\ Len(SubSeq(s, m + 1, Len(s))) = Len(s) - m
        /\ \A i \in 1 .. Len(s) - m : SubSeq(s, m + 1, Len(s))[i] = s[m + i]
    BY <1>1
  <1>3. \A i \in 1 .. Len(s) - m : m + i \in 1 .. Len(s)
    BY <1>1
  <1> QED
    BY <1>1, <1>2, <1>3 DEF IsRun

\* The last of a run, or n if it is empty.
LEMMA LastOfRun ==
  ASSUME NEW s, NEW b \in Int, IsRun(s, b), NEW n
  PROVE  LastOf(s, n) = IF Len(s) = 0 THEN n ELSE b + Len(s)
  BY DEF LastOf, Last, IsRun

LEMMA EmptyRun ==
  ASSUME NEW s, NEW b, IsRun(s, b)
  PROVE  (s = <<>>) <=> (Len(s) = 0)
  BY DEF IsRun

\* A list longer than the ring keeps its end.
LEMMA KeptRun ==
  ASSUME Ring \in Nat, NEW s, NEW b \in Int, IsRun(s, b), Len(s) > Ring
  PROVE  /\ IsRun(Kept(s), b + (Len(s) - Ring))
         /\ Len(Kept(s)) = Ring
  <1>1. Len(s) \in Nat
    BY DEF IsRun
  <1>2. PICK m \in 0 .. Len(s) : m = Len(s) - Ring
    <2>1. Len(s) - Ring \in 0 .. Len(s)
      BY <1>1
    <2> QED
      BY <2>1, Zenon
  <1>3. Kept(s) = SubSeq(s, m + 1, Len(s))
    BY <1>2 DEF Kept
  <1>4. Len(s) - m = Ring
    BY <1>1, <1>2
  <1> QED
    BY <1>2, <1>3, <1>4, EndOfRun

LEMMA MapStarts == MapInit => MapInv
  BY TopologyConstantsOK DEF MapInit, Closed, MapInv, PageType, RingHolds, IsRun, InOrder,
     Covered, InReach, Asking

\* The ring takes an event; a full one drops its oldest, and the page that had
\* not seen it has lost it.
LEMMA ObserveStep ==
  ASSUME MapInv, Observe
  PROVE  MapInv'
  <1> USE DEF MapInv
  <1>1. /\ Ring \in Nat /\ Ring > 0
        /\ seq \in Nat /\ seq' = seq + 1 /\ events' = Kept(Append(events, seq + 1))
        /\ events \in Seq(Nat) /\ Len(events) \in Nat
        /\ Len(events) <= Ring /\ Len(events) <= seq
        /\ Len(events) < Ring => Len(events) = seq
    BY TopologyConstantsOK DEF RingHolds, Observe, IsRun
  <1>2. IsRun(Append(events, seq + 1), seq - Len(events))
    BY <1>1 DEF RingHolds, IsRun
  <1>3. Len(Append(events, seq + 1)) = Len(events) + 1
    BY <1>1
  <1>4. /\ Len(events) < Ring => Len(events') = Len(events) + 1
        /\ Len(events) = Ring => Len(events') = Ring
        /\ IsRun(events', seq' - Len(events'))
    <2>1. CASE Len(events) < Ring
      <3>1. events' = Append(events, seq + 1)
        BY <1>1, <1>3, <2>1 DEF Kept
      <3>2. seq' - Len(events') = seq - Len(events)
        <4>1. PICK n \in Nat : n = Len(events)
          BY <1>1
        <4>2. Len(events') = n + 1 /\ seq' = seq + 1 /\ seq \in Nat
          BY <1>1, <1>3, <3>1, <4>1
        <4> QED
          BY <4>1, <4>2
      <3> QED
        BY <1>2, <1>3, <2>1, <3>1, <3>2
    <2>2. CASE Len(events) = Ring
      <3>1. PICK s : s = Append(events, seq + 1)
        OBVIOUS
      <3>2. PICK b \in Int : b = seq - Len(events)
        BY <1>1
      <3>5. IsRun(s, b) /\ Len(s) = Ring + 1 /\ Len(s) > Ring
        BY <1>1, <1>2, <1>3, <2>2, <3>1, <3>2
      <3>6. b + (Len(s) - Ring) = seq - Len(events) + 1
        BY <1>1, <3>2, <3>5
      <3>3. /\ IsRun(events', seq - Len(events) + 1)
            /\ Len(events') = Ring
        BY <1>1, <3>1, <3>5, <3>6, KeptRun
      <3>4. Len(events') = Ring /\ seq' - Len(events') = seq - Len(events) + 1
        BY <1>1, <2>2, <3>3
      <3> QED
        BY <2>2, <3>3, <3>4
    <2> QED
      BY <1>1, <2>1, <2>2
  <1>5. Len(events') \in Nat
    BY <1>1, <1>4
  <1>6. RingHolds'
    BY <1>1, <1>4, <1>5 DEF RingHolds
  <1>7. /\ page.at \in {"open", "broken"} /\ seq' - Ring > page.seen =>
             page' = [page EXCEPT !.lost = @ \cup {seq' - Ring}]
        /\ ~(page.at \in {"open", "broken"} /\ seq' - Ring > page.seen) => page' = page
    BY Zenon DEF Observe
  <1>8. page \in PageType
    OBVIOUS
  <1>9. /\ page' \in PageType
        /\ page'.at = page.at /\ page'.snap = page.snap /\ page'.seen = page.seen
        /\ page'.url = page.url /\ page'.cursor = page.cursor /\ page'.drawn = page.drawn
        /\ page'.base = page.base /\ page'.old = page.old
        /\ page.lost \subseteq page'.lost
        /\ page.at \in {"open", "broken"} /\ seq' - Ring > page.seen =>
             seq' - Ring \in page'.lost
    <2>1. page.seen \in Nat
      BY <1>8 DEF PageType
    <2>2. CASE ~(page.at \in {"open", "broken"} /\ seq' - Ring > page.seen)
      BY <1>7, <1>8, <2>2
    <2>3. CASE page.at \in {"open", "broken"} /\ seq' - Ring > page.seen
      <3>1. seq' - Ring \in Nat
        BY <1>1, <2>1, <2>3
      <3>2. page' = [page EXCEPT !.lost = @ \cup {seq' - Ring}]
        BY <1>7, <2>3
      <3> QED
        BY <1>8, <3>1, <3>2 DEF PageType
    <2> QED
      BY <2>2, <2>3
  <1>10. InOrder'
    BY <1>9 DEF InOrder
  <1>11. Covered'
    BY <1>9 DEF Covered
  <1>12. InReach'
    <2> SUFFICES ASSUME page.at \in {"open", "broken"}, ~page.old
                 PROVE  /\ page.url <= page.seen /\ page.cursor <= page.seen
                        /\ page.seen <= seq + 1
                        /\ \A e \in (page.base + 1) .. (seq + 1 - Len(events')) :
                             page.seen < e => e \in page'.lost
      BY <1>1, <1>9 DEF InReach
    <2>1. page.seen \in Nat /\ page.base \in Nat
      BY <1>8 DEF PageType
    <2>2. /\ page.url <= page.seen /\ page.cursor <= page.seen /\ page.seen <= seq
          /\ \A e \in (page.base + 1) .. (seq - Len(events)) : page.seen < e => e \in page.lost
      BY DEF InReach
    <2>3. ASSUME NEW e \in (page.base + 1) .. (seq + 1 - Len(events')), page.seen < e
          PROVE  e \in page'.lost
      <3>1. CASE Len(events) < Ring
        <4>1. seq + 1 - Len(events') = 0
          BY <1>1, <1>4, <3>1
        <4> QED
          BY <2>1, <4>1
      <3>2. CASE Len(events) = Ring
        <4>1. seq + 1 - Len(events') = seq' - Ring /\ seq - Len(events) = seq - Ring
          BY <1>1, <1>4, <3>2
        <4>2. e \in Int /\ e <= seq' - Ring /\ e >= page.base + 1
          BY <1>1, <2>1, <2>3, <4>1
        <4>3. CASE e = seq' - Ring
          BY <1>9, <2>3, <4>3
        <4>4. CASE e # seq' - Ring
          <5>1. e \in (page.base + 1) .. (seq - Ring)
            BY <1>1, <2>1, <4>2, <4>4
          <5> QED
            BY <1>9, <2>2, <2>3, <4>1, <5>1
        <4> QED
          BY <4>3, <4>4
      <3> QED
        BY <1>1, <3>1, <3>2
    <2> QED
      BY <1>1, <2>1, <2>2, <2>3
  <1>13. Asking'
    <2>1. page.base \in Nat /\ page.snap \in Seq(Nat)
      BY <1>8 DEF PageType
    <2> QED
      BY <1>1, <1>9, <2>1 DEF Asking
  <1> QED
    BY <1>6, <1>9, <1>10, <1>11, <1>12, <1>13

\* A page that opens its stream: where it stands, it has all or knows what it lost.
LEMMA OpenPage ==
  ASSUME NEW p \in PageType
  PROVE  /\ Open(p) \in PageType /\ Open(p).at = "open"
         /\ Open(p).url = p.seen /\ Open(p).cursor = p.seen /\ Open(p).seen = p.seen
         /\ Open(p).drawn = p.drawn /\ Open(p).base = p.base /\ Open(p).lost = p.lost
         /\ Open(p).old = p.old
  BY DEF Open, PageType

LEMMA ClosedPage ==
  ASSUME MapInv, page' = Closed, UNCHANGED <<seq, events>>
  PROVE  MapInv'
  <1>1. /\ page' \in PageType /\ page'.at = "closed" /\ page'.drawn = <<>> /\ page'.seen = 0
        /\ page'.base = 0
    BY DEF Closed, PageType
  <1>2. RingHolds'
    BY DEF MapInv, RingHolds
  <1>3. InOrder' /\ Asking' /\ InReach'
    BY <1>1 DEF InOrder, Asking, InReach
  <1>4. Covered'
    BY <1>1 DEF Covered
  <1> QED
    BY <1>1, <1>2, <1>3, <1>4 DEF MapInv

LEMMA ClosedIs ==
  /\ Closed \in PageType /\ Closed.at = "closed" /\ Closed.seen = 0 /\ Closed.drawn = <<>>
  /\ Closed.base = 0
  BY DEF Closed, PageType

LEMMA SnapshotStep ==
  ASSUME MapInv, Snapshot
  PROVE  MapInv'
  <1>1. /\ seq \in Nat /\ events \in Seq(Nat) /\ Len(events) \in Nat /\ Len(events) <= seq
        /\ IsRun(events, seq - Len(events)) /\ Backfill \in Nat /\ Backfill > 0
    BY TopologyConstantsOK DEF MapInv, RingHolds, IsRun
  <1>2. PICK b \in Nat : /\ IsRun(Newest(Backfill), b) /\ b + Len(Newest(Backfill)) = seq
                         /\ b = IF events = <<>> THEN seq ELSE Newest(Backfill)[1] - 1
    <2>1. PICK L \in Nat : L = Len(events)
      BY <1>1
    <2>2. PICK m \in 0 .. L : /\ Max({1, L - Backfill + 1}) = m + 1
                              /\ L > 0 => m < L
      <3>1. L - Backfill + 1 \in Int
        BY <1>1
      <3>2. Max({1, L - Backfill + 1}) = IF L - Backfill + 1 > 1 THEN L - Backfill + 1 ELSE 1
        BY <3>1, MaxOfTwo
      <3>3. CASE L - Backfill > 0
        <4>1. L - Backfill \in 0 .. L
          BY <1>1, <3>3
        <4> QED
          BY <1>1, <3>2, <3>3, <4>1
      <3>4. CASE ~(L - Backfill > 0)
        <4>1. 0 \in 0 .. L
          OBVIOUS
        <4>2. Max({1, L - Backfill + 1}) = 0 + 1
          BY <1>1, <3>2, <3>4
        <4> QED
          BY <4>1, <4>2
      <3> QED
        BY <3>3, <3>4
    <2>3. Newest(Backfill) = SubSeq(events, m + 1, L)
      BY <2>1, <2>2 DEF Newest
    <2>4. PICK a \in Nat : a = seq - L
      <3>1. L <= seq
        BY <1>1, <2>1
      <3>2. seq - L \in Nat
        BY <1>1, <3>1
      <3> QED
        BY <3>2, Zenon
    <2>5. IsRun(events, a) /\ m \in 0 .. Len(events)
      BY <1>1, <2>1, <2>4
    <2>6. IsRun(Newest(Backfill), a + m) /\ Len(Newest(Backfill)) = L - m
      BY <2>1, <2>3, <2>5, EndOfRun
    <2>7. a + m \in Nat /\ a + m + (L - m) = seq
      BY <1>1, <2>4
    <2>8. a + m = IF events = <<>> THEN seq ELSE Newest(Backfill)[1] - 1
      <3>1. CASE events = <<>>
        BY <1>1, <2>1, <2>4, <3>1
      <3>2. CASE events # <<>>
        <4>1. L > 0
          BY <1>1, <2>1, <3>2
        <4>2. 1 \in 1 .. L - m
          BY <2>2, <4>1
        <4>3. Newest(Backfill)[1] = a + m + 1
          BY <2>6, <4>2 DEF IsRun
        <4> QED
          BY <2>7, <3>2, <4>3
      <3> QED
        BY <3>1, <3>2
    <2> QED
      BY <2>6, <2>7, <2>8
  <1>3. page' = [Closed EXCEPT !.at = "asked", !.snap = Newest(Backfill), !.base = b]
    BY <1>2 DEF Snapshot
  <1>4. Newest(Backfill) \in Seq(Nat)
    BY <1>2 DEF IsRun
  <1>5. /\ page' \in PageType /\ page'.at = "asked" /\ page'.drawn = <<>> /\ page'.seen = 0
        /\ page'.base = b /\ page'.snap = Newest(Backfill)
    BY <1>3, <1>4, ClosedIs DEF PageType
  <1>6. UNCHANGED <<seq, events>>
    BY DEF Snapshot
  <1>7. RingHolds'
    BY <1>6 DEF MapInv, RingHolds
  <1>8. InOrder' /\ Covered' /\ InReach'
    BY <1>5 DEF InOrder, Covered, InReach
  <1>9. Asking'
    BY <1>1, <1>2, <1>5, <1>6 DEF Asking
  <1> QED
    BY <1>5, <1>7, <1>8, <1>9 DEF MapInv

\* What was recorded between the two locks is lost, and known to be.
LEMMA LatestSeqStep ==
  ASSUME MapInv, LatestSeq
  PROVE  MapInv'
  <1>1. /\ seq \in Nat /\ page \in PageType /\ page.at = "asked"
        /\ IsRun(page.snap, page.base) /\ page.base + Len(page.snap) <= seq
    BY DEF MapInv, RingHolds, LatestSeq, Asking
  <1>2. page.base \in Nat /\ page.snap \in Seq(Nat) /\ Len(page.snap) \in Nat
    BY <1>1 DEF PageType
  <1>3. LastOf(page.snap, page.base) = page.base + Len(page.snap)
    BY <1>1, <1>2, LastOfRun
  <1>4. (IF seq = 0 THEN LastOf(page.snap, 0) ELSE seq) = seq
    <2>1. CASE seq = 0
      <3>1. Len(page.snap) = 0
        BY <1>1, <1>2, <2>1
      <3> QED
        BY <1>1, <1>2, <2>1, <3>1, LastOfRun
    <2> QED
      BY <2>1
  <1>5. PICK lost \in SUBSET Nat : lost = (page.base + Len(page.snap) + 1) .. seq
    BY <1>1, <1>2
  <1>6. PICK p : p = [page EXCEPT !.seen = seq, !.drawn = page.snap, !.snap = <<>>, !.lost = lost]
    OBVIOUS
  <1>7. page' = Open(p)
    BY <1>3, <1>4, <1>5, <1>6, Zenon DEF LatestSeq
  <1>8. /\ p \in PageType /\ p.seen = seq /\ p.drawn = page.snap /\ p.lost = lost
        /\ p.base = page.base
    <2>1. /\ p.seen = seq /\ p.drawn = page.snap /\ p.lost = lost /\ p.base = page.base
      BY <1>1, <1>6 DEF PageType
    <2>2. p \in PageType
      <3>1. PICK drawn \in Seq(Nat) : drawn = page.snap
        BY <1>2
      <3>4. <<>> \in Seq(Nat)
        OBVIOUS
      <3>2. PICK none \in Seq(Nat) : none = <<>>
        BY <3>4, Zenon
      <3>3. p = [page EXCEPT !.seen = seq, !.drawn = drawn, !.snap = none, !.lost = lost]
        BY <1>6, <3>1, <3>2
      <3> QED
        BY <1>1, <3>3 DEF PageType
    <2> QED
      BY <2>1, <2>2
  <1>9. /\ page' \in PageType /\ page'.at = "open" /\ page'.url = seq /\ page'.cursor = seq
        /\ page'.seen = seq /\ page'.drawn = page.snap /\ page'.base = page.base
        /\ page'.lost = lost
    BY <1>7, <1>8, OpenPage
  <1>10. UNCHANGED <<seq, events>>
    BY DEF LatestSeq
  <1>11. RingHolds' /\ Asking'
    BY <1>9, <1>10 DEF MapInv, RingHolds, Asking
  <1>12. InOrder'
    <2>4. PICK s \in Seq(Nat), b \in Nat, n \in Nat :
            s = page.snap /\ b = page.base /\ n = Len(page.snap)
      BY <1>2, Zenon
    <2>2. b + n <= seq /\ \A i \in 1 .. n : s[i] = b + i
      BY <1>1, <2>4 DEF IsRun
    <2>3. /\ \A i, j \in 1 .. n : i < j => s[i] < s[j]
          /\ \A i \in 1 .. n : s[i] <= seq
      BY <1>1, <2>2
    <2> QED
      BY <1>9, <2>3, <2>4 DEF InOrder
  <1>13. Covered'
    <2>1. ASSUME NEW e \in (page.base + 1) .. seq PROVE e \in Range(page.snap) \cup lost
      <3>1. CASE e > page.base + Len(page.snap)
        BY <1>1, <1>2, <1>5, <3>1
      <3>2. CASE ~(e > page.base + Len(page.snap))
        <4>1. e - page.base \in 1 .. Len(page.snap) /\ page.base + (e - page.base) = e
          BY <1>1, <1>2, <3>2
        <4>2. page.snap[e - page.base] = e /\ e - page.base \in DOMAIN page.snap
          BY <1>1, <1>2, <4>1 DEF IsRun
        <4> QED
          BY <4>2 DEF Range
      <3> QED
        BY <3>1, <3>2
    <2> QED
      BY <1>9, <2>1 DEF Covered
  <1>14. InReach'
    <2>1. Len(events) \in Nat
      BY DEF MapInv, RingHolds, IsRun
    <2>2. \A e \in (page.base + 1) .. (seq - Len(events)) : ~(seq < e)
      BY <1>1, <1>2, <2>1
    <2> QED
      BY <1>1, <1>9, <1>10, <2>2 DEF InReach
  <1> QED
    BY <1>9, <1>11, <1>12, <1>13, <1>14 DEF MapInv

LEMMA StreamOnlyStep ==
  ASSUME MapInv, StreamOnly
  PROVE  MapInv'
  <1>1. /\ seq \in Nat /\ events \in Seq(Nat) /\ Len(events) \in Nat /\ Len(events) <= seq
        /\ \A i \in 1 .. Len(events) : events[i] = seq - Len(events) + i
    BY DEF MapInv, RingHolds, IsRun
  <1>2. PICK b \in Nat : /\ b = seq - Len(events)
                         /\ b = IF events = <<>> THEN seq ELSE events[1] - 1
    BY <1>1
  <1>3. PICK p : p = [Closed EXCEPT !.base = b]
    OBVIOUS
  <1>4. page' = Open(p)
    BY <1>2, <1>3, Zenon DEF StreamOnly
  <1>5. p \in PageType /\ p.seen = 0 /\ p.base = b /\ p.drawn = <<>>
    BY <1>3, ClosedIs DEF PageType
  <1>6. /\ page' \in PageType /\ page'.at = "open" /\ page'.url = 0 /\ page'.cursor = 0
        /\ page'.seen = 0 /\ page'.base = b /\ page'.drawn = <<>>
    BY <1>4, <1>5, OpenPage
  <1>7. UNCHANGED <<seq, events>>
    BY DEF StreamOnly
  <1>8. RingHolds' /\ Asking' /\ InOrder'
    BY <1>6, <1>7 DEF MapInv, RingHolds, Asking, InOrder
  <1>9. Covered'
    BY <1>6 DEF Covered
  <1>10. InReach'
    BY <1>1, <1>2, <1>6, <1>7 DEF InReach
  <1> QED
    BY <1>6, <1>8, <1>9, <1>10 DEF MapInv

\* What the page draws of a tick is a run up to the newest event.  It leaves a
\* gap behind what the page has seen only where the ring begins.
LEMMA TickDraws ==
  ASSUME MapInv, StreamTick
  PROVE  /\ Sent(Since(page.cursor)) = seq
         /\ \E P, Q \in Nat :
              /\ IsRun(Fresh(Since(page.cursor)), P) /\ Len(Fresh(Since(page.cursor))) = Q
              /\ P + Q = seq
              /\ Q > 0 => P >= page.seen
              /\ Q = 0 => seq <= page.seen
              /\ page.cursor <= page.seen /\ page.seen < P => P = seq - Len(events)
  <1>1. seq \in Nat /\ page.seen \in Nat /\ page.cursor \in Nat
    BY DEF MapInv, RingHolds, PageType
  <1>2. PICK L \in Nat : L = Len(events) /\ L <= seq
    BY DEF MapInv, RingHolds, IsRun
  <1>3. PICK B \in Nat : B = seq - L
    <2>1. seq - L \in Nat
      BY <1>1, <1>2
    <2> QED
      BY <2>1, Zenon
  <1>4. IsRun(events, B)
    BY <1>2, <1>3 DEF MapInv, RingHolds
  <1>5. PICK list : list = Since(page.cursor)
    OBVIOUS
  <1>6. PICK m \in 0 .. L : /\ IsRun(list, B + m) /\ Len(list) = L - m
                            /\ m > 0 => B + m <= page.cursor
    <2>1. B \in Int /\ page.cursor \in Int /\ list = Newer(events, page.cursor)
      BY <1>1, <1>5 DEF Since
    <2>2. \E m \in 0 .. Len(events) :
            /\ IsRun(Newer(events, page.cursor), B + m)
            /\ Len(Newer(events, page.cursor)) = Len(events) - m
            /\ m > 0 => B + m <= page.cursor
      BY <1>4, <2>1, NewerRun
    <2> QED
      BY <1>2, <2>1, <2>2
  <1>7. PICK A \in Nat : A = B + m
    BY <1>6
  <1>8. PICK N \in Nat : N = L - m
    BY <1>6
  <1>9. IsRun(list, A) /\ Len(list) = N
    BY <1>6, <1>7, <1>8
  <1>10. N > 0
    <2>1. list # <<>>
      BY <1>5 DEF StreamTick
    <2> QED
      BY <1>8, <1>9, <2>1, EmptyRun
  <1>11. A + N = seq
    BY <1>1, <1>2, <1>3, <1>6, <1>7, <1>8
  <1>12. Sent(list) = seq
    BY <1>9, <1>10, <1>11, LastOfRun DEF Sent
  <1>13. PICK k \in 0 .. N : /\ IsRun(Fresh(list), A + k) /\ Len(Fresh(list)) = N - k
                             /\ k > 0 => A + k <= page.seen
                             /\ k < N => A + k >= page.seen
    <2>1. A \in Int /\ page.seen \in Int /\ Fresh(list) = Newer(list, page.seen)
      BY <1>1 DEF Fresh
    <2>2. \E k \in 0 .. Len(list) :
            /\ IsRun(Newer(list, page.seen), A + k)
            /\ Len(Newer(list, page.seen)) = Len(list) - k
            /\ k > 0 => A + k <= page.seen
            /\ k < Len(list) => A + k >= page.seen
      BY <1>9, <2>1, NewerRun
    <2> QED
      BY <1>9, <2>1, <2>2
  <1>14. PICK P \in Nat : P = A + k
    BY <1>13
  <1>15. PICK Q \in Nat : Q = N - k
    BY <1>13
  <1>16. IsRun(Fresh(list), P) /\ Len(Fresh(list)) = Q
    BY <1>13, <1>14, <1>15
  <1>17. k \in Int /\ N \in Int /\ k <= N /\ 0 <= k
    BY <1>13
  <1>18. /\ P + Q = seq
         /\ Q > 0 => P >= page.seen
         /\ Q = 0 => seq <= page.seen
    BY <1>1, <1>10, <1>11, <1>13, <1>14, <1>15, <1>17
  <1>19. ASSUME page.cursor <= page.seen, page.seen < P PROVE P = seq - Len(events)
    <2>1. k = 0
      BY <1>1, <1>13, <1>14, <1>17, <1>19
    <2>2. m = 0
      BY <1>1, <1>6, <1>7, <1>14, <1>19, <2>1
    <2> QED
      BY <1>2, <1>3, <1>7, <1>14, <2>1, <2>2
  <1> QED
    BY <1>5, <1>12, <1>16, <1>18, <1>19

LEMMA Joined ==
  ASSUME NEW s \in Seq(Nat), NEW t \in Seq(Nat)
  PROVE  /\ Len(s \o t) = Len(s) + Len(t)
         /\ DOMAIN (s \o t) = 1 .. Len(s) + Len(t)
         /\ \A i \in 1 .. Len(s) : (s \o t)[i] = s[i]
         /\ \A i \in 1 .. Len(t) : (s \o t)[Len(s) + i] = t[i]
  OBVIOUS

LEMMA StreamTickStep ==
  ASSUME MapInv, StreamTick
  PROVE  MapInv'
  <1>1. /\ seq \in Nat /\ page \in PageType /\ page.at = "open"
        /\ page.seen \in Nat /\ page.base \in Nat
        /\ page.drawn \in Seq(Nat) /\ Len(page.drawn) \in Nat
        /\ Len(events) \in Nat
    BY DEF MapInv, RingHolds, PageType, StreamTick, IsRun
  <1>2. PICK P, Q \in Nat :
          /\ IsRun(Fresh(Since(page.cursor)), P) /\ Len(Fresh(Since(page.cursor))) = Q
          /\ P + Q = seq
          /\ Q > 0 => P >= page.seen
          /\ Q = 0 => seq <= page.seen
          /\ page.cursor <= page.seen /\ page.seen < P => P = seq - Len(events)
    BY TickDraws
  <1>3. PICK f : f = Fresh(Since(page.cursor))
    OBVIOUS
  <1>4. f \in Seq(Nat) /\ Len(f) = Q /\ \A i \in 1 .. Q : f[i] = P + i
    BY <1>2, <1>3 DEF IsRun
  <1>5. PICK S \in Nat : S = IF Q = 0 THEN page.seen ELSE seq
    BY <1>1
  <1>6. LastOf(f, page.seen) = S
    BY <1>2, <1>3, <1>5, LastOfRun
  <1>7. PICK d \in Seq(Nat) : d = page.drawn \o f
    <2>1. page.drawn \o f \in Seq(Nat)
      BY <1>1, <1>4
    <2> QED
      BY <2>1, Zenon
  <1>8. page' = [page EXCEPT !.cursor = seq, !.drawn = d, !.seen = S]
    <2>1. Sent(Since(page.cursor)) = seq
      BY TickDraws
    <2>2. page' = [page EXCEPT !.cursor = Sent(Since(page.cursor)),
                     !.drawn = page.drawn \o Fresh(Since(page.cursor)),
                     !.seen = LastOf(Fresh(Since(page.cursor)), page.seen)]
      BY Zenon DEF StreamTick
    <2> QED
      BY <1>3, <1>6, <1>7, <2>1, <2>2, Zenon
  <1>9. /\ page' \in PageType /\ page'.at = "open" /\ page'.url = page.url
        /\ page'.cursor = seq /\ page'.seen = S /\ page'.drawn = d
        /\ page'.base = page.base /\ page'.lost = page.lost /\ page'.old = page.old
    BY <1>1, <1>8 DEF PageType
  <1>10. UNCHANGED <<seq, events>>
    BY DEF StreamTick
  <1>11. S >= page.seen /\ (Q > 0 => S = P + Q)
    <2>1. CASE Q = 0
      BY <1>1, <1>5, <2>1
    <2>2. CASE Q # 0
      <3>1. S = P + Q /\ P >= page.seen
        BY <1>2, <1>5, <2>2
      <3> QED
        BY <1>1, <3>1
    <2> QED
      BY <2>1, <2>2
  <1>12. /\ Len(d) = Len(page.drawn) + Q
         /\ \A i \in 1 .. Len(page.drawn) : d[i] = page.drawn[i]
         /\ \A i \in 1 .. Q : d[Len(page.drawn) + i] = P + i
         /\ DOMAIN d = 1 .. Len(page.drawn) + Q
    BY <1>1, <1>4, <1>7, Joined
  <1>13. RingHolds' /\ Asking'
    BY <1>9, <1>10 DEF MapInv, RingHolds, Asking
  <1>14. InOrder'
    <2>1. PICK D \in Nat : D = Len(page.drawn)
      BY <1>1
    <2>2. \A i \in 1 .. D : d[i] \in Nat /\ d[i] <= page.seen
      BY <1>1, <1>12, <2>1 DEF MapInv, InOrder
    <2>3. \A i, j \in 1 .. D : i < j => d[i] < d[j]
      BY <1>1, <1>12, <2>1 DEF MapInv, InOrder
    <2>4. ASSUME NEW i \in 1 .. D + Q, i > D
          PROVE  i - D \in 1 .. Q /\ d[i] = P + (i - D)
      <3>1. i - D \in 1 .. Q /\ D + (i - D) = i
        BY <2>4
      <3> QED
        BY <1>12, <2>1, <3>1
    <2>5. ASSUME NEW i \in 1 .. D + Q PROVE d[i] <= S
      <3>1. CASE i > D
        BY <1>2, <1>11, <2>4, <3>1
      <3>2. CASE ~(i > D)
        BY <1>1, <1>11, <2>2, <3>2
      <3> QED
        BY <3>1, <3>2
    <2>6. ASSUME NEW i \in 1 .. D + Q, NEW j \in 1 .. D + Q, i < j
          PROVE  d[i] < d[j]
      <3>1. CASE i > D
        <4>1. j > D
          BY <2>6, <3>1
        <4> QED
          BY <2>4, <2>6, <3>1, <4>1
      <3>2. CASE i <= D /\ j > D
        BY <1>1, <1>2, <2>2, <2>4, <3>2
      <3>3. CASE j <= D
        BY <2>3, <2>6, <3>3
      <3> QED
        BY <3>1, <3>2, <3>3
    <2>7. Len(d) = D + Q
      BY <1>12, <2>1
    <2> QED
      BY <1>9, <2>5, <2>6, <2>7 DEF InOrder
  <1>15. Covered'
    <2> SUFFICES ASSUME ~page.old, NEW e \in (page.base + 1) .. S
                 PROVE  e \in Range(d) \cup page.lost
      BY <1>9 DEF Covered
    <2>1. e \in Nat /\ e >= page.base + 1 /\ e <= S
      BY <1>1
    <2>2. CASE e <= page.seen
      <3>1. e \in Range(page.drawn) \cup page.lost
        BY <1>1, <2>1, <2>2 DEF MapInv, Covered
      <3>2. CASE e \in Range(page.drawn)
        <4>1. PICK i \in 1 .. Len(page.drawn) : e = page.drawn[i]
          BY <1>1, <3>2 DEF Range
        <4>2. i \in DOMAIN d /\ d[i] = e
          BY <1>1, <1>7, <1>12, <4>1
        <4> QED
          BY <4>2 DEF Range
      <3> QED
        BY <3>1, <3>2
    <2>3. CASE e > page.seen /\ e > P
      <3>1. Q > 0 /\ e <= P + Q
        BY <1>1, <1>2, <1>5, <2>1, <2>3
      <3>2. e - P \in 1 .. Q /\ P + (e - P) = e
        BY <2>1, <2>3, <3>1
      <3>3. PICK D \in Nat : D = Len(page.drawn)
        BY <1>1
      <3>4. D + (e - P) \in 1 .. D + Q
        BY <1>2, <3>2, <3>3
      <3>5. D + (e - P) \in DOMAIN d /\ d[D + (e - P)] = e
        BY <1>12, <3>2, <3>3, <3>4
      <3> QED
        BY <3>5 DEF Range
    <2>4. CASE e > page.seen /\ ~(e > P)
      <3>1. page.cursor <= page.seen /\ page.seen < P
        BY <1>1, <2>1, <2>4 DEF MapInv, InReach
      <3>2. e \in (page.base + 1) .. (seq - Len(events))
        BY <1>1, <1>2, <2>1, <2>4, <3>1
      <3> QED
        BY <1>1, <2>4, <3>2 DEF MapInv, InReach
    <2> QED
      BY <1>1, <2>1, <2>2, <2>3, <2>4
  <1>16. InReach'
    <2> SUFFICES ASSUME ~page.old
                 PROVE  /\ page.url <= S /\ seq <= S /\ S <= seq
                        /\ \A e \in (page.base + 1) .. (seq - Len(events)) :
                             S < e => e \in page.lost
      BY <1>9, <1>10 DEF InReach
    <2>1. /\ page.url <= page.seen /\ page.seen <= seq
          /\ \A e \in (page.base + 1) .. (seq - Len(events)) : page.seen < e => e \in page.lost
      BY <1>1 DEF MapInv, InReach
    <2>2. S = seq
      BY <1>1, <1>2, <1>5, <2>1
    <2>3. page.url \in Nat
      BY <1>1 DEF PageType
    <2> QED
      BY <1>1, <2>1, <2>2, <2>3
  <1> QED
    BY <1>9, <1>13, <1>14, <1>15, <1>16 DEF MapInv

LEMMA BreakStep ==
  ASSUME MapInv, Break \/ Reopen
  PROVE  MapInv'
  <1>1. /\ page \in PageType /\ page.at \in {"open", "broken"} /\ UNCHANGED <<seq, events>>
        /\ page.url \in Nat
    BY DEF MapInv, PageType, Break, Reopen
  <1>2. /\ page' \in PageType /\ page'.at \in {"open", "broken"}
        /\ page'.cursor = page.cursor \/ page'.cursor = page.url
        /\ page'.url = page.url /\ page'.seen = page.seen /\ page'.drawn = page.drawn
        /\ page'.base = page.base /\ page'.lost = page.lost /\ page'.old = page.old
    <2>1. CASE Break
      BY <1>1, <2>1 DEF Break, PageType
    <2>2. CASE Reopen
      BY <1>1, <2>2 DEF Reopen, PageType
    <2> QED
      BY <2>1, <2>2
  <1> QED
    BY <1>1, <1>2 DEF MapInv, RingHolds, InOrder, Covered, InReach, Asking

LEMMA MapStays ==
  ASSUME MapInv, UNCHANGED mapVars
  PROVE  MapInv'
  BY DEF MapInv, mapVars, RingHolds, InOrder, Covered, InReach, Asking

LEMMA BrowseStep ==
  ASSUME MapInv, Browse
  PROVE  MapInv'
  <1>1. CASE Close
    BY <1>1, ClosedPage DEF Close
  <1> QED
    BY <1>1, SnapshotStep, LatestSeqStep, StreamOnlyStep, StreamTickStep, BreakStep DEF Browse

\* A new daemon: what the page had drawn stays in order, and it is old.
LEMMA RestartMapStep ==
  ASSUME MapInv, RestartMap
  PROVE  MapInv'
  <1>1. /\ seq' = 0 /\ events' = <<>> /\ page \in PageType
    BY DEF MapInv, RestartMap
  <1>2. RingHolds'
    BY <1>1, TopologyConstantsOK DEF RingHolds, IsRun
  <1>3. CASE page.at \in {"open", "broken"}
    <2>1. PICK old \in BOOLEAN : old = TRUE
      BY Zenon
    <2>2. /\ page.at = "open" => page' = [page EXCEPT !.at = "broken", !.old = old]
          /\ page.at = "broken" => page' = [page EXCEPT !.old = old]
      <3>1. CASE page.at = "open"
        BY <2>1, <3>1, Zenon DEF RestartMap
      <3>2. CASE page.at = "broken"
        BY <2>1, <3>2 DEF RestartMap
      <3> QED
        BY <3>1, <3>2
    <2>3. /\ page' \in PageType /\ page'.at = "broken" /\ page'.old = old
          /\ page'.drawn = page.drawn /\ page'.seen = page.seen
      BY <1>1, <1>3, <2>2 DEF PageType
    <2>4. page'.old
      BY <2>1, <2>3, Zenon
    <2> QED
      BY <1>2, <2>3, <2>4 DEF MapInv, InOrder, Covered, InReach, Asking
  <1>4. CASE ~(page.at \in {"open", "broken"})
    <2>1. page' = Closed
      BY <1>4, Zenon DEF RestartMap
    <2>2. InOrder' /\ Covered' /\ InReach' /\ Asking' /\ page' \in PageType
      BY <2>1, ClosedIs DEF InOrder, Covered, InReach, Asking
    <2> QED
      BY <1>2, <2>2 DEF MapInv
  <1> QED
    BY <1>3, <1>4

LEMMA MapStep ==
  ASSUME MapInv, [BackendNext]_backendVars
  PROVE  MapInv'
  <1>1. Observe \/ Browse \/ RestartMap \/ UNCHANGED mapVars
    BY DEF BackendNext, Begin, Command, Record, Observers, CloseWindows, CloseOne,
       CloseDarwin, Exit, Crash, Gone, Load, mapVars, backendVars
  <1> QED
    BY <1>1, ObserveStep, BrowseStep, RestartMapStep, MapStays

\* What the invariant says of the page, as the property states it.
LEMMA MapComplete ==
  ASSUME MapInv
  PROVE  StreamComplete
  <1>1. /\ page.drawn \in Seq(Nat) /\ seq \in Nat /\ page.seen \in Nat /\ page.cursor \in Nat
        /\ Len(events) \in Nat /\ Len(events) <= seq
    BY DEF MapInv, PageType, RingHolds, IsRun
  <1>2. \A i, j \in DOMAIN page.drawn : i < j => page.drawn[i] < page.drawn[j]
    <2>1. DOMAIN page.drawn = 1 .. Len(page.drawn)
      BY <1>1
    <2> QED
      BY <2>1 DEF MapInv, InOrder
  <1>3. ~page.old => (page.base + 1) .. page.seen \subseteq Range(page.drawn) \cup page.lost
    BY DEF MapInv, Covered
  <1>4. ASSUME ~page.old, page.at = "open", Since(page.cursor) = <<>>
        PROVE  page.seen = seq
    <2>1. page.cursor <= page.seen /\ page.seen <= seq
      BY <1>4 DEF MapInv, InReach
    <2>2. PICK B \in Int : B = seq - Len(events)
      BY <1>1
    <2>3. IsRun(events, B) /\ page.cursor \in Int
      BY <1>1, <2>2 DEF MapInv, RingHolds
    <2>4. PICK m \in 0 .. Len(events) :
            /\ Len(Newer(events, page.cursor)) = Len(events) - m
            /\ m > 0 => B + m <= page.cursor
      BY <2>3, NewerRun
    <2>5. m = Len(events)
      <3>1. Len(Newer(events, page.cursor)) = 0
        BY <1>4 DEF Since
      <3> QED
        BY <1>1, <2>4, <3>1
    <2>6. CASE Len(events) > 0
      <3>1. seq <= page.cursor
        BY <1>1, <2>2, <2>4, <2>5, <2>6
      <3> QED
        BY <1>1, <2>1, <3>1
    <2>7. CASE Len(events) = 0
      BY <1>1, <2>1, <2>7, TopologyConstantsOK DEF MapInv, RingHolds
    <2> QED
      BY <1>1, <2>6, <2>7
  <1> QED
    BY <1>2, <1>3, <1>4 DEF StreamComplete

\* Whatever streams break, wherever the ring overruns, and whatever daemon the
\* page outlives: the map draws no event twice and in their order, misses none
\* up to the newest it has drawn but those it could no longer get, and has drawn
\* the newest whenever its stream has nothing to send.
THEOREM StreamIsComplete == BackendSpec => []StreamComplete
  <1>1. BackendInit => MapInv
    BY MapStarts DEF BackendInit
  <1>2. MapInv /\ [BackendNext]_backendVars => MapInv'
    BY MapStep
  <1> QED
    BY <1>1, <1>2, MapComplete, PTL DEF BackendSpec
=============================================================================
