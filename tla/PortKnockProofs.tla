--------------------------- MODULE PortKnockProofs ---------------------------
(***************************************************************************)
(* Port knocking keeps its promise for any sequence, any window, any       *)
(* number of sources and of CPUs racing on the knock maps, as long as the  *)
(* configuration stays as it was loaded.                                   *)
(*                                                                         *)
(* The invariant: wherever an index is found, in knock_state or in the     *)
(* registers of a CPU about to advance, that many knocks of the source     *)
(* were seen, in order and in time, the last of them when the index says.  *)
(* A race can lose an index; it cannot make one up.                        *)
(***************************************************************************)
EXTENDS KnockTrail, TLAPS

\* The first i knocks of the sequence, the last of them at time e.
Prefix(s, i, e) ==
  \E t \in [1 .. i -> 0 .. now] :
    /\ t[i] = e
    /\ \A j \in 1 .. i : <<s, cfg.sequence[j], t[j]>> \in syns
    /\ \A j \in 1 .. i - 1 : t[j] <= t[j + 1] /\ t[j + 1] - t[j] <= cfg.window

ProgressEarned ==
  \A s \in Src : progress[s].index > 0 =>
    /\ progress[s].index \in Steps(cfg)
    /\ Prefix(s, progress[s].index, progress[s].last)

ExpectEarned ==
  \A c \in Cpu : pc[c] = "update" /\ pkt[c].expect > 0 =>
    /\ pkt[c].expect \in Steps(cfg)
    /\ \E e \in 0 .. now : InWindow(pkt[c].at, e) /\ Prefix(pkt[c].src, pkt[c].expect, e)

KnockSeen ==
  \A c \in Cpu : pc[c] # "idle" /\ IsKnock(pkt[c].port) =>
    <<pkt[c].src, pkt[c].port, pkt[c].at>> \in syns

KnockInv == TypeOK /\ ProgressEarned /\ ExpectEarned /\ KnockSeen /\ UnlockEarned

LEMMA CfgType ==
  ASSUME TypeOK
  PROVE  /\ Len(cfg.sequence) \in Nat
         /\ Steps(cfg) = 1 .. Len(cfg.sequence)
         /\ cfg.window \in Nat /\ cfg.window > 0
         /\ \A i \in Steps(cfg) : cfg.sequence[i] \in Port
  BY ConfigOK DEF TypeOK, Steps

\* The clock only adds times, the history only adds knocks.
LEMMA PrefixGrows ==
  ASSUME NEW s \in Src, NEW i \in Nat, NEW e, Prefix(s, i, e),
         now \in Nat, now' \in Nat, now <= now',
         syns \subseteq syns', cfg' = cfg
  PROVE  Prefix(s, i, e)'
  <1>1. PICK t \in [1 .. i -> 0 .. now] :
          /\ t[i] = e
          /\ \A j \in 1 .. i : <<s, cfg.sequence[j], t[j]>> \in syns
          /\ \A j \in 1 .. i - 1 :
               t[j] <= t[j + 1] /\ t[j + 1] - t[j] <= cfg.window
    BY DEF Prefix
  <1>2. t \in [1 .. i -> 0 .. now']
    <2>1. 0 .. now \subseteq 0 .. now'
      OBVIOUS
    <2> QED
      BY <1>1, <2>1
  <1> QED
    BY <1>1, <1>2 DEF Prefix

\* One more knock in time makes the prefix one longer.
LEMMA PrefixExtends ==
  ASSUME TypeOK, NEW s \in Src, NEW i \in Nat, i > 0, NEW e \in 0 .. now,
         NEW at \in 0 .. now, Prefix(s, i, e), InWindow(at, e),
         <<s, cfg.sequence[i + 1], at>> \in syns
  PROVE  Prefix(s, i + 1, at)
  <1>1. PICK t \in [1 .. i -> 0 .. now] :
          /\ t[i] = e
          /\ \A j \in 1 .. i : <<s, cfg.sequence[j], t[j]>> \in syns
          /\ \A j \in 1 .. i - 1 :
               t[j] <= t[j + 1] /\ t[j + 1] - t[j] <= cfg.window
    BY DEF Prefix
  <1> DEFINE u == [j \in 1 .. i + 1 |-> IF j = i + 1 THEN at ELSE t[j]]
  <1>2. u \in [1 .. i + 1 -> 0 .. now]
    OBVIOUS
  <1>3. u[i + 1] = at /\ \A j \in 1 .. i : u[j] = t[j]
    OBVIOUS
  <1> HIDE DEF u
  <1>4. \A j \in 1 .. i + 1 : <<s, cfg.sequence[j], u[j]>> \in syns
    <2> TAKE j \in 1 .. i + 1
    <2>1. CASE j = i + 1
      BY <1>3, <2>1
    <2>2. CASE j # i + 1
      <3>1. j \in 1 .. i
        BY <2>2
      <3> QED
        BY <1>1, <1>3, <3>1
    <2> QED
      BY <2>1, <2>2
  <1>5. \A j \in 1 .. (i + 1) - 1 :
          u[j] <= u[j + 1] /\ u[j + 1] - u[j] <= cfg.window
    <2> TAKE j \in 1 .. (i + 1) - 1
    <2>1. CASE j = i
      BY <1>1, <1>3, <2>1 DEF InWindow
    <2>2. CASE j # i
      <3>1. j \in 1 .. i - 1 /\ j + 1 \in 1 .. i /\ j \in 1 .. i
        BY <2>2
      <3> QED
        BY <1>1, <1>3, <3>1
    <2> QED
      BY <2>1, <2>2
  <1> QED
    BY <1>2, <1>3, <1>4, <1>5 DEF Prefix

\* A knock on the first port is a prefix of its own.
LEMMA PrefixStarts ==
  ASSUME NEW s \in Src, NEW at \in 0 .. now, <<s, cfg.sequence[1], at>> \in syns
  PROVE  Prefix(s, 1, at)
  <1> DEFINE u == [j \in 1 .. 1 |-> at]
  <1>1. /\ u \in [1 .. 1 -> 0 .. now] /\ u[1] = at
        /\ \A j \in 1 .. 1 : <<s, cfg.sequence[j], u[j]>> \in syns
        /\ \A j \in 1 .. 1 - 1 :
             u[j] <= u[j + 1] /\ u[j + 1] - u[j] <= cfg.window
    OBVIOUS
  <1> HIDE DEF u
  <1> QED
    BY <1>1 DEF Prefix

\* The whole sequence is the prefix of its length.
LEMMA PrefixIsKnocked ==
  ASSUME TypeOK, NEW s \in Src, NEW e, Len(cfg.sequence) > 0
  PROVE  Prefix(s, Len(cfg.sequence), e) <=> Gate!Knocked(s, cfg, e)
  BY CfgType DEF Prefix, Gate!Knocked
-----------------------------------------------------------------------------
(* What one step does to the quantities the invariant speaks of.            *)

\* The entry a step leaves in knock_state when it advances or starts over.
LEMMA AdvanceIndex ==
  ASSUME TypeOK, NEW c \in Cpu, Advance(c)
  PROVE  \E step \in Steps(cfg), i \in Nat :
           /\ cfg.sequence[step] = pkt[c].port
           /\ progress' = [progress EXCEPT ![pkt[c].src] =
                             [index |-> i, last |-> pkt[c].at]]
           /\ \/ i = step /\ step = pkt[c].expect + 1
              \/ i = 1 /\ step = 1
              \/ i = 0
  <1> DEFINE Written(i) == progress' = [progress EXCEPT ![pkt[c].src] =
                                          [index |-> i, last |-> pkt[c].at]]
  <1>1. PICK step \in MatchedStep(pkt[c].port) :
          \/ ~Hit(step, pkt[c].expect) /\ Written(Restart(step))
          \/ Hit(step, pkt[c].expect) /\ Written(step)
    BY DEF Advance, Entry
  <1>2. step \in Steps(cfg) /\ cfg.sequence[step] = pkt[c].port
    BY DEF MatchedStep
  <1>3. step \in Nat
    BY <1>2, CfgType DEF Steps
  <1> HIDE DEF Written
  <1>4. \/ Written(0)
        \/ Written(1) /\ step = 1
        \/ Written(step) /\ step = pkt[c].expect + 1
    BY <1>1, <1>3 DEF Hit, Restart
  <1> QED
    BY <1>2, <1>3, <1>4 DEF Written

\* A CPU past the lookup has a knock of the source in hand, and the prefix it
\* completes ends with that knock.
LEMMA AdvancePrefix ==
  ASSUME KnockInv, NEW c \in Cpu, pc[c] = "update", IsKnock(pkt[c].port),
         NEW step \in Steps(cfg), cfg.sequence[step] = pkt[c].port,
         step = pkt[c].expect + 1 \/ step = 1
  PROVE  Prefix(pkt[c].src, step, pkt[c].at)
  <1>1. /\ pkt[c].src \in Src /\ pkt[c].at \in 0 .. now /\ pkt[c].expect \in Nat
        /\ <<pkt[c].src, cfg.sequence[step], pkt[c].at>> \in syns
    BY DEF KnockInv, TypeOK, KnockSeen, Packet
  <1>2. CASE step = 1
    BY <1>1, <1>2, PrefixStarts
  <1>3. CASE step # 1
    <2>1. pkt[c].expect > 0 /\ step = pkt[c].expect + 1
      BY <1>1, <1>3, CfgType DEF KnockInv
    <2>2. PICK e \in 0 .. now : InWindow(pkt[c].at, e)
                                /\ Prefix(pkt[c].src, pkt[c].expect, e)
      BY <2>1 DEF KnockInv, ExpectEarned
    <2> QED
      BY <1>1, <2>1, <2>2, PrefixExtends DEF KnockInv
  <1> QED
    BY <1>2, <1>3

\* A step that leaves the entries alone keeps what was earned.
LEMMA EarnedStays ==
  ASSUME KnockInv, TypeOK', now <= now', syns \subseteq syns', cfg' = cfg
  PROVE  /\ progress' = progress => ProgressEarned'
         /\ unlocked' = unlocked => UnlockEarned'
         /\ \A s \in Src, i \in Nat, e \in 0 .. now :
              Prefix(s, i, e) => Prefix(s, i, e)'
  <1>1. now \in Nat /\ now' \in Nat /\ 0 .. now \subseteq 0 .. now'
    BY DEF KnockInv, TypeOK
  <1>2. Steps(cfg)' = Steps(cfg) /\ Steps(cfg) \subseteq Nat
    BY CfgType DEF KnockInv, Steps
  <1>3. ASSUME progress' = progress PROVE ProgressEarned'
    BY <1>1, <1>2, <1>3, PrefixGrows DEF KnockInv, ProgressEarned
  <1>4. ASSUME unlocked' = unlocked PROVE UnlockEarned'
    <2> SUFFICES ASSUME NEW s \in Src, unlocked[s] > 0
                 PROVE  \E e \in 0 .. now' : /\ unlocked[s] = e + 3 * cfg.window
                                             /\ Gate!Knocked(s, cfg, e)'
      BY <1>4 DEF UnlockEarned
    <2>1. PICK e \in 0 .. now : /\ unlocked[s] = e + 3 * cfg.window
                                /\ Gate!Knocked(s, cfg, e)
      BY DEF KnockInv, UnlockEarned
    <2>2. Len(cfg.sequence) > 0 /\ Len(cfg.sequence) \in Nat
      BY <2>1, CfgType DEF KnockInv, Gate!Knocked
    <2>3. Prefix(s, Len(cfg.sequence), e)'
      BY <1>1, <2>1, <2>2, PrefixIsKnocked, PrefixGrows DEF KnockInv
    <2>4. Gate!Knocked(s, cfg, e)'
      BY <2>2, <2>3 DEF Prefix, Gate!Knocked
    <2> QED
      BY <1>1, <2>1, <2>4
  <1>5. \A s \in Src, i \in Nat, e \in 0 .. now :
          Prefix(s, i, e) => Prefix(s, i, e)'
    BY <1>1, PrefixGrows
  <1> QED
    BY <1>3, <1>4, <1>5

LEMMA TypeKept == ASSUME TypeOK, [Next]_vars PROVE TypeOK'
  <1> USE DEF TypeOK
  <1>1. CASE Tick
    <2>1. now' = now + 1 /\ now' \in 0 .. MaxTime /\ 0 .. now \subseteq 0 .. now'
      BY <1>1, ConfigOK DEF Tick
    <2> QED
      BY <1>1, <2>1 DEF Tick, Packet
  <1>3. ASSUME NEW s \in Src, Evict(s) PROVE TypeOK'
    BY <1>3 DEF Evict, Fresh, Packet
  <1>4. ASSUME NEW c \in Cpu, NEW s \in Src, NEW p \in Port, Receive(c, s, p)
        PROVE  TypeOK'
    <2>1. [src |-> s, port |-> p, at |-> now, expect |-> 0] \in Packet
      BY DEF Packet
    <2> QED
      BY <1>4, <2>1 DEF Receive, Packet
  <1>5. ASSUME NEW c \in Cpu, CheckUnlocked(c) PROVE TypeOK'
    BY <1>5 DEF CheckUnlocked, Done, Packet
  <1>6. ASSUME NEW c \in Cpu, LookupProgress(c) PROVE TypeOK'
    <2>1. pkt[c] \in Packet /\ progress[pkt[c].src].index \in Nat
      BY <1>6 DEF LookupProgress, Packet
    <2>2. pkt'[c] \in Packet
      BY <1>6, <2>1 DEF LookupProgress, Packet
    <2> QED
      BY <1>6, <2>2 DEF LookupProgress, Packet
  <1>8. ASSUME NEW c \in Cpu, Advance(c) PROVE TypeOK'
    <2>1. pkt[c] \in Packet
      BY <1>8 DEF Advance
    <2>2. PICK i \in Nat : progress' = [progress EXCEPT ![pkt[c].src] =
                                          [index |-> i, last |-> pkt[c].at]]
      BY <1>8, AdvanceIndex
    <2>3. progress' \in [Src -> [index : Nat, last : 0 .. now]]
      BY <2>1, <2>2 DEF Packet
    <2> QED
      BY <1>8, <2>3 DEF Advance, Done, Packet
  <1>9. ASSUME NEW c \in Cpu, Unlock(c) PROVE TypeOK'
    <2>1. pkt[c] \in Packet
      BY <1>9 DEF Unlock
    <2>2. pkt[c].at \in Nat
      BY <2>1 DEF Packet
    <2>3. cfg.window \in Nat
      BY CfgType
    <2>4. pkt[c].at + 3 * cfg.window \in Nat
      BY <2>2, <2>3
    <2> QED
      BY <1>9, <2>4 DEF Unlock, Packet
  <1>10. ASSUME NEW c \in Cpu, StartAfresh(c) PROVE TypeOK'
    <2>1. pkt[c] \in Packet
      BY <1>10 DEF StartAfresh
    <2>2. progress' \in [Src -> [index : Nat, last : 0 .. now]]
      BY <1>10, <2>1 DEF StartAfresh, Entry, Packet
    <2> QED
      BY <1>10, <2>2 DEF StartAfresh, Done, Packet
  <1>11. CASE UNCHANGED vars
    BY <1>11 DEF vars, Packet
  <1> QED
    BY <1>1, <1>3, <1>4, <1>5, <1>6, <1>8, <1>9, <1>10, <1>11 DEF Next

LEMMA TypeStep == ASSUME KnockInv, [Next]_vars PROVE TypeOK'
  BY TypeKept DEF KnockInv
-----------------------------------------------------------------------------
(* The invariant, conjunct by conjunct.                                     *)

\* Every step only adds to the clock and to the history.
LEMMA OnlyAdds ==
  ASSUME KnockInv, [Next]_vars
  PROVE  now <= now' /\ syns \subseteq syns' /\ cfg' = cfg
  <1>1. now \in Nat
    BY DEF KnockInv, TypeOK
  <1> QED
    BY <1>1 DEF Next, vars, Tick, Evict, Receive, CheckUnlocked,
       LookupProgress, Advance, Unlock, StartAfresh, KnockInv,
       TypeOK

LEMMA ProgressStep ==
  ASSUME KnockInv, [Next]_vars PROVE ProgressEarned'
  <1>1. TypeOK' /\ now <= now' /\ syns \subseteq syns' /\ cfg' = cfg
    BY TypeStep, OnlyAdds
  <1>2. CASE progress' = progress
    BY <1>1, <1>2, EarnedStays
  <1>3. ASSUME NEW s \in Src, Evict(s) PROVE ProgressEarned'
    <2> SUFFICES ASSUME NEW u \in Src, progress'[u].index > 0
                 PROVE  /\ progress'[u].index \in Steps(cfg)'
                        /\ Prefix(u, progress[u].index, progress[u].last)'
      BY DEF ProgressEarned
    <2>1. progress'[u] = progress[u]
      BY <1>3 DEF Evict, Fresh, KnockInv, TypeOK
    <2>2. /\ progress[u].index \in Steps(cfg) /\ progress[u].index \in Nat
          /\ progress[u].last \in 0 .. now
          /\ Prefix(u, progress[u].index, progress[u].last)
      BY <2>1 DEF KnockInv, ProgressEarned, TypeOK
    <2> DEFINE i == progress[u].index
               e == progress[u].last
    <2>3. PICK j \in Nat, f \in 0 .. now : j = i /\ f = e
      BY <2>2
    <2>4. Prefix(u, j, f)'
      BY <1>1, <2>2, <2>3, EarnedStays
    <2>5. j = progress'[u].index /\ f = progress'[u].last
      BY <2>1, <2>3
    <2> QED
      BY <1>1, <2>1, <2>2, <2>4, <2>5 DEF Steps, Prefix
  <1>4. ASSUME NEW c \in Cpu, Advance(c) PROVE ProgressEarned'
    <2>1. pkt[c] \in Packet /\ pc[c] = "update" /\ IsKnock(pkt[c].port)
      BY <1>4 DEF Advance, KnockInv, TypeOK
    <2>2. PICK s \in Src, at \in 0 .. now : s = pkt[c].src /\ at = pkt[c].at
      BY <2>1 DEF Packet
    <2>3. PICK step \in Steps(cfg), i \in Nat :
            /\ cfg.sequence[step] = pkt[c].port
            /\ progress' = [progress EXCEPT ![s] = [index |-> i, last |-> at]]
            /\ \/ i = 0
               \/ i = step /\ (step = pkt[c].expect + 1 \/ step = 1)
      BY <1>4, <2>2, AdvanceIndex DEF KnockInv
    <2>4. ASSUME i > 0 PROVE i \in Steps(cfg) /\ Prefix(s, i, at)
      BY <2>1, <2>2, <2>3, <2>4, AdvancePrefix
    <2>5. ASSUME i > 0 PROVE i \in Steps(cfg) /\ Prefix(s, i, at)'
      BY <1>1, <2>4, <2>5, EarnedStays
    <2>6. ASSUME NEW u \in Src, NEW j \in Nat, NEW f \in 0 .. now,
                 progress[u].index = j, progress[u].last = f, j > 0
          PROVE  j \in Steps(cfg) /\ Prefix(u, j, f)'
      BY <1>1, <2>6, EarnedStays DEF KnockInv, ProgressEarned
    <2>7. progress \in [Src -> [index : Nat, last : 0 .. now]]
      BY DEF KnockInv, TypeOK
    <2>8. ASSUME NEW u \in Src, progress'[u].index > 0
          PROVE  /\ progress'[u].index \in Steps(cfg)'
                 /\ Prefix(u, progress[u].index, progress[u].last)'
      <3>1. CASE u = s
        <4>1. progress'[u].index = i /\ progress'[u].last = at
          BY <2>3, <2>7, <3>1
        <4> QED
          BY <1>1, <2>5, <2>8, <3>1, <4>1 DEF Prefix, Steps
      <3>2. CASE u # s
        <4>1. progress'[u] = progress[u]
          BY <2>3, <2>7, <3>2
        <4>2. PICK j \in Nat, f \in 0 .. now :
                progress'[u].index = j /\ progress'[u].last = f
          BY <2>7, <4>1
        <4>3. j \in Steps(cfg) /\ Prefix(u, j, f)'
          BY <2>6, <2>8, <4>1, <4>2
        <4> QED
          BY <1>1, <4>2, <4>3 DEF Prefix, Steps
      <3> QED
        BY <3>1, <3>2
    <2> QED
      BY <2>8 DEF ProgressEarned
  <1>5. ASSUME NEW c \in Cpu, StartAfresh(c) PROVE ProgressEarned'
    <2>1. \A u \in Src : \/ progress'[u].index = 0
                         \/ progress'[u] = progress[u]
      BY <1>5 DEF StartAfresh, Entry, KnockInv, TypeOK
    <2> SUFFICES ASSUME NEW u \in Src, progress'[u].index > 0
                 PROVE  /\ progress'[u].index \in Steps(cfg)'
                        /\ Prefix(u, progress[u].index, progress[u].last)'
      BY DEF ProgressEarned
    <2>2. progress'[u] = progress[u]
      BY <2>1
    <2>3. PICK j \in Nat, f \in 0 .. now :
            /\ j = progress[u].index /\ f = progress[u].last
            /\ j \in Steps(cfg) /\ Prefix(u, j, f)
      BY <2>2 DEF KnockInv, ProgressEarned, TypeOK
    <2>4. Prefix(u, j, f)'
      BY <1>1, <2>3, EarnedStays
    <2>5. j = progress'[u].index /\ f = progress'[u].last
      BY <2>2, <2>3
    <2> QED
      BY <1>1, <2>3, <2>4, <2>5 DEF Steps, Prefix
  <1> QED
    BY <1>2, <1>3, <1>4, <1>5 DEF Next, vars, Tick, Receive,
       CheckUnlocked, LookupProgress, Unlock

LEMMA ExpectStep ==
  ASSUME KnockInv, [Next]_vars PROVE ExpectEarned'
  <1>1. TypeOK' /\ now <= now' /\ syns \subseteq syns' /\ cfg' = cfg
    BY TypeStep, OnlyAdds
  <1>2. now \in Nat /\ now' \in Nat /\ 0 .. now \subseteq 0 .. now'
    BY <1>1 DEF KnockInv, TypeOK
  <1> SUFFICES ASSUME NEW d \in Cpu, pc'[d] = "update", pkt'[d].expect > 0,
                      NEW s \in Src, NEW i \in Nat, NEW at \in 0 .. now',
                      s = pkt'[d].src, i = pkt'[d].expect, at = pkt'[d].at
               PROVE  /\ i \in Steps(cfg)
                      /\ \E e \in 0 .. now' : InWindow(at, e) /\ Prefix(s, i, e)'
    <2> SUFFICES ASSUME NEW d \in Cpu, pc'[d] = "update", pkt'[d].expect > 0
                 PROVE  /\ pkt'[d].expect \in Steps(cfg)'
                        /\ \E e \in 0 .. now' :
                             InWindow(pkt[d].at, e)'
                             /\ Prefix(pkt[d].src, pkt[d].expect, e)'
      BY DEF ExpectEarned
    <2>1. pkt'[d] \in Packet'
      BY <1>1 DEF TypeOK
    <2>2. PICK s \in Src, i \in Nat, at \in 0 .. now' :
            s = pkt'[d].src /\ i = pkt'[d].expect /\ at = pkt'[d].at
      BY <2>1 DEF Packet
    <2>3. PICK e \in 0 .. now' : InWindow(at, e) /\ Prefix(s, i, e)'
      BY <2>2
    <2>4. i \in Steps(cfg)
      BY <2>2
    <2>5. Steps(cfg)' = Steps(cfg) /\ InWindow(at, e)' = InWindow(at, e)
      BY <1>1 DEF Steps, InWindow
    <2>6. InWindow(pkt[d].at, e)'
      BY <2>2, <2>3, <2>5 DEF InWindow
    <2>7. Prefix(pkt[d].src, pkt[d].expect, e)'
      BY <2>2, <2>3 DEF Prefix
    <2> QED
      BY <2>2, <2>4, <2>5, <2>6, <2>7
  <1>3. CASE pc[d] = "update" /\ pkt'[d] = pkt[d]
    <2>1. PICK e \in 0 .. now : InWindow(at, e) /\ Prefix(s, i, e)
      BY <1>3 DEF KnockInv, ExpectEarned
    <2>2. Prefix(s, i, e)' /\ e \in 0 .. now'
      BY <1>1, <1>2, <2>1, EarnedStays
    <2> QED
      BY <1>3, <2>1, <2>2 DEF KnockInv, ExpectEarned
  <1>4. CASE LookupProgress(d)
    <2>1. /\ pkt'[d] = [pkt[d] EXCEPT !.expect =
                 IF InWindow(pkt[d].at, progress[pkt[d].src].last)
                 THEN progress[pkt[d].src].index ELSE 0]
          /\ pkt[d] \in Packet
      BY <1>4 DEF LookupProgress, KnockInv, TypeOK
    <2>2. s = pkt[d].src /\ at = pkt[d].at /\ InWindow(at, progress[s].last)
          /\ i = progress[s].index /\ i > 0
      BY <2>1 DEF Packet
    <2>3. PICK e \in 0 .. now : e = progress[s].last
      BY DEF KnockInv, TypeOK
    <2>4. i \in Steps(cfg) /\ Prefix(s, i, e)
      BY <2>2, <2>3 DEF KnockInv, ProgressEarned
    <2>5. Prefix(s, i, e)' /\ e \in 0 .. now'
      BY <1>1, <1>2, <2>4, EarnedStays
    <2> QED
      BY <2>2, <2>3, <2>4, <2>5
  <1>5. ASSUME NEW c \in Cpu, LookupProgress(c), c # d
        PROVE  pc[d] = "update" /\ pkt'[d] = pkt[d]
    BY <1>5 DEF LookupProgress, KnockInv, TypeOK
  <1>6. ASSUME NEW c \in Cpu, Done(c)
        PROVE  pc[d] = "update" /\ pkt'[d] = pkt[d]
    BY <1>6 DEF Done, KnockInv, TypeOK
  <1>7. ASSUME NEW c \in Cpu, NEW u \in Src, NEW p \in Port, Receive(c, u, p)
        PROVE  pc[d] = "update" /\ pkt'[d] = pkt[d]
    BY <1>7 DEF Receive, KnockInv, TypeOK
  <1>8. ASSUME pc' = pc, pkt' = pkt
        PROVE  pc[d] = "update" /\ pkt'[d] = pkt[d]
    BY <1>8
  <1>9. ASSUME NEW c \in Cpu, Unlock(c)
        PROVE  pc[d] = "update" /\ pkt'[d] = pkt[d]
    BY <1>9 DEF Unlock, KnockInv, TypeOK
  <1> QED
    BY <1>3, <1>4, <1>5, <1>6, <1>7, <1>8, <1>9 DEF Next, vars, Tick,
       Evict, CheckUnlocked, Advance, StartAfresh

LEMMA SeenStep ==
  ASSUME KnockInv, [Next]_vars PROVE KnockSeen'
  <1>1. syns \subseteq syns' /\ cfg' = cfg
    BY OnlyAdds
  <1>2. \A p \in Port : IsKnock(p)' = IsKnock(p)
    BY <1>1 DEF IsKnock, IsProtected, Enabled, Steps
  <1> SUFFICES ASSUME NEW d \in Cpu, pc'[d] # "idle", IsKnock(pkt[d].port)'
               PROVE  <<pkt'[d].src, pkt'[d].port, pkt'[d].at>> \in syns'
    BY DEF KnockSeen
  <1>3. pkt'[d].port \in Port /\ IsKnock(pkt'[d].port)
    <2>1. pkt'[d] \in Packet'
      BY TypeStep DEF TypeOK
    <2> QED
      BY <1>1, <2>1 DEF Packet, IsKnock, IsProtected, Enabled, Steps
  <1>4. ASSUME pc[d] # "idle", pkt'[d].src = pkt[d].src,
               pkt'[d].port = pkt[d].port, pkt'[d].at = pkt[d].at
        PROVE  <<pkt'[d].src, pkt'[d].port, pkt'[d].at>> \in syns'
    BY <1>1, <1>3, <1>4 DEF KnockInv, KnockSeen
  <1>5. ASSUME NEW c \in Cpu, LookupProgress(c)
        PROVE  <<pkt'[d].src, pkt'[d].port, pkt'[d].at>> \in syns'
    BY <1>4, <1>5 DEF LookupProgress, KnockInv, TypeOK, Packet
  <1>6. ASSUME NEW c \in Cpu, Done(c)
        PROVE  <<pkt'[d].src, pkt'[d].port, pkt'[d].at>> \in syns'
    BY <1>4, <1>6 DEF Done, KnockInv, TypeOK
  <1>7. ASSUME NEW c \in Cpu, NEW u \in Src, NEW p \in Port, Receive(c, u, p)
        PROVE  <<pkt'[d].src, pkt'[d].port, pkt'[d].at>> \in syns'
    BY <1>3, <1>4, <1>7 DEF Receive, KnockInv, TypeOK
  <1>8. ASSUME pc' = pc, pkt' = pkt
        PROVE  <<pkt'[d].src, pkt'[d].port, pkt'[d].at>> \in syns'
    BY <1>4, <1>8
  <1>9. ASSUME NEW c \in Cpu, Unlock(c)
        PROVE  <<pkt'[d].src, pkt'[d].port, pkt'[d].at>> \in syns'
    BY <1>4, <1>9 DEF Unlock, KnockInv, TypeOK
  <1> QED
    BY <1>5, <1>6, <1>7, <1>8, <1>9 DEF Next, vars, Tick, Evict,
       CheckUnlocked, Advance, StartAfresh

\* What an unlock is worth at the moment it is written.
LEMMA UnlockingKnock ==
  ASSUME KnockInv, NEW c \in Cpu, Unlock(c)
  PROVE  \E s \in Src, e \in 0 .. now :
           /\ unlocked' = [unlocked EXCEPT ![s] = e + 3 * cfg.window]
           /\ Gate!Knocked(s, cfg, e)
  <1>1. pkt[c] \in Packet /\ pc[c] = "update" /\ IsKnock(pkt[c].port)
    BY DEF Unlock, KnockInv, TypeOK
  <1>2. PICK s \in Src, e \in 0 .. now : s = pkt[c].src /\ e = pkt[c].at
    BY <1>1 DEF Packet
  <1>3. PICK step \in Steps(cfg) :
          /\ cfg.sequence[step] = pkt[c].port
          /\ step = pkt[c].expect + 1 /\ step >= Len(cfg.sequence)
          /\ unlocked' = [unlocked EXCEPT ![s] = e + 3 * cfg.window]
    BY <1>2 DEF Unlock, MatchedStep, Hit
  <1>4. step = Len(cfg.sequence)
    BY <1>3, CfgType DEF KnockInv
  <1>5. Prefix(s, step, e)
    BY <1>1, <1>2, <1>3, AdvancePrefix
  <1>6. Len(cfg.sequence) > 0
    BY <1>3, CfgType DEF KnockInv
  <1> QED
    BY <1>3, <1>5, <1>6, <1>4, PrefixIsKnocked DEF KnockInv

LEMMA UnlockStep ==
  ASSUME KnockInv, [Next]_vars PROVE UnlockEarned'
  <1>1. TypeOK' /\ now <= now' /\ syns \subseteq syns' /\ cfg' = cfg
    BY TypeStep, OnlyAdds
  <1>2. CASE unlocked' = unlocked
    BY <1>1, <1>2, EarnedStays
  <1>3. ASSUME NEW s \in Src, Evict(s) PROVE UnlockEarned'
    <2>1. /\ now' = now /\ syns' = syns
          /\ \A u \in Src : unlocked'[u] > 0 => unlocked'[u] = unlocked[u]
      BY <1>3 DEF Evict, KnockInv, TypeOK
    <2> QED
      BY <1>1, <2>1 DEF KnockInv, UnlockEarned, Gate!Knocked
  <1>4. ASSUME NEW c \in Cpu, Unlock(c) PROVE UnlockEarned'
    <2>1. PICK s \in Src, e \in 0 .. now :
            /\ unlocked' = [unlocked EXCEPT ![s] = e + 3 * cfg.window]
            /\ Gate!Knocked(s, cfg, e)
      BY <1>4, UnlockingKnock
    <2>2. now' = now /\ syns' = syns
      BY <1>4 DEF Unlock
    <2>3. \A u \in Src, f \in 0 .. now :
            Gate!Knocked(u, cfg, f) => Gate!Knocked(u, cfg, f)'
      BY <1>1, <2>2 DEF Gate!Knocked
    <2>4. \A u \in Src : unlocked'[u] > 0 =>
            \E f \in 0 .. now : /\ unlocked'[u] = f + 3 * cfg.window
                               /\ Gate!Knocked(u, cfg, f)
      <3> TAKE u \in Src
      <3>1. unlocked'[u] = IF u = s THEN e + 3 * cfg.window ELSE unlocked[u]
        BY <2>1 DEF KnockInv, TypeOK
      <3> QED
        BY <2>1, <3>1 DEF KnockInv, UnlockEarned
    <2> QED
      BY <1>1, <2>2, <2>3, <2>4 DEF UnlockEarned
  <1> QED
    BY <1>2, <1>3, <1>4 DEF Next, vars, Tick, Receive,
       CheckUnlocked, LookupProgress, Advance, StartAfresh

LEMMA KnockInit == Init => KnockInv
  <1> SUFFICES ASSUME Init PROVE KnockInv
    OBVIOUS
  <1>1. TypeOK
    BY ConfigOK DEF Init, TypeOK, Fresh, Gate!NoVerdict
  <1> QED
    BY <1>1 DEF Init, KnockInv, ProgressEarned, ExpectEarned, KnockSeen,
                UnlockEarned, Fresh

\* Port knocking opens the protected port for a source only after it knocked
\* the whole sequence, in order and in time, whatever races the CPUs run.
THEOREM UnlockIsEarned == Spec => []UnlockEarned
  <1>1. Init => KnockInv
    BY KnockInit
  <1>2. KnockInv /\ [Next]_vars => KnockInv'
    BY TypeStep, ProgressStep, ExpectStep, SeenStep, UnlockStep DEF KnockInv
  <1>3. KnockInv => UnlockEarned
    BY DEF KnockInv
  <1> QED
    BY <1>1, <1>2, <1>3, PTL DEF Spec
-----------------------------------------------------------------------------
(* The refinement of StealthGate, step by step.                             *)

LEMMA GateStep ==
  ASSUME KnockInv, [Next]_vars
  PROVE  [Gate!Next]_(Gate!vars)
  <1> USE DEF KnockInv, TypeOK
  <1>1. CASE Tick
    BY <1>1 DEF Tick, Gate!Next, Gate!Tick
  <1>3. ASSUME NEW s \in Src, Evict(s) PROVE [Gate!Next]_(Gate!vars)
    <2>1. CASE unlocked' = unlocked
      BY <1>3, <2>1 DEF Evict, Gate!vars
    <2>2. CASE unlocked' # unlocked
      <3>1. Gate!Close(s)
        BY <1>3, <2>2 DEF Evict, Gate!Close
      <3> QED
        BY <3>1 DEF Gate!Next
    <2> QED
      BY <2>1, <2>2
  <1>4. ASSUME NEW c \in Cpu, NEW s \in Src, NEW p \in Port, Receive(c, s, p)
        PROVE  [Gate!Next]_(Gate!vars)
    <2>1. CASE IsKnock(p)
      <3>1. Gate!Syn(s, p)
        BY <1>4, <2>1 DEF Receive, Gate!Syn
      <3> QED
        BY <3>1 DEF Gate!Next
    <2>2. CASE ~IsKnock(p)
      BY <1>4, <2>2 DEF Receive, Gate!vars
    <2> QED
      BY <2>1, <2>2
  <1>5. ASSUME NEW c \in Cpu, CheckUnlocked(c) PROVE [Gate!Next]_(Gate!vars)
    <2>1. pkt[c] \in Packet
      BY <1>5 DEF CheckUnlocked
    <2>2. PICK s \in Src, t \in 0 .. now : s = pkt[c].src /\ t = pkt[c].at
      BY <2>1 DEF Packet
    <2>3. Gate!Decide(s, t)
      BY <1>5, <2>2 DEF CheckUnlocked, Gate!Decide
    <2> QED
      BY <2>3 DEF Gate!Next
  <1>6. ASSUME NEW c \in Cpu, Unlock(c) PROVE [Gate!Next]_(Gate!vars)
    <2>1. PICK s \in Src, e \in 0 .. now :
            /\ unlocked' = [unlocked EXCEPT ![s] = e + 3 * cfg.window]
            /\ Gate!Knocked(s, cfg, e)
      BY <1>6, UnlockingKnock
    <2>2. Gate!Open(s)
      BY <1>6, <2>1 DEF Unlock, Gate!Open, Gate!UnlockTime
    <2> QED
      BY <2>2 DEF Gate!Next
  <1>7. ASSUME NEW c \in Cpu,
               LookupProgress(c) \/ Advance(c) \/ StartAfresh(c)
        PROVE  [Gate!Next]_(Gate!vars)
    BY <1>7 DEF LookupProgress, Advance, StartAfresh, Gate!vars
  <1>8. CASE UNCHANGED vars
    BY <1>8 DEF vars, Gate!vars
  <1> QED
    BY <1>1, <1>3, <1>4, <1>5, <1>6, <1>7, <1>8 DEF Next

\* handle_port_knock implements the gate: every step of the program maps to a
\* step of StealthGate or leaves it where it was.
THEOREM GateRefined == Spec => GateSpec
  <1>1. Init => Gate!Init
    BY DEF Init, Gate!Init
  <1>2. Init => KnockInv
    BY KnockInit
  <1>3. KnockInv /\ [Next]_vars => KnockInv'
    BY TypeStep, ProgressStep, ExpectStep, SeenStep, UnlockStep DEF KnockInv
  <1>4. KnockInv /\ [Next]_vars => [Gate!Next]_(Gate!vars)
    BY GateStep
  <1> QED
    BY <1>1, <1>2, <1>3, <1>4, PTL DEF Spec, GateSpec, Gate!Spec
-----------------------------------------------------------------------------
(* Whoever knocks is let in, on one CPU, when the LRU maps lose nothing and *)
(* the ports of each sequence differ.  A sequence of one port is left out:  *)
(* an index an earlier configuration left behind sends each of its knocks   *)
(* in time back to one, and one is then never a step taken.                 *)

OneAtATime == \A c, d \in Cpu : c = d

Unambiguous ==
  \A k \in Config :
    /\ Len(k.sequence) # 1
    /\ \A i, j \in Steps(k) : k.sequence[i] = k.sequence[j] => i = j

\* The i knocks of s that end with the m-th are the first i of the sequence,
\* each in time.
Run(s, m, i) ==
  /\ i <= m
  /\ \A j \in 1 .. i : trail[s][m - i + j][1] = cfg.sequence[j]
  /\ \A j \in 1 .. i - 1 :
       trail[s][m - i + j + 1][2] - trail[s][m - i + j][2] <= cfg.window

\* The knocks of s whose handling has had its effect: all but the one in hand.
InHand(c, s) ==
  /\ pc[c] \in {"lookup", "update"} /\ IsKnock(pkt[c].port)
  /\ pkt[c].src = s /\ trail[s] # <<>>

Handled(s) == IF \E c \in Cpu : InHand(c, s) THEN Len(trail[s]) - 1
              ELSE Len(trail[s])

TrailType ==
  /\ trail \in [Src -> Seq(Port \X Nat)]
  /\ \A s \in Src : \A j \in 1 .. Len(trail[s]) : trail[s][j][2] <= now
  /\ \A s \in Src : \A j \in 1 .. Len(trail[s]) - 1 :
       trail[s][j][2] <= trail[s][j + 1][2]

NoTrail == \A s \in Src : trail[s] = <<>>

\* c holds the last knock its source sent.
HoldsLast(c) ==
  /\ IsKnock(pkt[c].port)
  /\ trail[pkt[c].src] # <<>>
  /\ trail[pkt[c].src][Len(trail[pkt[c].src])] = <<pkt[c].port, pkt[c].at>>
  /\ pc[c] = "unlocked" => pkt[c].port = cfg.sequence[Len(cfg.sequence)]

\* A packet in hand is the last knock of its source, a packet for the protected
\* port, or older than the configuration.
LastInHand ==
  \A c \in Cpu : pc[c] # "idle" =>
    NoTrail \/ HoldsLast(c) \/ (pc[c] = "lookup" /\ ~IsKnock(pkt[c].port))

\* A run short of the whole is where the program takes its source to be; a whole
\* one has opened the port.
At(s, m, i) ==
  IF i < Len(cfg.sequence)
  THEN progress[s] = [index |-> i, last |-> trail[s][m][2]]
  ELSE unlocked[s] = trail[s][m][2] + 3 * cfg.window

RunSeen ==
  \A s \in Src : \A m \in 0 .. Len(trail[s]), i \in 1 .. Len(cfg.sequence) :
    m = Handled(s) /\ Run(s, m, i) => At(s, m, i)

\* A CPU past the lookup expects the knock that continues the run.
RunExpected ==
  \A c \in Cpu, s \in Src :
    \A m \in 0 .. Len(trail[s]), i \in 1 .. Len(cfg.sequence) :
      /\ pc[c] = "update" /\ pkt[c].src = s /\ Len(trail[s]) = m + 1
      /\ i < Len(cfg.sequence) /\ Run(s, m, i)
      /\ pkt[c].at - trail[s][m][2] <= cfg.window
      => pkt[c].expect = i

TrailInv == TrailType /\ LastInHand /\ RunSeen /\ RunExpected

LEMMA TrailTypeOK ==
  ASSUME TypeOK, [TrailNext]_<<vars, trail>> PROVE TypeOK'
  <1>1. CASE [Next]_vars
    BY <1>1, TypeKept
  <1>2. ASSUME NEW c \in Cpu, Ignore(c) PROVE TypeOK'
    BY <1>2 DEF Ignore, Done, TypeOK, Packet
  <1>3. ASSUME NEW k \in Config, SetKnockConfig(k) PROVE TypeOK'
    BY <1>3 DEF SetKnockConfig, TypeOK, Packet
  <1>4. CASE UNCHANGED <<vars, trail>>
    BY <1>1, <1>4
  <1> QED
    BY <1>1, <1>2, <1>3, <1>4 DEF TrailNext, TrailReceive, Next

\* A knock is appended to the trail of its source.
LEMMA TrailAppend ==
  ASSUME TypeOK, TrailType, NEW c \in Cpu, NEW s \in Src, NEW p \in Port,
         TrailReceive(c, s, p), IsKnock(p)
  PROVE  /\ trail' \in [Src -> Seq(Port \X Nat)]
         /\ Len(trail'[s]) = Len(trail[s]) + 1
         /\ trail'[s][Len(trail[s]) + 1] = <<p, now>>
         /\ \A u \in Src : \A j \in 1 .. Len(trail[u]) : trail'[u][j] = trail[u][j]
         /\ \A u \in Src : u # s => trail'[u] = trail[u]
  <1> DEFINE T == trail[s]
             e == <<p, now>>
  <1>1. T \in Seq(Port \X Nat) /\ e \in Port \X Nat
    BY DEF TrailType, TypeOK
  <1>2. trail' = [trail EXCEPT ![s] = Append(T, e)]
    BY DEF TrailReceive
  <1> HIDE DEF T, e
  <1>3. /\ Append(T, e) \in Seq(Port \X Nat)
        /\ Len(Append(T, e)) = Len(T) + 1
        /\ Append(T, e)[Len(T) + 1] = e
        /\ \A j \in 1 .. Len(T) : Append(T, e)[j] = T[j]
    BY <1>1
  <1> QED
    BY <1>2, <1>3 DEF TrailType, T, e

LEMMA TrailTypeStep ==
  ASSUME TypeOK, TrailType, [TrailNext]_<<vars, trail>> PROVE TrailType'
  <1>0. now \in Nat /\ now' \in Nat /\ now <= now'
    <2>1. now \in Nat
      BY DEF TypeOK
    <2> QED
      BY <2>1 DEF TrailNext, TrailReceive, SetKnockConfig, Tick, Evict, Receive,
         CheckUnlocked, LookupProgress, Ignore, Advance, Unlock, StartAfresh, vars
  <1>1. CASE trail' = trail
    BY <1>0, <1>1 DEF TrailType
  <1>2. CASE trail' = [s \in Src |-> <<>>]
    BY <1>2 DEF TrailType
  <1>3. ASSUME NEW c \in Cpu, NEW s \in Src, NEW p \in Port,
               TrailReceive(c, s, p), IsKnock(p)
        PROVE  TrailType'
    <2> DEFINE n == Len(trail[s])
    <2>1. /\ trail' \in [Src -> Seq(Port \X Nat)]
          /\ Len(trail'[s]) = n + 1
          /\ trail'[s][n + 1] = <<p, now>>
          /\ \A u \in Src : \A j \in 1 .. Len(trail[u]) : trail'[u][j] = trail[u][j]
          /\ \A u \in Src : u # s => trail'[u] = trail[u]
      BY <1>3, TrailAppend
    <2>2. n \in Nat
      BY DEF TrailType
    <2> HIDE DEF n
    <2>3. \A j \in 1 .. n + 1 : trail'[s][j][2] <= now'
      <3> TAKE j \in 1 .. n + 1
      <3>1. CASE j = n + 1
        BY <1>0, <2>1, <3>1
      <3>2. CASE j # n + 1
        <4>1. j \in 1 .. n /\ trail'[s][j] = trail[s][j]
          BY <2>1, <2>2, <3>2 DEF n
        <4>2. trail[s][j][2] <= now /\ trail[s][j][2] \in Nat
          BY <4>1 DEF TrailType, n
        <4> QED
          BY <1>0, <4>1, <4>2
      <3> QED
        BY <3>1, <3>2
    <2>4. \A j \in 1 .. n : trail'[s][j][2] <= trail'[s][j + 1][2]
      <3> TAKE j \in 1 .. n
      <3>1. trail'[s][j] = trail[s][j] /\ trail[s][j][2] <= now
        BY <2>1 DEF TrailType, n
      <3>2. CASE j = n
        BY <2>1, <3>1, <3>2
      <3>3. CASE j # n
        <4>1. j \in 1 .. n - 1 /\ j + 1 \in 1 .. n
          BY <2>2, <3>3
        <4>2. trail'[s][j + 1] = trail[s][j + 1]
          BY <2>1, <4>1 DEF n
        <4> QED
          BY <3>1, <4>1, <4>2 DEF TrailType, n
      <3> QED
        BY <3>2, <3>3
    <2>5. ASSUME NEW u \in Src, u # s
          PROVE  /\ \A j \in 1 .. Len(trail'[u]) : trail'[u][j][2] <= now'
                 /\ \A j \in 1 .. Len(trail'[u]) - 1 :
                      trail'[u][j][2] <= trail'[u][j + 1][2]
      <3>1. trail'[u] = trail[u] /\ trail[u] \in Seq(Port \X Nat)
        BY <2>1, <2>5 DEF TrailType
      <3>2. \A j \in 1 .. Len(trail[u]) :
              trail[u][j][2] <= now /\ trail[u][j][2] \in Nat
        BY <3>1 DEF TrailType
      <3> QED
        BY <1>0, <3>1, <3>2 DEF TrailType
    <2>6. ASSUME NEW u \in Src
          PROVE  /\ \A j \in 1 .. Len(trail'[u]) : trail'[u][j][2] <= now'
                 /\ \A j \in 1 .. Len(trail'[u]) - 1 :
                      trail'[u][j][2] <= trail'[u][j + 1][2]
      <3>1. CASE u = s
        <4>1. Len(trail'[u]) = n + 1 /\ Len(trail'[u]) - 1 = n
          BY <2>1, <2>2, <3>1
        <4> QED
          BY <2>3, <2>4, <3>1, <4>1
      <3>2. CASE u # s
        BY <2>5, <3>2
      <3> QED
        BY <3>1, <3>2
    <2> QED
      BY <2>1, <2>6 DEF TrailType
  <1> QED
    BY <1>1, <1>2, <1>3 DEF TrailNext, TrailReceive, vars

\* A run is a matter of the knocks up to the m-th and the configuration.
LEMMA RunSame ==
  ASSUME cfg' = cfg, NEW s \in Src, NEW m \in Nat, NEW i \in Nat,
         \A j \in 1 .. m : trail'[s][j] = trail[s][j]
  PROVE  Run(s, m, i)' <=> Run(s, m, i)
  <1>1. i <= m => \A j \in 1 .. i : trail'[s][m - i + j] = trail[s][m - i + j]
    OBVIOUS
  <1>2. i <= m => \A j \in 1 .. i - 1 :
          trail'[s][m - i + j + 1] = trail[s][m - i + j + 1]
    OBVIOUS
  <1>3. i <= m => \A j \in 1 .. i - 1 :
          trail'[s][m - i + j] = trail[s][m - i + j]
    BY <1>1
  <1> QED
    BY <1>1, <1>2, <1>3 DEF Run

\* A run one longer continues a run, with a knock in time.
LEMMA RunBefore ==
  ASSUME NEW s \in Src, NEW m \in Nat, NEW i \in Nat, i > 0, m > 0,
         Run(s, m, i)
  PROVE  /\ i <= m /\ trail[s][m][1] = cfg.sequence[i]
         /\ i > 1 => /\ Run(s, m - 1, i - 1)
                     /\ trail[s][m][2] - trail[s][m - 1][2] <= cfg.window
  <1>1. i <= m /\ trail[s][m][1] = cfg.sequence[i]
    <2>1. i \in 1 .. i /\ m - i + i = m
      OBVIOUS
    <2> QED
      BY <2>1 DEF Run
  <1>2. ASSUME i > 1
        PROVE  trail[s][m][2] - trail[s][m - 1][2] <= cfg.window
    <2>1. /\ i - 1 \in 1 .. i - 1
          /\ m - i + (i - 1) = m - 1 /\ m - i + (i - 1) + 1 = m
      BY <1>2
    <2>2. \A j \in 1 .. i - 1 :
            trail[s][m - i + j + 1][2] - trail[s][m - i + j][2] <= cfg.window
      BY DEF Run
    <2>3. trail[s][m - i + (i - 1) + 1][2] - trail[s][m - i + (i - 1)][2] <= cfg.window
      BY <2>1, <2>2
    <2> QED
      BY <2>1, <2>3
  <1>3. ASSUME i > 1 PROVE Run(s, m - 1, i - 1)
    <2>1. i - 1 <= m - 1
      BY <1>1
    <2>2. \A j \in 1 .. i - 1 :
            (m - 1) - (i - 1) + j = m - i + j /\ j \in 1 .. i
      OBVIOUS
    <2>3. \A j \in 1 .. (i - 1) - 1 : j \in 1 .. i - 1
      OBVIOUS
    <2> QED
      BY <2>1, <2>2, <2>3 DEF Run
  <1> QED
    BY <1>1, <1>2, <1>3

\* With no knock sent, nothing is claimed.
LEMMA EmptyTrail ==
  ASSUME \A s \in Src : trail'[s] = <<>>
  PROVE  LastInHand' /\ RunSeen' /\ RunExpected'
  <1>1. \A s \in Src : trail'[s] = <<>> /\ Len(trail'[s]) = 0
    OBVIOUS
  <1>2. LastInHand'
    BY <1>1 DEF LastInHand, NoTrail
  <1>3. RunSeen'
    <2> SUFFICES ASSUME NEW s \in Src, NEW m \in 0 .. Len(trail'[s]),
                        NEW i \in 1 .. Len(cfg'.sequence), Run(s, m, i)'
                 PROVE  FALSE
      BY DEF RunSeen
    <2> QED
      BY <1>1 DEF Run
  <1>4. RunExpected'
    BY <1>1 DEF RunExpected
  <1> QED
    BY <1>2, <1>3, <1>4

\* What was seen of a source stays seen by a step that leaves it alone.
LEMMA SeenStays ==
  ASSUME TypeOK, TrailInv, cfg' = cfg, NEW s \in Src,
         NEW m \in 0 .. Len(trail[s]), m = Handled(s),
         \A j \in 1 .. m : trail'[s][j] = trail[s][j],
         progress'[s] = progress[s], unlocked'[s] = unlocked[s],
         NEW i \in 1 .. Len(cfg.sequence), Run(s, m, i)'
  PROVE  At(s, m, i)'
  <1>1. m \in Nat /\ i \in Nat /\ i > 0
    BY CfgType DEF TrailInv, TrailType
  <1>2. Run(s, m, i)
    BY <1>1, RunSame
  <1>3. At(s, m, i)
    BY <1>2 DEF TrailInv, RunSeen
  <1>4. i <= m
    BY <1>2 DEF Run
  <1>5. trail'[s][m] = trail[s][m]
    BY <1>1, <1>4
  <1> QED
    BY <1>3, <1>5 DEF At

LEMMA CalmStep ==
  ASSUME TypeOK, TypeOK', TrailInv, trail' = trail, cfg' = cfg, progress' = progress,
         unlocked' = unlocked, \A s \in Src : Handled(s)' = Handled(s)
  PROVE  RunSeen'
  <1> SUFFICES ASSUME NEW s \in Src, NEW m \in 0 .. Len(trail[s]),
                      NEW i \in 1 .. Len(cfg.sequence),
                      m = Handled(s), Run(s, m, i)'
               PROVE  At(s, m, i)'
    BY DEF RunSeen
  <1> QED
    BY SeenStays

\* The steps that touch neither the trail nor the maps.
LEMMA QuietSteps ==
  ASSUME OneAtATime, TypeOK, TypeOK', TrailInv,
         \/ Tick \/ UNCHANGED vars
         \/ \E c \in Cpu : CheckUnlocked(c) \/ Ignore(c),
         trail' = trail
  PROVE  LastInHand' /\ RunSeen' /\ RunExpected'
  <1> USE DEF TypeOK, TrailInv
  <1>1. CASE Tick \/ UNCHANGED vars
    <2>1. UNCHANGED <<cfg, progress, unlocked, pc, pkt, trail>>
      BY <1>1 DEF Tick, vars
    <2>2. \A p : IsKnock(p)' = IsKnock(p)
      BY <2>1 DEF IsKnock, IsProtected, Enabled, Steps
    <2>3. \A c, s : InHand(c, s)' = InHand(c, s)
      BY <2>1 DEF InHand, IsKnock, IsProtected, Enabled, Steps
    <2>4. \A s \in Src : Handled(s)' = Handled(s)
      BY <2>1, <2>3 DEF Handled
    <2>5. RunSeen'
      BY <2>1, <2>4, CalmStep
    <2>6. LastInHand'
      BY <2>1 DEF LastInHand, NoTrail, HoldsLast, IsKnock, IsProtected, Enabled, Steps
    <2>7. RunExpected'
      <3> SUFFICES ASSUME NEW c \in Cpu, NEW s \in Src,
                          NEW m \in 0 .. Len(trail[s]), NEW i \in 1 .. Len(cfg.sequence),
                          pc[c] = "update", pkt[c].src = s, Len(trail[s]) = m + 1,
                          i < Len(cfg.sequence), Run(s, m, i)',
                          pkt[c].at - trail[s][m][2] <= cfg.window
                   PROVE  pkt[c].expect = i
        BY <2>1 DEF RunExpected
      <3>1. m \in Nat /\ i \in Nat
        BY CfgType DEF TrailType
      <3>2. Run(s, m, i)
        BY <2>1, <3>1, RunSame
      <3> QED
        BY <3>2 DEF RunExpected
    <2> QED
      BY <2>5, <2>6, <2>7
  <1>2. ASSUME NEW c \in Cpu, CheckUnlocked(c) \/ Ignore(c)
        PROVE  LastInHand' /\ RunSeen' /\ RunExpected'
    <2>1. UNCHANGED <<cfg, progress, unlocked, trail>> /\ Done(c)
      BY <1>2 DEF CheckUnlocked, Ignore
    <2>2. ~IsKnock(pkt[c].port)
      BY <1>2 DEF CheckUnlocked, Ignore, IsKnock
    <2>3. \A d \in Cpu : pc'[d] = "idle"
      BY <2>1 DEF Done, OneAtATime
    <2>4. \A s \in Src : ~InHand(c, s) /\ ~InHand(c, s)'
      BY <2>2, <2>3 DEF InHand
    <2>5. \A s \in Src : Handled(s)' = Handled(s)
      BY <2>1, <2>4 DEF Handled, OneAtATime
    <2>6. RunSeen'
      BY <2>1, <2>5, CalmStep
    <2> QED
      BY <2>3, <2>6 DEF LastInHand, RunExpected
  <1> QED
    BY <1>1, <1>2

LEMMA ReceiveStep ==
  ASSUME OneAtATime, TypeOK, TypeOK', TrailInv,
         NEW c \in Cpu, NEW s \in Src, NEW p \in Port, TrailReceive(c, s, p)
  PROVE  LastInHand' /\ RunSeen' /\ RunExpected'
  <1>1. /\ UNCHANGED <<now, cfg, progress, unlocked>>
        /\ pc[c] = "idle" /\ pc'[c] = "lookup"
        /\ pkt'[c] = [src |-> s, port |-> p, at |-> now, expect |-> 0]
        /\ pkt'[c].src = s /\ pkt'[c].port = p /\ pkt'[c].at = now
    BY DEF TrailReceive, Receive, TypeOK
  <1>2. \A d \in Cpu : d = c
    BY DEF OneAtATime
  <1>3. RunExpected'
    BY <1>1, <1>2 DEF RunExpected
  <1>4. \A u \in Src : Handled(u) = Len(trail[u])
    BY <1>1, <1>2 DEF Handled, InHand
  <1>5. IsKnock(p)' = IsKnock(p)
    BY <1>1 DEF IsKnock, IsProtected, Enabled, Steps
  <1>6. CASE ~IsKnock(p)
    <2>1. trail' = trail
      BY <1>6 DEF TrailReceive
    <2>2. ~IsKnock(pkt[c].port)'
      BY <1>1, <1>5, <1>6 DEF IsKnock, IsProtected, Enabled, Steps
    <2>3. LastInHand'
      BY <1>1, <1>2, <2>2 DEF LastInHand
    <2>4. \A u \in Src : Handled(u)' = Len(trail[u])
      BY <1>2, <2>1, <2>2 DEF Handled, InHand
    <2>5. RunSeen'
      BY <1>1, <1>4, <2>1, <2>4, CalmStep
    <2> QED
      BY <1>3, <2>3, <2>5
  <1>7. CASE IsKnock(p)
    <2>1. /\ Len(trail'[s]) = Len(trail[s]) + 1
          /\ trail'[s][Len(trail[s]) + 1] = <<p, now>>
          /\ \A u \in Src : \A j \in 1 .. Len(trail[u]) : trail'[u][j] = trail[u][j]
          /\ \A u \in Src : u # s => trail'[u] = trail[u]
      BY <1>7, TrailAppend DEF TrailInv
    <2>2. IsKnock(pkt[c].port)'
      BY <1>1, <1>5, <1>7 DEF IsKnock, IsProtected, Enabled, Steps
    <2>3. Len(trail[s]) \in Nat /\ trail'[s] # <<>>
      BY <2>1 DEF TrailInv, TrailType
    <2>4. LastInHand'
      BY <1>1, <1>2, <2>1, <2>2, <2>3 DEF LastInHand, HoldsLast
    <2>5. InHand(c, s)' /\ \A u \in Src : u # s => ~InHand(c, u)'
      BY <1>1, <2>2, <2>3 DEF InHand
    <2>6. \A u \in Src : Handled(u)' = Len(trail[u])
      <3>1. \A u \in Src : Handled(u)' =
              IF InHand(c, u)' THEN Len(trail'[u]) - 1 ELSE Len(trail'[u])
        BY <1>2 DEF Handled
      <3>2. Len(trail[s]) + 1 - 1 = Len(trail[s])
        BY <2>3
      <3> QED
        BY <2>1, <2>5, <3>1, <3>2
    <2>7. RunSeen'
      <3> SUFFICES ASSUME NEW u \in Src, NEW m \in 0 .. Len(trail'[u]),
                          NEW i \in 1 .. Len(cfg.sequence),
                          m = Handled(u)', Run(u, m, i)'
                   PROVE  At(u, m, i)'
        BY <1>1 DEF RunSeen
      <3>1. m = Handled(u) /\ m = Len(trail[u]) /\ m \in 0 .. Len(trail[u])
        <4>1. Len(trail[u]) \in Nat
          BY DEF TrailInv, TrailType
        <4> QED
          BY <1>4, <2>6, <4>1
      <3>2. \A j \in 1 .. m : trail'[u][j] = trail[u][j]
        BY <2>1, <3>1
      <3> QED
        BY <1>1, <3>1, <3>2, SeenStays
    <2> QED
      BY <1>3, <2>4, <2>7
  <1> QED
    BY <1>6, <1>7

\* A CPU that is past the lookup, or has unlocked, holds the last knock.
LEMMA KnockHeld ==
  ASSUME TypeOK, TrailInv, NEW c \in Cpu, ~NoTrail,
         \/ pc[c] \in {"update", "unlocked"}
         \/ pc[c] = "lookup" /\ IsKnock(pkt[c].port)
  PROVE  /\ HoldsLast(c) /\ pkt[c] \in Packet
         /\ pkt[c].src \in Src /\ pkt[c].port \in Port /\ pkt[c].at \in Nat
         /\ trail[pkt[c].src] \in Seq(Port \X Nat)
         /\ Len(trail[pkt[c].src]) \in Nat \ {0}
  <1>1. HoldsLast(c)
    BY DEF TrailInv, LastInHand
  <1>2. pkt[c] \in Packet
    BY DEF TypeOK
  <1>3. pkt[c].src \in Src /\ pkt[c].port \in Port /\ pkt[c].at \in Nat
    BY <1>2 DEF Packet, TypeOK
  <1>4. trail[pkt[c].src] \in Seq(Port \X Nat) /\ trail[pkt[c].src] # <<>>
    BY <1>1, <1>3 DEF TrailInv, TrailType, HoldsLast
  <1>5. Len(trail[pkt[c].src]) \in Nat \ {0}
    BY <1>4
  <1> QED
    BY <1>1, <1>2, <1>3, <1>4, <1>5

LEMMA LookupStep ==
  ASSUME OneAtATime, TypeOK, TypeOK', TrailInv, NEW c \in Cpu, LookupProgress(c),
         trail' = trail, NEW s \in Src, s = pkt[c].src
  PROVE  LastInHand' /\ RunSeen' /\ RunExpected'
  <1> SUFFICES ASSUME ~NoTrail
               PROVE  LastInHand' /\ RunSeen' /\ RunExpected'
    BY EmptyTrail DEF NoTrail
  <1> USE DEF TypeOK
  <1> DEFINE L == Len(trail[s])
  <1>1. /\ UNCHANGED <<now, cfg, progress, unlocked>>
        /\ pc[c] = "lookup" /\ pc'[c] = "update" /\ IsKnock(pkt[c].port)
        /\ pkt'[c] = [pkt[c] EXCEPT !.expect =
             IF InWindow(pkt[c].at, progress[s].last) THEN progress[s].index ELSE 0]
    BY DEF LookupProgress
  <1>2. /\ HoldsLast(c) /\ pkt[c] \in Packet
        /\ pkt[c].at \in Nat /\ trail[s] \in Seq(Port \X Nat)
        /\ L \in Nat \ {0}
    BY <1>1, KnockHeld
  <1>3. /\ pkt'[c].src = s /\ pkt'[c].port = pkt[c].port /\ pkt'[c].at = pkt[c].at
        /\ pkt'[c].expect = IF InWindow(pkt[c].at, progress[s].last)
                            THEN progress[s].index ELSE 0
    BY <1>1, <1>2 DEF Packet
  <1>4. \A d \in Cpu : d = c
    BY DEF OneAtATime
  <1>5. IsKnock(pkt[c].port)'
    BY <1>1, <1>3 DEF IsKnock, IsProtected, Enabled, Steps
  <1>6. LastInHand'
    BY <1>1, <1>2, <1>3, <1>4, <1>5 DEF LastInHand, HoldsLast
  <1>7. \A u \in Src : InHand(c, u)' <=> InHand(c, u)
    BY <1>1, <1>3, <1>5 DEF InHand
  <1>8. \A u \in Src : Handled(u)' = Handled(u)
    BY <1>4, <1>7 DEF Handled
  <1>9. RunSeen'
    BY <1>1, <1>8, CalmStep
  <1>10. RunExpected'
    <2> SUFFICES ASSUME NEW d \in Cpu, NEW u \in Src, NEW m \in 0 .. Len(trail[u]),
                        NEW i \in 1 .. Len(cfg.sequence),
                        pkt'[d].src = u, Len(trail[u]) = m + 1,
                        i < Len(cfg.sequence), Run(u, m, i)',
                        pkt'[d].at - trail[u][m][2] <= cfg.window
                 PROVE  pkt'[d].expect = i
      BY <1>1 DEF RunExpected
    <2>0. d = c /\ u = s /\ L = m + 1
      BY <1>3, <1>4
    <2>1. m \in Nat /\ i \in Nat /\ i > 0
      BY <1>2, CfgType
    <2>2. Run(s, m, i)
      BY <1>1, <1>2, <2>0, <2>1, RunSame
    <2>3. Handled(s) = m
      <3>1. InHand(c, s)
        BY <1>1, <1>2 DEF InHand, HoldsLast
      <3> QED
        BY <1>4, <2>0, <2>1, <3>1 DEF Handled
    <2>4. progress[s] = [index |-> i, last |-> trail[s][m][2]]
      <3>1. At(s, m, i)
        BY <1>2, <2>0, <2>2, <2>3 DEF TrailInv, RunSeen
      <3> QED
        BY <2>0, <3>1 DEF At
    <2>5. trail[s][m][2] <= pkt[c].at
      <3>1. m \in 1 .. L - 1 /\ m + 1 = L
        BY <2>0, <2>1, <2>2 DEF Run
      <3>2. trail[s][L] = <<pkt[c].port, pkt[c].at>>
        BY <1>2 DEF HoldsLast
      <3>3. trail[s][m][2] <= trail[s][m + 1][2]
        BY <3>1 DEF TrailInv, TrailType
      <3>4. trail[s][m + 1] = <<pkt[c].port, pkt[c].at>>
        BY <3>1, <3>2
      <3>5. trail[s][m + 1][2] = pkt[c].at
        BY <3>4
      <3> QED
        BY <3>3, <3>5
    <2>6. InWindow(pkt[c].at, progress[s].last)
      BY <1>3, <2>0, <2>4, <2>5 DEF InWindow
    <2> QED
      BY <1>3, <2>0, <2>4, <2>6
  <1> QED
    BY <1>6, <1>9, <1>10

LEMMA MoreThanOne == \A n \in Nat : 1 <= n /\ n # 1 => n > 1
  OBVIOUS

LEMMA OneLess ==
  /\ \A n \in Nat \ {0} : n - 1 \in 0 .. n
  /\ \A i, n \in Nat : i > 1 /\ i <= n => i - 1 \in 1 .. n
  OBVIOUS

\* A source that has knocked the first i ports of the sequence is expected to
\* take step i, or starts over with it.
LEMMA ExpectedStep ==
  ASSUME Unambiguous, TypeOK, TrailInv, ~NoTrail, NEW c \in Cpu, pc[c] = "update",
         NEW s \in Src, s = pkt[c].src,
         NEW i \in 1 .. Len(cfg.sequence), Run(s, Len(trail[s]), i),
         NEW step \in MatchedStep(pkt[c].port)
  PROVE  /\ step = i /\ Len(cfg.sequence) > 1
         /\ i > 1 => Hit(i, pkt[c].expect)
  <1> DEFINE L == Len(trail[s])
  <1>1. /\ pkt[c].at \in Nat /\ L \in Nat \ {0}
        /\ trail[s][L] = <<pkt[c].port, pkt[c].at>>
    BY KnockHeld DEF HoldsLast
  <1>2. /\ Len(cfg.sequence) \in Nat /\ i \in Nat /\ i > 0
        /\ i <= Len(cfg.sequence)
        /\ cfg \in Config /\ cfg.window \in Nat
    BY CfgType DEF TypeOK
  <1>3. /\ trail[s][L][1] = cfg.sequence[i]
        /\ i > 1 => /\ Run(s, L - 1, i - 1)
                    /\ trail[s][L][2] - trail[s][L - 1][2] <= cfg.window
    BY <1>1, <1>2, RunBefore
  <1>4. step = i
    BY <1>1, <1>2, <1>3 DEF MatchedStep, Unambiguous, Steps
  <1>5. Len(cfg.sequence) > 1
    <2>1. Len(cfg.sequence) # 1
      BY <1>2 DEF Unambiguous
    <2>2. 1 <= Len(cfg.sequence) /\ Len(cfg.sequence) \in Nat
      BY <1>2
    <2> QED
      BY <2>1, <2>2, MoreThanOne, ZenonT(30)
  <1>6. ASSUME i > 1 PROVE Hit(i, pkt[c].expect)
    <2>0. L - 1 \in 0 .. Len(trail[s]) /\ i - 1 \in 1 .. Len(cfg.sequence)
      BY <1>1, <1>2, <1>6, OneLess, ZenonT(30)
    <2>1. PICK m \in 0 .. Len(trail[s]), k \in 1 .. Len(cfg.sequence) :
            m = L - 1 /\ k = i - 1
      BY <2>0
    <2>2. Len(trail[s]) = m + 1 /\ k < Len(cfg.sequence) /\ Run(s, m, k)
      BY <1>1, <1>2, <1>3, <1>6, <2>1
    <2>3. pkt[c].at - trail[s][m][2] <= cfg.window
      BY <1>1, <1>3, <1>6, <2>1
    <2>4. pkt[c].expect = k
      BY <2>2, <2>3 DEF TrailInv, RunExpected
    <2> QED
      BY <1>2, <2>1, <2>4 DEF Hit
  <1> QED
    BY <1>4, <1>5, <1>6

\* The handling of a knock of s ends: all knocks are handled, and the runs of
\* the other sources are where they were.
LEMMA OthersSeen ==
  ASSUME OneAtATime, TypeOK, TrailInv, NEW c \in Cpu, cfg' = cfg, trail' = trail,
         pc[c] \in {"update", "unlocked"}, pc'[c] \in {"idle", "unlocked"},
         NEW s \in Src, s = pkt[c].src,
         \A u \in Src : u # s => progress'[u] = progress[u] /\ unlocked'[u] = unlocked[u],
         \A i \in 1 .. Len(cfg.sequence) :
           Run(s, Len(trail[s]), i) => At(s, Len(trail[s]), i)'
  PROVE  RunSeen'
  <1> SUFFICES ASSUME NEW u \in Src, NEW m \in 0 .. Len(trail[u]),
                      NEW i \in 1 .. Len(cfg.sequence),
                      m = Handled(u)', Run(u, m, i)'
               PROVE  At(u, m, i)'
    BY DEF RunSeen
  <1>1. \A d \in Cpu : d = c
    BY DEF OneAtATime
  <1>2. m = Len(trail[u]) /\ m \in Nat /\ i \in Nat
    BY <1>1, CfgType DEF Handled, InHand, TrailInv, TrailType
  <1>3. Run(u, m, i)
    BY <1>2, RunSame
  <1>4. CASE u = s
    <2>1. Run(s, Len(trail[s]), i)
      BY <1>2, <1>3, <1>4
    <2>2. At(s, Len(trail[s]), i)'
      BY <2>1
    <2> QED
      BY <1>2, <1>4, <2>2 DEF At
  <1>5. CASE u # s
    <2>1. Handled(u) = m
      BY <1>1, <1>2, <1>5 DEF Handled, InHand
    <2> QED
      BY <1>5, <2>1, SeenStays
  <1> QED
    BY <1>4, <1>5

LEMMA AdvanceStep ==
  ASSUME OneAtATime, Unambiguous, TypeOK, TypeOK', TrailInv, NEW c \in Cpu,
         Advance(c), trail' = trail, NEW s \in Src, s = pkt[c].src
  PROVE  LastInHand' /\ RunSeen' /\ RunExpected'
  <1> SUFFICES ASSUME ~NoTrail
               PROVE  LastInHand' /\ RunSeen' /\ RunExpected'
    BY EmptyTrail DEF NoTrail
  <1> DEFINE L == Len(trail[s])
  <1>1. UNCHANGED <<cfg, unlocked>> /\ pc[c] = "update" /\ pc'[c] = "idle"
    BY DEF Advance, Done, TypeOK
  <1>2. \A d \in Cpu : pc'[d] = "idle"
    BY <1>1 DEF OneAtATime
  <1>3. /\ pkt[c].at \in Nat /\ L \in Nat \ {0}
        /\ trail[s][L] = <<pkt[c].port, pkt[c].at>>
    BY <1>1, KnockHeld DEF HoldsLast
  <1>4. PICK step \in MatchedStep(pkt[c].port) :
          \/ /\ ~Hit(step, pkt[c].expect)
             /\ progress' = [progress EXCEPT ![s] =
                               [index |-> Restart(step), last |-> pkt[c].at]]
          \/ /\ Hit(step, pkt[c].expect) /\ step < Len(cfg.sequence)
             /\ progress' = [progress EXCEPT ![s] =
                               [index |-> step, last |-> pkt[c].at]]
    BY DEF Advance, Entry
  <1>5. progress \in [Src -> [index : Nat, last : 0 .. now]]
    BY DEF TypeOK
  <1>6. \A u \in Src : u # s => progress'[u] = progress[u]
    BY <1>4, <1>5
  <1>7. ASSUME NEW i \in 1 .. Len(cfg.sequence), Run(s, L, i)
        PROVE  At(s, L, i)'
    <2>1. /\ step = i /\ Len(cfg.sequence) > 1
          /\ i > 1 => Hit(i, pkt[c].expect)
      BY <1>1, <1>7, ExpectedStep
    <2>2. i < Len(cfg.sequence) /\ progress'[s] = [index |-> i, last |-> pkt[c].at]
      BY <1>4, <1>5, <2>1, CfgType DEF Restart
    <2> QED
      BY <1>1, <1>3, <2>2 DEF At
  <1>8. RunSeen'
    BY <1>1, <1>6, <1>7, OthersSeen
  <1> QED
    BY <1>2, <1>8 DEF LastInHand, RunExpected

LEMMA TrailUnlockStep ==
  ASSUME OneAtATime, Unambiguous, TypeOK, TypeOK', TrailInv, NEW c \in Cpu,
         Unlock(c), trail' = trail, NEW s \in Src, s = pkt[c].src
  PROVE  LastInHand' /\ RunSeen' /\ RunExpected'
  <1> SUFFICES ASSUME ~NoTrail
               PROVE  LastInHand' /\ RunSeen' /\ RunExpected'
    BY EmptyTrail DEF NoTrail
  <1> DEFINE L == Len(trail[s])
  <1>1. /\ UNCHANGED <<cfg, progress, pkt>> /\ IsKnock(pkt[c].port)
        /\ pc[c] = "update" /\ pc'[c] = "unlocked"
        /\ unlocked' = [unlocked EXCEPT ![s] = pkt[c].at + 3 * cfg.window]
    BY DEF Unlock, TypeOK
  <1>2. \A d \in Cpu : d = c
    BY DEF OneAtATime
  <1>3. /\ HoldsLast(c) /\ L \in Nat \ {0}
        /\ trail[s][L] = <<pkt[c].port, pkt[c].at>>
    BY <1>1, KnockHeld DEF HoldsLast
  <1>4. PICK step \in MatchedStep(pkt[c].port) : step >= Len(cfg.sequence)
    BY DEF Unlock
  <1>5. /\ step = Len(cfg.sequence)
        /\ pkt[c].port = cfg.sequence[Len(cfg.sequence)]
    BY <1>4, CfgType DEF MatchedStep, Steps
  <1>6. IsKnock(pkt[c].port)'
    BY <1>1 DEF IsKnock, IsProtected, Enabled, Steps
  <1>7. LastInHand'
    BY <1>1, <1>2, <1>3, <1>5, <1>6 DEF LastInHand, HoldsLast
  <1>8. RunExpected'
    BY <1>1, <1>2 DEF RunExpected
  <1>9. unlocked \in [Src -> Nat]
    BY DEF TypeOK
  <1>10. \A u \in Src : u # s => unlocked'[u] = unlocked[u]
    BY <1>1, <1>9
  <1>11. ASSUME NEW i \in 1 .. Len(cfg.sequence), Run(s, L, i)
         PROVE  At(s, L, i)'
    <2>1. i = Len(cfg.sequence)
      BY <1>1, <1>5, <1>11, ExpectedStep
    <2>2. ~(i < Len(cfg.sequence)) /\ unlocked'[s] = pkt[c].at + 3 * cfg.window
      BY <1>1, <1>9, <2>1, CfgType
    <2> QED
      BY <1>1, <1>3, <2>2 DEF At
  <1>12. RunSeen'
    BY <1>1, <1>10, <1>11, OthersSeen
  <1> QED
    BY <1>7, <1>8, <1>12

LEMMA AfreshStep ==
  ASSUME OneAtATime, Unambiguous, TypeOK, TypeOK', TrailInv, NEW c \in Cpu,
         StartAfresh(c), trail' = trail, NEW s \in Src, s = pkt[c].src
  PROVE  LastInHand' /\ RunSeen' /\ RunExpected'
  <1> SUFFICES ASSUME ~NoTrail
               PROVE  LastInHand' /\ RunSeen' /\ RunExpected'
    BY EmptyTrail DEF NoTrail
  <1> DEFINE L == Len(trail[s])
  <1>1. UNCHANGED <<cfg, unlocked>> /\ pc[c] = "unlocked" /\ pc'[c] = "idle"
    BY DEF StartAfresh, Done, TypeOK
  <1>2. \A d \in Cpu : d = c
    BY DEF OneAtATime
  <1>3. /\ L \in Nat \ {0} /\ trail[s][L] = <<pkt[c].port, pkt[c].at>>
        /\ pkt[c].port = cfg.sequence[Len(cfg.sequence)]
    BY <1>1, KnockHeld DEF HoldsLast
  <1>4. \A u \in Src : u # s => progress'[u] = progress[u]
    BY DEF StartAfresh, TypeOK
  <1>5. ASSUME NEW i \in 1 .. Len(cfg.sequence), Run(s, L, i)
        PROVE  At(s, L, i)'
    <2>1. trail[s][L][1] = cfg.sequence[i]
      BY <1>3, <1>5, CfgType, RunBefore
    <2>2. i = Len(cfg.sequence)
      <3>1. /\ cfg \in Config /\ i \in Steps(cfg)
            /\ Len(cfg.sequence) \in Steps(cfg)
        BY CfgType DEF Steps, TypeOK
      <3>2. cfg.sequence[i] = cfg.sequence[Len(cfg.sequence)]
        BY <1>3, <2>1
      <3> QED
        BY <3>1, <3>2 DEF Unambiguous
    <2>3. Handled(s) = L /\ L \in 0 .. Len(trail[s])
      BY <1>1, <1>2, <1>3 DEF Handled, InHand
    <2>4. At(s, L, i)
      BY <1>5, <2>3 DEF TrailInv, RunSeen
    <2>5. ~(i < Len(cfg.sequence))
      BY <2>2, CfgType
    <2> QED
      BY <1>1, <2>4, <2>5 DEF At
  <1>6. RunSeen'
    BY <1>1, <1>4, <1>5, OthersSeen
  <1> QED
    BY <1>1, <1>2, <1>6 DEF LastInHand, RunExpected

LEMMA TrailStep ==
  ASSUME OneAtATime, ~MayEvict, Unambiguous, TypeOK, TrailInv,
         [TrailNext]_<<vars, trail>>
  PROVE  TrailInv'
  <1>1. TypeOK' /\ TrailType'
    BY TrailTypeOK, TrailTypeStep DEF TrailInv
  <1> SUFFICES LastInHand' /\ RunSeen' /\ RunExpected'
    BY <1>1 DEF TrailInv
  <1>2. ASSUME NEW c \in Cpu, NEW s \in Src, NEW p \in Port, TrailReceive(c, s, p)
        PROVE  LastInHand' /\ RunSeen' /\ RunExpected'
    BY <1>1, <1>2, ReceiveStep
  <1>3. CASE trail' = [s \in Src |-> <<>>]
    BY <1>3, EmptyTrail
  <1>4. CASE /\ trail' = trail
             /\ \/ Tick \/ UNCHANGED vars
                \/ \E c \in Cpu : CheckUnlocked(c) \/ Ignore(c)
    BY <1>1, <1>4, QuietSteps
  <1>5. ASSUME NEW c \in Cpu, trail' = trail,
               LookupProgress(c) \/ Advance(c) \/ Unlock(c) \/ StartAfresh(c)
        PROVE  LastInHand' /\ RunSeen' /\ RunExpected'
    <2>1. pkt[c] \in Packet
      BY <1>5 DEF LookupProgress, Advance, Unlock, StartAfresh, TypeOK
    <2>2. PICK s \in Src : s = pkt[c].src
      BY <2>1 DEF Packet
    <2> QED
      BY <1>1, <1>5, <2>2, LookupStep, AdvanceStep, TrailUnlockStep, AfreshStep
  <1> QED
    BY <1>2, <1>3, <1>4, <1>5 DEF TrailNext, Evict

LEMMA TrailSaysSo ==
  ASSUME TypeOK, TrailInv PROVE KnockerGetsIn
  <1> SUFFICES ASSUME NEW s \in Src, JustKnocked(s), \A c \in Cpu : pc[c] = "idle"
               PROVE  unlocked[s] = trail[s][Len(trail[s])][2] + 3 * cfg.window
    BY DEF KnockerGetsIn
  <1> DEFINE n == Len(cfg.sequence)
             L == Len(trail[s])
  <1>1. n \in Nat /\ n > 0 /\ L \in Nat /\ n <= L
    BY CfgType DEF JustKnocked, TrailInv, TrailType
  <1>2. Run(s, L, n)
    <2>1. \A j \in 1 .. n - 1 :
            trail[s][L - n + (j + 1)][2] - trail[s][L - n + j][2] <= cfg.window
      BY DEF JustKnocked
    <2>2. \A j \in 1 .. n : trail[s][L - n + j][1] = cfg.sequence[j]
      BY DEF JustKnocked
    <2> HIDE DEF n, L
    <2>3. \A j \in 1 .. n - 1 : L - n + (j + 1) = L - n + j + 1
      BY <1>1
    <2>4. \A j \in 1 .. n - 1 :
            trail[s][L - n + j + 1][2] - trail[s][L - n + j][2] <= cfg.window
      BY <2>1, <2>3
    <2> QED
      BY <1>1, <2>2, <2>4 DEF Run, n
  <1>3. L = Handled(s) /\ L \in 0 .. Len(trail[s]) /\ n \in 1 .. Len(cfg.sequence)
    BY <1>1 DEF Handled, InHand
  <1>4. At(s, L, n)
    BY <1>2, <1>3 DEF TrailInv, RunSeen
  <1> QED
    BY <1>1, <1>4 DEF At

LEMMA TrailStarts == TrailInit => TypeOK /\ TrailInv
  <1> SUFFICES ASSUME TrailInit PROVE TypeOK /\ TrailInv
    OBVIOUS
  <1>1. TypeOK
    BY KnockInit DEF TrailInit, KnockInv
  <1>2. TrailType /\ LastInHand
    BY DEF TrailInit, Init, TrailType, LastInHand
  <1>3. RunSeen /\ RunExpected
    BY DEF TrailInit, Init, RunSeen, RunExpected, Run
  <1> QED
    BY <1>1, <1>2, <1>3 DEF TrailInv

\* Every variable of the port-knocking model stays of its type, the operator
\* changing the configuration at any time or not.
THEOREM TypeCorrect == (Spec => []TypeOK) /\ (TrailSpec => []TypeOK)
  <1>1. Init => TypeOK
    BY KnockInit DEF KnockInv
  <1>2. TrailInit => TypeOK
    BY <1>1 DEF TrailInit
  <1>3. TypeOK /\ [Next]_vars => TypeOK'
    BY TypeKept
  <1>4. TypeOK /\ [TrailNext]_<<vars, trail>> => TypeOK'
    BY TrailTypeOK
  <1> QED
    BY <1>1, <1>2, <1>3, <1>4, PTL DEF Spec, TrailSpec

\* Whoever knocks the whole sequence in order and in time is let in, whatever
\* it knocked before and whatever was configured before, where one CPU runs the
\* program, no entry is evicted and the ports of each sequence differ.
THEOREM KnockerIsLetIn ==
  ASSUME OneAtATime, ~MayEvict, Unambiguous
  PROVE  TrailSpec => []KnockerGetsIn
  <1>1. TrailInit => TypeOK /\ TrailInv
    BY TrailStarts
  <1>2. TypeOK /\ TrailInv /\ [TrailNext]_<<vars, trail>> => TypeOK' /\ TrailInv'
    BY TrailTypeOK, TrailStep
  <1>3. TypeOK /\ TrailInv => KnockerGetsIn
    BY TrailSaysSo
  <1> QED
    BY <1>1, <1>2, <1>3, PTL DEF TrailSpec
=============================================================================
