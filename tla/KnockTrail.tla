------------------------------ MODULE KnockTrail ------------------------------
(***************************************************************************)
(* PortKnock with the order of each source's knocks remembered, to say     *)
(* that whoever knocks the sequence is let in.                             *)
(***************************************************************************)
EXTENDS PortKnock

VARIABLE trail  \* history: the knocks of each source under cfg, in order

TrailInit == Init /\ trail = [s \in Src |-> <<>>]

TrailReceive(c, s, p) ==
  /\ Len(trail[s]) < MaxSyns
  /\ Receive(c, s, p)
  /\ trail' = IF IsKnock(p) THEN [trail EXCEPT ![s] = Append(@, <<p, now>>)]
                            ELSE trail

TrailNext ==
  \/ \E c \in Cpu, s \in Src, p \in Port : TrailReceive(c, s, p)
  \/ \E k \in Config : SetKnockConfig(k) /\ trail' = [s \in Src |-> <<>>]
  \/ /\ \/ Tick
        \/ \E s \in Src : Evict(s)
        \/ \E c \in Cpu :
             \/ CheckUnlocked(c) \/ LookupProgress(c) \/ Ignore(c)
             \/ Advance(c) \/ Unlock(c) \/ StartAfresh(c)
     /\ UNCHANGED trail

TrailSpec == TrailInit /\ [][TrailNext]_<<vars, trail>>

\* The latest knocks of s are the whole sequence, each in time.
JustKnocked(s) ==
  LET n == Len(cfg.sequence)
      last(i) == trail[s][Len(trail[s]) - n + i]
  IN /\ n > 0 /\ Len(trail[s]) >= n
     /\ \A i \in 1 .. n : last(i)[1] = cfg.sequence[i]
     /\ \A i \in 1 .. n - 1 : last(i + 1)[2] - last(i)[2] <= cfg.window

\* A source whose latest knocks are the whole sequence, in order and in time,
\* is let in, whatever it knocked before: retransmitted, late and wrong knocks
\* cost it only a fresh start.
KnockerGetsIn ==
  \A s \in Src :
    JustKnocked(s) /\ (\A c \in Cpu : pc[c] = "idle") =>
      unlocked[s] = trail[s][Len(trail[s])][2] + 3 * cfg.window
=============================================================================
