----------------------------- MODULE StealthGate -----------------------------
(***************************************************************************)
(* What port knocking promises: the protected port opens for a source only *)
(* after that source has sent a SYN to every port of the configured        *)
(* sequence, in order, no two of them further apart than the window, and   *)
(* stays open for three windows after the last one.                        *)
(***************************************************************************)
EXTENDS Naturals, Sequences

CONSTANTS
  Src,     \* source addresses
  Port,    \* TCP destination ports
  Config   \* knock configurations: [sequence, open, window]

VARIABLES
  now,        \* the kernel clock
  cfg,        \* the configuration in force
  syns,       \* <<source, port, time>> of the SYNs seen under cfg
  openUntil,  \* when the protected port closes again for a source
  verdict     \* the last decision on a packet for the protected port

vars == <<now, cfg, syns, openUntil, verdict>>

UnlockTime(c) == 3 * c.window

\* The source knocked c's whole sequence, the last knock at time e.
Knocked(s, c, e) ==
  \E t \in [1 .. Len(c.sequence) -> 0 .. now] :
    /\ Len(c.sequence) > 0 /\ t[Len(c.sequence)] = e
    /\ \A i \in 1 .. Len(c.sequence) : <<s, c.sequence[i], t[i]>> \in syns
    /\ \A i \in 1 .. Len(c.sequence) - 1 :
         t[i] <= t[i + 1] /\ t[i + 1] - t[i] <= c.window

NoVerdict == [src |-> "none", at |-> 0, pass |-> FALSE]

Init ==
  /\ now = 0
  /\ cfg \in Config
  /\ syns = {}
  /\ openUntil = [s \in Src |-> 0]
  /\ verdict = NoVerdict

Tick ==
  /\ now' = now + 1
  /\ UNCHANGED <<cfg, syns, openUntil, verdict>>

Syn(s, p) ==
  /\ syns' = syns \cup {<<s, p, now>>}
  /\ UNCHANGED <<now, cfg, openUntil, verdict>>

Open(s) ==
  /\ \E e \in 0 .. now :
       /\ Knocked(s, cfg, e)
       /\ openUntil' = [openUntil EXCEPT ![s] = e + UnlockTime(cfg)]
  /\ UNCHANGED <<now, cfg, syns, verdict>>

\* A source may lose its place at any time: the table of sources is bounded.
Close(s) ==
  /\ openUntil' = [openUntil EXCEPT ![s] = 0]
  /\ UNCHANGED <<now, cfg, syns, verdict>>

\* A packet of s for the protected port, received at time t.
Decide(s, t) ==
  /\ verdict' = [src |-> s, at |-> t, pass |-> openUntil[s] > t]
  /\ UNCHANGED <<now, cfg, syns, openUntil>>

\* A new configuration has to be knocked anew.
Reconfigure(c) ==
  /\ c # cfg
  /\ cfg' = c
  /\ syns' = {}
  /\ openUntil' = [s \in Src |-> 0]
  /\ UNCHANGED <<now, verdict>>

Next ==
  \/ Tick
  \/ \E s \in Src : Open(s) \/ Close(s)
  \/ \E s \in Src, p \in Port : Syn(s, p)
  \/ \E s \in Src, t \in 0 .. now : Decide(s, t)
  \/ \E c \in Config : Reconfigure(c)

Spec == Init /\ [][Next]_vars
=============================================================================
