------------------------------ MODULE PortKnock ------------------------------
(***************************************************************************)
(* handle_port_knock of bpf/xdp_sentryx.c, run by every CPU on the packets *)
(* its queue delivers.  The receive queue is picked by a hash that covers  *)
(* the ports, so the knocks of one source are handled by several CPUs at   *)
(* once; the lookups and updates of one run interleave with the others'.   *)
(***************************************************************************)
EXTENDS Naturals, Sequences, FiniteSets

CONSTANTS
  Src, Port, Config,
  Cpu,         \* CPUs that run the program
  MaxTime,     \* bound: the clock stops here
  MaxSyns,     \* bound: knocks the sources send
  MayEvict     \* whether the LRU maps may lose an entry

Steps(c) == 1 .. Len(c.sequence)

ASSUME ConfigOK ==
  /\ Config \subseteq [sequence : Seq(Port), open : Nat, window : Nat \ {0}]
  /\ Port \subseteq Nat \ {0}
  /\ MaxTime \in Nat /\ MaxSyns \in Nat
  /\ "none" \notin Src

VARIABLES
  now,       \* bpf_ktime_get_ns, in ticks
  cfg,       \* knock_cfg_map
  progress,  \* knock_state: source -> [index, last]
  unlocked,  \* knock_unlocked: source -> expiry, 0 when there is no entry
  pc,        \* where each CPU is in the program
  pkt,       \* the packet it handles: source, port, time of entry, expect
  syns,      \* history: the knocks seen since cfg was written
  verdict    \* history: the last decision on the protected port

vars == <<now, cfg, progress, unlocked, pc, pkt, syns, verdict>>

NoPkt == [src |-> "none", port |-> 0, at |-> 0, expect |-> 0]
Packet == [src : Src, port : Port, at : 0 .. now, expect : Nat]

\* No entry and an entry with index 0 behave alike.
Fresh == [index |-> 0, last |-> 0]

Gate == INSTANCE StealthGate WITH openUntil <- unlocked

TypeOK ==
  /\ now \in 0 .. MaxTime
  /\ cfg \in Config
  /\ progress \in [Src -> [index : Nat, last : 0 .. now]]
  /\ unlocked \in [Src -> Nat]
  /\ pc \in [Cpu -> {"idle", "lookup", "update", "unlocked"}]
  /\ pkt \in [Cpu -> Packet \cup {NoPkt}]
  /\ \A c \in Cpu : pc[c] # "idle" => pkt[c] \in Packet
  /\ syns \subseteq Src \X Port \X (0 .. now)
  /\ verdict \in [src : Src \cup {"none"}, at : 0 .. now, pass : BOOLEAN]

Init ==
  /\ now = 0
  /\ cfg \in Config
  /\ progress = [s \in Src |-> Fresh]
  /\ unlocked = [s \in Src |-> 0]
  /\ pc = [c \in Cpu |-> "idle"]
  /\ pkt = [c \in Cpu |-> NoPkt]
  /\ syns = {}
  /\ verdict = Gate!NoVerdict

-----------------------------------------------------------------------------
\* seq_len == 0 switches the feature off; open_port == 0 protects nothing.
Enabled == cfg.sequence # <<>>
IsProtected(p) == Enabled /\ cfg.open # 0 /\ p = cfg.open
IsKnock(p) == ~IsProtected(p) /\ \E i \in Steps(cfg) : cfg.sequence[i] = p

\* matched_step: the loop keeps the last index whose port matches, 0xFF if
\* none does.  Steps are counted from 1 here, from 0 in the code.
MatchedStep(p) ==
  {i \in Steps(cfg) : /\ cfg.sequence[i] = p
                      /\ \A j \in Steps(cfg) : cfg.sequence[j] = p => j <= i}

\* now - last_knock_ns <= window_ns, in unsigned 64-bit arithmetic: a knock
\* that another CPU stamped later than this packet is out of the window.
InWindow_Signed(at, last) == last + cfg.window >= at  \* mutant: signed compare
InWindow(at, last) == last <= at /\ at - last <= cfg.window

\* The entry of the program: the timestamp is taken here.
Receive(c, s, p) ==
  /\ pc[c] = "idle"
  /\ IsKnock(p) \/ IsProtected(p)
  /\ Cardinality(syns) < MaxSyns
  /\ pc' = [pc EXCEPT ![c] = "lookup"]
  /\ pkt' = [pkt EXCEPT ![c] = [src |-> s, port |-> p, at |-> now, expect |-> 0]]
  /\ syns' = IF IsKnock(p) THEN syns \cup {<<s, p, now>>} ELSE syns
  /\ UNCHANGED <<now, cfg, progress, unlocked, verdict>>

Done(c) ==
  /\ pc' = [pc EXCEPT ![c] = "idle"]
  /\ pkt' = [pkt EXCEPT ![c] = NoPkt]

\* A packet for the protected port passes while the unlock has not expired.
CheckUnlocked(c) ==
  /\ pc[c] = "lookup" /\ IsProtected(pkt[c].port)
  /\ verdict' = [src |-> pkt[c].src, at |-> pkt[c].at,
                 pass |-> unlocked[pkt[c].src] > pkt[c].at]
  /\ Done(c)
  /\ UNCHANGED <<now, cfg, progress, unlocked, syns>>

\* A knock looks up how far its source has come.
LookupProgress(c) ==
  LET kp == progress[pkt[c].src]
  IN /\ pc[c] = "lookup" /\ IsKnock(pkt[c].port)
     /\ pkt' = [pkt EXCEPT ![c].expect =
                  IF InWindow(pkt[c].at, kp.last) THEN kp.index ELSE 0]
     /\ pc' = [pc EXCEPT ![c] = "update"]
     /\ UNCHANGED <<now, cfg, progress, unlocked, syns, verdict>>

\* The configuration changed under the packet and no longer concerns it.
Ignore(c) ==
  /\ \/ pc[c] = "lookup" /\ ~IsProtected(pkt[c].port)
     \/ pc[c] = "update"
  /\ ~IsKnock(pkt[c].port)
  /\ Done(c)
  /\ UNCHANGED <<now, cfg, progress, unlocked, syns, verdict>>

\* The step the source was expected to take.
Hit_Skip(step, expect) == step > expect  \* mutant: a later step will do
Hit(step, expect) == step = expect + 1

\* A wrong step starts over, from one if it is the first of the sequence.
Restart_Zero(step) == 0  \* mutant: always from nothing
Restart(step) == IF step = 1 THEN 1 ELSE 0

\* The struct knock_progress an update writes.
Entry_Deadline(i, at) == [index |-> i, last |-> at + cfg.window]  \* mutant
Entry(i, at) == [index |-> i, last |-> at]

\* A knock short of the last step advances its source or sends it back.
Advance(c) ==
  LET p == pkt[c]
  IN /\ pc[c] = "update" /\ IsKnock(p.port)
     /\ \E step \in MatchedStep(p.port) :
          \/ /\ ~Hit(step, p.expect)
             /\ progress' = [progress EXCEPT ![p.src] = Entry(Restart(step), p.at)]
          \/ /\ Hit(step, p.expect) /\ step < Len(cfg.sequence)
             /\ progress' = [progress EXCEPT ![p.src] = Entry(step, p.at)]
     /\ Done(c)
     /\ UNCHANGED <<now, cfg, unlocked, syns, verdict>>

\* The last step opens the port ...
Unlock(c) ==
  LET p == pkt[c]
  IN /\ pc[c] = "update" /\ IsKnock(p.port)
     /\ \E step \in MatchedStep(p.port) :
          Hit(step, p.expect) /\ step >= Len(cfg.sequence)
     /\ unlocked' = [unlocked EXCEPT ![p.src] = p.at + 3 * cfg.window]
     /\ pc' = [pc EXCEPT ![c] = "unlocked"]
     /\ UNCHANGED <<now, cfg, progress, pkt, syns, verdict>>

\* ... and the second of its two updates starts the source afresh.
StartAfresh(c) ==
  /\ pc[c] = "unlocked"
  /\ progress' = [progress EXCEPT ![pkt[c].src] = Entry(0, pkt[c].at)]
  /\ Done(c)
  /\ UNCHANGED <<now, cfg, unlocked, syns, verdict>>

\* SetKnockConfig overwrites the one configuration entry and nothing else.
SetKnockConfig(k) ==
  /\ k # cfg
  /\ cfg' = k
  /\ syns' = {}
  /\ UNCHANGED <<now, progress, unlocked, pc, pkt, verdict>>

\* The LRU maps drop the entry of some source to make room for another.
Evict(s) ==
  /\ MayEvict
  /\ \/ progress' = [progress EXCEPT ![s] = Fresh] /\ UNCHANGED unlocked
     \/ unlocked' = [unlocked EXCEPT ![s] = 0] /\ UNCHANGED progress
  /\ UNCHANGED <<now, cfg, pc, pkt, syns, verdict>>

Tick ==
  /\ now < MaxTime
  /\ now' = now + 1
  /\ UNCHANGED <<cfg, progress, unlocked, pc, pkt, syns, verdict>>

\* The program under the configuration it started with; KnockTrail adds the
\* operator who changes it.
Next ==
  \/ Tick
  \/ \E s \in Src : Evict(s)
  \/ \E c \in Cpu :
       \/ \E s \in Src, p \in Port : Receive(c, s, p)
       \/ CheckUnlocked(c) \/ LookupProgress(c)
       \/ Advance(c) \/ Unlock(c) \/ StartAfresh(c)

Spec == Init /\ [][Next]_vars

-----------------------------------------------------------------------------
(* Properties.                                                             *)

\* Whatever the CPUs' races on knock_state, the port is open for a source only
\* because that source knocked the whole sequence in force, in order and in
\* time.
UnlockEarned ==
  \A s \in Src : unlocked[s] > 0 =>
    \E e \in 0 .. now :
      /\ unlocked[s] = e + 3 * cfg.window
      /\ Gate!Knocked(s, cfg, e)

\* The gate itself, as the refinement of what it promises.
GateSpec == Gate!Spec
=============================================================================
