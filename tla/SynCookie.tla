------------------------------ MODULE SynCookie ------------------------------
(***************************************************************************)
(* The SYN-cookie path of bpf/xdp_sentryx.c: a source that opens flows too *)
(* fast is answered with a cookie instead of being let in, and is trusted  *)
(* for a while once it has sent the cookie back.  Every CPU runs it on the *)
(* packets its queue delivers, and their accesses to the secret            *)
(* interleave.  What a run looks up first (conn_table, syn_verified, the   *)
(* configuration, its source's SYN counter) it does in one step with its   *)
(* timestamp.  The counter itself is left out: syn_rate_bump returns some  *)
(* count.                                                                  *)
(***************************************************************************)
EXTENDS Integers, FiniteSets

CONSTANTS
  Src, Flow, SrcOf,  \* sources, flows, and whose flow each is
  Cpu,               \* CPUs that run the program
  Config,            \* thresholds an operator may set
  Quantum,           \* SYN_COOKIE_TIME_QUANTUM_NS, in ticks
  Epochs,            \* a cookie has room for the time in quanta modulo this
  Rotate,            \* SYN_SECRET_ROTATE_NS: twice the quantum
  VerifiedTtl,       \* SYN_VERIFIED_TTL_NS
  MaxTime,           \* bound: the clock stops here
  MaxSyns,           \* bound: SYNs that are challenged
  MaxLag,            \* bound: ticks a run takes at most
  MayEvict           \* whether the LRU maps may lose an entry

ASSUME ConstantsOK ==
  /\ SrcOf \in [Flow -> Src]
  /\ Config \subseteq [low : Nat, high : Nat]
  /\ \A g \in Config : g.high # 0 => g.high >= g.low  \* handleSetSynCookie
  /\ Quantum \in Nat \ {0} /\ Epochs \in Nat \ {0, 1}
  /\ Rotate \in Nat /\ Rotate >= 2 * Quantum - 1 + MaxLag
  /\ VerifiedTtl \in Nat \ {0}
  /\ MaxTime \in Nat /\ MaxSyns \in Nat /\ MaxLag \in Nat
  /\ MayEvict \in BOOLEAN

VARIABLES
  now,       \* bpf_ktime_get_ns
  cfg,       \* syn_cookie_cfg_map
  conn,      \* conn_table: the flows it knows
  secret,    \* syn_secret_map: current and previous secret, last rotation
  verified,  \* syn_verified: trusted until, 0 without an entry
  pc,        \* where each CPU is in the program
  pkt,       \* the packet it handles
  syns,      \* SYNs challenged so far, for the bound
  cookies,   \* history: the challenges sent
  raced,     \* history: two runs that overlapped have both rotated
  guessed    \* history: the sources whose trust rests on a cookie nobody gave
             \* them, accepted before the first rotation

kernel == <<cfg, conn, secret, verified>>
history == <<cookies, raced, guessed>>
vars == <<now, kernel, pc, pkt, syns, history>>

None == "none"
NoCookie == [flow |-> None, secret |-> 0, at |-> 0, clean |-> FALSE]
NoPkt == [flow |-> None, at |-> 0, ack |-> NoCookie, stale |-> FALSE]

Challenging == {"secret", "rotate", "renew", "stamp", "mint"}
Rotating == {"renew", "stamp"}

\* Secrets are numbered in the order they are drawn and never come twice.
\* A cookie is the flow, the secret and the epoch it was made from.  clean
\* says that no rotation overlapped the run that made it.
Cookie == [flow : Flow, secret : Nat, at : 0 .. now, clean : BOOLEAN]
Packet == [flow : Flow, at : 0 .. now, ack : Cookie \cup {NoCookie},
           stale : BOOLEAN]

\* The daemon stamps the first secret with the time of day, which no time since
\* boot reaches.
Seeded == MaxTime + 1

\* Anybody can compute a cookie under the secret the daemon seeds prev with.
KnownSecret == 0
MadeUp(k) == k.secret = KnownSecret /\ ~k.clean

MapsOK ==
  /\ cfg \in Config
  /\ conn \subseteq Flow
  /\ secret \in [cur : Nat \ {0}, prev : Nat, at : 0 .. Seeded]
  /\ verified \in [Src -> Nat]
  /\ \A s \in Src : verified[s] <= now + VerifiedTtl

RunsOK ==
  /\ pc \in [Cpu -> {"idle", "prev"} \cup Challenging]
  /\ pkt \in [Cpu -> Packet \cup {NoPkt}]
  /\ \A c \in Cpu : pc[c] # "idle" => pkt[c] \in Packet
  /\ \A c \in Cpu : pc[c] = "prev" =>
       pkt[c].ack \in cookies \/ MadeUp(pkt[c].ack)

HistoryOK ==
  /\ cookies \subseteq Cookie
  /\ raced \in BOOLEAN
  /\ guessed \subseteq Src

TypeOK == now \in 0 .. MaxTime /\ syns \in Nat /\ MapsOK /\ RunsOK /\ HistoryOK

\* The daemon draws the first secret; prev it sets to 0.
Init ==
  /\ now = 0
  /\ cfg \in Config
  /\ conn = {}
  /\ secret = [cur |-> 1, prev |-> KnownSecret, at |-> Seeded]
  /\ verified = [s \in Src |-> 0]
  /\ pc = [c \in Cpu |-> "idle"]
  /\ pkt = [c \in Cpu |-> NoPkt]
  /\ syns = 0
  /\ cookies = {} /\ raced = FALSE /\ guessed = {}

-----------------------------------------------------------------------------
Enabled == cfg.low > 0 \/ cfg.high > 0
SrcAt(c) == SrcOf[pkt[c].flow]

\* at - since > span in unsigned 64-bit arithmetic: a time another CPU
\* stamped after this run began counts as long past.
Elapsed(at, since, span) == since > at \/ at - since > span

Epoch(t) == t \div Quantum

\* syn_cookie_valid: made for this flow, from this secret, in this epoch or
\* the one before it, as far as the three bits of the cookie tell.
Matches_Later(k, f, key, t) ==  \* mutant: one epoch too many
  k.flow = f /\ k.secret = key /\ (Epoch(t) - Epoch(k.at)) % Epochs <= 2
Matches(k, f, key, t) ==
  k.flow = f /\ k.secret = key /\ (Epoch(t) - Epoch(k.at)) % Epochs <= 1

Done(c) ==
  /\ pc' = [pc EXCEPT ![c] = "idle"]
  /\ pkt' = [pkt EXCEPT ![c] = NoPkt]

Goto(c, label) == pc' = [pc EXCEPT ![c] = label] /\ UNCHANGED pkt

\* A new run, overlapped from the start by a rotation that is under way.
Begin(c, label, f, k) ==
  /\ pc' = [pc EXCEPT ![c] = label]
  /\ pkt' = [pkt EXCEPT ![c] =
       [flow |-> f, at |-> now, ack |-> k,
        stale |-> \E d \in Cpu : pc[d] \in Rotating]]

-----------------------------------------------------------------------------
(* The first SYN of a flow.                                                *)

\* With the feature off, or from a trusted source, it is let in, and so it
\* is below the lower threshold.  n is what syn_rate_bump returns.
Below(f) ==
  ~Enabled \/ verified[SrcOf[f]] > now \/ \E n \in 1 .. cfg.low : n < cfg.low

AdmitSyn(c, f) ==
  /\ pc[c] = "idle" /\ f \notin conn
  /\ Below(f)
  /\ conn' = conn \cup {f}
  /\ UNCHANGED <<now, cfg, secret, verified, pc, pkt, syns, history>>

\* From the lower threshold on it is challenged, from the higher one on it is
\* dropped, which changes nothing here.
ChallengeSyn(c, f) ==
  /\ pc[c] = "idle" /\ f \notin conn
  /\ Enabled /\ verified[SrcOf[f]] <= now
  /\ \E n \in 1 .. cfg.high : cfg.low <= n /\ n < cfg.high
  /\ syns < MaxSyns
  /\ syns' = syns + 1
  /\ Begin(c, "secret", f, NoCookie)
  /\ UNCHANGED <<now, kernel, history>>

-----------------------------------------------------------------------------
(* The challenge.                                                          *)

\* cookie_secret: is the secret due for rotation?
CheckSecret(c) ==
  /\ pc[c] = "secret"
  /\ Goto(c, IF Elapsed(pkt[c].at, secret.at, Rotate) THEN "rotate" ELSE "mint")
  /\ UNCHANGED <<now, kernel, syns, history>>

\* Three stores rotate it.  Every other run under way is overlapped by them.
Previous_Kept(s) == s.prev  \* mutant: the outgoing secret is not kept
Previous(s) == s.cur

RotatePrev(c) ==
  /\ pc[c] = "rotate"
  /\ secret' = [secret EXCEPT !.prev = Previous(secret)]
  /\ raced' = (raced \/ pkt[c].stale)
  /\ pc' = [pc EXCEPT ![c] = "renew"]
  /\ pkt' = [d \in Cpu |-> IF pc[d] # "idle" /\ d # c
                           THEN [pkt[d] EXCEPT !.stale = TRUE] ELSE pkt[d]]
  /\ UNCHANGED <<now, cfg, conn, verified, syns, cookies, guessed>>

Renew(c) ==
  /\ pc[c] = "renew"
  /\ secret' = [secret EXCEPT !.cur = @ + 1]
  /\ Goto(c, "stamp")
  /\ UNCHANGED <<now, cfg, conn, verified, syns, history>>

Stamp(c) ==
  /\ pc[c] = "stamp"
  /\ secret' = [secret EXCEPT !.at = pkt[c].at]
  /\ Goto(c, "mint")
  /\ UNCHANGED <<now, cfg, conn, verified, syns, history>>

\* make_syn_cookie and craft_syn_ack, which may fail and drop the packet.
Mint(c) ==
  /\ pc[c] = "mint"
  /\ \/ cookies' = cookies \cup {[flow |-> pkt[c].flow, secret |-> secret.cur,
                                  at |-> pkt[c].at, clean |-> ~pkt[c].stale]}
     \/ UNCHANGED cookies
  /\ Done(c)
  /\ UNCHANGED <<now, kernel, syns, raced, guessed>>

-----------------------------------------------------------------------------
(* A bare ACK of an unknown flow.  It echoes some cookie, or one computed  *)
(* under the known secret; any other number is as good as never valid.     *)

Computed(f) == [flow |-> f, secret |-> KnownSecret, at |-> now, clean |-> FALSE]

Trust_Extended(s, t) ==  \* mutant: trust is prolonged, not renewed
  verified' = [verified EXCEPT ![s] = IF @ > t THEN @ + VerifiedTtl ELSE t + VerifiedTtl]
Trust(s, t) == verified' = [verified EXCEPT ![s] = t + VerifiedTtl]

\* It is compared with the current secret's cookie first ...
Ack(c, f, k) ==
  /\ pc[c] = "idle" /\ f \notin conn /\ Enabled
  /\ \/ /\ Matches(k, f, secret.cur, now)
        /\ Trust(SrcOf[f], now)
        /\ guessed' = guessed \ {SrcOf[f]}
        /\ UNCHANGED <<pc, pkt>>
     \/ /\ ~Matches(k, f, secret.cur, now)
        /\ Begin(c, "prev", f, k)
        /\ UNCHANGED <<verified, guessed>>
  /\ UNCHANGED <<now, cfg, conn, secret, syns, cookies, raced>>

\* ... and with the previous one's then, which is the known secret until the
\* first rotation.  It is dropped either way.
AckPrev(c) ==
  /\ pc[c] = "prev"
  /\ \/ /\ Matches(pkt[c].ack, pkt[c].flow, secret.prev, pkt[c].at)
        /\ Trust(SrcAt(c), pkt[c].at)
        /\ guessed' = IF pkt[c].ack \notin cookies /\ secret.at = Seeded
             THEN guessed \cup {SrcAt(c)} ELSE guessed \ {SrcAt(c)}
     \/ /\ ~Matches(pkt[c].ack, pkt[c].flow, secret.prev, pkt[c].at)
        /\ UNCHANGED <<verified, guessed>>
  /\ Done(c)
  /\ UNCHANGED <<now, cfg, conn, secret, syns, cookies, raced>>

-----------------------------------------------------------------------------
\* An operator sets other thresholds.
SetSynCookieConfig(g) ==
  /\ g # cfg
  /\ cfg' = g
  /\ UNCHANGED <<now, conn, secret, verified, pc, pkt, syns, history>>

\* The LRU maps make room.
Evict ==
  /\ MayEvict
  /\ \/ \E f \in conn : conn' = conn \ {f} /\ UNCHANGED verified
     \/ \E s \in Src : verified' = [verified EXCEPT ![s] = 0] /\ UNCHANGED conn
  /\ UNCHANGED <<now, cfg, secret, pc, pkt, syns, history>>

Tick ==
  /\ now < MaxTime
  /\ \A c \in Cpu : pc[c] # "idle" => now < pkt[c].at + MaxLag
  /\ now' = now + 1
  /\ UNCHANGED <<kernel, pc, pkt, syns, history>>

Next ==
  \/ Tick \/ Evict
  \/ \E g \in Config : SetSynCookieConfig(g)
  \/ \E c \in Cpu :
       \/ \E f \in Flow : AdmitSyn(c, f) \/ ChallengeSyn(c, f)
       \/ \E f \in Flow : \E k \in cookies \cup {Computed(f)} : Ack(c, f, k)
       \/ CheckSecret(c) \/ RotatePrev(c) \/ Renew(c) \/ Stamp(c) \/ Mint(c)
       \/ AckPrev(c)

Spec == Init /\ [][Next]_vars

-----------------------------------------------------------------------------
(* Properties.                                                             *)

\* The answer to a challenge, given in the epoch of the challenge or the next.
InTime(k, t) == Epoch(t) - Epoch(k.at) <= 1

\* An answer given in time is accepted, whenever the secret is rotated
\* (the comment above struct syn_secret): what the current secret did not
\* validate the previous one does.  Runs a rotation overlaps are left out.
AnswerAccepted ==
  \A c \in Cpu :
    LET k == pkt[c].ack
    IN pc[c] = "prev" /\ ~pkt[c].stale /\ ~raced /\ k.clean
         /\ k.flow = pkt[c].flow /\ InTime(k, pkt[c].at)
       => Matches(k, pkt[c].flow, secret.prev, pkt[c].at)

\* A source is trusted only because one of its own flows was challenged, in
\* the epoch the trust began or the one before as far as three bits tell.  The
\* exception is guessed: as long as the daemon's seed has not been rotated out
\* a cookie computed under prev = 0 is accepted too, and never after that.
TrustEarned ==
  \A s \in Src : verified[s] > 0 =>
    \/ \E k \in cookies :
         /\ SrcOf[k.flow] = s
         /\ (Epoch(verified[s] - VerifiedTtl) - Epoch(k.at)) % Epochs <= 1
    \/ s \in guessed
=============================================================================
