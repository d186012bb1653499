-------------------------- MODULE SynCookieProofs --------------------------
(***************************************************************************)
(* The safety of SynCookie for any number of CPUs, sources and flows.      *)
(* That an answer in time is accepted rests on following every cookie      *)
(* through the rotations: it is made from the current secret, is handed to *)
(* the previous one by a rotation that runs while it can still be          *)
(* answered, and the rotation after that comes when it no longer can.      *)
(***************************************************************************)
EXTENDS SynCookie, TLAPS

\* No run outlasts its bound.
Lag == \A c \in Cpu : pc[c] # "idle" => now <= pkt[c].at + MaxLag

\* A run that is under way while another rotates knows itself overlapped.
Overlapped ==
  \A c, d \in Cpu : c # d /\ pc[d] \in Rotating /\ pc[c] # "idle" => pkt[c].stale

\* Two only rotate at once when the race has been recorded.
OneRotates ==
  ~raced => \A c, d \in Cpu : pc[c] \in Rotating /\ pc[d] \in Rotating => c = d

StampOK == secret.at = Seeded \/ secret.at <= now

\* A run no rotation overlapped began after the last one.
BeganAfter ==
  \A c \in Cpu : pc[c] # "idle" /\ pc[c] \notin Rotating /\ ~pkt[c].stale =>
    secret.at = Seeded \/ secret.at <= pkt[c].at

DueOK ==
  \A c \in Cpu : pc[c] = "rotate" /\ ~pkt[c].stale =>
    Elapsed(pkt[c].at, secret.at, Rotate)

MintOK ==
  \A c \in Cpu : pc[c] = "mint" /\ ~pkt[c].stale => secret.at <= pkt[c].at

SeedGone == \A k \in cookies : k.clean => secret.at <= now

\* An answer that is compared with the previous secret was not made from the
\* current one.
NotCurrent ==
  \A c \in Cpu : pc[c] = "prev" /\ ~pkt[c].stale =>
    /\ pkt[c].ack.at <= pkt[c].at
    /\ ~Matches(pkt[c].ack, pkt[c].flow, secret.cur, pkt[c].at)

\* A cookie after a rotation stamped t: kept by the previous secret, or made
\* so long before t that no answer can be in time.
Handed(k, t) ==
  \/ k.secret = secret.prev /\ k.at <= t + MaxLag
  \/ k.at + 2 * Quantum <= t
Held(k, t) == k.secret = secret.cur \/ Handed(k, t)

Kept ==
  ~raced => \A k \in cookies : k.clean =>
    /\ (\A d \in Cpu : pc[d] \notin Rotating) => Held(k, secret.at)
    /\ \A d \in Cpu : /\ pc[d] = "renew" => Handed(k, pkt[d].at)
                      /\ pc[d] = "stamp" => Held(k, pkt[d].at)

\* The secret everybody knows goes with the first rotation.
SeedGoes ==
  secret.prev = KnownSecret =>
    secret.at = Seeded /\ \A c \in Cpu : pc[c] \notin Rotating

Runs == Lag /\ Overlapped /\ OneRotates /\ StampOK /\ BeganAfter /\ DueOK /\ MintOK
Answers == SeedGone /\ NotCurrent /\ Kept
IInv == TypeOK /\ Runs /\ Answers /\ SeedGoes /\ TrustEarned

-----------------------------------------------------------------------------
(* Arithmetic.                                                             *)

LEMMA Bounds ==
  /\ SrcOf \in [Flow -> Src]
  /\ Quantum \in Nat /\ Quantum > 0
  /\ Epochs \in Nat /\ Epochs > 1
  /\ Rotate \in Nat /\ MaxLag \in Nat
  /\ Rotate >= 2 * Quantum - 1 + MaxLag
  /\ VerifiedTtl \in Nat /\ VerifiedTtl > 0
  /\ MaxTime \in Nat
  BY ConstantsOK DEF ConstantsOK

\* Two quanta are two epochs.
LEMMA TwoEpochs ==
  ASSUME NEW t \in Nat, NEW u \in Nat, u + 2 * Quantum <= t
  PROVE  Epoch(t) - Epoch(u) > 1
<1> DEFINE q == Quantum
           a == t \div q
           b == u \div q
<1>1. q \in Nat /\ q > 0
  BY Bounds
<1>2. a \in Nat /\ b \in Nat /\ t < q * (a + 1) /\ q * b <= u
  BY <1>1
<1>3. q * (b + 2) <= t
  BY <1>1, <1>2
<1>4. ~ (a <= b + 1)
  <2> SUFFICES ASSUME a <= b + 1 PROVE FALSE
    OBVIOUS
  <2>1. q * (a + 1) <= q * (b + 2)
    BY <1>1, <1>2
  <2> QED
    BY <1>1, <1>2, <1>3, <2>1
<1> QED
  BY <1>2, <1>4 DEF Epoch

\* Time does not run back through the epochs.
LEMMA EpochGrows ==
  ASSUME NEW t \in Nat, NEW u \in Nat, u <= t
  PROVE  Epoch(t) \in Nat /\ Epoch(u) \in Nat /\ Epoch(u) <= Epoch(t)
<1> DEFINE q == Quantum
           a == t \div q
           b == u \div q
<1>1. q \in Nat /\ q > 0
  BY Bounds
<1>2. a \in Nat /\ b \in Nat /\ t < q * (a + 1) /\ q * b <= u
  BY <1>1
<1>3. ~ (a + 1 <= b)
  <2> SUFFICES ASSUME a + 1 <= b PROVE FALSE
    OBVIOUS
  <2>1. q * (a + 1) <= q * b
    BY <1>1, <1>2
  <2> QED
    BY <1>1, <1>2, <2>1
<1> QED
  BY <1>2, <1>3 DEF Epoch

\* An answer in time matches the cookie it echoes.
LEMMA InTimeMatches ==
  ASSUME NEW k, NEW t \in Nat, k.at \in Nat, k.at <= t, InTime(k, t)
  PROVE  Matches(k, k.flow, k.secret, t)
<1>1. Epoch(t) - Epoch(k.at) \in {0, 1}
  BY EpochGrows DEF InTime
<1>2. 0 % Epochs = 0 /\ 1 % Epochs = 1
  BY Bounds
<1> QED
  BY <1>1, <1>2 DEF Matches

-----------------------------------------------------------------------------
(* Types.                                                                   *)

\* What has been stamped stays in the past.
LEMMA PastGrows ==
  ASSUME now \in Nat, now' \in Nat, now <= now'
  PROVE  Cookie \subseteq Cookie' /\ Packet \subseteq Packet'
  BY DEF Cookie, Packet

\* The three ways a step moves a run on keep its packet a packet.
LEMMA GotoKeeps ==
  ASSUME TypeOK, NEW c \in Cpu, NEW label \in Challenging, pc[c] # "idle",
         Goto(c, label), UNCHANGED now, cookies \subseteq cookies'
  PROVE  RunsOK'
<1> USE DEF TypeOK, RunsOK, Goto
<1>1. pc' \in [Cpu -> {"idle", "prev"} \cup Challenging] /\ Packet' = Packet
  BY DEF Packet, Cookie
<1>2. label # "idle" /\ label # "prev"
  BY DEF Challenging
<1> QED
  BY <1>1, <1>2 DEF Packet

LEMMA DoneKeeps ==
  ASSUME TypeOK, NEW c \in Cpu, Done(c), UNCHANGED now, cookies \subseteq cookies'
  PROVE  RunsOK'
<1> USE DEF TypeOK, RunsOK, Done
<1>1. Packet' = Packet
  BY DEF Packet, Cookie
<1> QED
  BY <1>1

LEMMA BeginKeeps ==
  ASSUME TypeOK, NEW c \in Cpu, NEW label \in {"secret", "prev"}, NEW f \in Flow,
         NEW k \in Cookie \cup {NoCookie},
         label = "prev" => k \in cookies \/ MadeUp(k),
         Begin(c, label, f, k), UNCHANGED <<now, cookies>>
  PROVE  RunsOK'
<1> USE DEF TypeOK, RunsOK, Begin
<1>1. Packet' = Packet
  BY DEF Packet, Cookie
<1>2. now \in 0 .. now
  BY Bounds
<1>3. pc' \in [Cpu -> {"idle", "prev"} \cup Challenging]
  BY DEF Challenging
<1> DEFINE p == [flow |-> f, at |-> now, ack |-> k,
                 stale |-> \E d \in Cpu : pc[d] \in Rotating]
<1>4. p \in Packet /\ p.ack = k
  BY <1>2 DEF Packet
<1>5. pkt' = [pkt EXCEPT ![c] = p]
  OBVIOUS
<1> HIDE DEF p
<1> QED
  BY <1>1, <1>3, <1>4, <1>5

\* What a source answers with is a cookie.
LEMMA EchoIsCookie ==
  ASSUME TypeOK, NEW f \in Flow, NEW k \in cookies \cup {Computed(f)}
  PROVE  k \in Cookie /\ (k \in cookies \/ MadeUp(k))
<1>1. now \in 0 .. now
  BY Bounds DEF TypeOK
<1>2. Computed(f) \in Cookie /\ MadeUp(Computed(f))
  BY <1>1 DEF Computed, Cookie, MadeUp, KnownSecret
<1> QED
  BY <1>2 DEF TypeOK, HistoryOK

LEMMA TypeInit == Init => TypeOK
<1> SUFFICES ASSUME Init PROVE TypeOK
  OBVIOUS
<1> USE Bounds DEF Init
<1>1. MapsOK
  BY DEF MapsOK, Seeded, KnownSecret
<1>2. RunsOK
  BY DEF RunsOK
<1>3. HistoryOK
  BY DEF HistoryOK
<1> QED
  BY <1>1, <1>2, <1>3 DEF TypeOK, Seeded

LEMMA TypeStep == TypeOK /\ [Next]_vars => TypeOK'
<1> SUFFICES ASSUME TypeOK, [Next]_vars PROVE TypeOK'
  OBVIOUS
<1> USE DEF TypeOK, kernel, history
<1>1. CASE Tick
  <2> USE <1>1 DEF Tick
  <2>1. Cookie \subseteq Cookie' /\ Packet \subseteq Packet'
    BY PastGrows, Bounds
  <2>2. now' \in 0 .. MaxTime /\ MapsOK'
    BY Bounds DEF MapsOK
  <2>3. RunsOK' /\ HistoryOK'
    BY <2>1 DEF RunsOK, HistoryOK
  <2> QED
    BY <2>2, <2>3
<1>2. CASE Evict
  <2> USE <1>2 DEF Evict
  <2>1. MapsOK'
    BY Bounds DEF MapsOK
  <2>2. RunsOK' /\ HistoryOK'
    BY DEF RunsOK, HistoryOK, Packet, Cookie
  <2> QED
    BY <2>1, <2>2
<1>3. ASSUME NEW g \in Config, SetSynCookieConfig(g) PROVE TypeOK'
  BY <1>3 DEF SetSynCookieConfig, MapsOK, RunsOK, HistoryOK, Packet, Cookie
<1>4. ASSUME NEW c \in Cpu, NEW f \in Flow, AdmitSyn(c, f) PROVE TypeOK'
  BY <1>4 DEF AdmitSyn, MapsOK, RunsOK, HistoryOK, Packet, Cookie
<1>5. ASSUME NEW c \in Cpu, NEW f \in Flow, ChallengeSyn(c, f) PROVE TypeOK'
  <2> USE <1>5 DEF ChallengeSyn
  <2>1. RunsOK'
    BY BeginKeeps
  <2>2. syns' \in Nat /\ MapsOK' /\ HistoryOK'
    BY DEF MapsOK, HistoryOK, Cookie
  <2> QED
    BY <2>1, <2>2
<1>6. ASSUME NEW c \in Cpu, NEW f \in Flow, NEW k \in cookies \cup {Computed(f)},
             Ack(c, f, k)
      PROVE  TypeOK'
  <2> USE <1>6 DEF Ack
  <2>1. RunsOK'
    <3>1. CASE UNCHANGED <<pc, pkt>>
      BY <3>1 DEF RunsOK, Packet, Cookie
    <3>2. CASE Begin(c, "prev", f, k)
      BY <3>2, EchoIsCookie, BeginKeeps
    <3> QED
      BY <3>1, <3>2
  <2>2. MapsOK'
    BY Bounds DEF MapsOK, Trust
  <2>3. HistoryOK'
    BY Bounds DEF HistoryOK, Cookie
  <2> QED
    BY <2>1, <2>2, <2>3
<1>7. ASSUME NEW c \in Cpu, CheckSecret(c) PROVE TypeOK'
  <2> USE <1>7 DEF CheckSecret
  <2>1. RunsOK'
    BY GotoKeeps DEF Challenging
  <2> QED
    BY <2>1 DEF MapsOK, HistoryOK, Cookie
<1>8. ASSUME NEW c \in Cpu, RotatePrev(c) PROVE TypeOK'
  <2> USE <1>8 DEF RotatePrev
  <2>1. MapsOK' /\ HistoryOK'
    BY DEF MapsOK, HistoryOK, Cookie, Previous, RunsOK, Packet
  <2>2. Packet' = Packet
    BY DEF Packet, Cookie
  <2>3. pc' \in [Cpu -> {"idle", "prev"} \cup Challenging]
    BY DEF RunsOK, Challenging
  <2>4. \A d \in Cpu : pc[d] # "idle" =>
          pkt'[d] \in Packet /\ pkt'[d].ack = pkt[d].ack
    BY DEF RunsOK, Packet
  <2>5. \A d \in Cpu : pc[d] = "idle" => pkt'[d] = pkt[d]
    OBVIOUS
  <2>6. pkt' \in [Cpu -> Packet \cup {NoPkt}]
    BY <2>4, <2>5 DEF RunsOK
  <2>7. RunsOK'
    BY <2>2, <2>3, <2>4, <2>5, <2>6 DEF RunsOK
  <2> QED
    BY <2>1, <2>7
<1>9. ASSUME NEW c \in Cpu, Renew(c) PROVE TypeOK'
  <2> USE <1>9 DEF Renew
  <2>1. RunsOK'
    BY GotoKeeps DEF Challenging
  <2> QED
    BY <2>1 DEF MapsOK, HistoryOK, Cookie
<1>10. ASSUME NEW c \in Cpu, Stamp(c) PROVE TypeOK'
  <2> USE <1>10 DEF Stamp
  <2>1. RunsOK'
    BY GotoKeeps DEF Challenging
  <2>2. pkt[c].at \in 0 .. Seeded
    BY Bounds DEF RunsOK, Packet, Seeded
  <2> QED
    BY <2>1, <2>2 DEF MapsOK, HistoryOK, Cookie
<1>11. ASSUME NEW c \in Cpu, Mint(c) PROVE TypeOK'
  <2> USE <1>11 DEF Mint
  <2>1. RunsOK'
    BY DoneKeeps
  <2>2. pkt[c].flow \in Flow /\ pkt[c].at \in 0 .. now /\ pkt[c].stale \in BOOLEAN
    BY DEF RunsOK, Packet
  <2> DEFINE b == ~pkt[c].stale
             k == [flow |-> pkt[c].flow, secret |-> secret.cur, at |-> pkt[c].at,
                   clean |-> b]
  <2>3. b \in BOOLEAN
    OBVIOUS
  <2>4. k \in Cookie
    <3> HIDE DEF b
    <3> QED
      BY <2>2, <2>3 DEF Cookie, MapsOK
  <2>5. cookies' \subseteq cookies \cup {k}
    OBVIOUS
  <2>6. HistoryOK'
    <3> HIDE DEF k
    <3> QED
      BY <2>4, <2>5 DEF HistoryOK, Cookie
  <2> QED
    BY <2>1, <2>6 DEF MapsOK
<1>12. ASSUME NEW c \in Cpu, AckPrev(c) PROVE TypeOK'
  <2> USE <1>12 DEF AckPrev
  <2>1. RunsOK'
    BY DoneKeeps
  <2>2. MapsOK'
    BY Bounds DEF MapsOK, Trust, RunsOK, Packet
  <2>3. SrcAt(c) \in Src
    BY Bounds DEF RunsOK, Packet, SrcAt
  <2>4. guessed' \subseteq Src
    BY <2>3 DEF HistoryOK
  <2> QED
    BY <2>1, <2>2, <2>4 DEF HistoryOK, Cookie
<1>13. CASE UNCHANGED vars
  BY <1>13 DEF vars, MapsOK, RunsOK, HistoryOK, Packet, Cookie
<1> QED
  BY <1>1, <1>2, <1>3, <1>4, <1>5, <1>6, <1>7, <1>8, <1>9, <1>10, <1>11,
     <1>12, <1>13 DEF Next

-----------------------------------------------------------------------------
(* The runs of the CPUs.                                                    *)

LEMMA RunTypes ==
  ASSUME TypeOK, NEW c \in Cpu, pc[c] # "idle"
  PROVE  /\ pkt[c].at \in Nat /\ pkt[c].at <= now
         /\ pkt[c].flow \in Flow /\ pkt[c].stale \in BOOLEAN
  BY DEF TypeOK, RunsOK, Packet

LEMMA SecretTypes ==
  ASSUME TypeOK
  PROVE  /\ now \in Nat /\ now <= MaxTime
         /\ secret.at \in Nat /\ secret.cur \in Nat /\ secret.prev \in Nat
         /\ pc \in [Cpu -> {"idle", "prev"} \cup Challenging]
         /\ raced \in BOOLEAN
  BY Bounds DEF TypeOK, MapsOK, RunsOK, HistoryOK

\* A run that rotates and was not overlapped is the only one.
LEMMA Alone ==
  ASSUME Overlapped, NEW c \in Cpu, pc[c] # "idle", ~pkt[c].stale, NEW d \in Cpu,
         pc[d] \in Rotating
  PROVE  d = c
  BY DEF Overlapped

LEMMA RunsInit == Init => Runs
  BY Bounds DEF Init, Runs, Lag, Overlapped, OneRotates, StampOK, BeganAfter,
     DueOK, MintOK, Rotating, Seeded

\* Steps that leave the secret and the runs alone.
LEMMA RunsQuiet ==
  ASSUME Runs, UNCHANGED <<now, secret, pc, pkt, raced>>
  PROVE  Runs'
  BY DEF Runs, Lag, Overlapped, OneRotates, StampOK, BeganAfter, DueOK, MintOK

LEMMA RunsTick ==
  ASSUME TypeOK, Runs, Tick
  PROVE  Runs'
<1> USE DEF Tick, Runs, kernel, history
<1>1. Lag'
  BY RunTypes, SecretTypes, Bounds DEF Lag
<1>2. StampOK'
  BY SecretTypes DEF StampOK, Seeded
<1>3. Overlapped' /\ OneRotates'
  BY DEF Overlapped, OneRotates
<1>4. BeganAfter' /\ DueOK' /\ MintOK'
  BY DEF BeganAfter, DueOK, MintOK, Seeded
<1> QED
  BY <1>1, <1>2, <1>3, <1>4

\* A run begins now, after the last rotation or overlapped by the one under way.
LEMMA RunsBegin ==
  ASSUME TypeOK, Runs, NEW c \in Cpu, NEW label \in {"secret", "prev"}, NEW f, NEW k,
         pc[c] = "idle", Begin(c, label, f, k), UNCHANGED <<now, secret, raced>>
  PROVE  Runs'
<1> USE SecretTypes DEF Runs
<1> DEFINE late == \E d \in Cpu : pc[d] \in Rotating
<1>1. /\ pc'[c] = label /\ pkt'[c].at = now /\ pkt'[c].stale = late
      /\ \A d \in Cpu : d # c => pc'[d] = pc[d] /\ pkt'[d] = pkt[d]
  BY DEF Begin, TypeOK, RunsOK
<1>2. late <=> \E d \in Cpu : d # c /\ pc'[d] \in Rotating
  BY <1>1 DEF Rotating
<1>3. pc'[c] \notin Rotating /\ pc'[c] # "rotate" /\ pc'[c] # "mint"
  BY <1>1 DEF Rotating
<1> HIDE DEF late
<1>4. Lag'
  BY <1>1, Bounds DEF Lag
<1>5. Overlapped'
  BY <1>1, <1>2, <1>3 DEF Overlapped
<1>6. OneRotates'
  BY <1>1, <1>3 DEF OneRotates
<1>7. StampOK'
  BY DEF StampOK, Seeded
<1>8. BeganAfter'
  BY <1>1 DEF BeganAfter, StampOK, Seeded
<1>9. DueOK' /\ MintOK'
  BY <1>1, <1>3 DEF DueOK, MintOK
<1> QED
  BY <1>4, <1>5, <1>6, <1>7, <1>8, <1>9

LEMMA RunsDone ==
  ASSUME TypeOK, Runs, NEW c \in Cpu, Done(c), UNCHANGED <<now, secret, raced>>
  PROVE  Runs'
<1> USE SecretTypes DEF Runs
<1>1. /\ pc'[c] = "idle"
      /\ \A d \in Cpu : d # c => pc'[d] = pc[d] /\ pkt'[d] = pkt[d]
  BY DEF Done, TypeOK, RunsOK
<1>2. pc'[c] \notin Rotating
  BY <1>1 DEF Rotating
<1>3. Lag' /\ StampOK'
  BY <1>1 DEF Lag, StampOK, Seeded
<1>4. Overlapped' /\ OneRotates'
  BY <1>1, <1>2 DEF Overlapped, OneRotates
<1>5. BeganAfter' /\ DueOK' /\ MintOK'
  BY <1>1, <1>2 DEF BeganAfter, DueOK, MintOK, Seeded
<1> QED
  BY <1>3, <1>4, <1>5

LEMMA RunsCheckSecret ==
  ASSUME TypeOK, Runs, NEW c \in Cpu, CheckSecret(c)
  PROVE  Runs'
<1> USE SecretTypes DEF Runs
<1> DEFINE due == Elapsed(pkt[c].at, secret.at, Rotate)
<1>1. /\ pc[c] = "secret" /\ pc'[c] = IF due THEN "rotate" ELSE "mint"
      /\ \A d \in Cpu : d # c => pc'[d] = pc[d]
      /\ UNCHANGED <<now, secret, raced, pkt>>
  BY DEF CheckSecret, Goto, kernel, history
<1>2. pc[c] \notin Rotating /\ pc'[c] \notin Rotating
  BY <1>1 DEF Rotating
<1>3. Lag' /\ StampOK'
  BY <1>1 DEF Lag, StampOK, Seeded
<1>4. Overlapped' /\ OneRotates'
  BY <1>1, <1>2 DEF Overlapped, OneRotates
<1>5. BeganAfter'
  BY <1>1, <1>2 DEF BeganAfter, Seeded
<1>6. DueOK'
  BY <1>1 DEF DueOK
<1>7. ~due => secret.at <= pkt[c].at
  BY <1>1, RunTypes DEF Elapsed
<1>8. MintOK'
  <2> HIDE DEF due
  <2> QED
    BY <1>1, <1>7 DEF MintOK
<1> QED
  BY <1>3, <1>4, <1>5, <1>6, <1>8

\* A rotation begins: every other run is overlapped by it.
LEMMA RunsRotatePrev ==
  ASSUME TypeOK, Runs, NEW c \in Cpu, RotatePrev(c)
  PROVE  Runs'
<1> USE SecretTypes DEF Runs
<1>1. /\ pc[c] = "rotate" /\ pc'[c] = "renew"
      /\ \A d \in Cpu : d # c => pc'[d] = pc[d]
      /\ pkt'[c] = pkt[c]
      /\ UNCHANGED now /\ secret'.at = secret.at
      /\ raced' = (raced \/ pkt[c].stale)
  BY DEF RotatePrev, TypeOK, MapsOK
<1>2. \A d \in Cpu : d # c /\ pc[d] # "idle" =>
        pkt'[d].stale /\ pkt'[d].at = pkt[d].at
  BY DEF RotatePrev, TypeOK, RunsOK, Packet
<1>3. Lag' /\ StampOK'
  BY <1>1, <1>2 DEF Lag, StampOK, Seeded
<1>4. Overlapped'
  BY <1>1, <1>2 DEF Overlapped
<1>5. ~pkt[c].stale => \A d \in Cpu : pc[d] \notin Rotating
  BY <1>1, Alone DEF Rotating
<1>6. OneRotates'
  BY <1>1, <1>5 DEF OneRotates
<1>7. pc'[c] \in Rotating
  BY <1>1 DEF Rotating
<1>8. BeganAfter' /\ DueOK' /\ MintOK'
  BY <1>1, <1>2, <1>7 DEF BeganAfter, DueOK, MintOK
<1> QED
  BY <1>3, <1>4, <1>6, <1>8

LEMMA RunsRenew ==
  ASSUME TypeOK, Runs, NEW c \in Cpu, Renew(c)
  PROVE  Runs'
<1> USE SecretTypes DEF Runs
<1>1. /\ pc[c] = "renew" /\ pc'[c] = "stamp"
      /\ \A d \in Cpu : d # c => pc'[d] = pc[d]
      /\ UNCHANGED <<now, pkt, raced>> /\ secret'.at = secret.at
  BY DEF Renew, Goto, history, TypeOK, MapsOK
<1>2. pc[c] \in Rotating /\ pc'[c] \in Rotating
  BY <1>1 DEF Rotating
<1>3. Lag' /\ StampOK'
  BY <1>1 DEF Lag, StampOK, Seeded
<1>4. Overlapped' /\ OneRotates'
  BY <1>1, <1>2 DEF Overlapped, OneRotates
<1>5. BeganAfter' /\ DueOK' /\ MintOK'
  BY <1>1, <1>2 DEF BeganAfter, DueOK, MintOK, Seeded
<1> QED
  BY <1>3, <1>4, <1>5

\* A rotation ends.  No other run that could mind is free of its overlap.
LEMMA RunsStamp ==
  ASSUME TypeOK, Runs, NEW c \in Cpu, Stamp(c)
  PROVE  Runs'
<1> USE SecretTypes DEF Runs
<1>1. /\ pc[c] = "stamp" /\ pc'[c] = "mint"
      /\ \A d \in Cpu : d # c => pc'[d] = pc[d]
      /\ UNCHANGED <<now, pkt, raced>> /\ secret'.at = pkt[c].at
  BY DEF Stamp, Goto, history, TypeOK, MapsOK
<1>2. pc[c] \in Rotating /\ pc'[c] \notin Rotating /\ pc[c] # "idle"
  BY <1>1 DEF Rotating
<1>3. \A d \in Cpu : d # c /\ pc[d] # "idle" => pkt[d].stale
  BY <1>2 DEF Overlapped
<1>4. pkt[c].at \in Nat /\ pkt[c].at <= now
  BY <1>2, RunTypes
<1>5. Lag' /\ StampOK'
  BY <1>1, <1>2, <1>4 DEF Lag, StampOK
<1>6. Overlapped' /\ OneRotates'
  BY <1>1, <1>2 DEF Overlapped, OneRotates
<1>7. BeganAfter' /\ DueOK' /\ MintOK'
  BY <1>1, <1>2, <1>3, <1>4 DEF BeganAfter, DueOK, MintOK
<1> QED
  BY <1>5, <1>6, <1>7

LEMMA RunsStep == TypeOK /\ Runs /\ [Next]_vars => Runs'
<1> SUFFICES ASSUME TypeOK, Runs, [Next]_vars PROVE Runs'
  OBVIOUS
<1> USE DEF kernel, history
<1>1. CASE Tick
  BY <1>1, RunsTick
<1>2. CASE Evict
  BY <1>2, RunsQuiet DEF Evict
<1>3. ASSUME NEW g \in Config, SetSynCookieConfig(g) PROVE Runs'
  BY <1>3, RunsQuiet DEF SetSynCookieConfig
<1>4. ASSUME NEW c \in Cpu, NEW f \in Flow, AdmitSyn(c, f) PROVE Runs'
  BY <1>4, RunsQuiet DEF AdmitSyn
<1>5. ASSUME NEW c \in Cpu, NEW f \in Flow, ChallengeSyn(c, f) PROVE Runs'
  BY <1>5, RunsBegin DEF ChallengeSyn
<1>6. ASSUME NEW c \in Cpu, NEW f \in Flow, NEW k \in cookies \cup {Computed(f)},
             Ack(c, f, k)
      PROVE  Runs'
  BY <1>6, RunsBegin, RunsQuiet DEF Ack
<1>7. ASSUME NEW c \in Cpu, CheckSecret(c) PROVE Runs'
  BY <1>7, RunsCheckSecret
<1>8. ASSUME NEW c \in Cpu, RotatePrev(c) PROVE Runs'
  BY <1>8, RunsRotatePrev
<1>9. ASSUME NEW c \in Cpu, Renew(c) \/ Stamp(c) PROVE Runs'
  BY <1>9, RunsRenew, RunsStamp
<1>10. ASSUME NEW c \in Cpu, Mint(c) PROVE Runs'
  BY <1>10, RunsDone DEF Mint
<1>11. ASSUME NEW c \in Cpu, AckPrev(c) PROVE Runs'
  BY <1>11, RunsDone DEF AckPrev
<1>12. CASE UNCHANGED vars
  BY <1>12, RunsQuiet DEF vars
<1> QED
  BY <1>1, <1>2, <1>3, <1>4, <1>5, <1>6, <1>7, <1>8, <1>9, <1>10, <1>11,
     <1>12 DEF Next

-----------------------------------------------------------------------------
(* The answers to challenges.                                               *)

\* Steps that leave the secret, the runs and the challenges alone.
LEMMA AnswersQuiet ==
  ASSUME TypeOK, Answers, now' = now \/ now' = now + 1,
         UNCHANGED <<secret, pc, pkt, cookies, raced>>
  PROVE  Answers'
<1> USE SecretTypes DEF Answers
<1>1. SeedGone'
  BY DEF SeedGone
<1>2. NotCurrent'
  BY DEF NotCurrent, Matches
<1>3. Kept'
  BY DEF Kept, Held, Handed
<1> QED
  BY <1>1, <1>2, <1>3

\* Steps of a run that does not rotate, before or after.
LEMMA AnswersMove ==
  ASSUME TypeOK, Answers, NEW c \in Cpu, pc[c] \notin Rotating, pc'[c] \notin Rotating,
         pc'[c] # "prev",
         \A d \in Cpu : d # c => pc'[d] = pc[d] /\ pkt'[d] = pkt[d],
         UNCHANGED <<now, secret, cookies, raced>>
  PROVE  Answers'
<1> USE SecretTypes DEF Answers
<1>1. SeedGone'
  BY DEF SeedGone
<1>2. NotCurrent'
  BY DEF NotCurrent, Matches
<1>3. Kept'
  BY DEF Kept, Held, Handed, Rotating
<1> QED
  BY <1>1, <1>2, <1>3

\* An answer the current secret has not validated.
LEMMA AnswersAck ==
  ASSUME TypeOK, Answers, NEW c \in Cpu, NEW f \in Flow, NEW k \in Cookie,
         pc[c] = "idle", Begin(c, "prev", f, k), ~Matches(k, f, secret.cur, now),
         UNCHANGED <<now, secret, cookies, raced>>
  PROVE  Answers'
<1> USE SecretTypes DEF Answers
<1>1. /\ pc'[c] = "prev" /\ pkt'[c].ack = k /\ pkt'[c].flow = f /\ pkt'[c].at = now
      /\ \A d \in Cpu : d # c => pc'[d] = pc[d] /\ pkt'[d] = pkt[d]
  BY DEF Begin, TypeOK, RunsOK
<1>2. k.at <= now
  BY DEF Cookie
<1>3. SeedGone'
  BY DEF SeedGone
<1>4. NotCurrent'
  BY <1>1, <1>2 DEF NotCurrent, Matches
<1>5. pc[c] \notin Rotating /\ pc'[c] \notin Rotating
  BY <1>1 DEF Rotating
<1>6. Kept'
  BY <1>1, <1>5 DEF Kept, Held, Handed, Rotating
<1> QED
  BY <1>3, <1>4, <1>6

\* The new cookie is made from the current secret; it is clean only if no
\* rotation is under way and the secret has been stamped.
LEMMA AnswersMint ==
  ASSUME TypeOK, Runs, Answers, NEW c \in Cpu, Mint(c)
  PROVE  Answers'
<1> USE SecretTypes DEF Answers
<1>1. /\ pc[c] = "mint" /\ pc'[c] = "idle"
      /\ \A d \in Cpu : d # c => pc'[d] = pc[d] /\ pkt'[d] = pkt[d]
      /\ UNCHANGED <<now, secret, raced>>
  BY DEF Mint, Done, kernel, TypeOK, RunsOK
<1>2. pc[c] \notin Rotating /\ pc'[c] \notin Rotating /\ pc[c] # "idle"
  BY <1>1 DEF Rotating
<1>3. \A k \in cookies' :
        k \in cookies \/ (k.secret = secret.cur /\ (k.clean => ~pkt[c].stale))
  <2> DEFINE b == ~pkt[c].stale
             n == [flow |-> pkt[c].flow, secret |-> secret.cur, at |-> pkt[c].at,
                   clean |-> b]
  <2>1. cookies' \subseteq cookies \cup {n}
    BY DEF Mint
  <2>2. n.secret = secret.cur /\ n.clean = b
    <3> HIDE DEF b
    <3> QED
      OBVIOUS
  <2>3. n.clean => ~pkt[c].stale
    BY <2>2, Zenon
  <2> HIDE DEF n
  <2> QED
    BY <2>1, <2>2, <2>3
<1>4. ~pkt[c].stale => /\ secret.at <= now
                       /\ \A d \in Cpu : pc[d] \notin Rotating
  <2> SUFFICES ASSUME ~pkt[c].stale
               PROVE  secret.at <= now /\ \A d \in Cpu : pc[d] \notin Rotating
    OBVIOUS
  <2>1. secret.at <= now
    BY <1>1, <1>2, RunTypes DEF Runs, MintOK
  <2>2. \A d \in Cpu : pc[d] \notin Rotating
    BY <1>2, Alone DEF Runs
  <2> QED
    BY <2>1, <2>2
<1>5. SeedGone'
  BY <1>1, <1>3, <1>4 DEF SeedGone
<1>6. NotCurrent'
  BY <1>1 DEF NotCurrent, Matches
<1>7. Kept'
  <2> SUFFICES ASSUME ~raced, NEW k \in cookies', k.clean
               PROVE  /\ (\A d \in Cpu : pc'[d] \notin Rotating) => Held(k, secret.at)'
                      /\ \A d \in Cpu : /\ pc'[d] = "renew" => Handed(k, pkt[d].at)'
                                        /\ pc'[d] = "stamp" => Held(k, pkt[d].at)'
    BY <1>1 DEF Kept
  <2>1. CASE k \in cookies
    BY <2>1, <1>1, <1>2 DEF Kept, Held, Handed
  <2>2. CASE k \notin cookies
    <3>1. k.secret = secret.cur /\ \A d \in Cpu : pc[d] \notin Rotating
      BY <2>2, <1>3, <1>4
    <3>2. \A d \in Cpu : pc'[d] \notin Rotating
      BY <3>1, <1>1, <1>2
    <3> QED
      BY <3>1, <3>2, <1>1 DEF Held, Rotating
  <2> QED
    BY <2>1, <2>2
<1> QED
  BY <1>5, <1>6, <1>7

\* What the previous secret had kept until now is too old to be answered.
LEMMA AnswersRotatePrev ==
  ASSUME TypeOK, Runs, Answers, NEW c \in Cpu, RotatePrev(c)
  PROVE  Answers'
<1> USE SecretTypes, Bounds DEF Answers
<1>1. /\ pc[c] = "rotate" /\ pc'[c] = "renew"
      /\ \A d \in Cpu : d # c => pc'[d] = pc[d]
      /\ pkt'[c] = pkt[c]
      /\ UNCHANGED <<now, cookies>>
      /\ secret'.at = secret.at /\ secret'.cur = secret.cur /\ secret'.prev = secret.cur
      /\ raced' = (raced \/ pkt[c].stale)
  BY DEF RotatePrev, TypeOK, MapsOK, Previous
<1>2. \A d \in Cpu : d # c /\ pc[d] # "idle" => pkt'[d].stale
  BY DEF RotatePrev, TypeOK, RunsOK, Packet
<1>3. SeedGone'
  BY <1>1 DEF SeedGone
<1>4. NotCurrent'
  BY <1>1, <1>2 DEF NotCurrent
<1>5. Kept'
  <2> SUFFICES ASSUME ~raced', NEW k \in cookies, k.clean
               PROVE  /\ (\A d \in Cpu : pc'[d] \notin Rotating) => Held(k, secret.at)'
                      /\ \A d \in Cpu : /\ pc'[d] = "renew" => Handed(k, pkt[d].at)'
                                        /\ pc'[d] = "stamp" => Held(k, pkt[d].at)'
    BY <1>1 DEF Kept
  <2>1. ~raced /\ ~pkt[c].stale
    BY <1>1
  <2>2. pc'[c] \in Rotating /\ pc[c] \notin Rotating /\ pc[c] # "idle"
    BY <1>1 DEF Rotating
  <2>3. \A d \in Cpu : pc[d] \notin Rotating
    BY <2>1, <2>2, Alone DEF Runs
  <2>4. \A d \in Cpu : d # c => pc'[d] # "renew" /\ pc'[d] # "stamp"
    BY <2>3, <1>1 DEF Rotating
  <2>5. k.at \in Nat /\ k.at <= now
    BY DEF TypeOK, HistoryOK, Cookie
  <2>6. pkt[c].at \in Nat /\ now <= pkt[c].at + MaxLag
    BY <2>2, RunTypes DEF Runs, Lag
  <2>7. secret.at <= pkt[c].at
    <3>1. secret.at <= now
      BY DEF SeedGone
    <3> QED
      BY <3>1, <2>1, <2>2 DEF Runs, BeganAfter, Seeded
  <2>8. pkt[c].at - secret.at > Rotate
    BY <2>1, <2>6, <2>7, <1>1 DEF Runs, DueOK, Elapsed
  <2>9. Held(k, secret.at)
    BY <2>1, <2>3 DEF Kept
  <2>10. \/ secret'.prev = k.secret /\ k.at <= pkt[c].at + MaxLag
         \/ k.at + 2 * Quantum <= pkt[c].at
    <3>1. CASE k.secret = secret.cur
      BY <3>1, <2>5, <2>6, <1>1
    <3>2. CASE k.at <= secret.at + MaxLag
      BY <3>2, <2>5, <2>6, <2>8
    <3>3. CASE k.at + 2 * Quantum <= secret.at
      BY <3>3, <2>5, <2>6, <2>7
    <3> QED
      BY <2>9, <3>1, <3>2, <3>3 DEF Held, Handed
  <2> QED
    BY <2>2, <2>4, <2>10, <1>1 DEF Handed
<1> QED
  BY <1>3, <1>4, <1>5

LEMMA AnswersRenew ==
  ASSUME TypeOK, Runs, Answers, NEW c \in Cpu, Renew(c)
  PROVE  Answers'
<1> USE SecretTypes DEF Answers
<1>1. /\ pc[c] = "renew" /\ pc'[c] = "stamp"
      /\ \A d \in Cpu : d # c => pc'[d] = pc[d]
      /\ UNCHANGED <<now, pkt, raced, cookies>>
      /\ secret'.at = secret.at /\ secret'.prev = secret.prev
  BY DEF Renew, Goto, history, TypeOK, MapsOK
<1>2. pc[c] \in Rotating /\ pc'[c] \in Rotating
  BY <1>1 DEF Rotating
<1>3. \A d \in Cpu : pc'[d] = "prev" => pkt[d].stale /\ pc[d] = "prev"
  BY <1>1, <1>2 DEF Runs, Overlapped
<1>4. SeedGone' /\ NotCurrent'
  BY <1>1, <1>3 DEF SeedGone, NotCurrent
<1>5. Kept'
  <2> SUFFICES ASSUME ~raced, NEW k \in cookies, k.clean
               PROVE  /\ (\A d \in Cpu : pc'[d] \notin Rotating) => Held(k, secret.at)'
                      /\ \A d \in Cpu : /\ pc'[d] = "renew" => Handed(k, pkt[d].at)'
                                        /\ pc'[d] = "stamp" => Held(k, pkt[d].at)'
    BY <1>1 DEF Kept
  <2>1. \A d \in Cpu : d # c => pc'[d] # "renew" /\ pc'[d] # "stamp"
    BY <1>1, <1>2 DEF Runs, OneRotates, Rotating
  <2>2. Handed(k, pkt[c].at)
    BY <1>1 DEF Kept
  <2> QED
    BY <1>1, <1>2, <2>1, <2>2 DEF Handed, Held
<1> QED
  BY <1>4, <1>5

LEMMA AnswersStamp ==
  ASSUME TypeOK, Runs, Answers, NEW c \in Cpu, Stamp(c)
  PROVE  Answers'
<1> USE SecretTypes DEF Answers
<1>1. /\ pc[c] = "stamp" /\ pc'[c] = "mint"
      /\ \A d \in Cpu : d # c => pc'[d] = pc[d]
      /\ UNCHANGED <<now, pkt, raced, cookies>>
      /\ secret'.at = pkt[c].at
      /\ secret'.prev = secret.prev /\ secret'.cur = secret.cur
  BY DEF Stamp, Goto, history, TypeOK, MapsOK
<1>2. pc[c] \in Rotating /\ pc[c] # "idle"
  BY <1>1 DEF Rotating
<1>3. SeedGone'
  BY <1>1, <1>2, RunTypes DEF SeedGone
<1>4. NotCurrent'
  BY <1>1 DEF NotCurrent, Matches
<1>5. Kept'
  <2> SUFFICES ASSUME ~raced, NEW k \in cookies, k.clean
               PROVE  /\ (\A d \in Cpu : pc'[d] \notin Rotating) => Held(k, secret.at)'
                      /\ \A d \in Cpu : /\ pc'[d] = "renew" => Handed(k, pkt[d].at)'
                                        /\ pc'[d] = "stamp" => Held(k, pkt[d].at)'
    BY <1>1 DEF Kept
  <2>1. \A d \in Cpu : pc'[d] # "renew" /\ pc'[d] # "stamp"
    BY <1>1, <1>2 DEF Runs, OneRotates, Rotating
  <2>2. Held(k, pkt[c].at)
    BY <1>1 DEF Kept
  <2> QED
    BY <1>1, <2>1, <2>2 DEF Handed, Held
<1> QED
  BY <1>3, <1>4, <1>5

LEMMA AnswersStep == TypeOK /\ Runs /\ Answers /\ [Next]_vars => Answers'
<1> SUFFICES ASSUME TypeOK, Runs, Answers, [Next]_vars PROVE Answers'
  OBVIOUS
<1> USE DEF kernel, history
<1>1. CASE Tick
  BY <1>1, AnswersQuiet DEF Tick
<1>2. CASE Evict
  BY <1>2, AnswersQuiet DEF Evict
<1>3. ASSUME NEW g \in Config, SetSynCookieConfig(g) PROVE Answers'
  BY <1>3, AnswersQuiet DEF SetSynCookieConfig
<1>4. ASSUME NEW c \in Cpu, NEW f \in Flow, AdmitSyn(c, f) PROVE Answers'
  BY <1>4, AnswersQuiet DEF AdmitSyn
<1>5. ASSUME NEW c \in Cpu, NEW f \in Flow, ChallengeSyn(c, f) PROVE Answers'
  <2>1. pc[c] = "idle" /\ Begin(c, "secret", f, NoCookie)
        /\ UNCHANGED <<now, secret, cookies, raced>>
    BY <1>5 DEF ChallengeSyn
  <2>2. /\ pc'[c] = "secret"
        /\ \A d \in Cpu : d # c => pc'[d] = pc[d] /\ pkt'[d] = pkt[d]
    BY <2>1 DEF Begin, TypeOK, RunsOK
  <2> QED
    BY <2>1, <2>2, AnswersMove DEF Rotating
<1>6. ASSUME NEW c \in Cpu, NEW f \in Flow, NEW k \in cookies \cup {Computed(f)},
             Ack(c, f, k)
      PROVE  Answers'
  BY <1>6, EchoIsCookie, AnswersAck, AnswersQuiet DEF Ack
<1>7. ASSUME NEW c \in Cpu, CheckSecret(c) PROVE Answers'
  <2>1. /\ pc[c] = "secret" /\ pc'[c] \in {"rotate", "mint"}
        /\ \A d \in Cpu : d # c => pc'[d] = pc[d] /\ pkt'[d] = pkt[d]
        /\ UNCHANGED <<now, secret, cookies, raced>>
    BY <1>7 DEF CheckSecret, Goto, TypeOK, RunsOK
  <2> QED
    BY <2>1, AnswersMove DEF Rotating
<1>8. ASSUME NEW c \in Cpu, RotatePrev(c) PROVE Answers'
  BY <1>8, AnswersRotatePrev
<1>9. ASSUME NEW c \in Cpu, Renew(c) \/ Stamp(c) PROVE Answers'
  BY <1>9, AnswersRenew, AnswersStamp
<1>10. ASSUME NEW c \in Cpu, Mint(c) PROVE Answers'
  BY <1>10, AnswersMint
<1>11. ASSUME NEW c \in Cpu, AckPrev(c) PROVE Answers'
  <2>1. /\ pc[c] = "prev" /\ pc'[c] = "idle"
        /\ \A d \in Cpu : d # c => pc'[d] = pc[d] /\ pkt'[d] = pkt[d]
        /\ UNCHANGED <<now, secret, cookies, raced>>
    BY <1>11 DEF AckPrev, Done, TypeOK, RunsOK
  <2> QED
    BY <2>1, AnswersMove DEF Rotating
<1>12. CASE UNCHANGED vars
  BY <1>12, AnswersQuiet DEF vars
<1> QED
  BY <1>1, <1>2, <1>3, <1>4, <1>5, <1>6, <1>7, <1>8, <1>9, <1>10, <1>11,
     <1>12 DEF Next

-----------------------------------------------------------------------------
(* The theorems.                                                            *)

LEMMA InitInv == Init => IInv
<1> SUFFICES ASSUME Init PROVE IInv
  OBVIOUS
<1>1. TypeOK /\ Runs
  BY TypeInit, RunsInit
<1>2. Answers
  BY DEF Init, Answers, SeedGone, NotCurrent, Kept
<1>3. TrustEarned
  BY DEF Init, TrustEarned
<1>4. SeedGoes
  BY DEF Init, SeedGoes, Rotating
<1> QED
  BY <1>1, <1>2, <1>3, <1>4 DEF IInv

\* Every rotation puts a secret that was in use in the place of the known one
\* before it stamps the time.
LEMMA SeedGoesStep == TypeOK /\ SeedGoes /\ [Next]_vars => SeedGoes'
<1> SUFFICES ASSUME TypeOK, SeedGoes, [Next]_vars PROVE SeedGoes'
  OBVIOUS
<1> USE DEF kernel, history
<1>1. ASSUME secret' = secret, \A c \in Cpu : pc'[c] \in Rotating => pc[c] \in Rotating
      PROVE  SeedGoes'
  BY <1>1 DEF SeedGoes, Seeded
<1>2. ASSUME NEW c \in Cpu, RotatePrev(c) PROVE SeedGoes'
  <2>1. secret'.prev = secret.cur /\ secret.cur # KnownSecret
    BY <1>2 DEF RotatePrev, Previous, TypeOK, MapsOK, KnownSecret
  <2> QED
    BY <2>1 DEF SeedGoes
<1>3. ASSUME NEW c \in Cpu, Renew(c) \/ Stamp(c) PROVE SeedGoes'
  <2>1. pc[c] \in Rotating /\ secret'.prev = secret.prev
    BY <1>3 DEF Renew, Stamp, Rotating, TypeOK, MapsOK
  <2> QED
    BY <2>1 DEF SeedGoes
<1>4. ASSUME NEW c \in Cpu, CheckSecret(c) \/ Mint(c) \/ AckPrev(c) PROVE SeedGoes'
  <2>1. secret' = secret /\ pc'[c] \notin Rotating
        /\ \A d \in Cpu : d # c => pc'[d] = pc[d]
    BY <1>4 DEF CheckSecret, Mint, AckPrev, Goto, Done, Rotating, TypeOK, RunsOK
  <2> QED
    BY <1>1, <2>1
<1>5. ASSUME NEW c \in Cpu, NEW label \in {"secret", "prev"}, NEW f, NEW k,
             Begin(c, label, f, k), secret' = secret
      PROVE  SeedGoes'
  <2>1. pc'[c] \notin Rotating /\ \A d \in Cpu : d # c => pc'[d] = pc[d]
    BY <1>5 DEF Begin, Rotating, TypeOK, RunsOK
  <2> QED
    BY <1>1, <1>5, <2>1
<1>6. ASSUME NEW c \in Cpu, NEW f \in Flow, AdmitSyn(c, f) \/ ChallengeSyn(c, f)
      PROVE  SeedGoes'
  BY <1>1, <1>5, <1>6 DEF AdmitSyn, ChallengeSyn
<1>7. ASSUME NEW c \in Cpu, NEW f \in Flow, NEW k \in cookies \cup {Computed(f)},
             Ack(c, f, k)
      PROVE  SeedGoes'
  BY <1>1, <1>5, <1>7 DEF Ack
<1>8. CASE Tick \/ Evict \/ (\E g \in Config : SetSynCookieConfig(g)) \/ UNCHANGED vars
  BY <1>1, <1>8 DEF Tick, Evict, SetSynCookieConfig, vars
<1> QED
  BY <1>2, <1>3, <1>4, <1>6, <1>7, <1>8 DEF Next

\* Trust that a valid answer earns at time t.
LEMMA TrustStep ==
  ASSUME TypeOK, TrustEarned, NEW f \in Flow, NEW k \in cookies, NEW key, NEW t \in Nat,
         Matches(k, f, key, t), Trust(SrcOf[f], t), UNCHANGED cookies,
         guessed \ {SrcOf[f]} \subseteq guessed'
  PROVE  TrustEarned'
<1>1. SrcOf[f] \in Src /\ SrcOf[k.flow] = SrcOf[f]
  BY Bounds DEF Matches
<1>2. /\ verified'[SrcOf[f]] = t + VerifiedTtl
      /\ \A s \in Src : s # SrcOf[f] => verified'[s] = verified[s]
  BY <1>1 DEF Trust, TypeOK, MapsOK
<1>3. verified'[SrcOf[f]] - VerifiedTtl = t
  BY <1>2, Bounds
<1> QED
  BY <1>1, <1>2, <1>3 DEF TrustEarned, Matches

\* Trust that a cookie computed under the known secret wins is recorded as such.
LEMMA GuessStep ==
  ASSUME TypeOK, TrustEarned, NEW f \in Flow, NEW t, Trust(SrcOf[f], t),
         UNCHANGED cookies, guessed' = guessed \cup {SrcOf[f]}
  PROVE  TrustEarned'
<1>1. \A s \in Src : s # SrcOf[f] => verified'[s] = verified[s]
  BY DEF Trust, TypeOK, MapsOK
<1> QED
  BY <1>1 DEF TrustEarned

LEMMA TrustKept == TypeOK /\ SeedGoes /\ TrustEarned /\ [Next]_vars => TrustEarned'
<1> SUFFICES ASSUME TypeOK, SeedGoes, TrustEarned, [Next]_vars PROVE TrustEarned'
  OBVIOUS
<1> USE DEF kernel, history
<1>1. ASSUME UNCHANGED <<verified, guessed>>, cookies \subseteq cookies'
      PROVE  TrustEarned'
  BY <1>1 DEF TrustEarned
<1>2. ASSUME NEW c \in Cpu, NEW f \in Flow, NEW k \in cookies \cup {Computed(f)},
             Ack(c, f, k)
      PROVE  TrustEarned'
  <2>1. CASE UNCHANGED <<verified, guessed>>
    BY <1>1, <1>2, <2>1 DEF Ack
  <2>2. CASE Matches(k, f, secret.cur, now) /\ Trust(SrcOf[f], now)
             /\ guessed' = guessed \ {SrcOf[f]}
    <3>1. k \in cookies
      BY <2>2 DEF Matches, Computed, KnownSecret, TypeOK, MapsOK
    <3> QED
      BY <1>2, <2>2, <3>1, TrustStep, SecretTypes DEF Ack
  <2> QED
    BY <1>2, <2>1, <2>2 DEF Ack
<1>3. ASSUME NEW c \in Cpu, AckPrev(c) PROVE TrustEarned'
  <2>1. pc[c] = "prev" /\ (pkt[c].ack \in cookies \/ MadeUp(pkt[c].ack))
        /\ UNCHANGED cookies
    BY <1>3 DEF AckPrev, TypeOK, RunsOK
  <2>2. pkt[c].flow \in Flow /\ pkt[c].at \in Nat
    BY <2>1, RunTypes
  <2>3. CASE UNCHANGED <<verified, guessed>>
    BY <1>1, <2>1, <2>3
  <2>4. CASE /\ Matches(pkt[c].ack, pkt[c].flow, secret.prev, pkt[c].at)
             /\ Trust(SrcAt(c), pkt[c].at)
             /\ guessed' = IF pkt[c].ack \notin cookies /\ secret.at = Seeded
                  THEN guessed \cup {SrcAt(c)} ELSE guessed \ {SrcAt(c)}
    <3>1. CASE pkt[c].ack \in cookies
      BY <2>1, <2>2, <2>4, <3>1, TrustStep DEF SrcAt
    <3>2. CASE pkt[c].ack \notin cookies
      <4>1. secret.at = Seeded
        BY <2>1, <2>4, <3>2 DEF MadeUp, Matches, SeedGoes
      <4> QED
        BY <2>1, <2>2, <2>4, <3>2, <4>1, GuessStep DEF SrcAt
    <3> QED
      BY <3>1, <3>2
  <2> QED
    BY <1>3, <2>3, <2>4 DEF AckPrev
<1>4. CASE Evict
  <2>1. \A s \in Src : verified'[s] = verified[s] \/ verified'[s] = 0
    BY <1>4 DEF Evict, TypeOK, MapsOK
  <2> QED
    BY <1>4, <2>1 DEF Evict, TrustEarned
<1>5. CASE Tick
  BY <1>1, <1>5 DEF Tick
<1>6. ASSUME NEW c \in Cpu, Mint(c) PROVE TrustEarned'
  BY <1>1, <1>6 DEF Mint
<1>7. CASE UNCHANGED vars
  BY <1>1, <1>7 DEF vars
<1> QED
  BY <1>1, <1>2, <1>3, <1>4, <1>5, <1>6, <1>7
  DEF Next, SetSynCookieConfig, AdmitSyn, ChallengeSyn, CheckSecret, RotatePrev,
      Renew, Stamp

\* What the invariant says of a cookie that answers in time.
LEMMA InvAccepts == IInv => AnswerAccepted
<1> SUFFICES ASSUME IInv, NEW c \in Cpu, pc[c] = "prev", ~pkt[c].stale, ~raced,
                    pkt[c].ack.clean, pkt[c].ack.flow = pkt[c].flow,
                    InTime(pkt[c].ack, pkt[c].at)
             PROVE  Matches(pkt[c].ack, pkt[c].flow, secret.prev, pkt[c].at)
  BY DEF AnswerAccepted
<1> USE DEF IInv, Runs, Answers
<1> DEFINE k == pkt[c].ack
           t == pkt[c].at
<1>1. k \in cookies /\ k.at \in Nat
  BY DEF TypeOK, RunsOK, HistoryOK, Cookie, MadeUp
<1>2. t \in Nat /\ k.at <= t
  BY RunTypes DEF NotCurrent
<1>3. Matches(k, k.flow, k.secret, t)
  BY <1>1, <1>2, InTimeMatches
<1>4. k.secret # secret.cur
  BY <1>3 DEF NotCurrent
<1>5. \A d \in Cpu : pc[d] \notin Rotating
  BY Alone DEF Rotating
<1>6. Held(k, secret.at)
  BY <1>1, <1>5 DEF Kept
<1>7. secret.at <= t
  <2>1. secret.at <= now /\ now <= MaxTime
    BY <1>1, SecretTypes DEF SeedGone
  <2>2. secret.at = Seeded \/ secret.at <= t
    BY <1>5 DEF BeganAfter
  <2> QED
    BY <2>1, <2>2, SecretTypes, Bounds DEF Seeded
<1>8. ~ (k.at + 2 * Quantum <= secret.at)
  <2> SUFFICES ASSUME k.at + 2 * Quantum <= secret.at PROVE FALSE
    OBVIOUS
  <2>1. k.at + 2 * Quantum <= t
    BY <1>1, <1>2, <1>7, SecretTypes, Bounds
  <2> QED
    BY <1>1, <1>2, <2>1, TwoEpochs, EpochGrows DEF InTime
<1>9. k.secret = secret.prev
  BY <1>4, <1>6, <1>8 DEF Held, Handed
<1> QED
  BY <1>3, <1>9

LEMMA Invariance == Spec => []IInv
<1>1. IInv /\ [Next]_vars => IInv'
  BY TypeStep, RunsStep, AnswersStep, SeedGoesStep, TrustKept DEF IInv
<1> QED
  BY <1>1, InitInv, PTL DEF Spec

\* The maps of the SYN-cookie path and the runs that use them stay within
\* their types; nobody is trusted for longer than the TTL.
THEOREM TypeCorrect == Spec => []TypeOK
<1>1. IInv => TypeOK
  BY DEF IInv
<1> QED
  BY <1>1, Invariance, PTL

\* Nobody is trusted who has not answered a challenge, or, before the daemon's
\* seed is rotated out, computed a cookie under it.
THEOREM TrustIsEarned == Spec => []TrustEarned
<1>1. IInv => TrustEarned
  BY DEF IInv
<1> QED
  BY <1>1, Invariance, PTL

\* An answer in time is accepted across rotations, as long as no two runs
\* that overlap both rotate.
THEOREM AnswerIsAccepted == Spec => []AnswerAccepted
  BY InvAccepts, Invariance, PTL
=============================================================================
