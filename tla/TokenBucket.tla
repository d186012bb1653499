---------------------------- MODULE TokenBucket ----------------------------
(***************************************************************************)
(* The token buckets of one source: rate_exceeded (packets) and            *)
(* bandwidth_exceeded (bytes), which differ in their unit only, and the    *)
(* two Firewall methods that put buckets into their maps.                  *)
(*                                                                         *)
(* No lock guards a bucket.  A check is four steps, as the compiled code   *)
(* has them: the entry's address and the time, the load of last_refill_ns  *)
(* and limit, the load of tokens, the stores.  Two CPUs with packets of    *)
(* one source interleave them.  A Put replaces the map's element: a check  *)
(* that holds the old one works on memory nobody reads any more.           *)
(***************************************************************************)
EXTENDS Naturals

CONSTANTS
  Cpu,           \* CPUs that receive packets
  Src,           \* source addresses
  Kind,          \* "pps": rate_limits, "kbps": bandwidth_limits
  PacketLen,     \* bytes of a packet
  MaxLimit,      \* bound on the limits set; 0 removes a limit
  BytesPerKbit,  \* bytes per second for each kbps: 125 in the code
  Unit,          \* nanoseconds in a second: 10^9 in the code
  Word,          \* 2^64 in the code: where unsigned arithmetic wraps
  WallClock,     \* what time.Now().UnixNano() may return
  MaxClock,      \* bound on the time since boot
  MaxBuckets     \* bound on the buckets ever put into the maps

ASSUME BucketConstantsOK ==
  /\ MaxLimit \in Nat /\ MaxClock \in Nat /\ MaxBuckets \in Nat
  /\ BytesPerKbit \in Nat \ {0} /\ Unit \in Nat \ {0} /\ Word \in Nat
  /\ MaxClock < Word
  /\ PacketLen \subseteq Nat \ {0}
  /\ WallClock \subseteq {t \in Nat : t < Word}
  /\ "idle" \notin Kind

Limit == 0 .. MaxLimit
Slot == 1 .. MaxBuckets

\* What a bucket gains in a second and holds at most; what a packet takes.
Rate(k, l) == IF k = "kbps" THEN l * BytesPerKbit ELSE l
Cost(k, len) == IF k = "kbps" THEN len ELSE 1

VARIABLES
  clock,   \* bpf_ktime_get_ns()
  entry,   \* Kind -> Src -> Slot or 0: the two maps
  made,    \* slots used so far
  bucket,  \* Slot -> tokens, last_refill_ns and rate
  check,   \* the check each CPU is in
  meter    \* history, per slot since the window's start mark: what it let
           \* through, its last refill, and how many stores were raced

bucketVars == <<clock, entry, made, bucket, check, meter>>

Bucket == [tokens : Nat, last : 0 .. Word - 1, rate : Nat]
Meter  == [mark : Nat, passed : Nat, seen : Nat, races : Nat]
NoCheck ==
  [at |-> "idle", b |-> 0, cost |-> 0, now |-> 0, refill |-> 0, sum |-> 0,
   stale |-> FALSE]
Check ==
  [at : {"idle", "measure", "read", "write"}, b : 0 .. MaxBuckets, cost : Nat,
   now : Nat, refill : Nat, sum : Nat, stale : BOOLEAN]

\* A bucket never holds more than a second's worth.
BucketTypeOK ==
  /\ clock \in 0 .. MaxClock
  /\ made \in 0 .. MaxBuckets
  /\ entry \in [Kind -> [Src -> 0 .. MaxBuckets]]
  /\ bucket \in [Slot -> Bucket]
  /\ check \in [Cpu -> Check]
  /\ meter \in [Slot -> Meter]
  /\ \A b \in Slot : bucket[b].tokens <= bucket[b].rate

BucketInit ==
  /\ clock = 0 /\ made = 0
  /\ entry = [k \in Kind |-> [s \in Src |-> 0]]
  /\ bucket = [b \in Slot |-> [tokens |-> 0, last |-> 0, rate |-> 0]]
  /\ check = [c \in Cpu |-> NoCheck]
  /\ meter = [b \in Slot |-> [mark |-> 0, passed |-> 0, seen |-> 0, races |-> 0]]

-----------------------------------------------------------------------------

\* RateLimit and BandwidthLimit: a limit of 0 deletes the entry; another puts
\* a full bucket whose last refill is stamped with the wall clock, although
\* the kernel will compare it with the time since boot.
SetLimit(k, s, l) ==
  /\ \/ /\ l = 0
        /\ entry' = [entry EXCEPT ![k][s] = 0]
        /\ UNCHANGED <<made, bucket, meter>>
     \/ /\ l > 0 /\ made < MaxBuckets
        /\ made' = made + 1
        /\ entry' = [entry EXCEPT ![k][s] = made']
        /\ \E t \in WallClock : bucket' = [bucket EXCEPT ![made'] =
             [tokens |-> Rate(k, l), last |-> t, rate |-> Rate(k, l)]]
        /\ meter' = [meter EXCEPT ![made'] =
             [mark |-> clock, passed |-> 0, seen |-> clock, races |-> 0]]
  /\ UNCHANGED <<clock, check>>

\* A window of observation of slot b starts now.
Watch(b) ==
  /\ meter' = [meter EXCEPT ![b] =
       [mark |-> clock, passed |-> 0, seen |-> clock, races |-> 0]]
  /\ UNCHANGED <<clock, entry, made, bucket, check>>

Tick ==
  /\ clock < MaxClock
  /\ clock' = clock + 1
  /\ UNCHANGED <<entry, made, bucket, check, meter>>

-----------------------------------------------------------------------------
(* rate_exceeded and bandwidth_exceeded.                                   *)

\* The unsigned difference of two stamps.
Elapsed(now, last) == IF last <= now THEN now - last ELSE now + Word - last

Gain(now, b) == Elapsed(now, bucket[b].last) * bucket[b].rate
Refill(now, b) == (Gain(now, b) % Word) \div Unit

\* The entry's address, then the time.  Where there is no entry the packet is
\* not limited and there is no check.
Lookup(c, k, s, len) ==
  /\ check[c].at = "idle" /\ entry[k][s] # 0
  /\ check' = [check EXCEPT ![c] =
       [at |-> "measure", b |-> entry[k][s], cost |-> Cost(k, len), now |-> clock,
        refill |-> 0, sum |-> 0, stale |-> FALSE]]
  /\ UNCHANGED <<clock, entry, made, bucket, meter>>

Measure(c) ==
  /\ check[c].at = "measure"
  /\ check' = [check EXCEPT ![c].at = "read",
                            ![c].refill = Refill(check[c].now, check[c].b)]
  /\ UNCHANGED <<clock, entry, made, bucket, meter>>

\* Mutant: the refilled bucket is not capped at a second's worth.
Filled_NoCap(tokens, refill, rate) == tokens + refill

Filled(tokens, refill, rate) ==
  IF refill > 0 /\ tokens + refill > rate THEN rate ELSE tokens + refill

Read(c) ==
  LET b == bucket[check[c].b] IN
  /\ check[c].at = "read"
  /\ check' = [check EXCEPT ![c].at = "write",
                            ![c].sum = Filled(b.tokens, check[c].refill, b.rate)]
  /\ UNCHANGED <<clock, entry, made, bucket, meter>>

\* Mutant: the byte bucket is tested like the packet bucket.
Exceeded_ZeroOnly(c) == check[c].sum = 0

Exceeded(c) == check[c].cost > check[c].sum

\* The loads of a check no longer describe its bucket: another CPU has stored
\* since, or its stamp is older than the last refill, or the product wrapped.
Raced(c) ==
  LET k == check[c] IN
  \/ k.stale
  \/ k.now < meter[k.b].seen
  \/ k.now < bucket[k.b].last
  \/ Gain(k.now, k.b) >= Word

Store(c) ==
  LET k == check[c]
      b == k.b
      refilled == k.refill > 0
      spent == IF Exceeded(c) THEN 0 ELSE k.cost
  IN /\ bucket' = [bucket EXCEPT
          ![b].tokens = k.sum - spent,
          ![b].last = IF refilled THEN k.now ELSE @]
     /\ meter' = [meter EXCEPT
          ![b].passed = @ + spent,
          ![b].seen = IF refilled /\ k.now > @ THEN k.now ELSE @,
          ![b].races = @ + (IF Raced(c) THEN 1 ELSE 0)]
     /\ check' = [d \in Cpu |->
          IF d = c THEN NoCheck
          ELSE IF check[d].b = b /\ check[d].at \in {"read", "write"}
          THEN [check[d] EXCEPT !.stale = TRUE] ELSE check[d]]

\* Refilled tokens and their stamp are stored even when the packet is dropped;
\* a drop without a refill stores nothing.
Write(c) ==
  /\ check[c].at = "write"
  /\ IF Exceeded(c) /\ check[c].refill = 0
     THEN check' = [check EXCEPT ![c] = NoCheck] /\ UNCHANGED <<bucket, meter>>
     ELSE Store(c)
  /\ UNCHANGED <<clock, entry, made>>

Step(c) == Measure(c) \/ Read(c) \/ Write(c)

BucketNext ==
  \/ Tick
  \/ \E k \in Kind, s \in Src, l \in Limit : SetLimit(k, s, l)
  \/ \E b \in Slot : Watch(b)
  \/ \E c \in Cpu : \/ Step(c)
                    \/ \E k \in Kind, s \in Src, len \in PacketLen :
                         Lookup(c, k, s, len)

BucketSpec == BucketInit /\ [][BucketNext]_bucketVars

-----------------------------------------------------------------------------

\* In every window of time a bucket lets through at most its burst, its rate
\* times the window's length and one token, and two bursts more for each store
\* that raced: a lost update, a wrapped difference or product, or the wall
\* clock a bucket is seeded with never opens it for good.
MeterBound ==
  \A b \in Slot :
    LET m == meter[b]
        r == bucket[b].rate
    IN m.passed * Unit <= r * Unit * (1 + 2 * m.races)
                          + r * (clock - m.mark) + Unit
=============================================================================
