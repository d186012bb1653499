--------------------------- MODULE PipelineProofs ---------------------------
(***************************************************************************)
(* What the token buckets let through, for any number of CPUs, sources,    *)
(* buckets and windows.  The argument is an account of every bucket: what  *)
(* it has let through since the window began plus what it could let        *)
(* through at once, had it been refilled at its last refill, never exceeds *)
(* its burst, the refills of the window and a fraction of a token.  A      *)
(* store that raced is charged two bursts.                                 *)
(***************************************************************************)
EXTENDS Pipeline, Integers, FiniteSetTheorems, TLAPS

\* What a bucket could let through at time seen, in token-seconds: the cap
\* applies only once a whole token has accrued.
Due(r, last, seen) == IF last < seen THEN r * (seen - last) ELSE 0

Room(r, tokens, last, seen) ==
  IF Due(r, last, seen) < Unit THEN tokens * Unit + Due(r, last, seen)
  ELSE IF tokens * Unit + Due(r, last, seen) < r * Unit
       THEN tokens * Unit + Due(r, last, seen)
       ELSE r * Unit

Balanced(r, tokens, last, m) ==
  m.passed * Unit + Room(r, tokens, last, m.seen)
    <= r * Unit * (1 + 2 * m.races) + r * (m.seen - m.mark) + Unit

Account ==
  \A b \in Slot : Balanced(bucket[b].rate, bucket[b].tokens, bucket[b].last, meter[b])

\* A window's last refill lies within it.
Windows == \A b \in Slot : meter[b].mark <= meter[b].seen /\ meter[b].seen <= clock

\* Entries and checks refer to buckets that have been put.
Refs ==
  /\ \A k \in Kind, s \in Src : entry[k][s] <= made
  /\ \A b \in Slot : b <= made => bucket[b].rate > 0
  /\ \A c \in Cpu : check[c].at # "idle" =>
       /\ check[c].b \in Slot /\ check[c].b <= made
       /\ check[c].now <= clock

Fits == \A c \in Cpu : check[c].at = "write" => check[c].sum <= bucket[check[c].b].rate

\* What a check no store has overtaken has read is still there.
Fresh ==
  \A c \in Cpu : ~check[c].stale =>
    /\ check[c].at \in {"read", "write"} =>
         check[c].refill = Refill(check[c].now, check[c].b)
    /\ check[c].at = "write" =>
         check[c].sum = Filled(bucket[check[c].b].tokens, check[c].refill,
                               bucket[check[c].b].rate)

BucketInv == BucketTypeOK /\ Windows /\ Refs /\ Fits /\ Fresh

-----------------------------------------------------------------------------
(* Arithmetic.                                                             *)

\* A product of naturals is a natural, and grows with its factors.
LEMMA Times ==
  ASSUME NEW r \in Nat, NEW x \in Nat, NEW y \in Nat, x <= y
  PROVE  r * x \in Nat /\ r * y \in Nat /\ r * x <= r * y
OBVIOUS

LEMMA Split ==
  ASSUME NEW r \in Nat, NEW x \in Int, NEW y \in Int, NEW z \in Int
  PROVE  r * (z - x) = r * (z - y) + r * (y - x)
OBVIOUS

LEMMA Divide ==
  ASSUME NEW a \in Nat, NEW u \in Nat, u > 0
  PROVE  a \div u \in Nat /\ (a \div u) * u <= a /\ (a \div u = 0 => a < u)
OBVIOUS

LEMMA Modulus ==
  ASSUME NEW a \in Nat, NEW w \in Nat, w > 0
  PROVE  a % w \in Nat /\ (a < w => a % w = a)
OBVIOUS


\* What a bucket could let through at a refill: a full burst and a fraction.
LEMMA RoomBound ==
  ASSUME NEW r \in Nat, NEW tokens \in Nat, NEW last \in Nat, NEW seen \in Nat,
         tokens <= r, Unit \in Nat, Unit > 0
  PROVE  /\ Due(r, last, seen) \in Nat
         /\ Room(r, tokens, last, seen) \in Nat
         /\ Room(r, tokens, last, seen) <= r * Unit + Unit
         /\ Room(r, tokens, last, seen) <= tokens * Unit + Unit
            \/ Room(r, tokens, last, seen) <= r * Unit
         /\ last >= seen => Room(r, tokens, last, seen) = tokens * Unit
<1> DEFINE d == Due(r, last, seen)
<1>1. d \in Nat
  <2>1. CASE last < seen
    <3>1. seen - last \in Nat
      BY <2>1
    <3> QED BY <2>1, <3>1, Times DEF Due
  <2> QED BY <2>1 DEF Due
<1>2. tokens * Unit \in Nat /\ tokens * Unit <= r * Unit /\ r * Unit \in Nat
  BY Times
<1>3. last >= seen => d = 0
  BY DEF Due
<1> DEFINE t == tokens * Unit
           R == r * Unit
<1>4. Room(r, tokens, last, seen) = IF d < Unit THEN t + d ELSE IF t + d < R THEN t + d ELSE R
  BY DEF Room
<1> HIDE DEF d, t, R
<1> QED BY <1>1, <1>2, <1>3, <1>4 DEF d, t, R

LEMMA RoomNow ==
  ASSUME Unit \in Nat, Unit > 0
  PROVE  \A r, t, x \in Nat : t <= r => Room(r, t, x, x) = t * Unit
BY RoomBound

LEMMA RoomTop ==
  ASSUME Unit \in Nat, Unit > 0
  PROVE  \A r, t, x, y \in Nat : t <= r =>
           Room(r, t, x, y) <= r * Unit + Unit /\ Room(r, t, x, y) \in Nat
BY RoomBound

\* A store that raced keeps the account when it is charged two bursts.
LEMMA Dirty ==
  ASSUME NEW r \in Nat, r > 0, Unit \in Nat, Unit > 0,
         NEW tokens \in Nat, NEW last \in Nat, NEW m \in Meter,
         tokens <= r, Balanced(r, tokens, last, m),
         NEW sum \in Nat, sum <= r, NEW spent \in Nat, spent <= sum,
         NEW last2 \in Nat, NEW n \in Meter,
         n.passed = m.passed + spent, n.races = m.races + 1,
         n.mark = m.mark, n.seen >= m.seen, m.mark <= m.seen
  PROVE  Balanced(r, sum - spent, last2, n)
<1> DEFINE A == Room(r, tokens, last, m.seen)
           B == Room(r, sum - spent, last2, n.seen)
           R == r * Unit
<1>0. m.passed \in Nat /\ m.races \in Nat /\ m.seen \in Nat /\ m.mark \in Nat /\ n.seen \in Nat
  BY DEF Meter
<1>1. A \in Nat
  BY <1>0, RoomBound
<1>2. B \in Nat /\ (B <= (sum - spent) * Unit + Unit \/ B <= R)
  <2>1. sum - spent \in Nat /\ sum - spent <= r
    OBVIOUS
  <2> QED BY <1>0, <2>1, RoomBound
<1>3. spent * Unit + (sum - spent) * Unit = sum * Unit /\ sum * Unit <= R
      /\ spent * Unit <= R /\ Unit <= R /\ R \in Nat /\ spent * Unit \in Nat
      /\ (sum - spent) * Unit \in Nat
  <2>1. spent * Unit + (sum - spent) * Unit = sum * Unit
    OBVIOUS
  <2>2. sum * Unit <= R /\ spent * Unit <= R /\ R \in Nat /\ spent * Unit \in Nat
    BY Times
  <2>3. 1 * Unit <= R
    BY Times
  <2>4. sum - spent \in Nat
    OBVIOUS
  <2>5. (sum - spent) * Unit \in Nat
    BY <2>4, Times
  <2> QED BY <2>1, <2>2, <2>3, <2>5
<1>4. spent * Unit + B <= 2 * R
  BY <1>2, <1>3
<1>5. r * (m.seen - m.mark) <= r * (n.seen - n.mark)
      /\ r * (m.seen - m.mark) \in Nat /\ r * (n.seen - n.mark) \in Nat
  <2>1. m.seen - m.mark \in Nat /\ n.seen - n.mark \in Nat /\ m.seen - m.mark <= n.seen - n.mark
    BY <1>0
  <2> QED BY <2>1, Times
<1>6. n.passed * Unit = m.passed * Unit + spent * Unit /\ m.passed * Unit \in Nat
  BY <1>0, Times
<1>7. R * (1 + 2 * n.races) = R * (1 + 2 * m.races) + 2 * R
  <2> HIDE DEF R
  <2> QED BY <1>0, <1>3
<1>8. R * (1 + 2 * m.races) \in Nat
  <2>1. 1 + 2 * m.races \in Nat
    BY <1>0
  <2> HIDE DEF R
  <2> QED BY <2>1, <1>3, Times
<1>9. m.passed * Unit + A <= R * (1 + 2 * m.races) + r * (m.seen - m.mark) + Unit
  BY DEF Balanced
<1> DEFINE P == m.passed * Unit
           S == spent * Unit
           D == r * (m.seen - m.mark)
           E == r * (n.seen - n.mark)
           G == R * (1 + 2 * m.races)
<1>10. P + S + B <= G + 2 * R + E + Unit
  <2> HIDE DEF P, S, D, E, G, R, A, B
  <2> QED BY <1>1, <1>2, <1>3, <1>4, <1>5, <1>6, <1>8, <1>9 DEF P, S, D, E, G
<1> QED BY <1>10, <1>6, <1>7 DEF Balanced

\* A store that no other has overtaken keeps the account.
LEMMA Clean ==
  ASSUME NEW r \in Nat, r > 0, Unit \in Nat, Unit > 0,
         NEW tokens \in Nat, NEW last \in Nat, NEW m \in Meter,
         tokens <= r, Balanced(r, tokens, last, m), m.mark <= m.seen,
         NEW now \in Nat, last <= now, m.seen <= now,
         NEW refill \in Nat, refill * Unit <= r * (now - last),
         refill = 0 => r * (now - last) < Unit,
         NEW sum \in Nat, sum = Filled(tokens, refill, r),
         NEW spent \in Nat, spent <= sum,
         NEW n \in Meter, n.passed = m.passed + spent, n.races = m.races,
         n.mark = m.mark, n.seen = IF refill > 0 /\ now > m.seen THEN now ELSE m.seen
  PROVE  Balanced(r, sum - spent, IF refill > 0 THEN now ELSE last, n)
<1> DEFINE A == Room(r, tokens, last, m.seen)
           d == Due(r, last, m.seen)
           R == r * Unit
           g == r * (now - last)
           P == m.passed * Unit
           S == spent * Unit
           T == tokens * Unit
           F == refill * Unit
           Q == (sum - spent) * Unit
           D == r * (m.seen - m.mark)
           G == r * Unit * (1 + 2 * m.races)
<1>0. m.passed \in Nat /\ m.races \in Nat /\ m.seen \in Nat /\ m.mark \in Nat /\ n.seen \in Nat
  BY DEF Meter
<1>1. A \in Nat /\ d \in Nat
  BY <1>0, RoomBound
<1>2. P \in Nat /\ S \in Nat /\ T \in Nat /\ F \in Nat /\ R \in Nat /\ T <= R
  BY <1>0, Times
<1>3. g \in Nat /\ D \in Nat
  <2>1. now - last \in Nat /\ m.seen - m.mark \in Nat
    BY <1>0
  <2> QED BY <2>1, Times
<1>4. Q = sum * Unit - S /\ Q \in Nat /\ sum * Unit \in Nat
  <2>1. sum - spent \in Nat
    OBVIOUS
  <2>2. Q = sum * Unit - S
    OBVIOUS
  <2> QED BY <2>1, <2>2, Times
<1>5. n.passed * Unit = P + S
  BY <1>0
<1>6. G \in Nat
  <2>1. 1 + 2 * m.races \in Nat
    BY <1>0
  <2> QED BY <2>1, <1>2, Times
<1>7. P + A <= G + D + Unit
  BY DEF Balanced
<1>8. A = IF d < Unit THEN T + d ELSE IF T + d < R THEN T + d ELSE R
  BY DEF Room
<1>9. CASE refill = 0
  <2>1. sum = tokens /\ n.seen = m.seen
    BY <1>9 DEF Filled
  <2>2. d <= g
    <3>1. CASE last < m.seen
      <4>1. m.seen - last \in Nat /\ now - last \in Nat /\ m.seen - last <= now - last
        BY <1>0, <3>1
      <4> QED BY <3>1, <4>1, Times DEF Due
    <3> QED BY <3>1, <1>3 DEF Due
  <2>3. d < Unit
    BY <2>2, <1>9, <1>1, <1>3
  <2>4. Room(r, sum - spent, last, n.seen) = Q + d
    BY <2>1, <2>3 DEF Room
  <2>5. P + S + Q + d <= G + D + Unit
    <3> HIDE DEF A, d, R, g, P, S, T, Q, D, G
    <3>1. Q + S = T
      BY <1>4, <2>1, <1>2 DEF T
    <3> QED BY <3>1, <2>3, <1>1, <1>2, <1>3, <1>4, <1>6, <1>7, <1>8
  <2>6. n.passed * Unit + (Q + d) <= G + D + Unit
    <3> HIDE DEF A, d, R, g, P, S, T, Q, D, G
    <3> QED BY <2>5, <1>1, <1>2, <1>3, <1>4, <1>5, <1>6
  <2>7. n.mark = m.mark /\ n.races = m.races
    OBVIOUS
  <2>8. (IF refill > 0 THEN now ELSE last) = last
    BY <1>9
  <2> QED BY <2>1, <2>4, <2>6, <2>7, <2>8 DEF Balanced
<1>10. CASE refill > 0
  <2>1. n.seen = now
    <3>1. CASE now > m.seen
      BY <1>10, <3>1
    <3>2. CASE ~(now > m.seen)
      <4>1. now = m.seen
        BY <3>2, <1>0
      <4>2. n.seen = m.seen
        BY <3>2
      <4> QED BY <4>1, <4>2
    <3> QED BY <3>1, <3>2
  <2>2. Room(r, sum - spent, now, n.seen) = Q
    <3>1. sum - spent \in Nat /\ sum <= r
      BY <1>10 DEF Filled
    <3>3. sum - spent <= r
      BY <3>1
    <3>4. \A t \in Nat : t <= r => Room(r, t, now, n.seen) = t * Unit
      BY <2>1, RoomNow
    <3> HIDE DEF A, d, R, g, P, S, T, F, D, G
    <3> QED BY <3>1, <3>3, <3>4
  <2> DEFINE E == r * (now - m.seen)
  <2>3. E \in Nat /\ r * (n.seen - n.mark) = D + E
    <3>1. now - m.seen \in Nat
      BY <1>0
    <3>2. E \in Nat
      BY <3>1, Times
    <3> QED BY <3>2, <2>1, <1>0, Split
  <2>4. g <= d + E
    <3>1. CASE last < m.seen
      <4>1. d = r * (m.seen - last)
        BY <3>1 DEF Due
      <4>2. g = E + r * (m.seen - last)
        BY <1>0, Split
      <4>3. r * (m.seen - last) \in Nat
        <5>1. m.seen - last \in Nat
          BY <3>1, <1>0
        <5> QED BY <5>1, Times
      <4> QED BY <4>1, <4>2, <4>3, <2>3
    <3>2. CASE ~(last < m.seen)
      <4>1. now - last <= now - m.seen /\ now - last \in Nat /\ now - m.seen \in Nat
        BY <3>2, <1>0
      <4>2. g <= E
        BY <4>1, Times
      <4> QED BY <4>2, <1>1, <1>3, <2>3
    <3> QED BY <3>1, <3>2
  <2>5. Q + S <= T + F /\ Q + S <= R
    <3>1. sum <= tokens + refill /\ sum <= r
      BY <1>10 DEF Filled
    <3>2. sum * Unit <= R
      BY <3>1, Times
    <3>3. sum * Unit <= (tokens + refill) * Unit
      BY <3>1, Times
    <3>4. (tokens + refill) * Unit = T + F
      OBVIOUS
    <3> HIDE DEF S, T, F, Q, R
    <3> QED BY <3>2, <3>3, <3>4, <1>2, <1>4
  <2>6. F <= g
    OBVIOUS
  <2>7. P + S + Q <= G + D + E + Unit
    <3> HIDE DEF A, d, R, g, P, S, T, F, Q, D, E, G
    <3> QED BY <2>3, <2>4, <2>5, <2>6, <1>1, <1>2, <1>3, <1>4, <1>6, <1>7, <1>8
  <2>8. n.passed * Unit + Q <= G + (D + E) + Unit
    <3> HIDE DEF A, d, R, g, P, S, T, F, Q, D, E, G
    <3> QED BY <2>3, <2>7, <1>2, <1>3, <1>4, <1>5, <1>6
  <2> QED BY <1>10, <2>2, <2>3, <2>8 DEF Balanced
<1> QED BY <1>9, <1>10


-----------------------------------------------------------------------------
(* The buckets' invariant.                                                 *)

LEMMA Bounds ==
  /\ MaxLimit \in Nat /\ MaxClock \in Nat /\ MaxBuckets \in Nat /\ Word \in Nat
  /\ BytesPerKbit \in Nat /\ BytesPerKbit > 0 /\ Unit \in Nat /\ Unit > 0
  /\ MaxClock < Word /\ Word > 0
  /\ \A len \in PacketLen : len \in Nat /\ len > 0
  /\ \A t \in WallClock : t \in 0 .. Word - 1
BY BucketConstantsOK

\* A limit that is not 0 gives a bucket that holds something.
LEMMA RateOK ==
  ASSUME NEW k \in Kind, NEW l \in Limit
  PROVE  Rate(k, l) \in Nat /\ (l > 0 => Rate(k, l) > 0)
<1>1. l \in Nat /\ l * BytesPerKbit \in Nat
  BY Bounds, Times DEF Limit
<1>2. l > 0 => 1 * BytesPerKbit <= l * BytesPerKbit
  BY <1>1, Bounds, Times
<1> QED BY <1>1, <1>2, Bounds DEF Rate

LEMMA CostOK ==
  ASSUME NEW k \in Kind, NEW len \in PacketLen
  PROVE  Cost(k, len) \in Nat
BY Bounds DEF Cost

LEMMA RefillOK ==
  ASSUME BucketTypeOK, NEW b \in Slot, NEW now \in Nat, now < Word
  PROVE  /\ Refill(now, b) \in Nat
         /\ Gain(now, b) \in Nat
         /\ now >= bucket[b].last /\ Gain(now, b) < Word =>
              /\ Gain(now, b) = bucket[b].rate * (now - bucket[b].last)
              /\ Refill(now, b) * Unit <= Gain(now, b)
              /\ Refill(now, b) = 0 => Gain(now, b) < Unit
<1> DEFINE e == Elapsed(now, bucket[b].last)
           r == bucket[b].rate
<1>1. bucket[b].last \in 0 .. Word - 1 /\ r \in Nat
  BY DEF BucketTypeOK, Bucket
<1>2. e \in Nat
  BY <1>1, Bounds DEF Elapsed
<1>3. e * r \in Nat /\ r * e \in Nat /\ e * r = r * e
  <2> HIDE DEF e, r
  <2> QED BY <1>1, <1>2, Times
<1>4. Gain(now, b) = e * r
  BY DEF Gain
<1>5. Gain(now, b) % Word \in Nat /\ (Gain(now, b) < Word => Gain(now, b) % Word = Gain(now, b))
  <2> HIDE DEF e, r
  <2> QED BY <1>3, <1>4, Bounds, Modulus
<1>6. now >= bucket[b].last => e = now - bucket[b].last
  BY <1>1 DEF Elapsed
<1> DEFINE a == Gain(now, b) % Word
<1>7. a \div Unit \in Nat /\ (a \div Unit) * Unit <= a /\ (a \div Unit = 0 => a < Unit)
  <2> HIDE DEF a
  <2>1. a \in Nat
    BY <1>5 DEF a
  <2> QED BY <2>1, Bounds, Divide
<1>8. Refill(now, b) = a \div Unit
  BY DEF Refill
<1> HIDE DEF e, r, a
<1>9. now >= bucket[b].last => Gain(now, b) = r * (now - bucket[b].last)
  BY <1>3, <1>4, <1>6
<1>10. Gain(now, b) < Word => a = Gain(now, b)
  BY <1>5 DEF a
<1> QED BY <1>3, <1>4, <1>7, <1>8, <1>9, <1>10 DEF r

LEMMA FilledOK ==
  ASSUME NEW tokens \in Nat, NEW refill \in Nat, NEW rate \in Nat, tokens <= rate
  PROVE  Filled(tokens, refill, rate) \in Nat /\ Filled(tokens, refill, rate) <= rate
BY DEF Filled

LEMMA BucketInitOK == BucketInit => BucketInv /\ Account
<1> SUFFICES ASSUME BucketInit PROVE BucketInv /\ Account
  OBVIOUS
<1> USE DEF BucketInit
<1>1. BucketTypeOK
  BY Bounds DEF BucketTypeOK, Bucket, Meter, NoCheck, Check
<1>2. Windows /\ Refs /\ Fits /\ Fresh
  BY Bounds DEF Windows, Refs, Fits, Fresh, NoCheck, Slot
<1>3. Account
  <2> SUFFICES ASSUME NEW b \in Slot
               PROVE  Balanced(bucket[b].rate, bucket[b].tokens, bucket[b].last, meter[b])
    BY DEF Account
  <2>1. bucket[b].rate = 0 /\ bucket[b].tokens = 0 /\ bucket[b].last = 0
    OBVIOUS
  <2>2. meter[b].passed = 0 /\ meter[b].seen = 0 /\ meter[b].mark = 0 /\ meter[b].races = 0
    OBVIOUS
  <2>3. Balanced(0, 0, 0, meter[b])
    BY <2>2, Bounds DEF Balanced, Room, Due
  <2> QED BY <2>1, <2>3
<1> QED BY <1>1, <1>2, <1>3 DEF BucketInv


\* A new limit, a window and the clock leave checks alone.
LEMMA SetLimitStep ==
  ASSUME BucketInv, Account, NEW k \in Kind, NEW s \in Src, NEW l \in Limit,
         SetLimit(k, s, l)
  PROVE  BucketInv' /\ Account'
<1> USE DEF BucketInv
<1>0. clock' = clock /\ check' = check
  BY DEF SetLimit
<1>1. CASE l = 0 /\ entry' = [entry EXCEPT ![k][s] = 0] /\ UNCHANGED <<made, bucket, meter>>
  <2>1. BucketTypeOK'
    BY <1>0, <1>1, Bounds DEF BucketTypeOK
  <2>2. entry' \in [Kind -> [Src -> 0 .. MaxBuckets]] /\ made' = made /\ made \in Nat
    BY <2>1, <1>1, Bounds DEF BucketTypeOK
  <2>3. Refs'
    BY <1>0, <1>1, <2>2 DEF Refs, BucketTypeOK
  <2>4. Windows' /\ Fits' /\ Account'
    BY <1>0, <1>1 DEF Windows, Fits, Account, Balanced, Room, Due
  <2>5. Fresh'
    BY <1>0, <1>1 DEF Fresh, Refill, Gain
  <2> QED BY <2>1, <2>3, <2>4, <2>5
<1>2. CASE /\ l > 0 /\ made < MaxBuckets /\ made' = made + 1
           /\ entry' = [entry EXCEPT ![k][s] = made']
           /\ \E t \in WallClock : bucket' = [bucket EXCEPT ![made'] =
                [tokens |-> Rate(k, l), last |-> t, rate |-> Rate(k, l)]]
           /\ meter' = [meter EXCEPT ![made'] =
                [mark |-> clock, passed |-> 0, seen |-> clock, races |-> 0]]
  <2> DEFINE n == made + 1
  <2>1. n \in Slot /\ n \in Nat /\ made \in Nat /\ made' = n /\ n \in 0 .. MaxBuckets
    BY <1>2, Bounds DEF Slot, BucketTypeOK
  <2>2. PICK t \in WallClock : bucket' = [bucket EXCEPT ![n] =
          [tokens |-> Rate(k, l), last |-> t, rate |-> Rate(k, l)]]
    BY <1>2
  <2>3. Rate(k, l) \in Nat /\ Rate(k, l) > 0 /\ t \in 0 .. Word - 1 /\ t \in Nat
    BY <1>2, RateOK, Bounds
  <2>4. clock \in Nat
    BY Bounds DEF BucketTypeOK
  <2>5. /\ \A b \in Slot : b # n => bucket'[b] = bucket[b] /\ meter'[b] = meter[b]
        /\ bucket'[n] = [tokens |-> Rate(k, l), last |-> t, rate |-> Rate(k, l)]
        /\ meter'[n] = [mark |-> clock, passed |-> 0, seen |-> clock, races |-> 0]
    BY <1>2, <2>1, <2>2 DEF BucketTypeOK
  <2>6. BucketTypeOK'
    <3>1. bucket' \in [Slot -> Bucket] /\ meter' \in [Slot -> Meter]
      BY <1>2, <2>1, <2>2, <2>3, <2>4 DEF BucketTypeOK, Bucket, Meter
    <3>2. entry' \in [Kind -> [Src -> 0 .. MaxBuckets]]
      BY <1>2, <2>1 DEF BucketTypeOK
    <3>3. \A b \in Slot : bucket'[b].tokens <= bucket'[b].rate
      BY <2>5, <2>3 DEF BucketTypeOK
    <3> QED BY <1>0, <2>1, <3>1, <3>2, <3>3 DEF BucketTypeOK
  <2>7. Windows'
    BY <2>4, <2>5, <1>0 DEF Windows
  <2>8. \A c \in Cpu : check[c].at # "idle" => check[c].b # n /\ check[c].b \in Slot
    BY <2>1 DEF Refs, Slot
  <2>9. Refs'
    <3>1. \A kk \in Kind, ss \in Src : entry'[kk][ss] <= made'
      <4> SUFFICES ASSUME NEW kk \in Kind, NEW ss \in Src PROVE entry'[kk][ss] <= made'
        OBVIOUS
      <4>1. entry'[kk][ss] = IF kk = k /\ ss = s THEN n ELSE entry[kk][ss]
        BY <1>2, <2>1 DEF BucketTypeOK
      <4>2. entry[kk][ss] \in Nat /\ entry[kk][ss] <= made
        BY Bounds DEF Refs, BucketTypeOK
      <4> QED BY <4>1, <4>2, <2>1
    <3>2. \A b \in Slot : b <= made' => bucket'[b].rate > 0
      <4> SUFFICES ASSUME NEW b \in Slot, b <= made' PROVE bucket'[b].rate > 0
        OBVIOUS
      <4>1. CASE b = n
        BY <4>1, <2>5, <2>3
      <4>2. CASE b # n
        BY <4>2, <2>5, <2>1 DEF Refs, Slot
      <4> QED BY <4>1, <4>2
    <3>3. \A c \in Cpu : check[c].at # "idle" => check[c].b <= made'
      BY <2>1 DEF Refs, Slot
    <3> QED BY <3>1, <3>2, <3>3, <1>0 DEF Refs
  <2>10. Fits'
    BY <1>0, <2>5, <2>8 DEF Fits
  <2>11. Fresh'
    BY <1>0, <2>5, <2>8 DEF Fresh, Refill, Gain
  <2>12. Account'
    <3> SUFFICES ASSUME NEW b \in Slot
                 PROVE  Balanced(bucket'[b].rate, bucket'[b].tokens, bucket'[b].last, meter'[b])
      BY DEF Account
    <3>1. CASE b # n
      BY <3>1, <2>5 DEF Account
    <3>2. CASE b = n
      <4> DEFINE r == Rate(k, l)
      <4>1. Room(r, r, t, clock) <= r * Unit + Unit /\ Room(r, r, t, clock) \in Nat
        <5>1. r \in Nat /\ r <= r
          BY <2>3
        <5> HIDE DEF r
        <5> QED BY <5>1, <2>3, <2>4, Bounds, RoomTop
      <4>2. meter'[b].passed = 0 /\ meter'[b].races = 0 /\ meter'[b].seen = clock /\ meter'[b].mark = clock
        BY <3>2, <2>5
      <4>3. Balanced(r, r, t, meter'[b])
        <5> HIDE DEF r
        <5>1. r * Unit * (1 + 2 * 0) = r * Unit /\ r * (clock - clock) = 0 /\ 0 * Unit = 0 /\ r * Unit \in Nat
          BY <2>3, <2>4, Bounds, Times DEF r
        <5> QED BY <4>1, <4>2, <5>1, Bounds DEF Balanced
      <4> QED BY <4>3, <3>2, <2>5
    <3> QED BY <3>1, <3>2
  <2> QED BY <2>6, <2>7, <2>9, <2>10, <2>11, <2>12
<1> QED BY <1>1, <1>2 DEF SetLimit

LEMMA WatchStep ==
  ASSUME BucketInv, Account, NEW w \in Slot, Watch(w)
  PROVE  BucketInv' /\ Account'
<1> USE DEF BucketInv
<1>0. UNCHANGED <<clock, entry, made, bucket, check>>
  BY DEF Watch
<1>1. clock \in Nat
  BY Bounds DEF BucketTypeOK
<1>2. /\ \A b \in Slot : b # w => meter'[b] = meter[b]
      /\ meter'[w] = [mark |-> clock, passed |-> 0, seen |-> clock, races |-> 0]
      /\ meter' \in [Slot -> Meter]
  BY <1>1 DEF Watch, BucketTypeOK, Meter
<1>3. BucketTypeOK' /\ Windows' /\ Refs' /\ Fits'
  BY <1>0, <1>1, <1>2 DEF BucketTypeOK, Windows, Refs, Fits
<1>4. Fresh'
  BY <1>0 DEF Fresh, Refill, Gain
<1>5. Account'
  <2> SUFFICES ASSUME NEW b \in Slot
               PROVE  Balanced(bucket[b].rate, bucket[b].tokens, bucket[b].last, meter'[b])
    BY <1>0 DEF Account
  <2>1. CASE b # w
    BY <2>1, <1>2 DEF Account
  <2>2. CASE b = w
    <3> DEFINE r == bucket[b].rate
               t == bucket[b].tokens
               last == bucket[b].last
    <3>0. r \in Nat /\ t \in Nat /\ last \in Nat /\ t <= r
      BY DEF BucketTypeOK, Bucket
    <3>1. Room(r, t, last, clock) <= r * Unit + Unit /\ Room(r, t, last, clock) \in Nat
      <4> HIDE DEF r, t, last
      <4> QED BY <3>0, <1>1, Bounds, RoomBound
    <3>2. meter'[b].passed = 0 /\ meter'[b].races = 0 /\ meter'[b].seen = clock /\ meter'[b].mark = clock
      BY <2>2, <1>2
    <3> HIDE DEF r, t, last
    <3>3. r * Unit * (1 + 2 * 0) = r * Unit /\ r * (clock - clock) = 0 /\ 0 * Unit = 0 /\ r * Unit \in Nat
      BY <3>0, <1>1, Bounds, Times
    <3>4. Balanced(r, t, last, meter'[b])
      BY <3>1, <3>2, <3>3, Bounds DEF Balanced
    <3> QED BY <3>4 DEF r, t, last
  <2> QED BY <2>1, <2>2
<1> QED BY <1>3, <1>4, <1>5

LEMMA TickStep ==
  ASSUME BucketInv, Account, Tick
  PROVE  BucketInv' /\ Account'
<1> USE DEF BucketInv
<1>0. UNCHANGED <<entry, made, bucket, check, meter>> /\ clock' = clock + 1 /\ clock < MaxClock
  BY DEF Tick
<1>1. clock' \in 0 .. MaxClock /\ clock \in Nat
  BY <1>0, Bounds DEF BucketTypeOK
<1>2. BucketTypeOK' /\ Fits' /\ Account'
  BY <1>0, <1>1 DEF BucketTypeOK, Fits, Account, Balanced, Room, Due
<1>3. Windows'
  BY <1>0, <1>1 DEF Windows, BucketTypeOK, Meter
<1>4. Refs'
  BY <1>0, <1>1 DEF Refs, BucketTypeOK, Check
<1>5. Fresh'
  BY <1>0 DEF Fresh, Refill, Gain
<1> QED BY <1>2, <1>3, <1>4, <1>5


\* The steps of a check before its store change nothing but the check.
LEMMA ReadingStep ==
  ASSUME BucketInv, Account, NEW c \in Cpu,
         UNCHANGED <<clock, entry, made, bucket, meter>>,
         NEW k \in Check, check' = [check EXCEPT ![c] = k],
         k.at # "idle" => k.b \in Slot /\ k.b <= made /\ k.now <= clock,
         k.at = "write" => k.sum <= bucket[k.b].rate,
         ~k.stale /\ k.at \in {"read", "write"} => k.refill = Refill(k.now, k.b),
         ~k.stale /\ k.at = "write" =>
           k.sum = Filled(bucket[k.b].tokens, k.refill, bucket[k.b].rate)
  PROVE  BucketInv' /\ Account'
<1> USE DEF BucketInv
<1>1. check' \in [Cpu -> Check] /\ check'[c] = k /\ \A d \in Cpu : d # c => check'[d] = check[d]
  BY DEF BucketTypeOK
<1>2. BucketTypeOK' /\ Windows' /\ Account'
  BY <1>1 DEF BucketTypeOK, Windows, Account, Balanced, Room, Due
<1>3. Refs'
  BY <1>1 DEF Refs
<1>4. Fits'
  BY <1>1 DEF Fits
<1>5. Fresh'
  <2> SUFFICES ASSUME NEW d \in Cpu, ~check'[d].stale
               PROVE  /\ check'[d].at \in {"read", "write"} =>
                           check'[d].refill = Refill(check'[d].now, check'[d].b)
                      /\ check'[d].at = "write" =>
                           check'[d].sum = Filled(bucket[check'[d].b].tokens,
                             check'[d].refill, bucket[check'[d].b].rate)
    BY DEF Fresh, Refill, Gain
  <2>1. CASE d = c
    BY <2>1, <1>1
  <2>2. CASE d # c
    BY <2>2, <1>1 DEF Fresh
  <2> QED BY <2>1, <2>2
<1> QED BY <1>2, <1>3, <1>4, <1>5

LEMMA LookupStep ==
  ASSUME BucketInv, Account, NEW c \in Cpu, NEW k \in Kind, NEW s \in Src,
         NEW len \in PacketLen, Lookup(c, k, s, len)
  PROVE  BucketInv' /\ Account'
<1> DEFINE q == [at |-> "measure", b |-> entry[k][s], cost |-> Cost(k, len),
                 now |-> clock, refill |-> 0, sum |-> 0, stale |-> FALSE]
<1>1. clock \in Nat /\ entry[k][s] \in 0 .. MaxBuckets /\ entry[k][s] # 0 /\ entry[k][s] <= made
  BY DEF BucketInv, BucketTypeOK, Refs, Lookup
<1>2. check' = [check EXCEPT ![c] = q] /\ UNCHANGED <<clock, entry, made, bucket, meter>>
  BY DEF Lookup
<1>3. Cost(k, len) \in Nat
  BY CostOK
<1>4. q \in Check
  BY <1>1, <1>3 DEF Check
<1>5. q.at = "measure" /\ q.b \in Slot /\ q.b <= made /\ q.now <= clock
  BY <1>1, Bounds DEF Slot
<1>6. q.at # "write" /\ q.at \notin {"read", "write"}
  BY <1>5
<1> HIDE DEF q
<1> QED BY <1>2, <1>4, <1>5, <1>6, ReadingStep

LEMMA MeasureStep ==
  ASSUME BucketInv, Account, NEW c \in Cpu, Measure(c)
  PROVE  BucketInv' /\ Account'
<1> DEFINE q == [check[c] EXCEPT !.at = "read",
                                 !.refill = Refill(check[c].now, check[c].b)]
<1>0. check[c] \in Check /\ check[c].at = "measure"
  BY DEF BucketInv, BucketTypeOK, Measure
<1>1. check[c].b \in Slot /\ check[c].b <= made /\ check[c].now <= clock /\ check[c].now \in Nat
      /\ clock \in 0 .. MaxClock
  BY <1>0 DEF BucketInv, Refs, BucketTypeOK, Check
<1>2. Refill(check[c].now, check[c].b) \in Nat
  BY <1>1, RefillOK, Bounds DEF BucketInv
<1>3. /\ q \in Check /\ q.at = "read" /\ q.b = check[c].b /\ q.now = check[c].now
      /\ q.refill = Refill(q.now, q.b)
  BY <1>0, <1>2 DEF Check
<1>4. check' = [check EXCEPT ![c] = q] /\ UNCHANGED <<clock, entry, made, bucket, meter>>
  BY DEF Measure
<1> HIDE DEF q
<1> QED BY <1>1, <1>3, <1>4, ReadingStep

LEMMA ReadStep ==
  ASSUME BucketInv, Account, NEW c \in Cpu, Read(c)
  PROVE  BucketInv' /\ Account'
<1> DEFINE b == bucket[check[c].b]
           q == [check[c] EXCEPT !.at = "write",
                                 !.sum = Filled(b.tokens, check[c].refill, b.rate)]
<1>0. check[c] \in Check /\ check[c].at = "read"
  BY DEF BucketInv, BucketTypeOK, Read
<1>1. check[c].b \in Slot /\ check[c].b <= made /\ check[c].now <= clock /\ check[c].refill \in Nat
  BY <1>0 DEF BucketInv, Refs, Check
<1>2. b.tokens \in Nat /\ b.rate \in Nat /\ b.tokens <= b.rate
  BY <1>1 DEF BucketInv, BucketTypeOK, Bucket
<1>3. Filled(b.tokens, check[c].refill, b.rate) \in Nat
      /\ Filled(b.tokens, check[c].refill, b.rate) <= b.rate
  BY <1>1, <1>2, FilledOK
<1>4. /\ q \in Check /\ q.at = "write" /\ q.b = check[c].b /\ q.now = check[c].now
      /\ q.refill = check[c].refill /\ q.stale = check[c].stale
      /\ q.sum = Filled(b.tokens, check[c].refill, b.rate)
  BY <1>0, <1>3 DEF Check
<1>5. check' = [check EXCEPT ![c] = q] /\ UNCHANGED <<clock, entry, made, bucket, meter>>
  BY DEF Read
<1>6. ~q.stale => q.refill = Refill(q.now, q.b)
  BY <1>0, <1>4 DEF BucketInv, Fresh
<1> HIDE DEF q
<1> QED BY <1>1, <1>3, <1>4, <1>5, <1>6, ReadingStep

\* The one step that moves tokens.
LEMMA StoreStep ==
  ASSUME BucketInv, Account, NEW c \in Cpu, check[c].at = "write", Store(c),
         UNCHANGED <<clock, entry, made>>
  PROVE  BucketInv' /\ Account'
<1> USE DEF BucketInv
<1> DEFINE k == check[c]
           b == k.b
           r == bucket[b].rate
           tok == bucket[b].tokens
           last == bucket[b].last
           spent == IF Exceeded(c) THEN 0 ELSE k.cost
           last2 == IF k.refill > 0 THEN k.now ELSE last
           m == meter[b]
           n == meter'[b]
<1>1. /\ k \in Check /\ b \in Slot /\ b <= made /\ k.now <= clock
      /\ k.now \in Nat /\ k.refill \in Nat /\ k.sum \in Nat /\ k.cost \in Nat
      /\ clock \in 0 .. MaxClock
  BY DEF BucketTypeOK, Refs, Check
<1>2. k.now < Word /\ k.now \in 0 .. Word - 1
  BY <1>1, Bounds
<1>3. /\ r \in Nat /\ tok \in Nat /\ last \in 0 .. Word - 1 /\ last \in Nat /\ tok <= r
      /\ r > 0 /\ m \in Meter /\ m.mark <= m.seen /\ m.seen <= clock
  BY <1>1, Bounds DEF BucketTypeOK, Bucket, Refs, Windows
<1>4. m.passed \in Nat /\ m.races \in Nat /\ m.seen \in Nat /\ m.mark \in Nat
  BY <1>3 DEF Meter
<1>5. spent \in Nat /\ spent <= k.sum /\ k.sum <= r /\ k.sum - spent \in Nat /\ k.sum - spent <= r
  <2>1. k.sum <= r
    BY DEF Fits
  <2>2. spent \in Nat /\ spent <= k.sum
    BY <1>1 DEF Exceeded
  <2> HIDE DEF spent, r, k
  <2> QED BY <2>1, <2>2, <1>1, <1>3
<1>6. /\ bucket' = [bucket EXCEPT ![b].tokens = k.sum - spent, ![b].last = last2]
      /\ meter' = [meter EXCEPT
           ![b].passed = @ + spent,
           ![b].seen = IF k.refill > 0 /\ k.now > @ THEN k.now ELSE @,
           ![b].races = @ + (IF Raced(c) THEN 1 ELSE 0)]
      /\ check' = [d \in Cpu |->
           IF d = c THEN NoCheck
           ELSE IF check[d].b = b /\ check[d].at \in {"read", "write"}
           THEN [check[d] EXCEPT !.stale = TRUE] ELSE check[d]]
  BY DEF Store
<1>7. /\ bucket'[b] = [tokens |-> k.sum - spent, last |-> last2, rate |-> r]
      /\ \A e \in Slot : e # b => bucket'[e] = bucket[e] /\ meter'[e] = meter[e]
  BY <1>1, <1>6 DEF BucketTypeOK, Bucket
<1>8. /\ n.passed = m.passed + spent /\ n.mark = m.mark
      /\ n.seen = IF k.refill > 0 /\ k.now > m.seen THEN k.now ELSE m.seen
      /\ n.races = m.races + (IF Raced(c) THEN 1 ELSE 0)
      /\ n \in Meter
  <2>1. n = [m EXCEPT !.passed = @ + spent,
                      !.seen = IF k.refill > 0 /\ k.now > @ THEN k.now ELSE @,
                      !.races = @ + (IF Raced(c) THEN 1 ELSE 0)]
    BY <1>1, <1>6 DEF BucketTypeOK
  <2> DEFINE x == IF Raced(c) THEN 1 ELSE 0
             y == IF k.refill > 0 /\ k.now > m.seen THEN k.now ELSE m.seen
  <2>2. x \in Nat
    OBVIOUS
  <2>3. y \in Nat
    BY <1>1, <1>4
  <2>4. n = [m EXCEPT !.passed = m.passed + spent, !.seen = y, !.races = m.races + x]
    BY <2>1
  <2>5. m = [mark |-> m.mark, passed |-> m.passed, seen |-> m.seen, races |-> m.races]
    BY <1>3 DEF Meter
  <2> HIDE DEF x, y, k, m, n, spent
  <2>6. n = [mark |-> m.mark, passed |-> m.passed + spent, seen |-> y, races |-> m.races + x]
    BY <2>4, <2>5
  <2>7. n.passed = m.passed + spent /\ n.mark = m.mark /\ n.seen = y /\ n.races = m.races + x
    BY <2>6
  <2>8. m.passed + spent \in Nat /\ m.races + x \in Nat
    BY <2>2, <1>4, <1>5
  <2>9. n \in Meter
    BY <2>3, <2>6, <2>8, <1>4 DEF Meter
  <2> QED BY <2>7, <2>9 DEF x, y
<1>9. last2 \in Nat /\ last2 \in 0 .. Word - 1 /\ n.seen >= m.seen /\ n.seen <= clock
  BY <1>1, <1>2, <1>3, <1>4, <1>8
<1>10. BucketTypeOK'
  <2>1. bucket'[b] \in Bucket
    BY <1>7, <1>5, <1>9, <1>3 DEF Bucket
  <2>2. bucket' \in [Slot -> Bucket] /\ meter' \in [Slot -> Meter]
    <3>1. DOMAIN bucket' = Slot /\ DOMAIN meter' = Slot
      BY <1>6 DEF BucketTypeOK
    <3>2. bucket' = [e \in Slot |-> bucket'[e]] /\ meter' = [e \in Slot |-> meter'[e]]
      BY <1>6, <3>1 DEF BucketTypeOK
    <3>3. \A e \in Slot : bucket'[e] \in Bucket /\ meter'[e] \in Meter
      BY <2>1, <1>7, <1>8 DEF BucketTypeOK
    <3> QED BY <3>2, <3>3
  <2>3. check' \in [Cpu -> Check]
    <3>1. NoCheck \in Check
      BY Bounds DEF NoCheck, Check
    <3>2. \A d \in Cpu : [check[d] EXCEPT !.stale = TRUE] \in Check
      BY DEF BucketTypeOK, Check
    <3> QED BY <1>6, <3>1, <3>2 DEF BucketTypeOK
  <2>4. \A e \in Slot : bucket'[e].tokens <= bucket'[e].rate
    BY <1>5, <1>7 DEF BucketTypeOK
  <2> QED BY <2>2, <2>3, <2>4 DEF BucketTypeOK
<1>11. Windows'
  BY <1>7, <1>8, <1>9, <1>3, <1>4 DEF Windows
<1>12. \A d \in Cpu : check'[d].at # "idle" =>
         /\ d # c /\ check'[d].at = check[d].at /\ check'[d].b = check[d].b
         /\ check'[d].now = check[d].now /\ check'[d].sum = check[d].sum
         /\ check'[d].refill = check[d].refill /\ check'[d].cost = check[d].cost
         /\ check[d].b \in Slot
         /\ ~check'[d].stale => ~check[d].stale /\
              (check[d].b # b \/ check[d].at \notin {"read", "write"})
  BY <1>6 DEF BucketTypeOK, Check, NoCheck, Refs
<1>13. \A e \in Slot : bucket'[e].rate = bucket[e].rate
  BY <1>7
<1>14. Refs'
  BY <1>12, <1>13 DEF Refs
<1>15. Fits'
  BY <1>12, <1>13 DEF Fits
<1>16. Fresh'
  <2> DEFINE Reads(d) ==
        /\ check[d].at \in {"read", "write"} =>
             check[d].refill = Refill(check[d].now, check[d].b)
        /\ check[d].at = "write" =>
             check[d].sum = Filled(bucket[check[d].b].tokens, check[d].refill,
                                   bucket[check[d].b].rate)
  <2>1. SUFFICES ASSUME NEW d \in Cpu, ~check'[d].stale,
                        check'[d].at \in {"read", "write"}
                 PROVE  Reads(d)'
    BY DEF Fresh
  <2>2. check[d].b # b /\ ~check[d].stale /\ check[d].b \in Slot
        /\ check[d].at \in {"read", "write"}
    BY <2>1, <1>12
  <2>3. bucket'[check[d].b] = bucket[check[d].b]
    BY <2>2, <1>7
  <2>4. check'[d].b = check[d].b /\ check'[d].now = check[d].now /\ check'[d].at = check[d].at
        /\ check'[d].refill = check[d].refill /\ check'[d].sum = check[d].sum
    BY <2>1, <1>12
  <2>5. Refill(check[d].now, check[d].b)' = Refill(check[d].now, check[d].b)
    BY <2>3, <2>4 DEF Refill, Gain
  <2>6. Reads(d)
    BY <2>2 DEF Fresh
  <2> QED BY <2>3, <2>4, <2>5, <2>6
<1>17. Account'
  <2> SUFFICES ASSUME NEW e \in Slot
               PROVE  Balanced(bucket'[e].rate, bucket'[e].tokens, bucket'[e].last, meter'[e])
    BY DEF Account
  <2>1. CASE e # b
    BY <2>1, <1>7 DEF Account
  <2>2. CASE e = b
    <3>1. Balanced(r, tok, last, m)
      BY <1>1 DEF Account
    <3>2. CASE Raced(c)
      <4>1. n.races = m.races + 1
        BY <3>2, <1>8
      <4> HIDE DEF k, r, tok, last, spent, last2, m, n
      <4>2. Balanced(r, k.sum - spent, last2, n)
        BY <4>1, <3>1, <1>1, <1>3, <1>5, <1>8, <1>9, Bounds, Dirty
      <4> QED BY <4>2, <2>2, <1>7 DEF n
    <3>3. CASE ~Raced(c)
      <4>1. n.races = m.races
        BY <3>3, <1>8, <1>4
      <4>2. ~k.stale /\ m.seen <= k.now /\ last <= k.now /\ Gain(k.now, b) < Word
        <5>1. Gain(k.now, b) \in Nat
          BY <1>1, <1>2, RefillOK
        <5> QED BY <5>1, <3>3, <1>1, <1>3, <1>4, Bounds DEF Raced
      <4>3. k.refill = Refill(k.now, b) /\ k.sum = Filled(tok, k.refill, r)
        BY <4>2 DEF Fresh
      <4>4. /\ Gain(k.now, b) = r * (k.now - last)
            /\ Refill(k.now, b) * Unit <= Gain(k.now, b)
            /\ Refill(k.now, b) = 0 => Gain(k.now, b) < Unit
        BY <4>2, <1>1, <1>2, RefillOK
      <4>5. k.refill * Unit <= r * (k.now - last) /\ (k.refill = 0 => r * (k.now - last) < Unit)
        BY <4>3, <4>4
      <4> HIDE DEF k, r, tok, last, spent, m, n
      <4>6. Balanced(r, k.sum - spent, last2, n)
        <5>1. PICK now \in Nat, refill \in Nat, sum \in Nat :
                now = k.now /\ refill = k.refill /\ sum = k.sum
          BY <1>1
        <5>2. /\ r \in Nat /\ r > 0 /\ tok \in Nat /\ last \in Nat /\ tok <= r
              /\ m \in Meter /\ n \in Meter /\ m.mark <= m.seen
          BY <1>3, <1>8
        <5>3. /\ last <= now /\ m.seen <= now /\ refill * Unit <= r * (now - last)
              /\ refill = 0 => r * (now - last) < Unit
              /\ sum = Filled(tok, refill, r)
          BY <4>2, <4>3, <4>5, <5>1
        <5>4. /\ spent \in Nat /\ spent <= sum
              /\ n.passed = m.passed + spent /\ n.races = m.races /\ n.mark = m.mark
              /\ n.seen = IF refill > 0 /\ now > m.seen THEN now ELSE m.seen
          BY <4>1, <5>1, <1>5, <1>8
        <5>5. Unit \in Nat /\ Unit > 0
          BY Bounds
        <5> HIDE DEF last2
        <5>6. Balanced(r, sum - spent, IF refill > 0 THEN now ELSE last, n)
          BY <3>1, <5>2, <5>3, <5>4, <5>5, Clean
        <5> QED
          BY <5>1, <5>6 DEF last2
      <4> QED BY <4>6, <2>2, <1>7 DEF n
    <3> QED BY <3>2, <3>3
  <2> QED BY <2>1, <2>2
<1> QED BY <1>10, <1>11, <1>14, <1>15, <1>16, <1>17


LEMMA WriteStep ==
  ASSUME BucketInv, Account, NEW c \in Cpu, Write(c)
  PROVE  BucketInv' /\ Account'
<1>0. check[c].at = "write" /\ UNCHANGED <<clock, entry, made>>
  BY DEF Write
<1>1. CASE check' = [check EXCEPT ![c] = NoCheck] /\ UNCHANGED <<bucket, meter>>
  <2>1. NoCheck \in Check /\ NoCheck.at = "idle"
    BY Bounds DEF NoCheck, Check
  <2>2. NoCheck.at # "write" /\ NoCheck.at \notin {"read", "write"}
    BY <2>1
  <2> QED BY <1>0, <1>1, <2>1, <2>2, ReadingStep
<1>2. CASE Store(c)
  BY <1>0, <1>2, StoreStep
<1> QED BY <1>1, <1>2 DEF Write

LEMMA BucketStep ==
  ASSUME BucketInv, Account, [BucketNext]_bucketVars
  PROVE  BucketInv' /\ Account'
<1>1. CASE Tick
  BY <1>1, TickStep
<1>2. CASE \E k \in Kind, s \in Src, l \in Limit : SetLimit(k, s, l)
  BY <1>2, SetLimitStep
<1>3. CASE \E b \in Slot : Watch(b)
  BY <1>3, WatchStep
<1>4. CASE \E c \in Cpu : Step(c)
  BY <1>4, MeasureStep, ReadStep, WriteStep DEF Step
<1>5. CASE \E c \in Cpu, k \in Kind, s \in Src, len \in PacketLen : Lookup(c, k, s, len)
  BY <1>5, LookupStep
<1>6. CASE UNCHANGED bucketVars
  <2> USE <1>6 DEF bucketVars, BucketInv
  <2>1. BucketTypeOK' /\ Windows' /\ Refs' /\ Fits'
    BY DEF BucketTypeOK, Windows, Refs, Fits
  <2>2. Fresh' /\ Account'
    BY DEF Fresh, Refill, Gain, Account, Balanced, Room, Due
  <2> QED BY <2>1, <2>2
<1> QED BY <1>1, <1>2, <1>3, <1>4, <1>5, <1>6 DEF BucketNext

\* The account bounds what passed in a window.
LEMMA BoundFollows ==
  ASSUME BucketInv, Account
  PROVE  MeterBound
<1> SUFFICES ASSUME NEW b \in Slot
             PROVE  meter[b].passed * Unit
                      <= bucket[b].rate * Unit * (1 + 2 * meter[b].races)
                         + bucket[b].rate * (clock - meter[b].mark) + Unit
  BY DEF MeterBound
<1> DEFINE m == meter[b]
           r == bucket[b].rate
           t == bucket[b].tokens
           last == bucket[b].last
<1>1. m \in Meter /\ m.mark <= m.seen /\ m.seen <= clock /\ clock \in Nat
      /\ r \in Nat /\ t \in Nat /\ last \in Nat /\ t <= r
  BY Bounds DEF BucketInv, BucketTypeOK, Bucket, Windows
<1>2. m.passed \in Nat /\ m.races \in Nat /\ m.seen \in Nat /\ m.mark \in Nat
  BY <1>1 DEF Meter
<1>3. Balanced(r, t, last, m)
  BY DEF Account
<1> HIDE DEF m, r, t, last
<1>4. Room(r, t, last, m.seen) \in Nat
  BY <1>1, <1>2, Bounds, RoomTop
<1>5. r * (m.seen - m.mark) <= r * (clock - m.mark)
      /\ r * (m.seen - m.mark) \in Nat /\ r * (clock - m.mark) \in Nat
  <2>1. m.seen - m.mark \in Nat /\ clock - m.mark \in Nat /\ m.seen - m.mark <= clock - m.mark
    BY <1>1, <1>2
  <2> QED BY <2>1, <1>1, Times
<1>6. m.passed * Unit \in Nat /\ r * Unit * (1 + 2 * m.races) \in Nat
  <2>1. r * Unit \in Nat /\ m.passed * Unit \in Nat /\ 1 + 2 * m.races \in Nat
    BY <1>1, <1>2, Bounds, Times
  <2> QED BY <2>1, Times
<1> DEFINE G == r * Unit * (1 + 2 * m.races)
           P == m.passed * Unit
           D == r * (m.seen - m.mark)
           E == r * (clock - m.mark)
           A == Room(r, t, last, m.seen)
<1>7. P + A <= G + D + Unit
  BY <1>3 DEF Balanced
<1>8. P <= G + E + Unit
  <2> HIDE DEF G, P, D, E, A
  <2> QED BY <1>4, <1>5, <1>6, <1>7, Bounds DEF G, P, D, E, A
<1> QED BY <1>8 DEF m, r

\* No bucket lets through more than its share, whatever checks race over it.
THEOREM BucketsBound == BucketSpec => []MeterBound
<1>1. BucketInv /\ Account /\ [BucketNext]_bucketVars => (BucketInv /\ Account)'
  BY BucketStep
<1>2. BucketSpec => [](BucketInv /\ Account)
  BY <1>1, BucketInitOK, PTL DEF BucketSpec
<1>3. BucketInv /\ Account => MeterBound
  BY BoundFollows
<1> QED BY <1>2, <1>3, PTL


-----------------------------------------------------------------------------
(* The pipeline over the buckets.                                          *)

\* A packet under way.
Packet == [at : Stage, src : Src, len : PacketLen,
           denied : SUBSET (Prefix \cup {"listed"}),
           meant : SUBSET (Prefix \cup {"listed"})]

LEMMA Keys ==
  /\ \A s \in Src : KeyOf[s] \in Src /\ KeyOf[KeyOf[s]] = s
  /\ \A s \in V6 : KeyOf[s] = s
  /\ \A p \in Prefix : Covers[p] \subseteq Src \ V6 /\ KeyCovers[p] \subseteq Src \ V6
  /\ V6 \subseteq Src /\ "listed" \notin Prefix
BY PipelineConstantsOK

\* Only sources have keys: an IPv4 address has an IPv4 key.
LEMMA KeyInSrc ==
  ASSUME NEW s \in Src \ V6
  PROVE  KeyOf[s] \in Src \ V6
BY Keys

LEMMA UnderWay ==
  ASSUME TypeOK, NEW c \in Cpu, pkt[c].at # "idle"
  PROVE  pkt[c] \in Packet /\ pkt[c].src \in Src /\ pkt[c].len \in PacketLen
         /\ pkt[c].denied \subseteq Prefix \cup {"listed"}
<1>1. pkt[c] # NoPkt
  BY DEF NoPkt
<1> QED BY <1>1 DEF TypeOK, PacketsOK, Packet

LEMMA KindNotIdle == \A k \in Kind : k # "idle"
BY BucketConstantsOK

\* Every step of the pipeline is a step of the buckets or none.
LEMMA StepRefines ==
  ASSUME TypeOK, [Next]_vars
  PROVE  [BucketNext]_bucketVars
<1>1. CASE \E c \in Cpu : Program(c)
  <2> PICK c \in Cpu : Program(c)
    BY <1>1
  <2>1. CASE \E k \in Kind : Limited(c, k)
    <3> PICK k \in Kind : Limited(c, k)
      BY <2>1
    <3>1. pkt[c].src \in Src /\ pkt[c].len \in PacketLen
      BY KindNotIdle, UnderWay DEF Limited, At
    <3>2. Lookup(c, k, pkt[c].src, pkt[c].len) \/ Measure(c) \/ Read(c) \/ Write(c)
      BY DEF Limited
    <3> QED BY <3>1, <3>2 DEF BucketNext, Step
  <2>2. CASE UNCHANGED bucketVars
    BY <2>2
  <2>3. \/ \E k \in Kind : Limited(c, k)
        \/ UNCHANGED bucketVars
    BY DEF Program, Receive, LookupV6, LookupBlocklist, LookupGeo, Unlimited,
           CountDrop, RecordLookup, RecordAdd, RecordInsert, Allow
  <2> QED BY <2>1, <2>2, <2>3
<1>2. CASE Daemon
  <2>1. CASE \E k \in Kind, s \in Src \ V6, l \in Limit : SetLimit(k, KeyOf[s], l)
    BY <2>1, KeyInSrc DEF BucketNext
  <2>2. CASE UNCHANGED bucketVars
    BY <2>2
  <2> QED BY <1>2, <2>1, <2>2 DEF Daemon, Unblock, Block, BlockCIDR, UnblockCIDR, Forget
<1>3. CASE Tick \/ \E b \in Slot : Watch(b)
  BY <1>3 DEF BucketNext
<1>4. CASE UNCHANGED vars
  BY <1>4 DEF vars
<1> QED BY <1>1, <1>2, <1>3, <1>4 DEF Next

\* A CPU is in a check only where its packet is.
Bound == \A c \in Cpu : check[c].at # "idle" => pkt[c].at \in Kind

\* TypeOK without the buckets.
PipeOK ==
  /\ blocklist \in [Src -> Reason \cup {"none"}] /\ geo \subseteq Prefix
  /\ why \in [Src -> Nat] /\ due \in [Src -> Nat]
  /\ stats \in [{"allowed", "dropped"} -> Nat]
  /\ DOMAIN pkt = Cpu /\ PacketsOK
  /\ busy \in Src \cup {"free"}
  /\ received \in 0 .. MaxPackets

LEMMA Parts == TypeOK <=> BucketTypeOK /\ PipeOK /\ Bound
BY DEF TypeOK, PipeOK, Bound

LEMMA MaxPacketsNat == MaxPackets \in Nat
BY PipelineConstantsOK

\* A stage change keeps the packet a packet.
LEMMA GotoOK ==
  ASSUME TypeOK, NEW c \in Cpu, NEW stage \in Stage, pkt[c].at # "idle", Goto(c, stage)
  PROVE  DOMAIN pkt' = Cpu /\ PacketsOK'
<1>1. pkt[c] \in Packet
  BY UnderWay
<1>2. [pkt[c] EXCEPT !.at = stage] \in Packet
  BY <1>1 DEF Packet
<1>3. DOMAIN pkt = Cpu
  BY DEF TypeOK
<1>4. DOMAIN pkt' = Cpu /\ pkt'[c] = [pkt[c] EXCEPT !.at = stage]
      /\ \A d \in Cpu : d # c => pkt'[d] = pkt[d]
  BY <1>3 DEF Goto
<1> QED BY <1>2, <1>4 DEF TypeOK, PacketsOK, Packet

LEMMA DoneOK ==
  ASSUME TypeOK, NEW c \in Cpu, Done(c)
  PROVE  DOMAIN pkt' = Cpu /\ PacketsOK'
BY DEF Done, TypeOK, PacketsOK

LEMMA CountOK ==
  ASSUME TypeOK, NEW v \in {"allowed", "dropped"}, Count(v)
  PROVE  /\ stats' \in [{"allowed", "dropped"} -> Nat]
         /\ stats'["dropped"] >= stats["dropped"]
BY DEF Count, TypeOK

\* What Release does to a packet under way, and to an idle CPU.
LEMMA ReleaseKeeps ==
  ASSUME NEW cause, NEW A, NEW K, Release(cause, A, K), NEW c \in Cpu, pkt[c] \in Packet
  PROVE  /\ pkt'[c] \in Packet
         /\ pkt'[c].at = pkt[c].at /\ pkt'[c].src = pkt[c].src
         /\ pkt'[c].denied = Without(pkt[c].denied, cause, pkt[c].src, K)
         /\ pkt'[c].meant = Without(pkt[c].meant, cause, pkt[c].src, A)
<1> DEFINE d == Without(pkt[c].denied, cause, pkt[c].src, K)
           m == Without(pkt[c].meant, cause, pkt[c].src, A)
<1>1. pkt'[c] = [pkt[c] EXCEPT !.denied = d, !.meant = m]
  BY DEF Release
<1>2. d \subseteq Prefix \cup {"listed"} /\ m \subseteq Prefix \cup {"listed"}
  BY DEF Without, Packet
<1> HIDE DEF d, m
<1>3. pkt'[c] \in Packet /\ pkt'[c].at = pkt[c].at /\ pkt'[c].src = pkt[c].src
      /\ pkt'[c].denied = d /\ pkt'[c].meant = m
  BY <1>1, <1>2 DEF Packet
<1> QED BY <1>3 DEF d, m

LEMMA ReleaseIdle ==
  ASSUME NEW cause, NEW A, NEW K, Release(cause, A, K), NEW c \in Cpu, pkt[c] = NoPkt
  PROVE  pkt'[c] = NoPkt
<1> DEFINE d == Without(pkt[c].denied, cause, pkt[c].src, K)
           m == Without(pkt[c].meant, cause, pkt[c].src, A)
<1>1. pkt'[c] = [pkt[c] EXCEPT !.denied = d, !.meant = m]
  BY DEF Release
<1>2. d = {} /\ m = {}
  BY DEF Without, NoPkt
<1> HIDE DEF d, m
<1>3. NoPkt.denied = {} /\ NoPkt.meant = {} /\ NoPkt = [x \in DOMAIN NoPkt |-> NoPkt[x]]
  BY DEF NoPkt
<1>4. [NoPkt EXCEPT !.denied = NoPkt.denied, !.meant = NoPkt.meant] = NoPkt
  BY <1>3
<1> QED BY <1>1, <1>2, <1>3, <1>4

LEMMA PipeStep ==
  ASSUME TypeOK, [Next]_vars
  PROVE  PipeOK'
<1> USE DEF PipeOK
<1>0. PipeOK
  BY Parts
<1>1. ASSUME NEW c \in Cpu, NEW s \in Src, NEW len \in PacketLen, Receive(c, s, len)
      PROVE  PipeOK'
  <2>1. Denying(s) \subseteq Prefix \cup {"listed"} /\ Meant(s) \subseteq Prefix \cup {"listed"}
    BY <1>0 DEF Denying, Meant
  <2>2. [at |-> "blocklist", src |-> s, len |-> len, denied |-> Denying(s),
        meant |-> Meant(s)] \in Packet
    BY <2>1 DEF Packet, Stage
  <2>3. DOMAIN pkt' = Cpu /\ PacketsOK'
    BY <1>0, <1>1, <2>2 DEF Receive, PacketsOK, Packet
  <2>4. received' \in 0 .. MaxPackets
    BY <1>0, <1>1, MaxPacketsNat DEF Receive
  <2> QED BY <1>0, <1>1, <2>3, <2>4 DEF Receive, kernel
<1>2. ASSUME NEW c \in Cpu, LookupV6(c)
      PROVE  PipeOK'
  <2>1. pkt[c].at # "idle" /\ "allow" \in Stage
    BY <1>2 DEF LookupV6, At, Stage
  <2>2. DOMAIN pkt' = Cpu /\ PacketsOK' /\ stats' \in [{"allowed", "dropped"} -> Nat]
    BY <1>0, <1>2, <2>1, GotoOK, DoneOK, CountOK DEF LookupV6
  <2> QED BY <1>0, <1>2, <2>2 DEF LookupV6
<1>3. ASSUME NEW c \in Cpu, LookupBlocklist(c) \/ LookupGeo(c) \/ CountDrop(c) \/ RecordLookup(c)
      PROVE  PipeOK'
  <2>1. pkt[c].at # "idle"
    BY <1>3 DEF LookupBlocklist, LookupGeo, CountDrop, RecordLookup, At
  <2>2. {"drop", "geoip", "challenge", "pps", "record", "add", "insert"} \subseteq Stage
    BY DEF Stage
  <2>3. DOMAIN pkt' = Cpu /\ PacketsOK'
    BY <1>3, <2>1, <2>2, GotoOK, DoneOK
       DEF LookupBlocklist, LookupGeo, CountDrop, RecordLookup
  <2>4. stats' \in [{"allowed", "dropped"} -> Nat]
    BY <1>0, <1>3, CountOK DEF LookupBlocklist, LookupGeo, CountDrop, RecordLookup, kernel
  <2> QED BY <1>0, <1>3, <2>3, <2>4
          DEF LookupBlocklist, LookupGeo, CountDrop, RecordLookup, kernel
<1>4. ASSUME NEW c \in Cpu, NEW k \in Kind, Unlimited(c, k) \/ Limited(c, k)
      PROVE  PipeOK'
  <2>1. pkt[c].at # "idle"
    BY <1>4, KindNotIdle DEF Unlimited, Limited, At
  <2>2. After(k) \in Stage /\ "drop" \in Stage
    BY DEF After, Stage
  <2>3. DOMAIN pkt' = Cpu /\ PacketsOK'
    BY <1>0, <1>4, <2>1, <2>2, GotoOK DEF Unlimited, Limited, PacketsOK
  <2> QED BY <1>0, <1>4, <2>3 DEF Unlimited, Limited, kernel
<1>5. ASSUME NEW c \in Cpu, RecordAdd(c) \/ RecordInsert(c)
      PROVE  PipeOK'
  <2>1. pkt[c].src \in Src
    BY <1>5, UnderWay DEF RecordAdd, RecordInsert, At
  <2>2. why' \in [Src -> Nat] /\ due' \in [Src -> Nat]
    BY <1>0, <1>5, <2>1 DEF RecordAdd, RecordInsert, Inserted
  <2>3. DOMAIN pkt' = Cpu /\ PacketsOK'
    BY <1>5, DoneOK DEF RecordAdd, RecordInsert
  <2> QED BY <1>0, <1>5, <2>2, <2>3 DEF RecordAdd, RecordInsert
<1>6. ASSUME NEW c \in Cpu, Allow(c)
      PROVE  PipeOK'
  BY <1>0, <1>6, DoneOK, CountOK DEF Allow
<1>7. ASSUME NEW s \in Src, NEW r \in Reason, Block(s, r)
      PROVE  PipeOK'
  BY <1>0, <1>7, Keys DEF Block, PacketsOK
<1>8. ASSUME NEW cause, NEW A, NEW K, Release(cause, A, K)
      PROVE  DOMAIN pkt' = Cpu /\ PacketsOK'
  <2>1. ASSUME NEW c \in Cpu
        PROVE  pkt'[c] = NoPkt \/ pkt'[c] \in Packet
    <3>2. CASE pkt[c] = NoPkt
      BY <1>8, <3>2, ReleaseIdle
    <3>3. CASE pkt[c] \in Packet
      BY <1>8, <3>3, ReleaseKeeps
    <3> QED BY <1>0, <3>2, <3>3 DEF PacketsOK, Packet
  <2> QED BY <1>8, <2>1 DEF Release, PacketsOK, Packet
<1>9. ASSUME NEW s \in Src, Unblock(s)
      PROVE  PipeOK'
  BY <1>0, <1>8, <1>9, Keys DEF Unblock
<1>10. CASE Forget
  <2>1. busy \in Src
    BY <1>0, <1>10 DEF Forget
  <2>2. why' \in [Src -> Nat] /\ due' \in [Src -> Nat]
    BY <1>0, <1>10, <2>1 DEF Forget
  <2>3. DOMAIN pkt' = Cpu /\ PacketsOK'
    BY <1>0, <1>10 DEF Forget, PacketsOK
  <2> QED BY <1>0, <1>10, <2>2, <2>3 DEF Forget
<1>11. ASSUME NEW p \in Prefix, BlockCIDR(p) \/ UnblockCIDR(p)
       PROVE  PipeOK'
  <2>1. DOMAIN pkt' = Cpu /\ PacketsOK'
    BY <1>0, <1>8, <1>11 DEF BlockCIDR, UnblockCIDR, PacketsOK
  <2> QED BY <1>0, <1>11, <2>1 DEF BlockCIDR, UnblockCIDR
<1>12. CASE UNCHANGED <<kernel, pkt, busy, received, due>>
  BY <1>0, <1>12 DEF kernel, PacketsOK
<1>13. CASE UNCHANGED vars
  BY <1>12, <1>13 DEF vars
<1>14. ASSUME NEW c \in Cpu, Program(c)
       PROVE  PipeOK'
  BY <1>1, <1>2, <1>3, <1>4, <1>5, <1>6, <1>14 DEF Program
<1>15. CASE Daemon
  BY <1>7, <1>9, <1>10, <1>11, <1>12, <1>15 DEF Daemon
<1> QED BY <1>12, <1>13, <1>14, <1>15 DEF Next


LEMMA KindIs == Kind = {"pps", "kbps"}
BY PipelineConstantsOK

\* What a step makes of the check of a CPU it does not run on, or of its own.
LEMMA BoundStep ==
  ASSUME TypeOK, [Next]_vars
  PROVE  Bound'
<1> USE DEF Bound
<1>0. Bound /\ check \in [Cpu -> Check] /\ DOMAIN pkt = Cpu
  BY DEF TypeOK, BucketTypeOK
<1>1. ASSUME UNCHANGED check, NEW c \in Cpu, pkt[c].at \notin Kind,
             \A d \in Cpu : d # c => pkt'[d] = pkt[d]
      PROVE  Bound'
  BY <1>0, <1>1
<1>2. ASSUME UNCHANGED check, \A d \in Cpu : pkt[d].at \in Kind => pkt'[d].at = pkt[d].at
      PROVE  Bound'
  BY <1>0, <1>2
<1>3. ASSUME NEW c \in Cpu, NEW k \in Kind, Limited(c, k)
      PROVE  Bound'
  <2>1. pkt[c].at = k
    BY <1>3 DEF Limited, At
  <2>2. CASE (Lookup(c, k, pkt[c].src, pkt[c].len) \/ Measure(c) \/ Read(c)) /\ UNCHANGED pkt
    <3>1. \A d \in Cpu : d # c => check'[d] = check[d]
      BY <2>2, <1>0 DEF Lookup, Measure, Read
    <3> QED BY <2>1, <2>2, <3>1, <1>0
  <2>3. CASE Write(c) /\ Goto(c, IF Exceeded(c) THEN "drop" ELSE After(k))
    <3>1. \A d \in Cpu : d # c => check'[d].at = check[d].at /\ pkt'[d] = pkt[d]
      BY <2>3, <1>0 DEF Write, Store, Goto, Check
    <3>2. check'[c].at = "idle"
      BY <2>3, <1>0 DEF Write, Store, NoCheck
    <3> QED BY <3>1, <3>2, <1>0
  <2> QED BY <1>3, <2>2, <2>3 DEF Limited
<1>4. ASSUME NEW c \in Cpu, NEW k \in Kind, Unlimited(c, k)
      PROVE  Bound'
  <2>1. check[c].at = "idle" /\ UNCHANGED check
    BY <1>4 DEF Unlimited, bucketVars
  <2>2. \A d \in Cpu : d # c => pkt'[d] = pkt[d]
    BY <1>4, <1>0 DEF Unlimited, Goto
  <2> QED BY <2>1, <2>2, <1>0
<1>5. ASSUME NEW c \in Cpu, \A k \in Kind : ~Limited(c, k) /\ ~Unlimited(c, k), Program(c)
      PROVE  Bound'
  <2>1. UNCHANGED check /\ \A d \in Cpu : d # c => pkt'[d] = pkt[d]
    BY <1>0, <1>5 DEF Program, Receive, LookupV6, LookupBlocklist, LookupGeo, CountDrop,
      RecordLookup, RecordAdd, RecordInsert, Allow, Goto, Done, bucketVars
  <2>2. pkt[c].at \notin Kind
    BY <1>5, KindIs DEF Program, Receive, LookupV6, LookupBlocklist, LookupGeo, CountDrop,
      RecordLookup, RecordAdd, RecordInsert, Allow, At
  <2> QED BY <2>1, <2>2, <1>1
<1>6. ASSUME Daemon
      PROVE  Bound'
  <2>1. UNCHANGED check
    BY <1>6 DEF Daemon, Block, Unblock, Forget, BlockCIDR, UnblockCIDR, SetLimit, bucketVars
  <2>2. \A d \in Cpu : pkt[d].at \in Kind => pkt'[d].at = pkt[d].at
    <3> SUFFICES ASSUME NEW d \in Cpu, pkt[d].at \in Kind PROVE pkt'[d].at = pkt[d].at
      OBVIOUS
    <3>1. CASE UNCHANGED pkt
      BY <3>1
    <3>2. ASSUME NEW cause, NEW A, NEW K, Release(cause, A, K) PROVE pkt'[d].at = pkt[d].at
      <4>1. pkt[d].at # "idle"
        BY KindNotIdle
      <4>2. pkt[d] \in Packet
        BY <4>1, UnderWay
      <4> QED BY <3>2, <4>2, ReleaseKeeps
    <3>3. CASE Forget
      BY <3>3, KindIs DEF Forget, At
    <3> QED BY <1>6, <3>1, <3>2, <3>3 DEF Daemon, Block, Unblock, BlockCIDR, UnblockCIDR
  <2> QED BY <2>1, <2>2, <1>2
<1>7. CASE (Tick \/ \E b \in Slot : Watch(b)) /\ UNCHANGED pkt
  BY <1>7, <1>0 DEF Tick, Watch
<1>8. CASE UNCHANGED vars
  BY <1>8, <1>0 DEF vars, bucketVars
<1> QED BY <1>3, <1>4, <1>5, <1>6, <1>7, <1>8 DEF Next

LEMMA InitOK == Init => TypeOK /\ BucketInv /\ Account
<1> SUFFICES ASSUME Init PROVE TypeOK /\ BucketInv /\ Account
  OBVIOUS
<1>1. BucketInv /\ Account
  BY BucketInitOK DEF Init
<1>2. PipeOK
  BY MaxPacketsNat DEF Init, PipeOK, PacketsOK
<1>3. Bound
  BY DEF Init, BucketInit, Bound, NoCheck
<1> QED BY <1>1, <1>2, <1>3, Parts DEF BucketInv

LEMMA PipelineStep ==
  ASSUME TypeOK, BucketInv, Account, [Next]_vars
  PROVE  (TypeOK /\ BucketInv /\ Account)'
<1>1. BucketInv' /\ Account'
  BY StepRefines, BucketStep
<1>2. BucketTypeOK' /\ PipeOK' /\ Bound'
  BY <1>1, PipeStep, BoundStep DEF BucketInv
<1>3. TypeOK' <=> BucketTypeOK' /\ PipeOK' /\ Bound'
  BY DEF TypeOK, PipeOK, Bound
<1> QED BY <1>1, <1>2, <1>3

\* The maps, the packets under way and their bucket checks keep their types,
\* and no bucket ever holds more than a second's worth.
THEOREM TypeCorrect == Spec => []TypeOK
<1>1. (TypeOK /\ BucketInv /\ Account) /\ [Next]_vars => (TypeOK /\ BucketInv /\ Account)'
  BY PipelineStep
<1> QED BY <1>1, InitOK, PTL DEF Spec

\* The pipeline uses its buckets as TokenBucket says.
THEOREM Refines == Spec => BucketSpec
<1>1. Init => BucketInit
  BY DEF Init
<1>2. TypeOK /\ [Next]_vars => [BucketNext]_bucketVars
  BY StepRefines
<1> QED BY <1>1, <1>2, TypeCorrect, PTL DEF Spec, BucketSpec

\* No source passes more than its limit allows it, up to what races are worth.
THEOREM LimitsHold == Spec => []MeterBound
BY Refines, BucketsBound, PTL


-----------------------------------------------------------------------------
(* Blocks stop the next packet.                                            *)

\* A key that a packet matched when it was received and was not released since
\* still matches its source, until the lookup that would find it has been passed.
Standing ==
  \A c \in Cpu :
    /\ pkt[c].at \in {"blocklist", "geoip"} => pkt[c].denied \subseteq Denying(pkt[c].src)
    /\ pkt[c].at = "geoip" => "listed" \notin pkt[c].denied
    /\ pkt[c].at \in Kind \cup {"allow", "challenge"} => pkt[c].denied = {}

LEMMA NotCovered ==
  ASSUME NEW p \in Prefix
  PROVE  KeyCovers[p] \subseteq Src \ V6 /\ p # "listed"
BY PipelineConstantsOK

LEMMA StandingStep ==
  ASSUME TypeOK, Standing, [Next]_vars
  PROVE  Standing'
<1> USE DEF Standing
<1>0. DOMAIN pkt = Cpu /\ geo \subseteq Prefix /\ blocklist \in [Src -> Reason \cup {"none"}]
      /\ "none" \notin Reason
  BY PipelineConstantsOK DEF TypeOK
<1>1. ASSUME NEW c \in Cpu, UNCHANGED <<blocklist, geo>>,
             \A d \in Cpu : d # c => pkt'[d] = pkt[d],
             /\ pkt'[c].at \in {"blocklist", "geoip"} =>
                  pkt'[c].denied \subseteq Denying(pkt'[c].src)
             /\ pkt'[c].at = "geoip" => "listed" \notin pkt'[c].denied
             /\ pkt'[c].at \in Kind \cup {"allow", "challenge"} => pkt'[c].denied = {}
      PROVE  Standing'
  BY <1>1 DEF Denying
<1>2. ASSUME NEW c \in Cpu, NEW s \in Src, NEW len \in PacketLen, Receive(c, s, len)
      PROVE  Standing'
  <2>1. pkt'[c] = [at |-> "blocklist", src |-> s, len |-> len, denied |-> Denying(s),
        meant |-> Meant(s)]
        /\ \A d \in Cpu : d # c => pkt'[d] = pkt[d]
    BY <1>0, <1>2 DEF Receive
  <2> QED BY <2>1, <1>1, <1>2, KindIs DEF Receive, kernel
<1>3. ASSUME NEW c \in Cpu, Done(c)
      PROVE  /\ \A d \in Cpu : d # c => pkt'[d] = pkt[d]
             /\ pkt'[c] = NoPkt
  BY <1>0, <1>3 DEF Done
<1>4. ASSUME NEW c \in Cpu, NEW stage, Goto(c, stage), pkt[c].at # "idle"
      PROVE  /\ \A d \in Cpu : d # c => pkt'[d] = pkt[d]
             /\ pkt'[c].at = stage /\ pkt'[c].src = pkt[c].src
             /\ pkt'[c].denied = pkt[c].denied
  <2>1. pkt[c] \in Packet
    BY <1>4, UnderWay
  <2> QED BY <1>0, <1>4, <2>1 DEF Goto, Packet
<1>5. ASSUME NEW c \in Cpu, Done(c), UNCHANGED <<blocklist, geo>>
      PROVE  Standing'
  BY <1>1, <1>3, <1>5, KindIs DEF NoPkt
<1>6. ASSUME NEW c \in Cpu, LookupV6(c)
      PROVE  Standing'
  <2>1. UNCHANGED <<blocklist, geo>> /\ pkt[c].at = "blocklist" /\ pkt[c].src \in V6
    BY <1>6 DEF LookupV6, At
  <2>2. CASE blocklist[pkt[c].src] = "none" /\ Goto(c, "allow")
    <3>1. pkt[c].denied \subseteq Denying(pkt[c].src)
      BY <2>1
    <3>2. Denying(pkt[c].src) = {}
      BY <2>1, <2>2, <1>0, NotCovered DEF Denying
    <3>3. pkt'[c].denied = {} /\ pkt'[c].at = "allow" /\ \A d \in Cpu : d # c => pkt'[d] = pkt[d]
      BY <3>1, <3>2, <2>1, <2>2, <1>4
    <3> QED BY <3>3, <2>1, <1>1
  <2> QED BY <1>5, <1>6, <2>1, <2>2 DEF LookupV6
<1>7. ASSUME NEW c \in Cpu, LookupBlocklist(c)
      PROVE  Standing'
  <2>1. UNCHANGED <<blocklist, geo>> /\ pkt[c].at = "blocklist"
    BY <1>7 DEF LookupBlocklist, At, kernel
  <2>2. pkt[c].denied \subseteq Denying(pkt[c].src)
    BY <2>1
  <2>3. CASE Goto(c, "drop")
    BY <2>1, <2>3, <1>1, <1>4, KindIs
  <2>4. CASE blocklist[pkt[c].src] = "none" /\ Goto(c, "geoip")
    <3>1. "listed" \notin Denying(pkt[c].src)
      BY <2>4, <1>0, NotCovered DEF Denying
    <3>2. pkt'[c].at = "geoip" /\ pkt'[c].denied = pkt[c].denied /\ pkt'[c].src = pkt[c].src
          /\ \A d \in Cpu : d # c => pkt'[d] = pkt[d]
      BY <2>1, <2>4, <1>4
    <3> QED BY <3>1, <3>2, <2>1, <2>2, <1>1, KindIs
  <2> QED BY <1>7, <2>3, <2>4 DEF LookupBlocklist
<1>8. ASSUME NEW c \in Cpu, LookupGeo(c)
      PROVE  Standing'
  <2>1. UNCHANGED <<blocklist, geo>> /\ pkt[c].at = "geoip"
    BY <1>8 DEF LookupGeo, At
  <2>2. CASE Goto(c, "drop")
    BY <2>1, <2>2, <1>1, <1>4, KindIs
  <2>3. ASSUME ~Matches(pkt[c].src), NEW stage, Goto(c, stage), stage \in {"drop", "challenge", "pps"}
        PROVE  Standing'
    <3>1. pkt[c].denied = {}
      BY <2>1, <2>3 DEF Matches, Denying
    <3>2. pkt'[c].at = stage /\ pkt'[c].denied = {} /\ \A d \in Cpu : d # c => pkt'[d] = pkt[d]
      BY <3>1, <2>1, <2>3, <1>4
    <3> QED BY <3>2, <2>1, <2>3, <1>1
  <2> QED BY <1>5, <1>8, <2>1, <2>2, <2>3 DEF LookupGeo
<1>9. ASSUME NEW c \in Cpu, NEW k \in Kind, Unlimited(c, k) \/ Limited(c, k)
      PROVE  Standing'
  <2>1. UNCHANGED <<blocklist, geo>> /\ pkt[c].at \in Kind /\ pkt[c].at # "idle"
    BY <1>9, KindNotIdle DEF Unlimited, Limited, At, kernel
  <2>2. CASE UNCHANGED pkt
    BY <2>1, <2>2 DEF Denying
  <2>3. ASSUME NEW stage, Goto(c, stage), stage \in {"drop", "kbps", "allow"}
        PROVE  Standing'
    <3>1. pkt'[c].at = stage /\ pkt'[c].denied = {} /\ \A d \in Cpu : d # c => pkt'[d] = pkt[d]
      BY <2>1, <2>3, <1>4
    <3> QED BY <3>1, <2>1, <2>3, <1>1
  <2>4. After(k) \in {"drop", "kbps", "allow"}
    BY DEF After
  <2> QED BY <1>9, <2>2, <2>3, <2>4 DEF Unlimited, Limited
<1>10. ASSUME NEW c \in Cpu, CountDrop(c) \/ RecordLookup(c)
       PROVE  Standing'
  <2>1. UNCHANGED <<blocklist, geo>> /\ pkt[c].at # "idle"
    BY <1>10 DEF CountDrop, RecordLookup, At, kernel
  <2>2. ASSUME NEW stage, Goto(c, stage), stage \in {"record", "add", "insert"}
        PROVE  Standing'
    BY <2>1, <2>2, <1>1, <1>4, KindIs
  <2> QED BY <1>10, <2>2 DEF CountDrop, RecordLookup
<1>11. ASSUME NEW c \in Cpu, RecordAdd(c) \/ RecordInsert(c) \/ Allow(c)
       PROVE  Standing'
  BY <1>5, <1>11 DEF RecordAdd, RecordInsert, Allow
<1>12. ASSUME NEW s \in Src, NEW r \in Reason, Block(s, r)
       PROVE  Standing'
  <2>1. \A x \in Src : Denying(x) \subseteq Denying(x)'
    BY <1>0, <1>12 DEF Block, Denying
  <2>2. UNCHANGED pkt
    BY <1>12 DEF Block
  <2>3. \A c \in Cpu : pkt[c].at \in {"blocklist", "geoip"} => pkt[c].src \in Src
    BY UnderWay
  <2> QED BY <2>1, <2>2, <2>3
<1>13. ASSUME NEW p \in Prefix, BlockCIDR(p)
       PROVE  Standing'
  <2>1. \A x \in Src : Denying(x) \subseteq Denying(x)'
    BY <1>13 DEF BlockCIDR, Denying
  <2>2. UNCHANGED pkt
    BY <1>13 DEF BlockCIDR
  <2>3. \A c \in Cpu : pkt[c].at \in {"blocklist", "geoip"} => pkt[c].src \in Src
    BY UnderWay
  <2> QED BY <2>1, <2>2, <2>3
<1>14. ASSUME NEW cause, NEW A, NEW K, Release(cause, A, K),
              \A x \in Src : Denying(x) \ (IF x \in K THEN {cause} ELSE {}) \subseteq Denying(x)'
       PROVE  Standing'
  <2> SUFFICES ASSUME NEW c \in Cpu
      PROVE /\ pkt'[c].at \in {"blocklist", "geoip"} =>
                 pkt'[c].denied \subseteq Denying(pkt[c].src)'
            /\ pkt'[c].at = "geoip" => "listed" \notin pkt'[c].denied
            /\ pkt'[c].at \in Kind \cup {"allow", "challenge"} => pkt'[c].denied = {}
    OBVIOUS
  <2>2. CASE pkt[c] = NoPkt
    <3>1. pkt'[c] = NoPkt
      BY <1>14, <2>2, ReleaseIdle
    <3> QED BY <3>1, KindIs DEF NoPkt
  <2>3. CASE pkt[c] \in Packet
    <3>1. pkt'[c].at = pkt[c].at /\ pkt'[c].src = pkt[c].src
          /\ pkt'[c].denied = pkt[c].denied \ (IF pkt[c].src \in K THEN {cause} ELSE {})
          /\ pkt[c].src \in Src
      <4>1. pkt'[c].denied = Without(pkt[c].denied, cause, pkt[c].src, K)
            /\ pkt'[c].at = pkt[c].at /\ pkt'[c].src = pkt[c].src
        BY <1>14, <2>3, ReleaseKeeps
      <4>2. pkt[c].src \in Src
        BY <2>3 DEF Packet
      <4> QED BY <4>1, <4>2 DEF Without
    <3>2. PICK x \in Src : x = pkt[c].src
      BY <3>1
    <3>3. Denying(pkt[c].src)' = Denying(x)' /\ Denying(x) = Denying(pkt[c].src)
      BY <3>1, <3>2 DEF Denying
    <3>4. Denying(x) \ (IF x \in K THEN {cause} ELSE {}) \subseteq Denying(x)'
      BY <1>14
    <3>5. pkt[c].at \in {"blocklist", "geoip"} => pkt[c].denied \subseteq Denying(x)
      BY <3>3
    <3> QED BY <3>1, <3>2, <3>3, <3>4, <3>5
  <2> QED BY <2>2, <2>3 DEF TypeOK, PacketsOK, Packet
<1>15. ASSUME NEW s \in Src, Unblock(s)
       PROVE  Standing'
  <2>1. \A x \in Src : Denying(x) \ (IF x \in {KeyOf[s]} THEN {"listed"} ELSE {}) \subseteq Denying(x)'
    BY <1>0, <1>15, Keys DEF Unblock, Denying
  <2> QED BY <2>1, <1>14, <1>15 DEF Unblock
<1>16. ASSUME NEW p \in Prefix, UnblockCIDR(p)
       PROVE  Standing'
  <2>1. \A x \in Src : Denying(x) \ (IF x \in KeyCovers[p] THEN {p} ELSE {}) \subseteq Denying(x)'
    BY <1>16 DEF UnblockCIDR, Denying
  <2> QED BY <2>1, <1>14, <1>16 DEF UnblockCIDR
<1>17. CASE Forget
  <2>1. \A c \in Cpu : pkt'[c] = pkt[c] \/ pkt'[c] = NoPkt
    BY <1>17 DEF Forget
  <2>2. UNCHANGED <<blocklist, geo>>
    BY <1>17 DEF Forget
  <2> QED BY <2>1, <2>2, KindIs DEF Denying, NoPkt
<1>18. CASE UNCHANGED <<kernel, pkt>>
  BY <1>18 DEF kernel, Denying
<1>19. ASSUME NEW c \in Cpu, Program(c)
       PROVE  Standing'
  BY <1>2, <1>6, <1>7, <1>8, <1>9, <1>10, <1>11, <1>19 DEF Program
<1>20. CASE Daemon
  BY <1>12, <1>13, <1>15, <1>16, <1>17, <1>18, <1>20 DEF Daemon
<1> QED BY <1>18, <1>19, <1>20 DEF Next, vars

\* A packet received while its address matched a key of the lists, and not
\* released since, is neither let through nor answered, on any host.
THEOREM BlocksHold == Spec => []BlockedStops
<1>1. Init => Standing
  <2> SUFFICES ASSUME Init PROVE Standing
    OBVIOUS
  <2>1. \A c \in Cpu : pkt[c] = NoPkt
    BY DEF Init
  <2>2. NoPkt.at = "idle"
    BY DEF NoPkt
  <2> QED BY <2>1, <2>2, KindIs DEF Standing
<1>2. TypeOK /\ Standing /\ [Next]_vars => Standing'
  BY StandingStep
<1>3. Standing => BlockedStops
  BY DEF Standing, BlockedStops
<1> QED BY <1>1, <1>2, <1>3, TypeCorrect, PTL DEF Spec

\* Where the key is the address, a packet matches the keys of the blocks that
\* are meant for it.
AsMeant == NetworkOrder => \A c \in Cpu : pkt[c].meant = pkt[c].denied

LEMMA AsMeantStep ==
  ASSUME TypeOK, AsMeant, [Next]_vars
  PROVE  AsMeant'
<1> SUFFICES ASSUME NetworkOrder PROVE \A c \in Cpu : pkt'[c].meant = pkt'[c].denied
  BY DEF AsMeant, NetworkOrder
<1>0. DOMAIN pkt = Cpu /\ \A c \in Cpu : pkt[c].meant = pkt[c].denied
  BY DEF AsMeant, TypeOK
<1> DEFINE Fine == \A c \in Cpu : pkt'[c].meant = pkt'[c].denied
<1>1. ASSUME NEW c \in Cpu, NEW stage, Goto(c, stage), pkt[c].at # "idle" PROVE Fine
  <2>1. pkt[c] \in Packet
    BY <1>1, UnderWay
  <2> QED BY <1>0, <1>1, <2>1 DEF Goto, Packet
<1>2. ASSUME NEW c \in Cpu, Done(c) PROVE Fine
  BY <1>0, <1>2 DEF Done, NoPkt
<1>3. ASSUME NEW c \in Cpu, NEW s \in Src, NEW len \in PacketLen, Receive(c, s, len)
      PROVE  Fine
  <2>1. Meant(s) = Denying(s)
    BY DEF Meant, Denying, NetworkOrder
  <2> QED BY <1>0, <1>3, <2>1 DEF Receive
<1>4. ASSUME NEW c \in Cpu, Program(c) PROVE Fine
  <2>1. CASE UNCHANGED pkt
    BY <1>0, <2>1
  <2>2. ASSUME NEW k \in Kind, Unlimited(c, k) \/ Limited(c, k) PROVE Fine
    <3>1. pkt[c].at # "idle"
      BY <2>2, KindNotIdle DEF Unlimited, Limited, At
    <3> QED BY <1>1, <2>1, <2>2, <3>1 DEF Unlimited, Limited
  <2>3. ASSUME LookupV6(c) \/ LookupBlocklist(c) \/ LookupGeo(c) \/ CountDrop(c) \/ RecordLookup(c)
        PROVE  Fine
    <3>1. pkt[c].at # "idle"
      BY <2>3 DEF LookupV6, LookupBlocklist, LookupGeo, CountDrop, RecordLookup, At
    <3> QED BY <1>1, <1>2, <2>3, <3>1
            DEF LookupV6, LookupBlocklist, LookupGeo, CountDrop, RecordLookup
  <2>4. CASE RecordAdd(c) \/ RecordInsert(c) \/ Allow(c)
    BY <1>2, <2>4 DEF RecordAdd, RecordInsert, Allow
  <2> QED BY <1>3, <1>4, <2>2, <2>3, <2>4 DEF Program
<1>5. ASSUME NEW cause, NEW A, Release(cause, A, A) PROVE Fine
  <2> SUFFICES ASSUME NEW c \in Cpu PROVE pkt'[c].meant = pkt'[c].denied
    OBVIOUS
  <2>1. CASE pkt[c] = NoPkt
    BY <1>5, <2>1, ReleaseIdle DEF NoPkt
  <2>2. CASE pkt[c] \in Packet
    BY <1>0, <1>5, <2>2, ReleaseKeeps
  <2> QED BY <2>1, <2>2 DEF TypeOK, PacketsOK, Packet
<1>6. CASE Daemon
  <2>1. CASE UNCHANGED pkt
    BY <1>0, <2>1
  <2>2. ASSUME NEW s \in Src, Unblock(s) PROVE Fine
    <3>1. {KeyOf[s]} = {s}
      BY DEF NetworkOrder
    <3> QED BY <1>5, <2>2, <3>1 DEF Unblock
  <2>3. ASSUME NEW p \in Prefix, UnblockCIDR(p) PROVE Fine
    BY <1>5, <2>3 DEF UnblockCIDR, NetworkOrder
  <2>4. CASE Forget
    BY <1>0, <2>4 DEF Forget, NoPkt
  <2> QED BY <1>6, <2>1, <2>2, <2>3, <2>4 DEF Daemon, Block, BlockCIDR
<1>7. CASE UNCHANGED pkt
  BY <1>0, <1>7
<1> QED BY <1>4, <1>6, <1>7 DEF Next, vars

\* On a host where the key the daemon writes is the address the program looks
\* up, a block takes effect on the very next packet from the address.
THEOREM BlocksTakeEffect == Spec => [](NetworkOrder => BlockInForce)
<1>1. Init => AsMeant
  <2>1. Init => \A c \in Cpu : pkt[c] = NoPkt
    BY DEF Init
  <2>2. NoPkt.meant = NoPkt.denied
    BY Zenon DEF NoPkt
  <2> QED BY <2>1, <2>2 DEF AsMeant
<1>2. TypeOK /\ AsMeant /\ [Next]_vars => AsMeant'
  BY AsMeantStep
<1>3. AsMeant /\ BlockedStops => (NetworkOrder => BlockInForce)
  BY DEF AsMeant, BlockedStops, BlockInForce
<1> QED BY <1>1, <1>2, <1>3, TypeCorrect, BlocksHold, PTL DEF Spec


-----------------------------------------------------------------------------
(* Drops are explained.                                                    *)

Recording == {"record", "insert", "add"}
CpusAt(S, s) == {c \in Cpu : pkt[c].at \in S /\ pkt[c].src = s}

\* Every CPU in record_drop has its drop in the totals, and only those that
\* are about to insert can still miss an entry another CPU has made.
Tally(s) ==
  /\ why[s] = 0 => due[s] = 0
  /\ why[s] <= due[s]
  /\ why[s] > 0 =>
       due[s] + Cardinality(CpusAt({"insert"}, s)) + 1 <= why[s] + Cardinality(Cpu)
  /\ why[s] + Cardinality(CpusAt(Recording, s)) <= stats["dropped"]

Tallied == \A s \in Src : Tally(s)

LEMMA CpuFinite == IsFiniteSet(Cpu) /\ Cardinality(Cpu) \in Nat
BY PipelineConstantsOK, FS_CardinalityType

LEMMA Fewer ==
  ASSUME NEW S, NEW T, T \subseteq Cpu, S \subseteq T
  PROVE  /\ Cardinality(S) \in Nat /\ Cardinality(T) \in Nat
         /\ Cardinality(S) <= Cardinality(T)
         /\ \A c \in T : c \notin S => Cardinality(S) + 1 <= Cardinality(T)
<1>1. IsFiniteSet(T) /\ IsFiniteSet(S)
  BY CpuFinite, FS_Subset
<1>2. Cardinality(S) \in Nat /\ Cardinality(T) \in Nat /\ Cardinality(S) <= Cardinality(T)
  BY <1>1, FS_Subset, FS_CardinalityType
<1>3. ASSUME NEW c \in T, c \notin S
      PROVE  Cardinality(S) + 1 <= Cardinality(T)
  <2>1. IsFiniteSet(S \cup {c}) /\ Cardinality(S \cup {c}) = Cardinality(S) + 1
    BY <1>1, <1>3, FS_AddElement
  <2>2. S \cup {c} \subseteq T
    BY <1>3
  <2> QED BY <1>1, <2>1, <2>2, FS_Subset
<1> QED BY <1>2, <1>3

LEMMA OneMore ==
  ASSUME NEW S, S \subseteq Cpu, NEW c \in Cpu, NEW T, T \subseteq S \cup {c}
  PROVE  Cardinality(S) \in Nat /\ Cardinality(T) \in Nat /\ Cardinality(T) <= Cardinality(S) + 1
<1>1. IsFiniteSet(S) /\ IsFiniteSet(S \cup {c})
  BY CpuFinite, FS_Subset, FS_AddElement
<1>2. Cardinality(S \cup {c}) <= Cardinality(S) + 1 /\ Cardinality(S \cup {c}) \in Nat
      /\ Cardinality(S) \in Nat
  <2>1. CASE c \in S
    <3>1. S \cup {c} = S
      BY <2>1
    <3>2. Cardinality(S \cup {c}) = Cardinality(S)
      BY <3>1
    <3>3. Cardinality(S) \in Nat
      BY <1>1, FS_CardinalityType
    <3> QED BY <3>2, <3>3
  <2>2. CASE c \notin S
    BY <1>1, <2>2, FS_AddElement, FS_CardinalityType
  <2> QED BY <2>1, <2>2
<1>3. Cardinality(T) \in Nat /\ Cardinality(T) <= Cardinality(S \cup {c})
  BY <1>1, FS_Subset, FS_CardinalityType
<1> QED BY <1>2, <1>3

\* A source whose entry a step leaves alone and that gains no CPU in record_drop.
LEMMA SourceQuiet ==
  ASSUME TypeOK, NEW s \in Src, Tally(s), why'[s] = why[s], due'[s] = due[s],
         stats'["dropped"] \in Nat, stats'["dropped"] >= stats["dropped"],
         CpusAt(Recording, s)' \subseteq CpusAt(Recording, s),
         why[s] = 0 \/ CpusAt({"insert"}, s)' \subseteq CpusAt({"insert"}, s)
  PROVE  Tally(s)'
<1>1. why[s] \in Nat /\ due[s] \in Nat /\ stats["dropped"] \in Nat
  BY DEF TypeOK
<1>2. CpusAt({"insert"}, s) \subseteq Cpu /\ CpusAt(Recording, s) \subseteq Cpu
  BY DEF CpusAt
<1>3. /\ Cardinality(CpusAt(Recording, s)') \in Nat
      /\ Cardinality(CpusAt(Recording, s)) \in Nat
      /\ Cardinality(CpusAt(Recording, s)') <= Cardinality(CpusAt(Recording, s))
  BY <1>2, Fewer
<1>4. why[s] > 0 => /\ Cardinality(CpusAt({"insert"}, s)') \in Nat
                    /\ Cardinality(CpusAt({"insert"}, s)) \in Nat
                    /\ Cardinality(CpusAt({"insert"}, s)') <= Cardinality(CpusAt({"insert"}, s))
  BY <1>1, <1>2, Fewer
<1> QED BY <1>1, <1>3, <1>4, CpuFinite DEF Tally

LEMMA QuietStep ==
  ASSUME TypeOK, Tallied, UNCHANGED <<why, due>>,
         stats'["dropped"] \in Nat, stats'["dropped"] >= stats["dropped"],
         \A c \in Cpu : pkt'[c].at \in Recording =>
           pkt'[c].at = pkt[c].at /\ pkt'[c].src = pkt[c].src
  PROVE  Tallied'
<1> SUFFICES ASSUME NEW s \in Src PROVE Tally(s)'
  BY DEF Tallied
<1>1. CpusAt({"insert"}, s)' \subseteq CpusAt({"insert"}, s)
      /\ CpusAt(Recording, s)' \subseteq CpusAt(Recording, s)
  BY DEF CpusAt, Recording
<1> QED BY <1>1, SourceQuiet DEF Tallied

\* The counts of record_drop, one source at a time.
LEMMA TallyStep == TypeOK /\ Tallied /\ [Next]_vars => Tallied'
<1> SUFFICES ASSUME TypeOK, Tallied, [Next]_vars PROVE Tallied'
  OBVIOUS
<1>0. /\ \A s \in Src : why[s] \in Nat /\ due[s] \in Nat
      /\ why \in [Src -> Nat] /\ due \in [Src -> Nat]
      /\ stats \in [{"allowed", "dropped"} -> Nat]
      /\ DOMAIN pkt = Cpu
      /\ stats["dropped"] \in Nat /\ stats["dropped"] >= stats["dropped"]
      /\ stats["dropped"] + 1 \in Nat /\ stats["dropped"] + 1 >= stats["dropped"]
  BY DEF TypeOK
<1>1. \A S, s : CpusAt(S, s) \subseteq Cpu /\ CpusAt(S, s)' \subseteq Cpu
  BY DEF CpusAt
<1>k. \A k \in Kind : k \notin Recording
  BY PipelineConstantsOK DEF Recording
<1>n. NoPkt.at \notin Recording
  BY DEF NoPkt, Recording
<1>g. ASSUME NEW c \in Cpu, NEW stage, Goto(c, stage), pkt[c] \in Packet
      PROVE  /\ \A d \in Cpu : d # c => pkt'[d] = pkt[d]
             /\ pkt'[c].at = stage /\ pkt'[c].src = pkt[c].src
  BY <1>0, <1>g DEF Goto, Packet
<1>d. ASSUME NEW c \in Cpu, Done(c)
      PROVE  /\ \A d \in Cpu : d # c => pkt'[d] = pkt[d]
             /\ pkt'[c] = NoPkt
  BY <1>0, <1>d DEF Done
<1>2. ASSUME NEW c \in Cpu, CountDrop(c) PROVE Tallied'
  <2> SUFFICES ASSUME NEW s \in Src PROVE Tally(s)'
    BY DEF Tallied
  <2>1. stats'["dropped"] = stats["dropped"] + 1 /\ UNCHANGED <<why, due>>
    BY <1>2, <1>0 DEF CountDrop, Count
  <2>2. /\ \A d \in Cpu : d # c => pkt'[d] = pkt[d]
        /\ pkt'[c].at = "record"
    BY <1>2, <1>g, UnderWay DEF CountDrop, At
  <2>3. CpusAt({"insert"}, s)' \subseteq CpusAt({"insert"}, s)
    BY <2>2 DEF CpusAt
  <2>4. CpusAt(Recording, s)' \subseteq CpusAt(Recording, s) \cup {c}
    BY <2>2 DEF CpusAt
  <2>5. /\ Cardinality(CpusAt(Recording, s)) \in Nat
        /\ Cardinality(CpusAt(Recording, s)') \in Nat
        /\ Cardinality(CpusAt(Recording, s)') <= Cardinality(CpusAt(Recording, s)) + 1
    BY <2>4, <1>1, OneMore
  <2>6. /\ Cardinality(CpusAt({"insert"}, s)) \in Nat
        /\ Cardinality(CpusAt({"insert"}, s)') \in Nat
        /\ Cardinality(CpusAt({"insert"}, s)') <= Cardinality(CpusAt({"insert"}, s))
    BY <2>3, <1>1, Fewer
  <2> QED BY <1>0, <2>1, <2>5, <2>6, CpuFinite DEF Tallied, Tally
<1>3. ASSUME NEW c \in Cpu, RecordLookup(c) PROVE Tallied'
  <2> SUFFICES ASSUME NEW s \in Src PROVE Tally(s)'
    BY DEF Tallied
  <2>1. UNCHANGED <<why, due, stats>>
    BY <1>3 DEF RecordLookup, kernel
  <2>2. /\ \A d \in Cpu : d # c => pkt'[d] = pkt[d]
        /\ pkt'[c].at = IF why[pkt[c].src] > 0 THEN "add" ELSE "insert"
        /\ pkt'[c].src = pkt[c].src /\ pkt[c].src \in Src /\ pkt[c].at = "record"
    BY <1>3, <1>g, UnderWay DEF RecordLookup, At
  <2>3. CpusAt(Recording, s)' \subseteq CpusAt(Recording, s)
    BY <2>2 DEF CpusAt, Recording
  <2>4. CASE why[pkt[c].src] > 0 \/ pkt[c].src # s
    <3>1. CpusAt({"insert"}, s)' \subseteq CpusAt({"insert"}, s)
      BY <2>2, <2>4 DEF CpusAt
    <3> QED BY <1>0, <2>1, <2>3, <3>1, SourceQuiet DEF Tallied
  <2>5. CASE ~(why[pkt[c].src] > 0) /\ pkt[c].src = s
    <3>1. why[s] = 0
      BY <1>0, <2>5
    <3> QED BY <1>0, <2>1, <2>3, <3>1, SourceQuiet DEF Tallied
  <2> QED BY <2>4, <2>5
<1>4. ASSUME NEW c \in Cpu, RecordAdd(c) PROVE Tallied'
  <2> SUFFICES ASSUME NEW s \in Src PROVE Tally(s)'
    BY DEF Tallied
  <2>1. pkt[c].at = "add" /\ pkt[c].src \in Src /\ UNCHANGED stats
    BY <1>4, UnderWay DEF RecordAdd, At
  <2>2. /\ \A d \in Cpu : d # c => pkt'[d] = pkt[d]
        /\ pkt'[c] = NoPkt
    BY <1>4, <1>d DEF RecordAdd
  <2>3. CpusAt({"insert"}, s)' \subseteq CpusAt({"insert"}, s)
        /\ CpusAt(Recording, s)' \subseteq CpusAt(Recording, s)
        /\ c \notin CpusAt(Recording, s)'
    BY <2>2, <1>n DEF CpusAt, NoPkt
  <2>4. CASE pkt[c].src = s
    <3>1. c \in CpusAt(Recording, s)
      BY <2>1, <2>4 DEF CpusAt, Recording
    <3>2. /\ Cardinality(CpusAt(Recording, s)) \in Nat
          /\ Cardinality(CpusAt(Recording, s)') \in Nat
          /\ Cardinality(CpusAt(Recording, s)') + 1 <= Cardinality(CpusAt(Recording, s))
      BY <2>3, <3>1, <1>1, Fewer
    <3>3. /\ Cardinality(CpusAt({"insert"}, s)) \in Nat
          /\ Cardinality(CpusAt({"insert"}, s)') \in Nat
          /\ Cardinality(CpusAt({"insert"}, s)') <= Cardinality(CpusAt({"insert"}, s))
      BY <2>3, <1>1, Fewer
    <3>4. why'[s] = why[s] + 1 /\ due'[s] = due[s] + 1
      BY <1>4, <1>0, <2>4 DEF RecordAdd
    <3>5. why[s] = 0 \/ why[s] > 0
      BY <1>0
    <3>6. why[s] = 0 => Cardinality(CpusAt({"insert"}, s)) + 1 <= Cardinality(Cpu)
      <4>1. c \notin CpusAt({"insert"}, s)
        BY <2>1 DEF CpusAt
      <4> QED BY <4>1, <1>1, Fewer
    <3> QED BY <1>0, <2>1, <3>2, <3>3, <3>4, <3>5, <3>6, CpuFinite DEF Tallied, Tally
  <2>5. CASE pkt[c].src # s
    <3>1. why'[s] = why[s] /\ due'[s] = due[s]
      BY <1>4, <1>0, <2>5 DEF RecordAdd
    <3> QED BY <1>0, <2>1, <2>3, <3>1, SourceQuiet DEF Tallied
  <2> QED BY <2>4, <2>5
<1>5. ASSUME NEW c \in Cpu, RecordInsert(c) PROVE Tallied'
  <2> SUFFICES ASSUME NEW s \in Src PROVE Tally(s)'
    BY DEF Tallied
  <2> DEFINE room == Cardinality({t \in Src : why[t] > 0}) < MaxReasons
             x == pkt[c].src
  <2>1. pkt[c].at = "insert" /\ x \in Src /\ UNCHANGED stats
    BY <1>5, UnderWay DEF RecordInsert, At
  <2>2. /\ \A d \in Cpu : d # c => pkt'[d] = pkt[d]
        /\ pkt'[c] = NoPkt
    BY <1>5, <1>d DEF RecordInsert
  <2>3. CpusAt({"insert"}, s)' \subseteq CpusAt({"insert"}, s)
        /\ CpusAt(Recording, s)' \subseteq CpusAt(Recording, s)
        /\ c \notin CpusAt(Recording, s)' /\ c \notin CpusAt({"insert"}, s)'
    BY <2>2, <1>n DEF CpusAt, NoPkt
  <2>4. /\ why' = [why EXCEPT ![x] = Inserted(why[x], room)]
        /\ due' = [due EXCEPT ![x] = IF why'[x] > 0 THEN due[x] + 1 ELSE 0]
    BY <1>5 DEF RecordInsert
  <2>5. CASE x # s
    <3>1. why'[s] = why[s] /\ due'[s] = due[s]
      BY <2>4, <1>0, <2>5
    <3> QED BY <1>0, <2>1, <2>3, <3>1, SourceQuiet DEF Tallied
  <2>6. CASE x = s
    <3>1. why'[s] = Inserted(why[s], room) /\ due'[s] = IF why'[s] > 0 THEN due[s] + 1 ELSE 0
      BY <2>4, <1>0, <2>6
    <3>2. c \in CpusAt({"insert"}, s) /\ c \in CpusAt(Recording, s)
      BY <2>1, <2>6 DEF CpusAt, Recording
    <3>3. /\ Cardinality(CpusAt(Recording, s)) \in Nat
          /\ Cardinality(CpusAt(Recording, s)') \in Nat
          /\ Cardinality(CpusAt(Recording, s)') + 1 <= Cardinality(CpusAt(Recording, s))
      BY <2>3, <3>2, <1>1, Fewer
    <3>4. /\ Cardinality(CpusAt({"insert"}, s)) \in Nat
          /\ Cardinality(CpusAt({"insert"}, s)') \in Nat
          /\ Cardinality(CpusAt({"insert"}, s)') + 1 <= Cardinality(CpusAt({"insert"}, s))
      BY <2>3, <3>2, <1>1, Fewer
    <3>5. Cardinality(CpusAt({"insert"}, s)') + 1 <= Cardinality(Cpu)
      BY <2>3, <1>1, Fewer
    <3>6. CASE why[s] > 0
      <4>1. why'[s] = why[s] /\ due'[s] = due[s] + 1
        BY <3>1, <3>6, <1>0 DEF Inserted
      <4> QED BY <1>0, <2>1, <3>3, <3>4, <3>6, <4>1, CpuFinite DEF Tallied, Tally
    <3>7. CASE why[s] = 0 /\ room
      <4>1. why'[s] = 1 /\ due'[s] = due[s] + 1
        BY <3>1, <3>7, <1>0 DEF Inserted
      <4>2. due[s] = 0
        BY <3>7 DEF Tallied, Tally
      <4> QED BY <1>0, <2>1, <3>3, <3>4, <3>5, <3>7, <4>1, <4>2, CpuFinite DEF Tallied, Tally
    <3>8. CASE why[s] = 0 /\ ~room
      <4>1. why'[s] = 0
        BY <3>1, <3>8 DEF Inserted
      <4>2. due'[s] = 0
        BY <3>1, <4>1
      <4> QED BY <1>0, <2>1, <3>3, <3>8, <4>1, <4>2, CpuFinite DEF Tallied, Tally
    <3> QED BY <3>6, <3>7, <3>8, <1>0
  <2> QED BY <2>5, <2>6
<1>6. CASE Forget
  <2> SUFFICES ASSUME NEW s \in Src PROVE Tally(s)'
    BY DEF Tallied
  <2>1. UNCHANGED stats /\ busy \in Src
    BY <1>6 DEF Forget, TypeOK
  <2>2. \A c \in Cpu : pkt'[c] = pkt[c] \/ pkt'[c] = NoPkt
    BY <1>6 DEF Forget
  <2>3. CpusAt({"insert"}, s)' \subseteq CpusAt({"insert"}, s)
        /\ CpusAt(Recording, s)' \subseteq CpusAt(Recording, s)
    BY <2>2, <1>n DEF CpusAt, NoPkt
  <2>4. CASE busy # s
    <3>1. why'[s] = why[s] /\ due'[s] = due[s]
      BY <1>6, <1>0, <2>4 DEF Forget
    <3> QED BY <1>0, <2>1, <2>3, <3>1, SourceQuiet DEF Tallied
  <2>5. CASE busy = s
    <3>1. why'[s] = 0 /\ due'[s] = 0
      BY <1>6, <1>0, <2>5 DEF Forget
    <3>2. /\ Cardinality(CpusAt(Recording, s)) \in Nat
          /\ Cardinality(CpusAt(Recording, s)') \in Nat
          /\ Cardinality(CpusAt(Recording, s)') <= Cardinality(CpusAt(Recording, s))
      BY <2>3, <1>1, Fewer
    <3> QED BY <1>0, <2>1, <3>1, <3>2, CpuFinite DEF Tallied, Tally
  <2> QED BY <2>4, <2>5
<1>7. ASSUME NEW c \in Cpu, Program(c), ~CountDrop(c), ~RecordLookup(c),
             ~RecordAdd(c), ~RecordInsert(c)
      PROVE  Tallied'
  <2>1. UNCHANGED <<why, due>>
    BY <1>7 DEF Program, Receive, LookupV6, LookupBlocklist, LookupGeo, Unlimited,
                Limited, Allow, kernel
  <2>2. stats'["dropped"] \in {stats["dropped"], stats["dropped"] + 1}
    BY <1>0, <1>7 DEF Program, Receive, LookupV6, LookupBlocklist, LookupGeo, Unlimited,
                Limited, Allow, kernel, Count
  <2>3. /\ \A d \in Cpu : d # c => pkt'[d] = pkt[d]
        /\ pkt'[c].at \notin Recording \/ pkt'[c] = pkt[c]
    <3>1. CASE \E s \in Src, len \in PacketLen : Receive(c, s, len)
      BY <1>0, <3>1 DEF Receive, Recording
    <3>2. CASE \E stage : Goto(c, stage) /\ stage \notin Recording /\ pkt[c].at # "idle"
      BY <1>g, <3>2, UnderWay
    <3>3. CASE Done(c)
      BY <1>d, <1>n, <3>3
    <3>4. CASE UNCHANGED pkt
      BY <3>4
    <3>5. CASE LookupV6(c)
      BY <3>2, <3>3, <3>5 DEF LookupV6, At, Recording
    <3>6. CASE LookupBlocklist(c)
      BY <3>2, <3>6 DEF LookupBlocklist, At, Recording
    <3>7. CASE LookupGeo(c)
      BY <3>2, <3>3, <3>7 DEF LookupGeo, At, Recording
    <3>8. ASSUME NEW k \in Kind, Unlimited(c, k)
          PROVE  \E stage : Goto(c, stage) /\ stage \notin Recording /\ pkt[c].at # "idle"
      BY <3>8, KindIs DEF Unlimited, At, Recording, After
    <3>9. ASSUME NEW k \in Kind, Limited(c, k)
          PROVE  \/ UNCHANGED pkt
                 \/ \E stage : Goto(c, stage) /\ stage \notin Recording /\ pkt[c].at # "idle"
      BY <3>9, KindIs DEF Limited, At, Recording, After
    <3>10. CASE Allow(c)
      BY <3>3, <3>10 DEF Allow
    <3> QED BY <1>7, <3>1, <3>2, <3>4, <3>5, <3>6, <3>7, <3>8, <3>9, <3>10 DEF Program
  <2> QED BY <1>0, <2>1, <2>2, <2>3, QuietStep
<1>8. CASE Daemon /\ ~Forget
  <2>1. UNCHANGED <<why, due, stats>>
    BY <1>8 DEF Daemon, Block, Unblock, BlockCIDR, UnblockCIDR, kernel
  <2>2. \A c \in Cpu : pkt'[c].at = pkt[c].at /\ pkt'[c].src = pkt[c].src
    <3>1. ASSUME NEW cause, NEW A, NEW K, Release(cause, A, K)
          PROVE  \A c \in Cpu : pkt'[c].at = pkt[c].at /\ pkt'[c].src = pkt[c].src
      BY <3>1, <1>0, ReleaseIdle, ReleaseKeeps DEF TypeOK, PacketsOK, Packet
    <3>2. \/ UNCHANGED pkt
          \/ \E cause, A, K : Release(cause, A, K)
      BY <1>8 DEF Daemon, Block, Unblock, BlockCIDR, UnblockCIDR
    <3> QED BY <3>1, <3>2
  <2> QED BY <1>0, <2>1, <2>2, QuietStep
<1>9. CASE UNCHANGED <<kernel, pkt, due>>
  <2>1. UNCHANGED <<why, due, stats, pkt>>
    BY <1>9 DEF kernel
  <2> QED BY <1>0, <2>1, QuietStep
<1> QED BY <1>2, <1>3, <1>4, <1>5, <1>6, <1>7, <1>8, <1>9 DEF Next, vars

\* drop_reasons never counts a drop the totals lack, and a lost first insert
\* costs at most one sample for each other CPU.
THEOREM DropsAreExplained == Spec => []DropsExplained
<1>1. Init => Tallied
  <2> SUFFICES ASSUME Init, NEW s \in Src PROVE Tally(s)
    BY DEF Tallied
  <2>1. why[s] = 0 /\ due[s] = 0 /\ stats["dropped"] = 0
    BY DEF Init
  <2>2. CpusAt(Recording, s) = {}
    BY DEF Init, CpusAt, Recording, NoPkt
  <2>3. Cardinality(CpusAt(Recording, s)) = 0
    BY <2>2, FS_EmptySet
  <2> QED BY <2>1, <2>3 DEF Tally
<1>2. TypeOK /\ Tallied /\ [Next]_vars => Tallied'
  BY TallyStep
<1>3. TypeOK /\ Tallied => DropsExplained
  <2> SUFFICES ASSUME TypeOK, Tallied, NEW s \in Src
      PROVE  /\ why[s] <= due[s]
             /\ why[s] > 0 => due[s] < why[s] + Cardinality(Cpu)
             /\ why[s] <= stats["dropped"]
    BY DEF DropsExplained
  <2>1. why[s] \in Nat /\ due[s] \in Nat /\ stats["dropped"] \in Nat
    BY DEF TypeOK
  <2>2. CpusAt({"insert"}, s) \subseteq Cpu /\ CpusAt(Recording, s) \subseteq Cpu
    BY DEF CpusAt
  <2>3. Cardinality(CpusAt({"insert"}, s)) \in Nat /\ Cardinality(CpusAt(Recording, s)) \in Nat
    BY <2>2, Fewer
  <2> QED BY <2>1, <2>3, CpuFinite DEF Tallied, Tally
<1> QED BY <1>1, <1>2, <1>3, TypeCorrect, PTL DEF Spec
=============================================================================
